-------------------------- MODULE GrepClient_proofs --------------------------
(* Text search in the browser, for any number of overlapping queries, hits   *)
(* and requests, any page size and any set of lines that cannot be read.     *)
EXTENDS GrepClient, SequenceTheorems, TLAPS

LinesRead == [kind : {"hit", "blank", "Resume:", "Errors:"}, n : 0 .. Hits]

QueryStates ==
  [at : {"idle", "streaming", "resolved", "rejected", "pending"},
   after : 0 .. Hits, existing : BOOLEAN, response : Seq(LinesRead),
   got : SUBSET {"blank", "Resume:", "Errors:"}, errored : BOOLEAN,
   more : BOOLEAN, flawed : SUBSET (0 .. Hits)]

TypeInv == TypeOK /\ query \in [Queries -> QueryStates]

(* Pages begin at multiples of their size, and a whole one fits before the   *)
(* next.                                                                     *)
IsPage(p) == p \in 0 .. Hits /\ \E i \in Nat : p = i * PageSize

PagesInv ==
  /\ cache.resume # Undefined => IsPage(cache.resume)
  /\ \A p \in flawed : IsPage(p)
  /\ \A q \in Queries : IsPage(query[q].after)

(* The response of a query is the last part of a response of the server; of  *)
(* what came before it, the marks are in got, and the hits were reported and *)
(* are in the array.                                                         *)
Received(q, all, k) ==
  LET after == query[q].after IN
  /\ Len(query[q].response) = Len(all) - k
  /\ \A i \in 1 .. Len(all) - k : query[q].response[i] = all[k + i]
  /\ query[q].got = {all[i].kind : i \in 1 .. k} \ {"hit"}
  /\ \A i \in 1 .. k :
       i <= PageEnd(after) - after =>
         /\ after + i \in ToSet(reported[q])
         /\ ~ emptied => after + i \in ToSet(results)

InResponse(q) ==
  \E errors \in BOOLEAN :
    \E k \in 0 .. Len(Response(query[q].after, errors)) :
      Received(q, Response(query[q].after, errors), k)

StreamInv == \A q \in Queries : query[q].at = "streaming" => InResponse(q)

(* What precedes the page of a query, or the next page, is in the array.     *)
LoadedInv ==
  ~ emptied =>
    /\ cache.resume # Undefined => 1 .. cache.resume \subseteq ToSet(results)
    /\ \A q \in Queries :
         query[q].at = "streaming" =>
            /\ 1 .. query[q].after \subseteq ToSet(reported[q])
            /\ 1 .. query[q].after \subseteq ToSet(results)

(* The errors of the pages before the next one are known to the entry, and   *)
(* those before the page of a query to the query.                            *)
FlawedBefore(p) == \E page \in flawed : page < p

ErrorsInv ==
  ~ late =>
    /\ cache.resume # Undefined /\ FlawedBefore(cache.resume) => cache.errors
    /\ \A q \in Queries :
         query[q].at = "streaming" =>
            /\ FlawedBefore(query[q].after) => query[q].existing
            /\ query[q].flawed # {} => query[q].existing

IInv ==
  /\ TypeInv /\ PagesInv /\ StreamInv /\ LoadedInv /\ ErrorsInv
  /\ NothingLost /\ ErrorsStay

-----------------------------------------------------------------------------
(* Pages.                                                                    *)

LEMMA Sizes == Hits \in Nat /\ PageSize \in Nat /\ PageSize > 0 /\ Undefined = Hits + 1
<1>1. Hits \in Nat /\ PageSize \in Nat \ {0}
  BY SizesType
<1>2. QED
  BY <1>1 DEF Undefined

LEMMA PageEndFacts ==
  ASSUME NEW p \in 0 .. Hits
  PROVE  /\ PageEnd(p) \in p .. Hits /\ PageEnd(p) \in 0 .. Hits
         /\ PageEnd(p) - p \in Nat
         /\ IsFull(p) => PageEnd(p) = p + PageSize
         /\ ~ IsFull(p) => p + PageSize > Hits
<1>1. Hits \in Nat /\ PageSize \in Nat
  BY Sizes
<1>2. p \in Nat /\ p <= Hits
  BY <1>1
<1>3. CASE p + PageSize < Hits
  <2>1. PageEnd(p) = p + PageSize
    BY <1>3 DEF PageEnd
  <2>2. QED
    BY <1>1, <1>2, <1>3, <2>1 DEF IsFull
<1>4. CASE ~ (p + PageSize < Hits)
  <2>1. PageEnd(p) = Hits
    BY <1>4 DEF PageEnd
  <2>2. QED
    BY <1>1, <1>2, <1>4, <2>1 DEF IsFull
<1>5. QED
  BY <1>3, <1>4

LEMMA FirstPage == IsPage(0)
<1>1. Hits \in Nat /\ PageSize \in Nat
  BY Sizes
<1>2. 0 = 0 * PageSize /\ 0 \in 0 .. Hits /\ 0 \in Nat
  BY <1>1
<1>3. QED
  BY <1>2 DEF IsPage

LEMMA NextPage ==
  ASSUME NEW p, IsPage(p), IsFull(p)
  PROVE  IsPage(PageEnd(p)) /\ PageEnd(p) = p + PageSize
<1>1. PICK i \in Nat : p = i * PageSize
  BY DEF IsPage
<1>2. PageEnd(p) \in 0 .. Hits /\ PageEnd(p) = p + PageSize
  BY PageEndFacts DEF IsPage
<1>3. PageSize \in Nat
  BY Sizes
<1>4. p + PageSize = (i + 1) * PageSize /\ i + 1 \in Nat
  BY <1>1, <1>3
<1>5. QED
  BY <1>2, <1>4 DEF IsPage

LEMMA PagesApart ==
  ASSUME NEW p, NEW r, IsPage(p), IsPage(r), p < r
  PROVE  p + PageSize <= r
<1>1. PICK i \in Nat : p = i * PageSize
  BY DEF IsPage
<1>2. PICK j \in Nat : r = j * PageSize
  BY DEF IsPage
<1>3. PageSize \in Nat /\ PageSize > 0
  BY Sizes
<1>4. i * PageSize < j * PageSize
  BY <1>1, <1>2
<1>5. i < j
  <2>1. ASSUME j <= i PROVE j * PageSize <= i * PageSize
    BY <1>3, <2>1
  <2>2. i * PageSize \in Nat /\ j * PageSize \in Nat
    BY <1>3
  <2>3. QED
    BY <1>4, <2>1, <2>2
<1>6. (i + 1) * PageSize <= j * PageSize
  <2>1. i + 1 <= j
    BY <1>5
  <2>2. QED
    BY <1>3, <2>1
<1>7. (i + 1) * PageSize = i * PageSize + PageSize
  BY <1>3
<1>8. QED
  BY <1>1, <1>2, <1>6, <1>7

-----------------------------------------------------------------------------
(* Responses.                                                                *)

IsResponse(all, after) ==
  LET lines == PageEnd(after) - after IN
  /\ all \in Seq(LinesRead)
  /\ Len(all) > lines
  /\ \A i \in 1 .. lines : all[i] = Hit(after + i)
  /\ all[lines + 1] = Mark("blank")
  /\ \A i \in lines + 2 .. Len(all) : all[i] \in {Mark("Resume:"), Mark("Errors:")}
  /\ \A i \in 1 .. Len(all) : all[i] = Mark("Resume:") => IsFull(after)
  /\ IsFull(after) => Len(all) > lines + 1 /\ all[lines + 2] = Mark("Resume:")

LEMMA MarkFacts ==
  /\ \A tag \in {"blank", "Resume:", "Errors:"} :
       Mark(tag) \in LinesRead /\ Mark(tag).kind = tag /\ Mark(tag).kind # "hit"
  /\ \A n \in 1 .. Hits : Hit(n) \in LinesRead /\ Hit(n).kind = "hit" /\ Hit(n).n = n
  /\ Mark("Resume:") # Mark("Errors:") /\ Mark("blank") # Mark("Resume:")
  /\ Mark("blank") # Mark("Errors:")
<1>1. \A n \in 1 .. Hits : n \in 0 .. Hits
  BY Sizes
<1>2. 0 \in 0 .. Hits
  BY Sizes
<1>3. QED
  BY <1>1, <1>2 DEF Mark, Hit, LinesRead

LEMMA FootersShape ==
  ASSUME NEW after, NEW errors \in BOOLEAN
  PROVE  /\ Footers(after, errors) \in Seq(LinesRead)
         /\ \A i \in 1 .. Len(Footers(after, errors)) :
              Footers(after, errors)[i] \in {Mark("Resume:"), Mark("Errors:")}
         /\ \A i \in 1 .. Len(Footers(after, errors)) :
              Footers(after, errors)[i] = Mark("Resume:") => IsFull(after)
         /\ IsFull(after) => /\ Len(Footers(after, errors)) > 0
                             /\ Footers(after, errors)[1] = Mark("Resume:")
<1>1. /\ Mark("Resume:") \in LinesRead /\ Mark("Errors:") \in LinesRead
      /\ Mark("Resume:") # Mark("Errors:")
  BY MarkFacts
<1> DEFINE r == Mark("Resume:")
           e == Mark("Errors:")
<1> HIDE DEF r, e
<1>2. r \in LinesRead /\ e \in LinesRead /\ r # e
  BY <1>1 DEF r, e
<1>3. Footers(after, errors) = (IF IsFull(after) THEN <<r>> ELSE <<>>)
                                 \o (IF errors THEN <<e>> ELSE <<>>)
  BY DEF Footers, r, e
<1>4. CASE IsFull(after) /\ errors
  <2>1. Footers(after, errors) = <<r>> \o <<e>>
    BY <1>3, <1>4
  <2>2. /\ <<r>> \in Seq(LinesRead) /\ <<e>> \in Seq(LinesRead)
        /\ Len(<<r>>) = 1 /\ Len(<<e>>) = 1 /\ <<r>>[1] = r /\ <<e>>[1] = e
    BY <1>2
  <2>3. /\ <<r>> \o <<e>> \in Seq(LinesRead)
        /\ Len(<<r>> \o <<e>>) = 2
        /\ \A i \in 1 .. 2 : (<<r>> \o <<e>>)[i] = IF i <= 1 THEN <<r>>[i] ELSE <<e>>[i - 1]
    BY <2>2, ConcatProperties
  <2>4. (<<r>> \o <<e>>)[1] = r /\ (<<r>> \o <<e>>)[2] = e
    BY <2>2, <2>3
  <2>5. \A i \in 1 .. 2 : i = 1 \/ i = 2
    OBVIOUS
  <2>6. /\ Len(Footers(after, errors)) = 2 /\ Footers(after, errors) \in Seq(LinesRead)
        /\ Footers(after, errors)[1] = r /\ Footers(after, errors)[2] = e
    BY <2>1, <2>3, <2>4
  <2>7. /\ Footers(after, errors)[1] = Mark("Resume:")
        /\ Footers(after, errors)[2] = Mark("Errors:")
    BY <2>6 DEF r, e
  <2>8. \A i \in 1 .. Len(Footers(after, errors)) : i = 1 \/ i = 2
    BY <2>5, <2>6
  <2>9. \A i \in 1 .. Len(Footers(after, errors)) :
          Footers(after, errors)[i] \in {Mark("Resume:"), Mark("Errors:")}
    BY <2>7, <2>8
  <2>10. Len(Footers(after, errors)) > 0
    BY <2>6
  <2>11. Footers(after, errors) \in Seq(LinesRead)
    BY <2>6
  <2>12. IsFull(after)
    BY <1>4
  <2>13. QED
    BY ONLY <2>7, <2>9, <2>10, <2>11, <2>12
<1>5. CASE IsFull(after) /\ ~ errors
  <2>1. Footers(after, errors) = <<r>> \o <<>>
    BY <1>3, <1>5
  <2>2. <<r>> \o <<>> = <<r>>
    BY <1>2
  <2>3. <<r>> \in Seq(LinesRead) /\ Len(<<r>>) = 1 /\ <<r>>[1] = r
    BY <1>2
  <2>4. \A i \in 1 .. 1 : i = 1
    OBVIOUS
  <2>5. QED
    BY <1>5, <2>1, <2>2, <2>3, <2>4 DEF r, e
<1>6. CASE ~ IsFull(after) /\ errors
  <2>1. Footers(after, errors) = <<>> \o <<e>>
    BY <1>3, <1>6
  <2>2. <<>> \o <<e>> = <<e>>
    BY <1>2
  <2>3. <<e>> \in Seq(LinesRead) /\ Len(<<e>>) = 1 /\ <<e>>[1] = e
    BY <1>2
  <2>4. \A i \in 1 .. 1 : i = 1
    OBVIOUS
  <2>5. QED
    BY <1>2, <1>6, <2>1, <2>2, <2>3, <2>4 DEF r, e
<1>7. CASE ~ IsFull(after) /\ ~ errors
  <2>1. Footers(after, errors) = <<>> \o <<>>
    BY <1>3, <1>7
  <2>2. <<>> \o <<>> = <<>>
    OBVIOUS
  <2>3. <<>> \in Seq(LinesRead) /\ Len(<<>>) = 0
    BY EmptySeq
  <2>4. 1 .. 0 = {}
    OBVIOUS
  <2>5. QED
    BY <1>7, <2>1, <2>2, <2>3, <2>4
<1>8. QED
  BY <1>4, <1>5, <1>6, <1>7

LEMMA ResponseShape ==
  ASSUME NEW after \in 0 .. Hits, NEW errors \in BOOLEAN
  PROVE  IsResponse(Response(after, errors), after)
<1> DEFINE m == PageEnd(after) - after
           L == Lines(after)
           B == <<Mark("blank")>>
           F == Footers(after, errors)
           R == Response(after, errors)
<1>1. m \in Nat /\ after \in Nat /\ after + m <= Hits
  BY PageEndFacts, Sizes
<1>2. L \in Seq(LinesRead) /\ Len(L) = m /\ \A i \in 1 .. m : L[i] = Hit(after + i)
  <2>1. \A i \in 1 .. m : Hit(after + i) \in LinesRead
    <3> TAKE i \in 1 .. m
    <3>1. after + i \in 1 .. Hits
      BY <1>1, Sizes
    <3>2. QED
      BY <3>1, MarkFacts
  <2>2. L = [i \in 1 .. m |-> Hit(after + i)]
    BY DEF Lines
  <2>3. QED
    BY <1>1, <2>1, <2>2
<1>3. B \in Seq(LinesRead) /\ Len(B) = 1 /\ B[1] = Mark("blank")
  BY MarkFacts
<1>4. F \in Seq(LinesRead) /\ Len(F) \in Nat
  BY FootersShape, LenProperties
<1>5. /\ L \o B \in Seq(LinesRead) /\ Len(L \o B) = m + 1
      /\ \A i \in 1 .. m : (L \o B)[i] = Hit(after + i)
      /\ (L \o B)[m + 1] = Mark("blank")
  <2>1. /\ L \o B \in Seq(LinesRead) /\ Len(L \o B) = Len(L) + Len(B)
        /\ \A i \in 1 .. Len(L) + Len(B) :
             (L \o B)[i] = IF i <= Len(L) THEN L[i] ELSE B[i - Len(L)]
    BY <1>2, <1>3, ConcatProperties
  <2>2. \A i \in 1 .. m : i \in 1 .. m + 1 /\ i <= m
    BY <1>1
  <2>3. m + 1 \in 1 .. m + 1 /\ ~ (m + 1 <= m) /\ (m + 1) - m = 1
    BY <1>1
  <2>4. QED
    BY <1>2, <1>3, <2>1, <2>2, <2>3
<1>6. /\ R \in Seq(LinesRead) /\ Len(R) = (m + 1) + Len(F)
      /\ \A i \in 1 .. (m + 1) + Len(F) :
           R[i] = IF i <= m + 1 THEN (L \o B)[i] ELSE F[i - (m + 1)]
  <2>1. R = (L \o B) \o F
    BY DEF Response
  <2>2. /\ (L \o B) \o F \in Seq(LinesRead)
        /\ Len((L \o B) \o F) = Len(L \o B) + Len(F)
        /\ \A i \in 1 .. Len(L \o B) + Len(F) :
             ((L \o B) \o F)[i] = IF i <= Len(L \o B) THEN (L \o B)[i]
                                  ELSE F[i - Len(L \o B)]
    BY <1>4, <1>5, ConcatProperties
  <2> HIDE DEF L, B, F, R, m
  <2>3. QED
    BY <1>5, <2>1, <2>2
<1>7. /\ \A i \in 1 .. m : i \in 1 .. (m + 1) + Len(F) /\ i <= m + 1
      /\ m + 1 \in 1 .. (m + 1) + Len(F) /\ m + 1 <= m + 1
      /\ (m + 1) + Len(F) > m
  BY <1>1, <1>4
<1>8. /\ \A i \in 1 .. m : R[i] = Hit(after + i)
      /\ R[m + 1] = Mark("blank")
  BY <1>5, <1>6, <1>7
<1>9. \A i \in m + 2 .. Len(R) : R[i] = F[i - (m + 1)] /\ i - (m + 1) \in 1 .. Len(F)
  BY <1>1, <1>4, <1>6
<1>10. \A i \in m + 2 .. Len(R) : /\ R[i] \in {Mark("Resume:"), Mark("Errors:")}
                                  /\ R[i] = Mark("Resume:") => IsFull(after)
  BY <1>9, FootersShape
<1>11. \A i \in 1 .. Len(R) : R[i] = Mark("Resume:") => IsFull(after)
  <2> TAKE i \in 1 .. Len(R)
  <2>1. CASE i \in 1 .. m
    <3>1. after + i \in 1 .. Hits
      BY <1>1, <2>1, Sizes
    <3>2. R[i].kind = "hit"
      BY <1>8, <2>1, <3>1, MarkFacts
    <3>3. QED
      BY <3>2, MarkFacts
  <2>2. CASE i = m + 1
    BY <1>8, <2>2, MarkFacts
  <2>3. CASE i \in m + 2 .. Len(R)
    BY <1>10, <2>3
  <2>4. i \in 1 .. m \/ i = m + 1 \/ i \in m + 2 .. Len(R)
    BY <1>1, <1>4, <1>6
  <2>5. QED
    BY <2>1, <2>2, <2>3, <2>4
<1>12. IsFull(after) => Len(R) > m + 1 /\ R[m + 2] = Mark("Resume:")
  <2> SUFFICES ASSUME IsFull(after) PROVE Len(R) > m + 1 /\ R[m + 2] = Mark("Resume:")
    OBVIOUS
  <2>1. Len(F) > 0 /\ F[1] = Mark("Resume:")
    BY FootersShape
  <2>2. Len(R) > m + 1 /\ m + 2 \in m + 2 .. Len(R) /\ (m + 2) - (m + 1) = 1
    <3>1. m \in Nat /\ Len(F) \in Nat /\ Len(F) > 0 /\ Len(R) = (m + 1) + Len(F)
      BY <1>1, <1>4, <1>6, <2>1
    <3> HIDE DEF m, F, R
    <3>2. QED
      BY ONLY <3>1
  <2>3. QED
    BY <1>9, <2>1, <2>2
<1>13. Len(R) > m
  BY <1>6, <1>7
<1>14. QED
  BY <1>6, <1>8, <1>10, <1>11, <1>12, <1>13 DEF IsResponse

(* What the footers that were read say of the lines before them.             *)
MarksOf(all, k) == {all[i].kind : i \in 1 .. k} \ {"hit"}

LEMMA MarksFacts ==
  ASSUME NEW after \in 0 .. Hits, NEW all, IsResponse(all, after),
         NEW k \in 0 .. Len(all)
  PROVE  /\ MarksOf(all, k) \subseteq {"blank", "Resume:", "Errors:"}
         /\ "blank" \in MarksOf(all, k) => k > PageEnd(after) - after
         /\ "Resume:" \in MarksOf(all, k) => IsFull(after)
         /\ "Errors:" \in MarksOf(all, k) /\ IsFull(after) => "Resume:" \in MarksOf(all, k)
<1> DEFINE m   == PageEnd(after) - after
           got == {all[i].kind : i \in 1 .. k} \ {"hit"}
<1>1. m \in Nat /\ after \in Nat /\ after + m <= Hits
  BY PageEndFacts, Sizes
<1>2. all \in Seq(LinesRead) /\ Len(all) \in Nat
  BY LenProperties DEF IsResponse
<1>3. \A i \in 1 .. k : i \in 1 .. Len(all) /\ all[i] \in LinesRead
  BY <1>2, ElementOfSeq
<1>4. \A i \in 1 .. m : all[i].kind = "hit"
  <2> TAKE i \in 1 .. m
  <2>1. after + i \in 1 .. Hits
    BY <1>1, Sizes
  <2>2. QED
    BY <2>1, MarkFacts DEF IsResponse
<1>5. got \subseteq {"blank", "Resume:", "Errors:"}
  BY <1>3 DEF LinesRead
<1>6. \A i \in 1 .. k : all[i].kind # "hit" => i > m
  <2> TAKE i \in 1 .. k
  <2>1. i \in 1 .. m \/ i > m
    BY <1>1, <1>2
  <2>2. QED
    BY <1>4, <2>1
<1>7. "blank" \in got => k > m
  <2> SUFFICES ASSUME "blank" \in got PROVE k > m
    OBVIOUS
  <2>1. PICK i \in 1 .. k : all[i].kind = "blank"
    OBVIOUS
  <2>2. i > m
    BY <1>6, <2>1
  <2>3. QED
    BY <1>1, <1>2, <2>2
<1>8. \A i \in 1 .. k : /\ all[i].kind = "Resume:" => all[i] = Mark("Resume:")
                        /\ all[i].kind = "Errors:" => all[i] = Mark("Errors:")
  <2> TAKE i \in 1 .. k
  <2>1. i \in 1 .. m \/ i = m + 1 \/ i \in m + 2 .. Len(all)
    BY <1>1, <1>2
  <2>2. CASE i \in 1 .. m
    BY <1>4, <2>2
  <2>3. CASE i = m + 1
    BY <2>3, MarkFacts DEF IsResponse
  <2>4. CASE i \in m + 2 .. Len(all)
    BY <2>4, MarkFacts DEF IsResponse
  <2>5. QED
    BY <2>1, <2>2, <2>3, <2>4
<1>9. "Resume:" \in got => IsFull(after)
  BY <1>3, <1>8 DEF IsResponse
<1>10. "Errors:" \in got /\ IsFull(after) => "Resume:" \in got
  <2> SUFFICES ASSUME "Errors:" \in got, IsFull(after) PROVE "Resume:" \in got
    OBVIOUS
  <2>1. PICK i \in 1 .. k : all[i].kind = "Errors:"
    OBVIOUS
  <2>2. all[m + 1] = Mark("blank") /\ all[m + 2] = Mark("Resume:")
    BY DEF IsResponse
  <2>3. i # m + 1 /\ i > m
    BY <1>6, <1>8, <2>1, <2>2, MarkFacts
  <2>4. m + 2 \in 1 .. k
    BY <1>1, <1>2, <2>3
  <2>5. all[m + 2].kind = "Resume:"
    BY <2>2, MarkFacts
  <2>6. QED
    BY <2>4, <2>5
<1>11. QED
  BY <1>5, <1>7, <1>9, <1>10 DEF MarksOf

-----------------------------------------------------------------------------
(* The states of a query.                                                    *)

LEMMA ToSetEmpty == ToSet(<<>>) = {}
<1>1. DOMAIN <<>> = {}
  BY EmptySeq, LenProperties
<1>2. QED
  BY <1>1 DEF ToSet

LEMMA HitAppend ==
  ASSUME NEW list \in Seq(1 .. Hits), NEW n \in 1 .. Hits
  PROVE  /\ Append(list, n) \in Seq(1 .. Hits)
         /\ ToSet(Append(list, n)) = ToSet(list) \cup {n}
<1>1. Len(list) \in Nat /\ DOMAIN list = 1 .. Len(list)
  BY LenProperties
<1>2. /\ Append(list, n) \in Seq(1 .. Hits)
      /\ Len(Append(list, n)) = Len(list) + 1
      /\ Append(list, n)[Len(list) + 1] = n
      /\ \A i \in 1 .. Len(list) : Append(list, n)[i] = list[i]
  OBVIOUS
<1>3. DOMAIN Append(list, n) = 1 .. Len(list) + 1
  BY <1>2, LenProperties
<1>4. 1 .. Len(list) + 1 = (1 .. Len(list)) \cup {Len(list) + 1}
  BY <1>1
<1>5. QED
  BY <1>1, <1>2, <1>3, <1>4 DEF ToSet

LEMMA QueryFields ==
  ASSUME TypeInv, NEW q \in Queries
  PROVE  /\ query[q].at \in {"idle", "streaming", "resolved", "rejected", "pending"}
         /\ query[q].after \in 0 .. Hits /\ query[q].existing \in BOOLEAN
         /\ query[q].response \in Seq(LinesRead)
         /\ query[q].got \subseteq {"blank", "Resume:", "Errors:"}
         /\ query[q].flawed \subseteq 0 .. Hits
<1>1. query[q] \in QueryStates
  BY DEF TypeInv
<1>2. QED
  BY <1>1 DEF QueryStates

(* Any state in the set may be given to a query.                             *)
LEMMA QueryUpdate ==
  ASSUME TypeInv, NEW q \in Queries, NEW state \in QueryStates,
         query' = [query EXCEPT ![q] = state]
  PROVE  /\ query' \in [Queries -> QueryStates]
         /\ query'[q] = state
         /\ \A p \in Queries : p # q => query'[p] = query[p]
         /\ \A p \in Queries :
              /\ query'[p].at \in {"idle", "streaming", "resolved", "rejected", "pending"}
              /\ query'[p].after \in 0 .. Hits
              /\ query'[p].got \subseteq {"blank", "Resume:", "Errors:"}
<1>1. query \in [Queries -> QueryStates]
  BY DEF TypeInv
<1>2. query' \in [Queries -> QueryStates]
  BY <1>1
<1>3. \A p \in Queries :
        /\ query'[p].at \in {"idle", "streaming", "resolved", "rejected", "pending"}
        /\ query'[p].after \in 0 .. Hits
        /\ query'[p].got \subseteq {"blank", "Resume:", "Errors:"}
  <2> TAKE p \in Queries
  <2>1. query'[p] \in QueryStates
    BY <1>2
  <2>2. QED
    BY <2>1 DEF QueryStates
<1>4. QED
  BY <1>1, <1>2, <1>3

LEMMA FetchFacts ==
  ASSUME TypeInv, NEW q \in Queries, NEW after \in 0 .. Hits, Fetch(q, after)
  PROVE  \E errors \in BOOLEAN :
           /\ Begun(after, errors) \in QueryStates
           /\ query' = [query EXCEPT ![q] = Begun(after, errors)]
<1>1. PICK errors \in BOOLEAN : query' = [query EXCEPT ![q] = Begun(after, errors)]
  BY DEF Fetch
<1>2. Begun(after, errors) \in QueryStates
  <2>1. cache.errors \in BOOLEAN /\ flawed \subseteq 0 .. Hits
    BY DEF TypeInv, TypeOK
  <2>2. Response(after, errors) \in Seq(LinesRead)
    BY ResponseShape DEF IsResponse
  <2>3. QED
    BY <2>1, <2>2 DEF Begun, QueryStates
<1>3. QED
  BY <1>1, <1>2

LEMMA EndedFacts ==
  ASSUME NEW at \in {"rejected", "pending"}
  PROVE  Ended(at) \in QueryStates /\ Ended(at).at = at /\ Ended(at).after = 0
<1>1. <<>> \in Seq(LinesRead) /\ 0 \in 0 .. Hits
  BY EmptySeq, Sizes
<1>2. Idle \in QueryStates /\ Idle.after = 0
  BY <1>1 DEF Idle, QueryStates
<1>3. Ended(at) \in QueryStates
  BY <1>2 DEF Ended, QueryStates
<1>4. \A idle \in QueryStates : /\ [idle EXCEPT !.at = at].at = at
                               /\ [idle EXCEPT !.at = at].after = idle.after
  BY DEF QueryStates
<1>5. QED
  BY <1>2, <1>3, <1>4 DEF Ended

-----------------------------------------------------------------------------
(* What a step does to the queries that do not take it.                      *)

(* A witness for InResponse after a step.                                    *)
LEMMA InResponseNext ==
  ASSUME NEW q, NEW after, query'[q].after = after, NEW errors \in BOOLEAN,
         NEW k \in 0 .. Len(Response(after, errors)),
         Received(q, Response(after, errors), k)'
  PROVE  InResponse(q)'
<1>1. Response(query'[q].after, errors) = Response(after, errors)
  OBVIOUS
<1>2. /\ k \in 0 .. Len(Response(query'[q].after, errors))
      /\ Received(q, Response(query[q].after, errors), k)'
  BY <1>1 DEF Received
<1>3. QED
  BY <1>2 DEF InResponse

LEMMA StreamKept ==
  ASSUME StreamInv, NEW p \in Queries, query'[p] = query[p], reported'[p] = reported[p],
         emptied => emptied', ~ emptied' => ToSet(results) \subseteq ToSet(results'),
         query[p].at = "streaming"
  PROVE  InResponse(p)'
<1>1. PICK errors \in BOOLEAN :
        \E k \in 0 .. Len(Response(query[p].after, errors)) :
          Received(p, Response(query[p].after, errors), k)
  BY DEF StreamInv, InResponse
<1>2. PICK k \in 0 .. Len(Response(query[p].after, errors)) :
        Received(p, Response(query[p].after, errors), k)
  BY <1>1
<1>3. ToSet(reported[p])' = ToSet(reported[p]) /\ ToSet(results)' = ToSet(results')
  BY DEF ToSet
<1>4. Response(query'[p].after, errors) = Response(query[p].after, errors)
  OBVIOUS
<1>5. Received(p, Response(query[p].after, errors), k)'
  BY <1>2, <1>3, <1>4 DEF Received
<1>6. QED
  BY <1>2, <1>4, <1>5 DEF InResponse

-----------------------------------------------------------------------------
(* The steps.                                                                *)

LEMMA TypeInvFields ==
  ASSUME TypeInv
  PROVE  /\ cache.resume \in 0 .. Undefined /\ cache.errors \in BOOLEAN
         /\ cache.resume # Undefined => cache.resume \in 0 .. Hits
         /\ results \in Seq(1 .. Hits) /\ fetches \in 0 .. MaxFetches
         /\ reported \in [Queries -> Seq(1 .. Hits)]
         /\ flawed \subseteq 0 .. Hits /\ emptied \in BOOLEAN /\ late \in BOOLEAN
<1>1. cache.resume \in 0 .. Undefined /\ cache.errors \in BOOLEAN
  BY DEF TypeInv, TypeOK
<1>2. cache.resume # Undefined => cache.resume \in 0 .. Hits
  BY <1>1, Sizes
<1>3. QED
  BY <1>1, <1>2 DEF TypeInv, TypeOK

(* A request is sent: the array may be emptied when no other query fills it. *)
LEMMA FetchKeeps ==
  ASSUME IInv, NEW q \in Queries, NEW after \in 0 .. Hits, IsPage(after),
         CanStart(q), Fetch(q, after), UNCHANGED <<unparsable, flawed, late>>,
         cache' \in [resume : 0 .. Undefined, errors : BOOLEAN, present : BOOLEAN],
         cache'.resume # Undefined => cache' = cache,
         NEW list \in Seq(1 .. Hits), reported' = [reported EXCEPT ![q] = list],
         results' \in Seq(1 .. Hits), emptied' \in BOOLEAN, emptied => emptied',
         cache'.resume # Undefined /\ ~ emptied' => ToSet(results) \subseteq ToSet(results'),
         \A p \in Queries : query[p].at = "streaming" /\ ~ emptied'
                             => ToSet(results) \subseteq ToSet(results'),
         ~ emptied' => 1 .. after \subseteq ToSet(list) /\ 1 .. after \subseteq ToSet(results'),
         ~ late /\ FlawedBefore(after) => cache.errors
  PROVE  IInv'
<1>1. PICK errors \in BOOLEAN :
        /\ Begun(after, errors) \in QueryStates
        /\ query' = [query EXCEPT ![q] = Begun(after, errors)]
  BY FetchFacts DEF IInv
<1>2. /\ query' \in [Queries -> QueryStates] /\ query'[q] = Begun(after, errors)
      /\ \A p \in Queries : p # q => query'[p] = query[p]
      /\ \A p \in Queries :
           /\ query'[p].at \in {"idle", "streaming", "resolved", "rejected", "pending"}
           /\ query'[p].after \in 0 .. Hits
           /\ query'[p].got \subseteq {"blank", "Resume:", "Errors:"}
  BY <1>1, QueryUpdate DEF IInv
<1>3. /\ query'[q].at = "streaming" /\ query'[q].after = after
      /\ query'[q].existing = cache.errors /\ query'[q].got = {}
      /\ query'[q].response = Response(after, errors)
      /\ query'[q].flawed = {page \in flawed : page < after}
  BY <1>2 DEF Begun
<1>4. /\ reported' \in [Queries -> Seq(1 .. Hits)] /\ reported'[q] = list
      /\ \A p \in Queries : p # q => reported'[p] = reported[p]
  BY TypeInvFields DEF IInv
<1>5. TypeInv'
  <2>1. fetches' \in 0 .. MaxFetches
    <3>1. fetches \in 0 .. MaxFetches /\ fetches < MaxFetches /\ fetches' = fetches + 1
      BY TypeInvFields DEF IInv, CanStart, Fetch
    <3>2. QED
      BY <3>1, SizesType
  <2>2. unparsable' \in Unparsable /\ flawed' \subseteq 0 .. Hits /\ late' \in BOOLEAN
    BY DEF IInv, TypeInv, TypeOK
  <2>3. QED
    BY <1>2, <1>4, <2>1, <2>2 DEF TypeInv, TypeOK
<1>6. PagesInv'
  <2>1. cache'.resume # Undefined => IsPage(cache'.resume)
    BY DEF IInv, PagesInv
  <2>2. \A p \in flawed' : IsPage(p)
    BY DEF IInv, PagesInv
  <2>3. \A p \in Queries : IsPage(query'[p].after)
    BY <1>2, <1>3 DEF IInv, PagesInv
  <2>4. QED
    BY <2>1, <2>2, <2>3 DEF PagesInv, IsPage, Undefined
<1>7. StreamInv'
  <2>1. ASSUME NEW p \in Queries, query'[p].at = "streaming", p # q PROVE InResponse(p)'
    <3>1. query'[p] = query[p] /\ reported'[p] = reported[p]
      BY <1>2, <1>4, <2>1
    <3>2. query[p].at = "streaming"
      BY <2>1, <3>1
    <3>3. ~ emptied' => ToSet(results) \subseteq ToSet(results')
      BY <3>2
    <3>4. StreamInv /\ (emptied => emptied')
      BY DEF IInv
    <3>5. QED
      BY ONLY p \in Queries, <3>1, <3>2, <3>3, <3>4, StreamKept
  <2>2. InResponse(q)'
    <3>1. Response(after, errors) \in Seq(LinesRead)
      BY ResponseShape DEF IsResponse
    <3>2. Len(Response(after, errors)) \in Nat
      BY <3>1, LenProperties
    <3>3. 0 \in 0 .. Len(Response(after, errors)) /\ 1 .. 0 = {}
      BY <3>2
    <3>4. Received(q, Response(after, errors), 0)'
      BY <1>3, <3>2, <3>3 DEF Received
    <3>5. QED
      BY <1>3, <3>3, <3>4, InResponseNext
  <2>3. QED
    BY <2>1, <2>2 DEF StreamInv
<1>8. LoadedInv'
  <2> SUFFICES ASSUME ~ emptied'
               PROVE  /\ cache'.resume # Undefined => 1 .. cache'.resume \subseteq ToSet(results)'
                      /\ \A p \in Queries :
                           query'[p].at = "streaming" =>
                             /\ 1 .. query'[p].after \subseteq ToSet(reported[p])'
                             /\ 1 .. query'[p].after \subseteq ToSet(results)'
    BY DEF LoadedInv, Undefined
  <2>1. ToSet(results)' = ToSet(results') /\ \A p \in Queries : ToSet(reported[p])' = ToSet(reported'[p])
    BY DEF ToSet
  <2>2. cache'.resume # Undefined => 1 .. cache'.resume \subseteq ToSet(results)'
    BY <2>1 DEF IInv, LoadedInv
  <2>3. ASSUME NEW p \in Queries, query'[p].at = "streaming"
        PROVE  /\ 1 .. query'[p].after \subseteq ToSet(reported[p])'
               /\ 1 .. query'[p].after \subseteq ToSet(results)'
    <3>1. CASE p = q
      BY <1>3, <1>4, <2>1, <3>1
    <3>2. CASE p # q
      BY <1>2, <1>4, <2>1, <2>3, <3>2 DEF IInv, LoadedInv
    <3>3. QED
      BY <3>1, <3>2
  <2>4. QED
    BY <2>2, <2>3
<1>9. ErrorsInv'
  <2> SUFFICES ASSUME ~ late
               PROVE  /\ cache'.resume # Undefined /\ FlawedBefore(cache'.resume) => cache'.errors
                      /\ \A p \in Queries :
                           query'[p].at = "streaming" =>
                             /\ FlawedBefore(query'[p].after) => query'[p].existing
                             /\ query'[p].flawed # {} => query'[p].existing
    BY DEF ErrorsInv, Undefined, FlawedBefore
  <2>1. cache'.resume # Undefined /\ FlawedBefore(cache'.resume) => cache'.errors
    BY DEF IInv, ErrorsInv
  <2>2. ASSUME NEW p \in Queries, query'[p].at = "streaming"
        PROVE  /\ FlawedBefore(query'[p].after) => query'[p].existing
               /\ query'[p].flawed # {} => query'[p].existing
    <3>1. CASE p = q
      BY <1>3, <3>1 DEF FlawedBefore
    <3>2. CASE p # q
      BY <1>2, <2>2, <3>2 DEF IInv, ErrorsInv
    <3>3. QED
      BY <3>1, <3>2
  <2>3. QED
    BY <2>1, <2>2
<1>10. NothingLost'
  <2> SUFFICES ASSUME ~ emptied', NEW p \in Queries, query'[p].at = "resolved"
               PROVE  (1 .. PageEnd(query[p].after) \subseteq ToSet(reported[p]))'
    BY DEF NothingLost
  <2>1. query'[p] = query[p] /\ reported'[p] = reported[p]
    BY <1>2, <1>3, <1>4
  <2>2. 1 .. PageEnd(query[p].after) \subseteq ToSet(reported[p])
    BY <2>1 DEF IInv, NothingLost
  <2>3. QED
    BY <2>1, <2>2 DEF ToSet, PageEnd
<1>11. ErrorsStay'
  BY <1>2, <1>3 DEF IInv, ErrorsStay
<1>12. QED
  BY <1>5, <1>6, <1>7, <1>8, <1>9, <1>10, <1>11 DEF IInv

LEMMA StartNewKeeps ==
  ASSUME IInv, NEW q \in Queries, StartNew(q)
  PROVE  IInv'
<1>1. cache' = [resume |-> Undefined, errors |-> FALSE, present |-> TRUE]
  BY DEF StartNew, NoEntry
<1>2. /\ cache' \in [resume : 0 .. Undefined, errors : BOOLEAN, present : BOOLEAN]
      /\ cache'.resume = Undefined
  BY <1>1, Sizes
<1>3. 0 \in 0 .. Hits /\ 1 .. 0 = {} /\ IsPage(0) /\ <<>> \in Seq(1 .. Hits)
  BY FirstPage, Sizes, EmptySeq
<1>4. ~ FlawedBefore(0)
  BY TypeInvFields, Sizes DEF IInv, FlawedBefore
<1>5. /\ CanStart(q) /\ Fetch(q, 0) /\ UNCHANGED <<unparsable, flawed, late>>
      /\ results' = results /\ emptied' = emptied
      /\ reported' = [reported EXCEPT ![q] = <<>>]
  BY DEF StartNew, history
<1>6. results \in Seq(1 .. Hits) /\ emptied \in BOOLEAN
  BY TypeInvFields DEF IInv
<1>7. QED
  BY <1>2, <1>3, <1>4, <1>5, <1>6, FetchKeeps

LEMMA StartAgainKeeps ==
  ASSUME IInv, NEW q \in Queries, StartAgain(q)
  PROVE  IInv'
<1>1. /\ CanStart(q) /\ Fetch(q, 0) /\ UNCHANGED <<unparsable, flawed, late>>
      /\ cache' = cache /\ cache.resume = Undefined /\ results' = <<>>
      /\ reported' = [reported EXCEPT ![q] = results]
      /\ emptied' = (emptied \/ \E p \in Queries : query[p].at = "streaming")
  BY DEF StartAgain
<1>2. 0 \in 0 .. Hits /\ 1 .. 0 = {} /\ IsPage(0) /\ <<>> \in Seq(1 .. Hits)
  BY FirstPage, Sizes, EmptySeq
<1>3. ~ FlawedBefore(0)
  BY TypeInvFields, Sizes DEF IInv, FlawedBefore
<1>4. /\ cache \in [resume : 0 .. Undefined, errors : BOOLEAN, present : BOOLEAN]
      /\ results \in Seq(1 .. Hits) /\ emptied' \in BOOLEAN
  BY <1>1 DEF IInv, TypeInv, TypeOK
<1>5. \A p \in Queries : query[p].at = "streaming" /\ ~ emptied'
                         => ToSet(results) \subseteq ToSet(results')
  BY <1>1
<1>6. QED
  BY <1>1, <1>2, <1>3, <1>4, <1>5, FetchKeeps

LEMMA StartNextKeeps ==
  ASSUME IInv, NEW q \in Queries, StartNext(q)
  PROVE  IInv'
<1>1. /\ CanStart(q) /\ Fetch(q, cache.resume) /\ UNCHANGED <<unparsable, flawed, late>>
      /\ cache' = cache /\ cache.resume # Undefined /\ results' = results
      /\ emptied' = emptied
      /\ reported' = [reported EXCEPT ![q] = results]
  BY DEF StartNext, history
<1> DEFINE after == cache.resume
<1>2. after \in 0 .. Hits /\ IsPage(after)
  BY <1>1, TypeInvFields DEF IInv, PagesInv
<1>3. /\ cache \in [resume : 0 .. Undefined, errors : BOOLEAN, present : BOOLEAN]
      /\ results \in Seq(1 .. Hits) /\ emptied \in BOOLEAN
  BY DEF IInv, TypeInv, TypeOK
<1>4. ~ emptied => 1 .. after \subseteq ToSet(results)
  BY <1>1 DEF IInv, LoadedInv
<1>5. ~ late /\ FlawedBefore(after) => cache.errors
  BY <1>1 DEF IInv, ErrorsInv
<1>6. PICK page : page = after
  OBVIOUS
<1>7. /\ page \in 0 .. Hits /\ IsPage(page) /\ Fetch(q, page)
      /\ ~ emptied => 1 .. page \subseteq ToSet(results)
      /\ ~ late /\ FlawedBefore(page) => cache.errors
  BY <1>1, <1>2, <1>4, <1>5, <1>6
<1>8. QED
  BY <1>1, <1>3, <1>7, FetchKeeps

(* A query ends without an answer.                                           *)
LEMMA EndedKeeps ==
  ASSUME IInv, NEW q \in Queries, NEW at \in {"rejected", "pending"},
         query' = [query EXCEPT ![q] = Ended(at)],
         UNCHANGED <<cache, results, fetches, reported, unparsable, flawed, emptied, late>>
  PROVE  IInv'
<1>1. Ended(at) \in QueryStates /\ Ended(at).at = at /\ Ended(at).after = 0
  BY EndedFacts
<1>2. /\ query' \in [Queries -> QueryStates] /\ query'[q] = Ended(at)
      /\ \A p \in Queries : p # q => query'[p] = query[p]
      /\ \A p \in Queries :
           /\ query'[p].at \in {"idle", "streaming", "resolved", "rejected", "pending"}
           /\ query'[p].after \in 0 .. Hits
           /\ query'[p].got \subseteq {"blank", "Resume:", "Errors:"}
  BY <1>1, QueryUpdate DEF IInv
<1>3. query'[q].at # "streaming" /\ query'[q].at # "resolved" /\ query'[q].after = 0
  BY <1>1, <1>2
<1>4. TypeInv'
  BY <1>2 DEF IInv, TypeInv, TypeOK
<1>5. PagesInv'
  BY <1>2, <1>3, FirstPage DEF IInv, PagesInv, IsPage, Undefined
<1>6. StreamInv'
  <2>1. ASSUME NEW p \in Queries, query'[p].at = "streaming" PROVE InResponse(p)'
    <3>1. query'[p] = query[p] /\ reported'[p] = reported[p] /\ query[p].at = "streaming"
      BY <1>2, <1>3, <2>1
    <3>2. StreamInv /\ (emptied => emptied') /\ ToSet(results) \subseteq ToSet(results')
      BY DEF IInv
    <3>3. QED
      BY ONLY p \in Queries, <3>1, <3>2, StreamKept
  <2>2. QED
    BY <2>1 DEF StreamInv
<1>7. LoadedInv'
  BY <1>2, <1>3 DEF IInv, LoadedInv, ToSet, Undefined
<1>8. ErrorsInv'
  BY <1>2, <1>3 DEF IInv, ErrorsInv, FlawedBefore, Undefined
<1>9. NothingLost'
  BY <1>2, <1>3 DEF IInv, NothingLost, ToSet, PageEnd
<1>10. ErrorsStay'
  BY <1>2, <1>3 DEF IInv, ErrorsStay
<1>11. QED
  BY <1>4, <1>5, <1>6, <1>7, <1>8, <1>9, <1>10 DEF IInv

LEMMA CallbackThrowsKeeps ==
  ASSUME IInv, NEW q \in Queries, CallbackThrows(q)
  PROVE  IInv'
  BY EndedKeeps DEF CallbackThrows, history

(* The next line of a query is the k-th of its response.                     *)
NextLine(q, all, k) ==
  LET line  == Head(query[q].response)
      rest  == Tail(query[q].response)
      after == query[q].after
      lines == PageEnd(after) - after
  IN  /\ line = all[k] /\ line \in LinesRead
      /\ rest \in Seq(LinesRead) /\ Len(rest) = Len(all) - k
      /\ \A i \in 1 .. Len(all) - k : rest[i] = all[k + i]
      /\ query[q].got \cup ({line.kind} \ {"hit"}) = {all[i].kind : i \in 1 .. k} \ {"hit"}
      /\ \A i \in 1 .. k : i # k /\ i <= lines =>
           /\ after + i \in ToSet(reported[q])
           /\ ~ emptied => after + i \in ToSet(results)
      /\ k <= lines => line = Hit(after + k) /\ after + k \in 1 .. Hits
      /\ line.kind = "hit" => k <= lines

LEMMA LineFacts ==
  ASSUME IInv, NEW q \in Queries, query[q].at = "streaming", query[q].response # <<>>
  PROVE  \E errors \in BOOLEAN :
           \E k \in 1 .. Len(Response(query[q].after, errors)) :
             NextLine(q, Response(query[q].after, errors), k)
<1> DEFINE after == query[q].after
           rest == query[q].response
<1>1. after \in 0 .. Hits /\ rest \in Seq(LinesRead)
  BY QueryFields DEF IInv
<1>2. PICK errors \in BOOLEAN :
        \E k \in 0 .. Len(Response(after, errors)) :
          Received(q, Response(after, errors), k)
  BY DEF IInv, StreamInv, InResponse
<1> DEFINE all == Response(after, errors)
           m == PageEnd(after) - after
<1>3. PICK j \in 0 .. Len(all) : Received(q, all, j)
  BY <1>2
<1>4. IsResponse(all, after)
  BY <1>1, ResponseShape
<1>5. all \in Seq(LinesRead) /\ Len(all) \in Nat /\ m \in Nat
  BY <1>1, <1>4, PageEndFacts, LenProperties DEF IsResponse
<1>6. /\ Len(rest) = Len(all) - j
      /\ \A i \in 1 .. Len(all) - j : rest[i] = all[j + i]
      /\ query[q].got = {all[i].kind : i \in 1 .. j} \ {"hit"}
  BY <1>3 DEF Received
<1>h. \A i \in 1 .. j :
        i <= m =>
          /\ after + i \in ToSet(reported[q])
          /\ ~ emptied => after + i \in ToSet(results)
  BY <1>3 DEF Received
<1> DEFINE k == j + 1
<1>7. Len(rest) > 0 /\ j \in Nat
  BY <1>1, <1>5, EmptySeq
<1>8. /\ k \in 1 .. Len(all) /\ k - 1 = j /\ 1 \in 1 .. Len(all) - j /\ j + 1 = k
      /\ Len(rest) - 1 = Len(all) - k /\ k \in 1 .. k /\ 1 .. k = (1 .. j) \cup {k}
  <2> HIDE DEF all, rest
  <2>1. QED
    BY <1>5, <1>6, <1>7
<1>9. Head(rest) = all[k]
  BY <1>1, <1>6, <1>7, <1>8
<1>10. all[k] \in LinesRead
  BY <1>5, <1>8, ElementOfSeq
<1>11. /\ Tail(rest) \in Seq(LinesRead) /\ Len(Tail(rest)) = Len(rest) - 1
       /\ \A i \in 1 .. Len(rest) - 1 : Tail(rest)[i] = rest[i + 1]
  BY <1>1, <1>7, EmptySeq, HeadTailProperties
<1>12. \A i \in 1 .. Len(all) - k : Tail(rest)[i] = all[k + i]
  <2> TAKE i \in 1 .. Len(all) - k
  <2>1. i \in 1 .. Len(rest) - 1
    BY <1>8
  <2>2. i + 1 \in 1 .. Len(all) - j /\ j + (i + 1) = k + i
    <3> HIDE DEF all, rest
    <3>1. QED
      BY <1>5, <1>7, <1>8
  <2>3. QED
    BY <1>6, <1>11, <2>1, <2>2
<1>13. query[q].got \cup ({all[k].kind} \ {"hit"}) = {all[i].kind : i \in 1 .. k} \ {"hit"}
  <2> HIDE DEF all, k
  <2>1. {all[i].kind : i \in 1 .. k} = {all[i].kind : i \in 1 .. j} \cup {all[k].kind}
    BY <1>8
  <2>2. QED
    BY <1>6, <2>1
<1>14. k <= m => all[k] = Hit(after + k) /\ after + k \in 1 .. Hits
  <2> SUFFICES ASSUME k <= m PROVE all[k] = Hit(after + k) /\ after + k \in 1 .. Hits
    OBVIOUS
  <2>1. k \in 1 .. m
    BY <1>5, <1>7
  <2>2. all[k] = Hit(after + k)
    BY <1>4, <2>1 DEF IsResponse
  <2>3. PageEnd(after) <= Hits /\ after \in Nat /\ PageEnd(after) \in Nat /\ Hits \in Nat
    <3> HIDE DEF after
    <3>1. PageEnd(after) \in 0 .. Hits /\ Hits \in Nat
      BY <1>1, PageEndFacts, Sizes
    <3>2. QED
      BY <1>1, <3>1
  <2>4. after + k \in 1 .. Hits
    BY <2>1, <2>3
  <2>5. QED
    BY <2>2, <2>4
<1>15. all[k].kind = "hit" => k <= m
  <2> SUFFICES ASSUME ~ (k <= m) PROVE all[k].kind # "hit"
    OBVIOUS
  <2>1. k = m + 1 \/ k \in m + 2 .. Len(all)
    <3> HIDE DEF all, m
    <3>1. QED
      BY <1>5, <1>7, <1>8
  <2>2. all[k] \in {Mark("blank"), Mark("Resume:"), Mark("Errors:")}
    BY <1>4, <2>1 DEF IsResponse
  <2>3. QED
    BY <2>2, MarkFacts
<1>16. \A i \in 1 .. k : i # k /\ i <= m =>
         /\ after + i \in ToSet(reported[q])
         /\ ~ emptied => after + i \in ToSet(results)
  <2> HIDE DEF k
  <2>1. \A i \in 1 .. k : i # k => i \in 1 .. j
    BY <1>8
  <2>2. ASSUME NEW i \in 1 .. k, i # k, i <= m
        PROVE  /\ after + i \in ToSet(reported[q])
               /\ ~ emptied => after + i \in ToSet(results)
    <3>1. i \in 1 .. j
      BY <2>1, <2>2
    <3>2. QED
      BY <1>h, <2>2, <3>1
  <2>3. QED
    BY <2>2
<1>17. Len(Tail(rest)) = Len(all) - k
  BY <1>8, <1>11
<1>18. k \in 1 .. Len(all)
  BY <1>8
<1> HIDE DEF k
<1>19. NextLine(q, all, k)
  BY <1>9, <1>10, <1>11, <1>12, <1>13, <1>14, <1>15, <1>16, <1>17 DEF NextLine
<1>20. QED
  BY <1>18, <1>19

LEMMA ResponseUpdate ==
  ASSUME NEW old \in QueryStates, NEW response \in Seq(LinesRead), NEW new,
         new = [old EXCEPT !.response = response]
  PROVE  /\ new \in QueryStates
         /\ new.at = old.at /\ new.after = old.after /\ new.existing = old.existing
         /\ new.got = old.got /\ new.flawed = old.flawed /\ new.response = response
<1>1. new \in QueryStates
  BY DEF QueryStates
<1>2. /\ new.at = old.at /\ new.after = old.after /\ new.existing = old.existing
      /\ new.got = old.got /\ new.flawed = old.flawed /\ new.response = response
  BY DEF QueryStates
<1>3. QED
  BY <1>1, <1>2

MarksRead == SUBSET {"blank", "Resume:", "Errors:"}

LEMMA GotUpdate ==
  ASSUME NEW old \in QueryStates, NEW got \in MarksRead, NEW new,
         new = [old EXCEPT !.got = got]
  PROVE  /\ new \in QueryStates
         /\ new.at = old.at /\ new.after = old.after /\ new.existing = old.existing
         /\ new.got = got /\ new.flawed = old.flawed /\ new.response = old.response
<1>1. new \in QueryStates
  BY DEF QueryStates, MarksRead
<1>2. /\ new.at = old.at /\ new.after = old.after /\ new.existing = old.existing
      /\ new.got = got /\ new.flawed = old.flawed /\ new.response = old.response
  BY DEF QueryStates, MarksRead
<1>3. QED
  BY <1>1, <1>2

LEMMA ReceiveLineFacts ==
  ASSUME IInv, NEW q \in Queries, ReceiveLine(q)
  PROVE  LET line == Head(query[q].response) IN
         /\ query' \in [Queries -> QueryStates]
         /\ \A p \in Queries : p # q => query'[p] = query[p] /\ reported'[p] = reported[p]
         /\ \A p \in Queries :
              /\ query'[p].at \in {"idle", "streaming", "resolved", "rejected", "pending"}
              /\ query'[p].after \in 0 .. Hits
              /\ query'[p].got \subseteq {"blank", "Resume:", "Errors:"}
         /\ query'[q].at = "streaming" /\ query'[q].after = query[q].after
         /\ query'[q].existing = query[q].existing /\ query'[q].flawed = query[q].flawed
         /\ query'[q].response = Tail(query[q].response)
         /\ query'[q].got = query[q].got \cup ({line.kind} \ {"hit"})
         /\ reported' \in [Queries -> Seq(1 .. Hits)] /\ results' \in Seq(1 .. Hits)
         /\ ToSet(reported[q]) \subseteq ToSet(reported'[q])
         /\ ToSet(results) \subseteq ToSet(results')
         /\ line.kind = "hit" => line.n \in ToSet(reported'[q]) /\ line.n \in ToSet(results')
<1> DEFINE line == Head(query[q].response)
<1>1. query[q].at = "streaming" /\ query[q].response # <<>>
  BY DEF ReceiveLine
<1>2. PICK errors \in BOOLEAN :
        \E k \in 1 .. Len(Response(query[q].after, errors)) :
          NextLine(q, Response(query[q].after, errors), k)
  BY <1>1, LineFacts
<1>3. PICK k \in 1 .. Len(Response(query[q].after, errors)) :
        NextLine(q, Response(query[q].after, errors), k)
  BY <1>2
<1>4. /\ line \in LinesRead /\ Tail(query[q].response) \in Seq(LinesRead)
      /\ k <= PageEnd(query[q].after) - query[q].after =>
           line = Hit(query[q].after + k) /\ query[q].after + k \in 1 .. Hits
      /\ line.kind = "hit" => k <= PageEnd(query[q].after) - query[q].after
  BY <1>3 DEF NextLine
<1>5. line.kind = "hit" => line.n \in 1 .. Hits
  BY <1>4, MarkFacts
<1>6. line.kind # "hit" => line.kind \in {"blank", "Resume:", "Errors:"}
  BY <1>4 DEF LinesRead
<1>7. TypeInv /\ query[q] \in QueryStates /\ query[q].got \subseteq {"blank", "Resume:", "Errors:"}
  BY QueryFields DEF IInv, TypeInv
<1>8. reported \in [Queries -> Seq(1 .. Hits)] /\ results \in Seq(1 .. Hits)
  BY <1>7, TypeInvFields
<1>o. PICK old : old = query[q]
  OBVIOUS
<1>t. PICK tail : tail = Tail(query[q].response)
  OBVIOUS
<1>r. PICK rest : rest = [old EXCEPT !.response = tail]
  OBVIOUS
<1>9. /\ rest \in QueryStates
      /\ rest.at = query[q].at /\ rest.after = query[q].after
      /\ rest.existing = query[q].existing /\ rest.got = query[q].got
      /\ rest.flawed = query[q].flawed /\ rest.response = Tail(query[q].response)
  <2>1. old \in QueryStates /\ tail \in Seq(LinesRead)
    BY <1>4, <1>7, <1>o, <1>t
  <2>2. /\ rest \in QueryStates
        /\ rest.at = old.at /\ rest.after = old.after
        /\ rest.existing = old.existing /\ rest.got = old.got
        /\ rest.flawed = old.flawed /\ rest.response = tail
    BY ONLY <1>r, <2>1, ResponseUpdate
  <2>3. QED
    BY <1>o, <1>t, <2>2
<1>10. CASE /\ line.kind = "hit" /\ query' = [query EXCEPT ![q] = rest]
            /\ reported' = [reported EXCEPT ![q] = Append(@, line.n)]
            /\ results' = Append(results, line.n)
  <2>1. /\ query' \in [Queries -> QueryStates] /\ query'[q] = rest
        /\ \A p \in Queries : p # q => query'[p] = query[p]
        /\ \A p \in Queries :
             /\ query'[p].at \in {"idle", "streaming", "resolved", "rejected", "pending"}
             /\ query'[p].after \in 0 .. Hits
             /\ query'[p].got \subseteq {"blank", "Resume:", "Errors:"}
    BY <1>7, <1>9, <1>10, QueryUpdate
  <2>2. /\ Append(results, line.n) \in Seq(1 .. Hits)
        /\ ToSet(Append(results, line.n)) = ToSet(results) \cup {line.n}
    BY <1>5, <1>8, <1>10, HitAppend
  <2>3. /\ Append(reported[q], line.n) \in Seq(1 .. Hits)
        /\ ToSet(Append(reported[q], line.n)) = ToSet(reported[q]) \cup {line.n}
    BY <1>5, <1>8, <1>10, HitAppend
  <2>4. /\ reported' \in [Queries -> Seq(1 .. Hits)]
        /\ reported'[q] = Append(reported[q], line.n)
        /\ \A p \in Queries : p # q => reported'[p] = reported[p]
    BY <1>8, <1>10, <2>3
  <2>5. query'[q].got = query[q].got \cup ({line.kind} \ {"hit"})
    BY <1>9, <1>10, <2>1
  <2>6. QED
    BY <1>1, <1>9, <1>10, <2>1, <2>2, <2>3, <2>4, <2>5
<1>11. CASE /\ line.kind # "hit"
            /\ query' = [query EXCEPT ![q] = [rest EXCEPT !.got = @ \cup {line.kind}]]
            /\ UNCHANGED <<reported, results>>
  <2>g. PICK got : got = rest.got \cup {line.kind}
    OBVIOUS
  <2>n. PICK new : new = [rest EXCEPT !.got = got]
    OBVIOUS
  <2>1. /\ new \in QueryStates
        /\ new.at = rest.at /\ new.after = rest.after
        /\ new.existing = rest.existing /\ new.got = got
        /\ new.flawed = rest.flawed /\ new.response = rest.response
    <3>1. got \in MarksRead
      BY <1>6, <1>7, <1>9, <1>11, <2>g DEF MarksRead
    <3>2. rest \in QueryStates
      BY <1>9
    <3>3. QED
      BY ONLY <2>n, <3>1, <3>2, GotUpdate
  <2>2. query' = [query EXCEPT ![q] = new]
    BY <1>11, <2>g, <2>n
  <2>3. /\ query' \in [Queries -> QueryStates] /\ query'[q] = new
        /\ \A p \in Queries : p # q => query'[p] = query[p]
        /\ \A p \in Queries :
             /\ query'[p].at \in {"idle", "streaming", "resolved", "rejected", "pending"}
             /\ query'[p].after \in 0 .. Hits
             /\ query'[p].got \subseteq {"blank", "Resume:", "Errors:"}
    BY <1>7, <2>1, <2>2, QueryUpdate
  <2>4. query'[q].got = query[q].got \cup ({line.kind} \ {"hit"})
    BY <1>9, <1>11, <2>1, <2>3, <2>g
  <2>5. QED
    BY <1>1, <1>8, <1>9, <1>11, <2>1, <2>3, <2>4
<1>12. QED
  BY <1>o, <1>t, <1>r, <1>10, <1>11 DEF ReceiveLine

LEMMA ReceiveLineKeeps ==
  ASSUME IInv, NEW q \in Queries, ReceiveLine(q)
  PROVE  IInv'
<1> DEFINE line == Head(query[q].response)
<1>1. /\ query' \in [Queries -> QueryStates]
      /\ \A p \in Queries : p # q => query'[p] = query[p] /\ reported'[p] = reported[p]
      /\ \A p \in Queries :
           /\ query'[p].at \in {"idle", "streaming", "resolved", "rejected", "pending"}
           /\ query'[p].after \in 0 .. Hits
           /\ query'[p].got \subseteq {"blank", "Resume:", "Errors:"}
      /\ query'[q].at = "streaming" /\ query'[q].after = query[q].after
      /\ query'[q].existing = query[q].existing /\ query'[q].flawed = query[q].flawed
      /\ query'[q].response = Tail(query[q].response)
      /\ query'[q].got = query[q].got \cup ({line.kind} \ {"hit"})
      /\ reported' \in [Queries -> Seq(1 .. Hits)] /\ results' \in Seq(1 .. Hits)
      /\ ToSet(reported[q]) \subseteq ToSet(reported'[q])
      /\ ToSet(results) \subseteq ToSet(results')
      /\ line.kind = "hit" => line.n \in ToSet(reported'[q]) /\ line.n \in ToSet(results')
  BY ReceiveLineFacts
<1>2. query[q].at = "streaming" /\ query[q].response # <<>>
  BY DEF ReceiveLine
<1>3. UNCHANGED <<cache, fetches, unparsable, flawed, emptied, late>>
  BY DEF ReceiveLine, history
<1>4. ToSet(results)' = ToSet(results') /\ \A p \in Queries : ToSet(reported[p])' = ToSet(reported'[p])
  BY DEF ToSet
<1>5. TypeInv'
  BY <1>1, <1>3 DEF IInv, TypeInv, TypeOK
<1>6. PagesInv'
  <2>1. \A p \in Queries : query'[p].after = query[p].after
    BY <1>1
  <2>2. QED
    BY <1>3, <2>1 DEF IInv, PagesInv, IsPage, Undefined
<1>7. StreamInv'
  <2>1. ASSUME NEW p \in Queries, query'[p].at = "streaming", p # q PROVE InResponse(p)'
    <3>1. query'[p] = query[p] /\ reported'[p] = reported[p] /\ query[p].at = "streaming"
      BY <1>1, <2>1
    <3>2. StreamInv /\ (emptied => emptied') /\ ToSet(results) \subseteq ToSet(results')
      BY <1>1, <1>3 DEF IInv
    <3>3. QED
      BY ONLY p \in Queries, <3>1, <3>2, StreamKept
  <2>2. InResponse(q)'
    <3>a. PICK after : after = query[q].after
      OBVIOUS
    <3>b. PICK errors \in BOOLEAN :
            \E k \in 1 .. Len(Response(after, errors)) : NextLine(q, Response(after, errors), k)
      BY <1>2, <3>a, LineFacts
    <3>c. PICK k \in 1 .. Len(Response(after, errors)) :
            NextLine(q, Response(after, errors), k)
      BY <3>b
    <3>d. PICK all : all = Response(after, errors)
      OBVIOUS
    <3>1. /\ Len(query'[q].response) = Len(all) - k
          /\ \A i \in 1 .. Len(all) - k : query'[q].response[i] = all[k + i]
          /\ query'[q].got = {all[i].kind : i \in 1 .. k} \ {"hit"}
      BY <1>1, <3>c, <3>d DEF NextLine
    <3>2. \A i \in 1 .. k :
            i <= PageEnd(after) - after =>
              /\ after + i \in ToSet(reported'[q])
              /\ ~ emptied' => after + i \in ToSet(results')
      <4> SUFFICES ASSUME NEW i \in 1 .. k, i <= PageEnd(after) - after
                   PROVE  /\ after + i \in ToSet(reported'[q])
                          /\ ~ emptied' => after + i \in ToSet(results')
        OBVIOUS
      <4>1. CASE i = k
        <5>1. line = Hit(after + k) /\ after + k \in 1 .. Hits
          BY <3>a, <3>c, <4>1 DEF NextLine
        <5>2. line.kind = "hit" /\ line.n = after + k
          BY <5>1, MarkFacts
        <5>3. QED
          BY <1>1, <4>1, <5>2
      <4>2. CASE i # k
        <5>1. /\ after + i \in ToSet(reported[q])
              /\ ~ emptied => after + i \in ToSet(results)
          BY <3>a, <3>c, <4>2 DEF NextLine
        <5>2. QED
          BY <1>1, <1>3, <5>1
      <4>3. QED
        BY <4>1, <4>2
    <3>3. k \in 0 .. Len(Response(after, errors)) /\ query'[q].after = after
      BY <1>1, <3>a
    <3>4. Received(q, all, k)'
      BY <1>4, <3>1, <3>2, <3>3 DEF Received, PageEnd
    <3>5. QED
      BY <3>3, <3>4, <3>d, InResponseNext
  <2>3. QED
    BY <2>1, <2>2 DEF StreamInv
<1>8. LoadedInv'
  <2> SUFFICES ASSUME ~ emptied
               PROVE  /\ cache'.resume # Undefined => 1 .. cache'.resume \subseteq ToSet(results)'
                      /\ \A p \in Queries :
                           query'[p].at = "streaming" =>
                             /\ 1 .. query'[p].after \subseteq ToSet(reported[p])'
                             /\ 1 .. query'[p].after \subseteq ToSet(results)'
    BY <1>3 DEF LoadedInv, Undefined
  <2>1. cache'.resume # Undefined => 1 .. cache'.resume \subseteq ToSet(results)'
    BY <1>1, <1>3, <1>4 DEF IInv, LoadedInv
  <2>2. ASSUME NEW p \in Queries, query'[p].at = "streaming"
        PROVE  /\ 1 .. query'[p].after \subseteq ToSet(reported[p])'
               /\ 1 .. query'[p].after \subseteq ToSet(results)'
    <3>1. query[p].at = "streaming" /\ query'[p].after = query[p].after
      BY <1>1, <1>2, <2>2
    <3>2. 1 .. query[p].after \subseteq ToSet(reported[p]) /\ 1 .. query[p].after \subseteq ToSet(results)
      BY <3>1 DEF IInv, LoadedInv
    <3>3. ToSet(reported[p]) \subseteq ToSet(reported'[p])
      BY <1>1
    <3>4. QED
      BY <1>1, <1>4, <3>1, <3>2, <3>3
  <2>3. QED
    BY <2>1, <2>2
<1>9. ErrorsInv'
  BY <1>1, <1>2, <1>3 DEF IInv, ErrorsInv, FlawedBefore, Undefined
<1>10. NothingLost'
  <2> SUFFICES ASSUME ~ emptied, NEW p \in Queries, query'[p].at = "resolved"
               PROVE  (1 .. PageEnd(query[p].after) \subseteq ToSet(reported[p]))'
    BY <1>3 DEF NothingLost
  <2>1. query'[p] = query[p] /\ reported'[p] = reported[p]
    BY <1>1
  <2>2. 1 .. PageEnd(query[p].after) \subseteq ToSet(reported[p])
    BY <2>1 DEF IInv, NothingLost
  <2>3. QED
    BY <2>1, <2>2 DEF ToSet, PageEnd
<1>11. ErrorsStay'
  BY <1>1, <1>3 DEF IInv, ErrorsStay
<1>12. QED
  BY <1>5, <1>6, <1>7, <1>8, <1>9, <1>10, <1>11 DEF IInv

(* A query resolves: the whole of its page was received, and all before it.  *)
LEMMA WholePage ==
  ASSUME IInv, NEW q \in Queries, query[q].at = "streaming", "blank" \in query[q].got
  PROVE  /\ "Resume:" \in query[q].got => IsFull(query[q].after)
         /\ "Errors:" \in query[q].got /\ IsFull(query[q].after) => "Resume:" \in query[q].got
         /\ ~ emptied => /\ 1 .. PageEnd(query[q].after) \subseteq ToSet(reported[q])
                        /\ 1 .. PageEnd(query[q].after) \subseteq ToSet(results)
<1>a. PICK after : after = query[q].after
  OBVIOUS
<1>b. PICK errors \in BOOLEAN :
        \E k \in 0 .. Len(Response(after, errors)) : Received(q, Response(after, errors), k)
  BY <1>a DEF IInv, StreamInv, InResponse
<1>c. PICK all : all = Response(after, errors)
  OBVIOUS
<1>d. PICK k \in 0 .. Len(all) : Received(q, all, k)
  BY <1>b, <1>c
<1>1. after \in 0 .. Hits /\ IsResponse(all, after)
  BY <1>a, <1>c, QueryFields, ResponseShape DEF IInv
<1>2. query[q].got = MarksOf(all, k)
  BY <1>d DEF Received, MarksOf
<1>3. /\ "blank" \in query[q].got => k > PageEnd(after) - after
      /\ "Resume:" \in query[q].got => IsFull(after)
      /\ "Errors:" \in query[q].got /\ IsFull(after) => "Resume:" \in query[q].got
  BY <1>1, <1>2, MarksFacts
<1>4. PageEnd(after) \in Nat /\ after \in Nat /\ k \in Nat /\ k > PageEnd(after) - after
  <2>1. PageEnd(after) \in 0 .. Hits
    BY <1>1, PageEndFacts
  <2>2. Hits \in Nat /\ Len(all) \in Nat
    BY <1>1, Sizes, LenProperties DEF IsResponse
  <2>3. QED
    BY <1>1, <1>3, <2>1, <2>2
<1>5. ASSUME ~ emptied, NEW n \in 1 .. PageEnd(after)
      PROVE  n \in ToSet(reported[q]) /\ n \in ToSet(results)
  <2>1. CASE n <= after
    <3>1. n \in 1 .. after
      BY <1>4, <2>1
    <3>2. 1 .. after \subseteq ToSet(reported[q]) /\ 1 .. after \subseteq ToSet(results)
      BY <1>a, <1>5 DEF IInv, LoadedInv
    <3>3. QED
      BY <3>1, <3>2
  <2>2. CASE n > after
    <3>1. PICK i : i = n - after
      OBVIOUS
    <3>2. i \in 1 .. k /\ i <= PageEnd(after) - after /\ after + i = n
      BY <1>4, <2>2, <3>1
    <3>3. after + i \in ToSet(reported[q]) /\ after + i \in ToSet(results)
      BY <1>a, <1>d, <1>5, <3>2 DEF Received
    <3>4. QED
      BY <3>2, <3>3
  <2>3. QED
    BY <1>4, <2>1, <2>2
<1>6. QED
  BY <1>a, <1>3, <1>5

LEMMA ResolvedStep ==
  ASSUME IInv, NEW q \in Queries, NEW whole, Close(q, whole),
         query[q].at = "streaming", "blank" \in query[q].got
  PROVE  /\ query' \in [Queries -> QueryStates]
         /\ \A p \in Queries : p # q => query'[p] = query[p]
         /\ \A p \in Queries :
              /\ query'[p].at \in {"idle", "streaming", "resolved", "rejected", "pending"}
              /\ query'[p].after \in 0 .. Hits
              /\ query'[p].got \subseteq {"blank", "Resume:", "Errors:"}
         /\ query'[q].at = "resolved" /\ query'[q].after = query[q].after
         /\ query'[q].got = query[q].got /\ query'[q].flawed = query[q].flawed
         /\ query'[q].errored = HasErrors(q)
         /\ HasErrors(q) \in BOOLEAN
         /\ \/ /\ "Resume:" \in query[q].got
               /\ cache' \in [resume : {PageEnd(query[q].after)}, errors : {HasErrors(q)},
                              present : {TRUE}]
            \/ "Resume:" \notin query[q].got /\ cache' = cache
         /\ flawed' \subseteq flawed \cup {query[q].after}
         /\ "Errors:" \notin query[q].got => flawed' \subseteq flawed
         /\ "Errors:" \notin query[q].got /\ "Resume:" \in query[q].got
              => query[q].after \notin flawed'
         /\ late' \in BOOLEAN /\ (late => late')
         /\ ~ late' /\ "Errors:" \in query[q].got =>
              \A p \in Queries : query[p].at = "streaming" => ~ (query[p].after > query[q].after)
<1>o. PICK old : old = query[q]
  OBVIOUS
<1>m. PICK more : more = ("Resume:" \in query[q].got)
  OBVIOUS
<1>e. PICK errored : errored = HasErrors(q)
  OBVIOUS
<1>n. PICK new : new = [old EXCEPT !.at = "resolved", !.more = more, !.errored = errored]
  OBVIOUS
<1>1. old \in QueryStates /\ more \in BOOLEAN /\ errored \in BOOLEAN
  <2>1. HasErrors(q) \in BOOLEAN
    BY QueryFields DEF IInv, HasErrors
  <2>2. QED
    BY <1>o, <1>m, <1>e, <2>1 DEF IInv, TypeInv
<1>2. /\ new \in QueryStates /\ new.at = "resolved" /\ new.after = old.after
      /\ new.got = old.got /\ new.flawed = old.flawed /\ new.errored = errored
  <2>1. new \in QueryStates
    BY <1>1, <1>n DEF QueryStates
  <2>2. new.at = "resolved" /\ new.after = old.after
    BY <1>1, <1>n DEF QueryStates
  <2>3. new.got = old.got /\ new.flawed = old.flawed
    BY <1>1, <1>n DEF QueryStates
  <2>4. new.errored = errored
    BY <1>1, <1>n DEF QueryStates
  <2>5. QED
    BY <2>1, <2>2, <2>3, <2>4
<1>3. query' = [query EXCEPT ![q] = new]
  BY <1>o, <1>m, <1>e, <1>n DEF Close
<1>4. /\ query' \in [Queries -> QueryStates] /\ query'[q] = new
      /\ \A p \in Queries : p # q => query'[p] = query[p]
      /\ \A p \in Queries :
           /\ query'[p].at \in {"idle", "streaming", "resolved", "rejected", "pending"}
           /\ query'[p].after \in 0 .. Hits
           /\ query'[p].got \subseteq {"blank", "Resume:", "Errors:"}
  BY <1>2, <1>3, QueryUpdate DEF IInv
<1>5. \/ /\ "Resume:" \in query[q].got
         /\ cache' \in [resume : {PageEnd(query[q].after)}, errors : {HasErrors(q)},
                        present : {TRUE}]
      \/ "Resume:" \notin query[q].got /\ cache' = cache
  <2>1. CASE "Resume:" \notin query[q].got
    BY <2>1 DEF Close
  <2>2. CASE "Resume:" \in query[q].got
    <3>p. PICK end : end = PageEnd(query[q].after)
      OBVIOUS
    <3>1. cache' = [NoEntry EXCEPT !.present = TRUE, !.errors = errored, !.resume = end]
      BY <1>e, <2>2, <3>p DEF Close
    <3>2. cache' \in [resume : {end}, errors : {errored}, present : {TRUE}]
      BY <3>1 DEF NoEntry
    <3>3. QED
      BY <1>e, <2>2, <3>p, <3>2
  <2>3. QED
    BY <2>1, <2>2
<1>6. flawed' = IF "Errors:" \in query[q].got THEN flawed \cup {query[q].after}
                ELSE IF whole \/ "Resume:" \in query[q].got THEN flawed \ {query[q].after}
                ELSE flawed
  BY DEF Close
<1>7. late' = (late \/ /\ "Errors:" \in query[q].got
                       /\ \E p \in Queries : /\ query[p].at = "streaming"
                                             /\ query[p].after > query[q].after)
  BY DEF Close
<1>8. late \in BOOLEAN
  BY TypeInvFields DEF IInv
<1>9. query'[q].errored = HasErrors(q) /\ HasErrors(q) \in BOOLEAN
  BY <1>e, <1>1, <1>2, <1>4
<1>10. /\ query'[q].at = "resolved" /\ query'[q].after = query[q].after
       /\ query'[q].got = query[q].got /\ query'[q].flawed = query[q].flawed
  BY <1>o, <1>2, <1>4
<1>11. /\ flawed' \subseteq flawed \cup {query[q].after}
       /\ "Errors:" \notin query[q].got => flawed' \subseteq flawed
       /\ "Errors:" \notin query[q].got /\ "Resume:" \in query[q].got
            => query[q].after \notin flawed'
  BY <1>6
<1>12. /\ late' \in BOOLEAN /\ (late => late')
       /\ ~ late' /\ "Errors:" \in query[q].got =>
            \A p \in Queries : query[p].at = "streaming" => ~ (query[p].after > query[q].after)
  BY <1>7, <1>8
<1>13. QED
  BY ONLY <1>4, <1>5, <1>9, <1>10, <1>11, <1>12

LEMMA ResolvedKeeps ==
  ASSUME IInv, NEW q \in Queries, NEW whole, Close(q, whole),
         query[q].at = "streaming", "blank" \in query[q].got,
         UNCHANGED <<results, fetches, reported, unparsable, emptied>>
  PROVE  IInv'
<1>p. PICK page : page = query[q].after
  OBVIOUS
<1>1. /\ query' \in [Queries -> QueryStates]
      /\ \A p \in Queries : p # q => query'[p] = query[p]
      /\ \A p \in Queries :
           /\ query'[p].at \in {"idle", "streaming", "resolved", "rejected", "pending"}
           /\ query'[p].after \in 0 .. Hits
           /\ query'[p].got \subseteq {"blank", "Resume:", "Errors:"}
      /\ query'[q].at = "resolved" /\ query'[q].after = page
      /\ query'[q].got = query[q].got /\ query'[q].flawed = query[q].flawed
      /\ query'[q].errored = HasErrors(q) /\ HasErrors(q) \in BOOLEAN
      /\ \/ /\ "Resume:" \in query[q].got
            /\ cache' \in [resume : {PageEnd(page)}, errors : {HasErrors(q)}, present : {TRUE}]
         \/ "Resume:" \notin query[q].got /\ cache' = cache
      /\ flawed' \subseteq flawed \cup {page}
      /\ "Errors:" \notin query[q].got => flawed' \subseteq flawed
      /\ "Errors:" \notin query[q].got /\ "Resume:" \in query[q].got => page \notin flawed'
      /\ late' \in BOOLEAN /\ (late => late')
      /\ ~ late' /\ "Errors:" \in query[q].got =>
           \A p \in Queries : query[p].at = "streaming" => ~ (query[p].after > page)
  BY <1>p, ResolvedStep
<1>2. /\ "Resume:" \in query[q].got => IsFull(page)
      /\ "Errors:" \in query[q].got /\ IsFull(page) => "Resume:" \in query[q].got
      /\ ~ emptied => /\ 1 .. PageEnd(page) \subseteq ToSet(reported[q])
                     /\ 1 .. PageEnd(page) \subseteq ToSet(results)
  BY <1>p, WholePage
<1>3. /\ page \in 0 .. Hits /\ IsPage(page) /\ PageEnd(page) \in 0 .. Hits
      /\ flawed \subseteq 0 .. Hits
      /\ \A r \in flawed : IsPage(r)
  BY <1>p, QueryFields, PageEndFacts, TypeInvFields DEF IInv, PagesInv
<1>4. \/ /\ "Resume:" \in query[q].got
         /\ cache'.resume = PageEnd(page) /\ cache'.errors = HasErrors(q)
         /\ cache' \in [resume : 0 .. Undefined, errors : BOOLEAN, present : BOOLEAN]
      \/ "Resume:" \notin query[q].got /\ cache' = cache
  <2>1. PageEnd(page) \in 0 .. Undefined
    BY <1>3, Sizes
  <2>2. QED
    BY <1>1, <2>1
<1>5. \A p \in Queries : query'[p].at = "streaming" => p # q /\ query'[p] = query[p]
  BY <1>1
<1>6. TypeInv'
  <2>1. cache' \in [resume : 0 .. Undefined, errors : BOOLEAN, present : BOOLEAN]
    BY <1>4 DEF IInv, TypeInv, TypeOK
  <2>2. flawed' \subseteq 0 .. Hits
    BY <1>1, <1>3
  <2>3. QED
    BY <1>1, <2>1, <2>2 DEF IInv, TypeInv, TypeOK
<1>7. PagesInv'
  <2>1. cache'.resume # Undefined => IsPage(cache'.resume)
    <3>1. CASE cache' = cache
      BY <3>1 DEF IInv, PagesInv
    <3>2. CASE "Resume:" \in query[q].got /\ cache'.resume = PageEnd(page)
      BY <1>2, <1>3, <3>2, NextPage
    <3>3. QED
      BY <1>4, <3>1, <3>2
  <2>2. \A r \in flawed' : IsPage(r)
    BY <1>1, <1>3
  <2>3. \A p \in Queries : IsPage(query'[p].after)
    BY <1>1, <1>3 DEF IInv, PagesInv
  <2>4. QED
    BY <2>1, <2>2, <2>3 DEF PagesInv, IsPage, Undefined
<1>8. StreamInv'
  <2>1. ASSUME NEW p \in Queries, query'[p].at = "streaming" PROVE InResponse(p)'
    <3>1. query'[p] = query[p] /\ reported'[p] = reported[p] /\ query[p].at = "streaming"
      BY <1>5, <2>1
    <3>2. StreamInv /\ (emptied => emptied') /\ ToSet(results) \subseteq ToSet(results')
      BY DEF IInv
    <3>3. QED
      BY ONLY p \in Queries, <3>1, <3>2, StreamKept
  <2>2. QED
    BY <2>1 DEF StreamInv
<1>9. LoadedInv'
  <2> SUFFICES ASSUME ~ emptied
               PROVE  /\ cache'.resume # Undefined => 1 .. cache'.resume \subseteq ToSet(results)'
                      /\ \A p \in Queries :
                           query'[p].at = "streaming" =>
                             /\ 1 .. query'[p].after \subseteq ToSet(reported[p])'
                             /\ 1 .. query'[p].after \subseteq ToSet(results)'
    BY DEF LoadedInv, Undefined
  <2>1. ToSet(results)' = ToSet(results) /\ \A p \in Queries : ToSet(reported[p])' = ToSet(reported[p])
    BY DEF ToSet
  <2>2. cache'.resume # Undefined => 1 .. cache'.resume \subseteq ToSet(results)
    BY <1>2, <1>4 DEF IInv, LoadedInv
  <2>3. ASSUME NEW p \in Queries, query'[p].at = "streaming"
        PROVE  /\ 1 .. query'[p].after \subseteq ToSet(reported[p])
               /\ 1 .. query'[p].after \subseteq ToSet(results)
    BY <1>5, <2>3 DEF IInv, LoadedInv
  <2>4. QED
    BY <2>1, <2>2, <2>3
<1>10. ErrorsInv'
  <2> SUFFICES ASSUME ~ late'
               PROVE  /\ cache'.resume # Undefined /\ (\E r \in flawed' : r < cache'.resume)
                           => cache'.errors
                      /\ \A p \in Queries :
                           query'[p].at = "streaming" =>
                             /\ (\E r \in flawed' : r < query'[p].after) => query'[p].existing
                             /\ query'[p].flawed # {} => query'[p].existing
    BY DEF ErrorsInv, Undefined, FlawedBefore
  <2>1. ~ late /\ page \in Nat /\ PageSize \in Nat /\ PageSize > 0 /\ Hits \in Nat
    BY <1>1, <1>3, Sizes
  <2>2. ASSUME NEW r \in flawed, r < page PROVE query[q].existing
    BY <1>p, <2>1, <2>2 DEF IInv, ErrorsInv, FlawedBefore
  <2>3. ASSUME cache'.resume # Undefined, NEW r \in flawed', r < cache'.resume
        PROVE  cache'.errors
    <3>1. CASE "Resume:" \in query[q].got /\ cache'.resume = PageEnd(page) /\ cache'.errors = HasErrors(q)
      <4>1. PageEnd(page) = page + PageSize
        BY <1>2, <1>3, <3>1, NextPage
      <4>2. CASE r = page
        BY <1>1, <2>3, <3>1, <4>2 DEF HasErrors
      <4>3. CASE r # page
        <5>1. r \in flawed /\ r \in Nat /\ IsPage(r)
          BY <1>1, <1>3, <2>3, <4>3, Sizes
        <5>2. ~ (page < r)
          <6>1. page < r => page + PageSize <= r
            BY <1>3, <5>1, PagesApart
          <6>2. r < page + PageSize
            BY <2>3, <3>1, <4>1
          <6>3. QED
            BY <2>1, <5>1, <6>1, <6>2
        <5>3. r < page
          BY <2>1, <4>3, <5>1, <5>2
        <5>4. QED
          BY <2>2, <3>1, <5>1, <5>3 DEF HasErrors
      <4>4. QED
        BY <4>2, <4>3
    <3>2. CASE "Resume:" \notin query[q].got /\ cache' = cache
      <4>1. CASE r \in flawed
        BY <2>1, <2>3, <3>2, <4>1 DEF IInv, ErrorsInv, FlawedBefore
      <4>2. CASE r \notin flawed
        <5>1. r = page /\ "Errors:" \in query[q].got /\ ~ IsFull(page)
          BY <1>1, <1>2, <2>3, <3>2, <4>2
        <5>2. page + PageSize > Hits
          BY <1>3, <5>1, PageEndFacts
        <5>3. IsPage(cache.resume) /\ cache.resume \in 0 .. Hits
          BY <2>3, <3>2, TypeInvFields DEF IInv, PagesInv
        <5>4. page + PageSize <= cache.resume
          BY <1>3, <2>3, <3>2, <5>1, <5>3, PagesApart
        <5>5. FALSE
          BY ONLY <2>1, <5>2, <5>3, <5>4
        <5>6. QED
          BY <5>5
      <4>3. QED
        BY <4>1, <4>2
    <3>3. QED
      BY <1>4, <3>1, <3>2
  <2>4. ASSUME NEW p \in Queries, query'[p].at = "streaming"
        PROVE  /\ \A r \in flawed' : r < query'[p].after => query'[p].existing
               /\ query'[p].flawed # {} => query'[p].existing
    <3>1. query'[p] = query[p] /\ query[p].at = "streaming"
      BY <1>5, <2>4
    <3>2. query[p].flawed # {} => query[p].existing
      BY <2>1, <3>1 DEF IInv, ErrorsInv
    <3>3. ASSUME NEW r \in flawed', r < query[p].after PROVE query[p].existing
      <4>1. r \in flawed
        <5>1. query[p].after \in Nat
          BY QueryFields, Sizes DEF IInv
        <5>2. r = page => "Errors:" \notin query[q].got
          <6>1. ASSUME r = page, "Errors:" \in query[q].got PROVE FALSE
            <7>1. ~ (query[p].after > page)
              BY <1>1, <3>1, <6>1
            <7>2. page < query[p].after
              BY <3>3, <6>1
            <7>3. QED
              BY ONLY <2>1, <5>1, <7>1, <7>2
          <6>2. QED
            BY <6>1
        <5>3. QED
          BY <1>1, <3>3, <5>2
      <4>2. QED
        BY <2>1, <3>1, <3>3, <4>1 DEF IInv, ErrorsInv, FlawedBefore
    <3>4. QED
      BY <3>1, <3>2, <3>3
  <2>5. QED
    BY <2>3, <2>4
<1>11. NothingLost'
  <2> SUFFICES ASSUME ~ emptied, NEW p \in Queries, query'[p].at = "resolved"
               PROVE  (1 .. PageEnd(query[p].after) \subseteq ToSet(reported[p]))'
    BY DEF NothingLost
  <2>1. 1 .. PageEnd(query'[p].after) \subseteq ToSet(reported[p])
    <3>1. CASE p = q
      BY <1>1, <1>2, <3>1
    <3>2. CASE p # q
      BY <1>1, <3>2 DEF IInv, NothingLost
    <3>3. QED
      BY <3>1, <3>2
  <2>2. QED
    BY <2>1 DEF ToSet, PageEnd
<1>12. ErrorsStay'
  <2> SUFFICES ASSUME ~ late', NEW p \in Queries, query'[p].at = "resolved",
                      query'[p].flawed # {} \/ "Errors:" \in query'[p].got
               PROVE  query'[p].errored
    BY DEF ErrorsStay
  <2>1. CASE p = q
    BY <1>1, <2>1 DEF IInv, ErrorsInv, HasErrors
  <2>2. CASE p # q
    BY <1>1, <2>2 DEF IInv, ErrorsStay
  <2>3. QED
    BY <2>1, <2>2
<1>13. QED
  BY <1>6, <1>7, <1>8, <1>9, <1>10, <1>11, <1>12 DEF IInv

LEMMA CloseKeeps ==
  ASSUME IInv, NEW q \in Queries, NEW whole, Close(q, whole), query[q].at = "streaming",
         UNCHANGED <<results, fetches, reported, unparsable, emptied>>
  PROVE  IInv'
<1>1. CASE "blank" \notin query[q].got
  <2>1. query' = [query EXCEPT ![q] = Ended("rejected")] /\ UNCHANGED <<cache, flawed, late>>
    BY <1>1 DEF Close
  <2>2. QED
    BY <2>1, EndedKeeps
<1>2. CASE "blank" \in query[q].got
  BY <1>2, ResolvedKeeps
<1>3. QED
  BY <1>1, <1>2

LEMMA FinishKeeps ==
  ASSUME IInv, NEW q \in Queries, Finish(q)
  PROVE  IInv'
  BY CloseKeeps DEF Finish

LEMMA TruncateKeeps ==
  ASSUME IInv, NEW q \in Queries, Truncate(q)
  PROVE  IInv'
<1>1. CASE Close(q, FALSE)
  BY <1>1, CloseKeeps DEF Truncate
<1>2. CASE /\ query' = [query EXCEPT ![q] = Ended("pending")]
           /\ UNCHANGED <<cache, flawed, late>>
  BY <1>2, EndedKeeps DEF Truncate
<1>3. QED
  BY <1>1, <1>2 DEF Truncate

LEMMA StutterKeeps ==
  ASSUME IInv, UNCHANGED vars
  PROVE  IInv'
<1> USE DEF vars, history
<1>1. TypeInv'
  BY DEF IInv, TypeInv, TypeOK
<1>2. PagesInv'
  BY DEF IInv, PagesInv, IsPage, Undefined
<1>3. StreamInv'
  <2>1. ASSUME NEW p \in Queries, query'[p].at = "streaming" PROVE InResponse(p)'
    <3>1. query'[p] = query[p] /\ reported'[p] = reported[p] /\ query[p].at = "streaming"
      BY <2>1
    <3>2. StreamInv /\ (emptied => emptied') /\ ToSet(results) \subseteq ToSet(results')
      BY DEF IInv
    <3>3. QED
      BY ONLY p \in Queries, <3>1, <3>2, StreamKept
  <2>2. QED
    BY <2>1 DEF StreamInv
<1>4. LoadedInv'
  BY DEF IInv, LoadedInv, ToSet, Undefined
<1>5. ErrorsInv'
  BY DEF IInv, ErrorsInv, FlawedBefore, Undefined
<1>6. NothingLost'
  BY DEF IInv, NothingLost, ToSet, PageEnd
<1>7. ErrorsStay'
  BY DEF IInv, ErrorsStay
<1>8. QED
  BY <1>1, <1>2, <1>3, <1>4, <1>5, <1>6, <1>7 DEF IInv

-----------------------------------------------------------------------------
LEMMA InitInv == Init => IInv
<1> SUFFICES ASSUME Init PROVE IInv
  OBVIOUS
<1>1. /\ cache = [resume |-> Undefined, errors |-> FALSE, present |-> FALSE]
      /\ results = <<>> /\ fetches = 0 /\ unparsable \in Unparsable
      /\ query = [q \in Queries |-> Idle] /\ reported = [q \in Queries |-> <<>>]
      /\ flawed = {} /\ emptied = FALSE /\ late = FALSE
  BY DEF Init, NoEntry
<1>2. <<>> \in Seq(1 .. Hits) /\ <<>> \in Seq(LinesRead)
  BY EmptySeq
<1>3. 0 \in 0 .. Hits /\ Undefined \in 0 .. Undefined /\ 0 \in 0 .. MaxFetches
  BY Sizes, SizesType
<1>4. Idle \in QueryStates /\ Idle.at = "idle" /\ Idle.after = 0 /\ Idle.got = {}
  BY <1>2, <1>3 DEF Idle, QueryStates
<1>5. \A q \in Queries : query[q] = Idle
  BY <1>1
<1>6. cache \in [resume : 0 .. Undefined, errors : BOOLEAN, present : BOOLEAN]
  BY <1>1, <1>3
<1>7. query \in [Queries -> QueryStates] /\ reported \in [Queries -> Seq(1 .. Hits)]
  BY <1>1, <1>2, <1>4
<1>8. TypeOK
  BY <1>1, <1>2, <1>3, <1>4, <1>5, <1>6, <1>7 DEF TypeOK
<1>9. PagesInv
  BY <1>1, <1>4, <1>5, FirstPage DEF PagesInv
<1>10. StreamInv /\ LoadedInv /\ ErrorsInv /\ NothingLost /\ ErrorsStay
  BY <1>1, <1>4, <1>5 DEF StreamInv, LoadedInv, ErrorsInv, NothingLost, ErrorsStay
<1>11. QED
  BY <1>7, <1>8, <1>9, <1>10 DEF IInv, TypeInv

THEOREM Invariance == Spec => []IInv
<1>1. IInv /\ [Next]_vars => IInv'
  <2> SUFFICES ASSUME IInv, [Next]_vars PROVE IInv'
    OBVIOUS
  <2>1. ASSUME NEW q \in Queries, StartNew(q) PROVE IInv'
    BY <2>1, StartNewKeeps
  <2>2. ASSUME NEW q \in Queries, StartAgain(q) PROVE IInv'
    BY <2>2, StartAgainKeeps
  <2>3. ASSUME NEW q \in Queries, StartNext(q) PROVE IInv'
    BY <2>3, StartNextKeeps
  <2>4. ASSUME NEW q \in Queries, ReceiveLine(q) PROVE IInv'
    BY <2>4, ReceiveLineKeeps
  <2>5. ASSUME NEW q \in Queries, CallbackThrows(q) PROVE IInv'
    BY <2>5, CallbackThrowsKeeps
  <2>6. ASSUME NEW q \in Queries, Finish(q) PROVE IInv'
    BY <2>6, FinishKeeps
  <2>7. ASSUME NEW q \in Queries, Truncate(q) PROVE IInv'
    BY <2>7, TruncateKeeps
  <2>8. CASE UNCHANGED vars
    BY <2>8, StutterKeeps
  <2>9. QED
    BY <2>1, <2>2, <2>3, <2>4, <2>5, <2>6, <2>7, <2>8 DEF Next
<1>2. QED
  BY <1>1, InitInv, PTL DEF Spec

(* The state of the searches keeps its types.                                *)
THEOREM TypeCorrect == Spec => []TypeOK
<1>1. IInv => TypeOK
  BY DEF IInv, TypeInv
<1>2. QED
  BY <1>1, Invariance, PTL

(* A search that resolves has shown every hit up to the end of its page, for *)
(* any number of queries that share the array of results, in any order, with *)
(* any responses cut: unless the array was emptied under a query.            *)
THEOREM NoHitLost == Spec => []NothingLost
<1>1. IInv => NothingLost
  BY DEF IInv
<1>2. QED
  BY <1>1, Invariance, PTL

(* The warning that results may be incomplete stays with every later page,   *)
(* unless a query had begun a later page before the errors were read.        *)
THEOREM WarningStays == Spec => []ErrorsStay
<1>1. IInv => ErrorsStay
  BY DEF IInv
<1>2. QED
  BY <1>1, Invariance, PTL

=============================================================================
