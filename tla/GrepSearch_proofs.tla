-------------------------- MODULE GrepSearch_proofs --------------------------
(* GrepSearch keeps RangesAreMatches, SinglePageComplete and ErrorsReported, *)
(* for all files, globs, indexes and limits.  The lemmas are about the       *)
(* operators that the model is built from: the arithmetic of lines in        *)
(* LineMatcher, its loop (ReaderLeads), the filters of Globs (CanMatch,      *)
(* MustMatch), and the order of the visit (AllScanned).                      *)
EXTENDS GrepSearch, FiniteSetTheorems, WellFoundedInduction, TLAPS

(* Minima, and induction, of sets of numbers.                                *)
LEMMA LeastNumber ==
  ASSUME NEW T \in SUBSET Nat, T # {}
  PROVE  \E x \in T : \A y \in T : x <= y
<1>1. PICK x \in T : \A y \in T : ~ (<<y, x>> \in OpToRel(<, Nat))
  BY NatLessThanWellFounded, WFMin
<1>2. \A y \in T : ~ (y < x)
  BY <1>1 DEF OpToRel
<1> QED BY <1>2

LEMMA SetInduction ==
  ASSUME NEW S, 0 \in S, \A n \in Nat : n \in S => n + 1 \in S
  PROVE  Nat \subseteq S
<1> DEFINE T == Nat \ S
<1> SUFFICES ASSUME T # {} PROVE FALSE
  OBVIOUS
<1>1. PICK x \in T : \A y \in T : x <= y
  BY LeastNumber
<1>2. x - 1 \in Nat /\ x - 1 \notin T
  BY <1>1
<1> QED BY <1>2

LEMMA MinIsLeast ==
  ASSUME NEW S \in SUBSET Nat, S # {}
  PROVE  Min(S) \in S /\ \A y \in S : Min(S) <= y
<1>1. \E x \in S : \A y \in S : x <= y
  BY LeastNumber
<1> QED BY <1>1, Zenon DEF Min

LEMMA MaxIsGreatest ==
  ASSUME NEW n \in Nat, NEW S \in SUBSET (0 .. n), S # {}
  PROVE  Max(S) \in S /\ \A y \in S : y <= Max(S)
<1> DEFINE T == {k \in Nat : n - k \in S}
<1>1. T # {}
  <2>1. PICK y \in S : TRUE
    OBVIOUS
  <2>2. n - y \in Nat /\ n - (n - y) = y
    OBVIOUS
  <2> QED BY <2>1, <2>2
<1>2. PICK k \in T : \A j \in T : k <= j
  BY <1>1, LeastNumber
<1>3. \A y \in S : n - y \in T
  OBVIOUS
<1>4. \A y \in S : y <= n - k
  BY <1>2, <1>3
<1>5. \E x \in S : \A y \in S : x >= y
  BY <1>2, <1>4
<1>6. Max(S) \in S /\ \A y \in S : Max(S) >= y
  BY <1>5, Zenon DEF Max
<1> QED BY <1>6

(* A function that is defined step by step exists.                           *)
Runs(X, first, step, c) ==
  {g \in [0 .. c -> X] : g[0] = first /\ \A k \in 1 .. c : g[k] = step[g[k - 1]]}

LEMMA Iteration ==
  ASSUME NEW X, NEW first \in X, NEW step \in [X -> X], NEW c \in Nat
  PROVE  Runs(X, first, step, c) # {}
<1> DEFINE Run(n) == {g \in [0 .. n -> X] :
                        g[0] = first /\ \A k \in 1 .. n : g[k] = step[g[k - 1]]}
           S == {n \in Nat : Run(n) # {}}
<1>1. 0 \in S
  <2>1. [k \in 0 .. 0 |-> first] \in Run(0)
    OBVIOUS
  <2> QED BY <2>1
<1>2. ASSUME NEW n \in Nat, n \in S PROVE n + 1 \in S
  <2>1. PICK g : g \in Run(n)
    BY <1>2
  <2> DEFINE h == [k \in 0 .. n + 1 |-> IF k = n + 1 THEN step[g[n]] ELSE g[k]]
  <2>2. h \in [0 .. n + 1 -> X]
    BY <2>1
  <2>3. h[0] = first
    BY <2>1
  <2>4. ASSUME NEW k \in 1 .. n + 1 PROVE h[k] = step[h[k - 1]]
    <3>1. CASE k = n + 1
      BY <3>1
    <3>2. CASE k # n + 1
      <4>1. k \in 1 .. n /\ k - 1 \in 0 .. n
        BY <3>2
      <4>2. h[k] = g[k] /\ h[k - 1] = g[k - 1]
        BY <4>1
      <4> QED BY <4>1, <4>2, <2>1
    <3> QED BY <3>1, <3>2
  <2>5. h \in Run(n + 1)
    BY <2>2, <2>3, <2>4
  <2> QED BY <2>5
<1>3. Nat \subseteq S
  <2> HIDE DEF S
  <2> QED BY <1>1, <1>2, SetInduction
<1>4. Run(c) # {}
  BY <1>3
<1> QED BY <1>4 DEF Runs

-----------------------------------------------------------------------------
(* Where the line of an offset starts and ends.                              *)
LEMMA LineStartIs ==
  ASSUME NEW f, IsText(f), NEW i \in Nat
  PROVE  /\ LineStart(f, i) \in 0 .. i
         /\ LineStart(f, i) = 0 \/ LineStart(f, i) - 1 \in f.newlines
         /\ \A n \in f.newlines : n < i => n < LineStart(f, i)
<1> DEFINE S == {0} \cup {n + 1 : n \in {m \in f.newlines : m < i}}
<1>1. S \in SUBSET (0 .. i) /\ S # {}
  BY DEF IsText
<1>2. Max(S) \in S /\ \A y \in S : y <= Max(S)
  <2> HIDE DEF S
  <2> QED BY <1>1, MaxIsGreatest
<1>3. LineStart(f, i) = Max(S)
  BY DEF LineStart
<1>4. PICK m : m = Max(S)
  OBVIOUS
<1>5. m \in S /\ \A y \in S : y <= m
  BY <1>2, <1>4
<1>6. m \in 0 .. i /\ (m = 0 \/ m - 1 \in f.newlines)
  BY <1>5 DEF IsText
<1>7. ASSUME NEW n \in f.newlines, n < i PROVE n < m
  <2>1. n + 1 <= m /\ n \in Nat
    BY <1>5, <1>7 DEF IsText
  <2> QED BY <2>1, <1>6
<1> QED BY <1>3, <1>4, <1>6, <1>7

LEMMA LineEndIs ==
  ASSUME NEW f, IsText(f), NEW i \in 0 .. f.size
  PROVE  /\ LineEnd(f, i) \in i .. f.size
         /\ LineEnd(f, i) = f.size \/ LineEnd(f, i) \in f.newlines
         /\ \A n \in f.newlines : n >= i => LineEnd(f, i) <= n
<1> DEFINE S == {f.size} \cup {n \in f.newlines : n >= i}
<1>1. S \in SUBSET Nat /\ S # {}
  BY DEF IsText
<1>2. Min(S) \in S /\ \A y \in S : Min(S) <= y
  <2> HIDE DEF S
  <2> QED BY <1>1, MinIsLeast
<1>3. LineEnd(f, i) = Min(S)
  BY DEF LineEnd
<1>4. PICK m : m = Min(S)
  OBVIOUS
<1>5. m \in S /\ \A y \in S : m <= y
  BY <1>2, <1>4
<1>6. m \in i .. f.size /\ (m = f.size \/ m \in f.newlines)
  BY <1>5 DEF IsText
<1> QED BY <1>3, <1>4, <1>5, <1>6

(* Numbers of newlines.                                                      *)
LEMMA NewlinesType ==
  ASSUME NEW f, IsText(f), NEW i, NEW j
  PROVE  /\ Newlines(f, i, j) \in Nat
         /\ IsFiniteSet({n \in f.newlines : i <= n /\ n < j})
<1>1. IsFiniteSet(0 .. f.size - 1)
  BY FS_Interval DEF IsText
<1>2. {n \in f.newlines : i <= n /\ n < j} \in SUBSET (0 .. f.size - 1)
  BY DEF IsText
<1>3. IsFiniteSet({n \in f.newlines : i <= n /\ n < j})
  BY <1>1, <1>2, FS_Subset
<1> QED BY <1>3, FS_CardinalityType DEF Newlines

LEMMA NewlinesAdd ==
  ASSUME NEW f, IsText(f), NEW i \in Nat, NEW j \in Nat, NEW k \in Nat, i <= j, j <= k
  PROVE  Newlines(f, i, k) = Newlines(f, i, j) + Newlines(f, j, k)
<1> DEFINE A == {n \in f.newlines : i <= n /\ n < j}
           B == {n \in f.newlines : j <= n /\ n < k}
           C == {n \in f.newlines : i <= n /\ n < k}
<1>1. f.newlines \subseteq Nat
  BY DEF IsText
<1>2. C = A \cup B /\ A \cap B = {}
  BY <1>1
<1>3. IsFiniteSet(A) /\ IsFiniteSet(B) /\ Cardinality(A) \in Nat /\ Cardinality(B) \in Nat
  BY NewlinesType DEF Newlines
<1>4. Cardinality(C) = Cardinality(A) + Cardinality(B)
  <2> HIDE DEF A, B, C
  <2>1. Cardinality(A \cup B) = Cardinality(A) + Cardinality(B) - Cardinality(A \cap B)
    BY <1>3, FS_Union
  <2>2. Cardinality(A \cap B) = 0
    BY <1>2, FS_EmptySet
  <2>3. Cardinality(A \cup B) = Cardinality(C)
    BY <1>2
  <2> QED BY ONLY <1>3, <2>1, <2>2, <2>3
<1> QED BY <1>4 DEF Newlines

LEMMA NewlinesNone ==
  ASSUME NEW f, NEW i, NEW j, \A n \in f.newlines : ~ (i <= n /\ n < j)
  PROVE  Newlines(f, i, j) = 0
<1>1. {n \in f.newlines : i <= n /\ n < j} = {}
  OBVIOUS
<1> QED BY <1>1, FS_EmptySet DEF Newlines

LEMMA NewlinesOne ==
  ASSUME NEW f, NEW i, NEW j, NEW m \in f.newlines, i <= m, m < j,
         \A n \in f.newlines : i <= n /\ n < j => n = m
  PROVE  Newlines(f, i, j) = 1
<1>1. {n \in f.newlines : i <= n /\ n < j} = {m}
  OBVIOUS
<1> QED BY <1>1, FS_Singleton DEF Newlines

(* No newline is between the start of a line and an offset in the line, or   *)
(* between the offset and the end.                                           *)
LEMMA SameLine ==
  ASSUME NEW f, IsText(f), NEW i \in 0 .. f.size
  PROVE  /\ Newlines(f, 0, i) = Newlines(f, 0, LineStart(f, i))
         /\ Newlines(f, 0, LineEnd(f, i)) = Newlines(f, 0, i)
<1>0. f.size \in Nat /\ i \in Nat /\ f.newlines \subseteq Nat
  BY DEF IsText
<1>1. PICK a : a = LineStart(f, i)
  OBVIOUS
<1>2. PICK b : b = LineEnd(f, i)
  OBVIOUS
<1>3. /\ a \in 0 .. i /\ b \in i .. f.size
      /\ \A n \in f.newlines : n < i => n < a
      /\ \A n \in f.newlines : n >= i => b <= n
  BY <1>0, <1>1, <1>2, LineStartIs, LineEndIs
<1>4. Newlines(f, a, i) = 0 /\ Newlines(f, i, b) = 0
  <2>1. \A n \in f.newlines : ~ (a <= n /\ n < i)
    BY <1>0, <1>3
  <2>2. \A n \in f.newlines : ~ (i <= n /\ n < b)
    BY <1>0, <1>3
  <2> QED BY <2>1, <2>2, NewlinesNone
<1>5. a \in Nat /\ b \in Nat /\ 0 <= a /\ a <= i /\ 0 <= i /\ i <= b
  BY <1>0, <1>3
<1>6. /\ Newlines(f, 0, i) = Newlines(f, 0, a) + Newlines(f, a, i)
      /\ Newlines(f, 0, b) = Newlines(f, 0, i) + Newlines(f, i, b)
  BY <1>0, <1>5, NewlinesAdd
<1>7. Newlines(f, 0, a) \in Nat /\ Newlines(f, 0, i) \in Nat
  BY NewlinesType
<1> QED BY ONLY <1>1, <1>2, <1>4, <1>6, <1>7

IsLineStart(f, i) == i = 0 \/ i - 1 \in f.newlines
IsLineEnd(f, i)   == i = f.size \/ i \in f.newlines

(* BeforeContext goes back over whole lines, as many as it counts, and stops *)
(* early only at the start of the file.                                      *)
BeforeStep(f) ==
  [x \in (0 .. f.size) \X Nat |->
     IF x[1] = 0 THEN x ELSE <<LineStart(f, x[1] - 1), x[2] + 1>>]

LEMMA BeforeContextIs ==
  ASSUME NEW f, IsText(f), NEW i \in 0 .. f.size, IsLineStart(f, i), NEW context \in Nat
  PROVE  \E from \in 0 .. i, lines \in 0 .. context :
           /\ BeforeContext(f, i, context) = <<from, lines>>
           /\ Newlines(f, from, i) = lines
           /\ lines = context \/ from = 0
<1> DEFINE X == (0 .. f.size) \X Nat
<1>0. f.size \in Nat /\ i \in Nat /\ f.newlines \subseteq Nat
  BY DEF IsText
<1>1. BeforeStep(f) \in [X -> X]
  <2> SUFFICES ASSUME NEW x \in X, x[1] # 0
               PROVE  <<LineStart(f, x[1] - 1), x[2] + 1>> \in X
    BY DEF BeforeStep
  <2>1. x[1] \in 0 .. f.size /\ x[2] \in Nat
    OBVIOUS
  <2>2. x[1] - 1 \in Nat /\ x[1] - 1 <= f.size
    BY <1>0, <2>1
  <2>3. LineStart(f, x[1] - 1) \in 0 .. x[1] - 1
    BY <2>2, LineStartIs
  <2>4. LineStart(f, x[1] - 1) \in 0 .. f.size
    BY <1>0, <2>1, <2>2, <2>3
  <2> QED BY <2>1, <2>4
<1>2. PICK g \in [0 .. context -> X] :
        g[0] = <<i, 0>> /\ \A k \in 1 .. context : g[k] = BeforeStep(f)[g[k - 1]]
  <2>1. <<i, 0>> \in X
    BY <1>0
  <2> HIDE DEF X
  <2>2. Runs(X, <<i, 0>>, BeforeStep(f), context) # {}
    BY ONLY <1>1, <2>1, context \in Nat, Iteration
  <2> QED BY <2>2 DEF Runs
<1> DEFINE Eq(h) == h = [k \in 0 .. context |->
                          IF k = 0 THEN <<i, 0>>
                          ELSE IF h[k - 1][1] = 0 THEN h[k - 1]
                          ELSE <<LineStart(f, h[k - 1][1] - 1), h[k - 1][2] + 1>>]
<1>3. Eq(g)
  <2> SUFFICES ASSUME NEW k \in 0 .. context
               PROVE  g[k] = IF k = 0 THEN <<i, 0>>
                             ELSE IF g[k - 1][1] = 0 THEN g[k - 1]
                             ELSE <<LineStart(f, g[k - 1][1] - 1), g[k - 1][2] + 1>>
    OBVIOUS
  <2>1. CASE k = 0
    BY <2>1, <1>2
  <2>2. CASE k # 0
    <3>1. k \in 1 .. context /\ k - 1 \in 0 .. context
      BY <2>2
    <3>2. g[k] = BeforeStep(f)[g[k - 1]] /\ g[k - 1] \in X
      BY <3>1, <1>2
    <3> QED BY <3>2, <2>2 DEF BeforeStep
  <2> QED BY <2>1, <2>2
<1>4. PICK h : Eq(h) /\ BeforeContext(f, i, context) = h[context]
  <2>1. \E h : Eq(h)
    BY <1>3
  <2> QED BY <2>1, Zenon DEF BeforeContext
<1> DEFINE Good(p, k) == \E from \in 0 .. i, lines \in 0 .. k :
                           /\ p = <<from, lines>>
                           /\ Newlines(f, from, i) = lines
                           /\ IsLineStart(f, from)
                           /\ lines = k \/ from = 0
           S == {k \in Nat : k <= context => Good(h[k], k)}
<1>5. 0 \in S
  <2>1. h[0] = <<i, 0>>
    BY <1>4
  <2>2. Newlines(f, i, i) = 0
    <3>1. f.newlines \subseteq Nat /\ i \in Nat
      BY <1>0 DEF IsText
    <3>2. \A n \in f.newlines : ~ (i <= n /\ n < i)
      BY ONLY <3>1
    <3> QED BY ONLY <3>2, NewlinesNone
  <2>3. Good(h[0], 0)
    <3>1. i \in 0 .. i /\ 0 \in 0 .. 0
      BY <1>0
    <3> QED BY <2>1, <2>2, <3>1
  <2> QED BY <2>3
<1>6. ASSUME NEW k \in Nat, k \in S PROVE k + 1 \in S
  <2> SUFFICES ASSUME k + 1 <= context PROVE Good(h[k + 1], k + 1)
    <3> HIDE DEF Good
    <3> QED OBVIOUS
  <2>1. PICK from \in 0 .. i, lines \in 0 .. k :
          /\ h[k] = <<from, lines>>
          /\ Newlines(f, from, i) = lines
          /\ IsLineStart(f, from)
          /\ lines = k \/ from = 0
    BY <1>6
  <2>2. h[k + 1] = IF h[k][1] = 0 THEN h[k] ELSE <<LineStart(f, h[k][1] - 1), h[k][2] + 1>>
    <3>1. k + 1 \in 0 .. context /\ k + 1 # 0 /\ (k + 1) - 1 = k
      OBVIOUS
    <3> QED BY <3>1, <1>4
  <2>3. h[k + 1] = IF from = 0 THEN <<from, lines>> ELSE <<LineStart(f, from - 1), lines + 1>>
    BY <2>1, <2>2
  <2>4. CASE from = 0
    BY <2>1, <2>3, <2>4
  <2>5. CASE from # 0
    <3>1. from - 1 \in f.newlines /\ from - 1 \in Nat /\ from \in Nat /\ lines = k
      BY <2>1, <2>5, <1>0 DEF IsLineStart
    <3>2. PICK a : a = LineStart(f, from - 1)
      OBVIOUS
    <3>3. /\ a \in 0 .. from - 1 /\ IsLineStart(f, a)
          /\ \A n \in f.newlines : n < from - 1 => n < a
      BY <3>1, <3>2, LineStartIs DEF IsLineStart
    <3>4. Newlines(f, a, from) = 1
      <4>1. ASSUME NEW n \in f.newlines, a <= n, n < from PROVE n = from - 1
        <5>1. n \in Nat /\ from \in Nat /\ ~ (n < from - 1)
          <6>1. n \in Nat /\ a \in Nat /\ from \in Nat
            <7>1. n \in Nat
              BY DEF IsText
            <7> QED BY ONLY <3>1, <3>3, <7>1
          <6>2. n < from - 1 => n < a
            BY ONLY <3>3, n \in f.newlines
          <6> QED BY ONLY <4>1, <6>1, <6>2
        <5> QED BY ONLY <5>1, <4>1
      <4>2. a <= from - 1 /\ from - 1 < from
        BY <3>1, <3>3
      <4> QED BY <4>1, <4>2, <3>1, NewlinesOne
    <3>5. Newlines(f, a, i) = Newlines(f, a, from) + Newlines(f, from, i)
      <4>1. a \in Nat /\ a <= from /\ from <= i
        BY <1>0, <3>1, <3>3
      <4> QED BY <4>1, <3>1, <1>0, NewlinesAdd
    <3>6. Newlines(f, a, i) = lines + 1
      BY <3>4, <3>5, <2>1
    <3>7. h[k + 1] = <<a, lines + 1>>
      BY <2>3, <2>5, <3>2
    <3>8. a \in 0 .. i /\ lines + 1 \in 0 .. k + 1 /\ lines + 1 = k + 1
      BY <1>0, <3>1, <3>3
    <3> QED BY <3>3, <3>6, <3>7, <3>8
  <2> QED BY <2>4, <2>5
<1>7. context \in S
  <2> HIDE DEF S
  <2> QED BY <1>5, <1>6, SetInduction
<1>8. Good(h[context], context)
  BY <1>7
<1> QED BY <1>4, <1>8

(* AfterContext goes on over whole lines in the same way.                    *)
AfterStep(f) ==
  [x \in (0 .. f.size) \X Nat |->
     IF x[1] = f.size THEN x ELSE <<LineEnd(f, x[1] + 1), x[2] + 1>>]

LEMMA AfterContextIs ==
  ASSUME NEW f, IsText(f), NEW i \in 0 .. f.size, IsLineEnd(f, i), NEW context \in Nat
  PROVE  \E to \in i .. f.size, lines \in 0 .. context :
           /\ AfterContext(f, i, context) = <<to, lines>>
           /\ Newlines(f, i, to) = lines
           /\ lines = context \/ to = f.size
<1> DEFINE X == (0 .. f.size) \X Nat
<1>0. f.size \in Nat /\ i \in Nat /\ f.newlines \subseteq Nat
  BY DEF IsText
<1>1. AfterStep(f) \in [X -> X]
  <2> SUFFICES ASSUME NEW x \in X, x[1] # f.size
               PROVE  <<LineEnd(f, x[1] + 1), x[2] + 1>> \in X
    BY DEF AfterStep
  <2>1. x[1] \in 0 .. f.size /\ x[2] \in Nat
    OBVIOUS
  <2>2. x[1] + 1 \in 0 .. f.size
    BY <1>0, <2>1
  <2>3. LineEnd(f, x[1] + 1) \in x[1] + 1 .. f.size
    BY <2>2, LineEndIs
  <2>4. LineEnd(f, x[1] + 1) \in 0 .. f.size
    BY <1>0, <2>1, <2>2, <2>3
  <2> QED BY <2>1, <2>4
<1>2. PICK g \in [0 .. context -> X] :
        g[0] = <<i, 0>> /\ \A k \in 1 .. context : g[k] = AfterStep(f)[g[k - 1]]
  <2>1. <<i, 0>> \in X
    BY <1>0
  <2> HIDE DEF X
  <2>2. Runs(X, <<i, 0>>, AfterStep(f), context) # {}
    BY ONLY <1>1, <2>1, context \in Nat, Iteration
  <2> QED BY <2>2 DEF Runs
<1> DEFINE Eq(h) == h = [k \in 0 .. context |->
                          IF k = 0 THEN <<i, 0>>
                          ELSE IF h[k - 1][1] = f.size THEN h[k - 1]
                          ELSE <<LineEnd(f, h[k - 1][1] + 1), h[k - 1][2] + 1>>]
<1>3. Eq(g)
  <2> SUFFICES ASSUME NEW k \in 0 .. context
               PROVE  g[k] = IF k = 0 THEN <<i, 0>>
                             ELSE IF g[k - 1][1] = f.size THEN g[k - 1]
                             ELSE <<LineEnd(f, g[k - 1][1] + 1), g[k - 1][2] + 1>>
    OBVIOUS
  <2>1. CASE k = 0
    BY <2>1, <1>2
  <2>2. CASE k # 0
    <3>1. k \in 1 .. context /\ k - 1 \in 0 .. context
      BY <2>2
    <3>2. g[k] = AfterStep(f)[g[k - 1]] /\ g[k - 1] \in X
      BY <3>1, <1>2
    <3> QED BY <3>2, <2>2 DEF AfterStep
  <2> QED BY <2>1, <2>2
<1>4. PICK h : Eq(h) /\ AfterContext(f, i, context) = h[context]
  <2>1. \E h : Eq(h)
    BY <1>3
  <2> QED BY <2>1, Zenon DEF AfterContext
<1> DEFINE Good(p, k) == \E to \in i .. f.size, lines \in 0 .. k :
                           /\ p = <<to, lines>>
                           /\ Newlines(f, i, to) = lines
                           /\ IsLineEnd(f, to)
                           /\ lines = k \/ to = f.size
           S == {k \in Nat : k <= context => Good(h[k], k)}
<1>5. 0 \in S
  <2>1. h[0] = <<i, 0>>
    BY <1>4
  <2>2. Newlines(f, i, i) = 0
    <3>1. f.newlines \subseteq Nat /\ i \in Nat
      BY <1>0 DEF IsText
    <3>2. \A n \in f.newlines : ~ (i <= n /\ n < i)
      BY ONLY <3>1
    <3> QED BY ONLY <3>2, NewlinesNone
  <2>3. Good(h[0], 0)
    <3>1. i \in i .. f.size /\ 0 \in 0 .. 0
      BY <1>0
    <3> QED BY <2>1, <2>2, <3>1
  <2> QED BY <2>3
<1>6. ASSUME NEW k \in Nat, k \in S PROVE k + 1 \in S
  <2> SUFFICES ASSUME k + 1 <= context PROVE Good(h[k + 1], k + 1)
    <3> HIDE DEF Good
    <3> QED OBVIOUS
  <2>1. PICK to \in i .. f.size, lines \in 0 .. k :
          /\ h[k] = <<to, lines>>
          /\ Newlines(f, i, to) = lines
          /\ IsLineEnd(f, to)
          /\ lines = k \/ to = f.size
    BY <1>6
  <2>2. h[k + 1] = IF h[k][1] = f.size THEN h[k] ELSE <<LineEnd(f, h[k][1] + 1), h[k][2] + 1>>
    <3>1. k + 1 \in 0 .. context /\ k + 1 # 0 /\ (k + 1) - 1 = k
      OBVIOUS
    <3> QED BY <3>1, <1>4
  <2>3. h[k + 1] = IF to = f.size THEN <<to, lines>> ELSE <<LineEnd(f, to + 1), lines + 1>>
    BY <2>1, <2>2
  <2>4. CASE to = f.size
    BY <2>1, <2>3, <2>4
  <2>5. CASE to # f.size
    <3>1. to \in f.newlines /\ to + 1 \in 0 .. f.size /\ to \in Nat /\ lines = k
      <4>1. to \in f.newlines /\ lines = k
        BY <2>1, <2>5 DEF IsLineEnd
      <4>2. f.newlines \subseteq 0 .. f.size - 1 /\ f.size \in Nat
        BY DEF IsText
      <4> QED BY ONLY <4>1, <4>2
    <3>2. PICK a : a = LineEnd(f, to + 1)
      OBVIOUS
    <3>3. /\ a \in to + 1 .. f.size /\ IsLineEnd(f, a)
          /\ \A n \in f.newlines : n >= to + 1 => a <= n
      BY <3>1, <3>2, LineEndIs DEF IsLineEnd
    <3>4. Newlines(f, to, a) = 1
      <4>1. ASSUME NEW n \in f.newlines, to <= n, n < a PROVE n = to
        <5>1. n \in Nat /\ to \in Nat /\ a \in Nat /\ ~ (n >= to + 1)
          BY <1>0, <3>1, <3>3, <4>1
        <5> QED BY ONLY <5>1, <4>1
      <4>2. to <= to /\ to < a
        BY <1>0, <3>1, <3>3
      <4> QED BY <4>1, <4>2, <3>1, NewlinesOne
    <3>5. Newlines(f, i, a) = Newlines(f, i, to) + Newlines(f, to, a)
      <4>1. a \in Nat /\ i <= to /\ to <= a
        BY <1>0, <3>1, <3>3
      <4> QED BY <4>1, <3>1, <1>0, NewlinesAdd
    <3>6. Newlines(f, i, a) = lines + 1
      BY <3>4, <3>5, <2>1
    <3>7. h[k + 1] = <<a, lines + 1>>
      BY <2>3, <2>5, <3>2
    <3>8. a \in i .. f.size /\ lines + 1 \in 0 .. k + 1 /\ lines + 1 = k + 1
      BY <1>0, <3>1, <3>3
    <3> QED BY <3>3, <3>6, <3>7, <3>8
  <2> QED BY <2>4, <2>5
<1>7. context \in S
  <2> HIDE DEF S
  <2> QED BY <1>5, <1>6, SetInduction
<1>8. Good(h[context], context)
  BY <1>7
<1> QED BY <1>4, <1>8

-----------------------------------------------------------------------------
(* A line that Grep.Reader prints of the match at s is what the client       *)
(* expects, if the number of the line at chunkStart is right.                *)
Leads(f, context, p, s) ==
  /\ ClientRange(f, p) = RangeOf(f, s)
  /\ ClientContext(f, p) = ContextLines(f, s, context)
  /\ Newlines(f, 0, p.from) + 1 = p.contextStart

LEMMA MatchLineLeads ==
  ASSUME NEW f, IsText(f), NEW context \in Nat, NEW c \in Nat, NEW s \in DOMAIN f.hits,
         IsLineStart(f, c), c <= s
  PROVE  Leads(f, context, MatchLine(f, context, c, Newlines(f, 0, c) + 1, s), s)
<1>0. /\ f.size \in Nat /\ s \in 0 .. f.size /\ f.newlines \subseteq Nat
      /\ f.hits[s] \in s .. f.size /\ f.hits[s] \in 0 .. f.size
  <2>1. f.size \in Nat /\ s \in 0 .. f.size /\ f.newlines \subseteq Nat /\ f.hits[s] \in s .. f.size
    BY DEF IsText
  <2>2. f.hits[s] \in 0 .. f.size
    BY ONLY <2>1
  <2> QED BY <2>1, <2>2
<1>1. PICK e : e = f.hits[s]
  OBVIOUS
<1>2. PICK ls : ls = LineStart(f, s)
  OBVIOUS
<1>3. PICK le : le = LineEnd(f, e)
  OBVIOUS
<1>4. /\ ls \in 0 .. s /\ IsLineStart(f, ls) /\ \A n \in f.newlines : n < s => n < ls
      /\ le \in e .. f.size /\ IsLineEnd(f, le)
  <2>1. s \in Nat
    BY <1>0
  <2> QED BY <2>1, <1>0, <1>1, <1>2, <1>3, LineStartIs, LineEndIs DEF IsLineStart, IsLineEnd
<1>5. ls \in 0 .. f.size /\ le \in 0 .. f.size /\ e \in s .. f.size
  BY ONLY <1>0, <1>1, <1>4
<1>6. PICK from \in 0 .. ls, b \in 0 .. context :
        /\ BeforeContext(f, ls, context) = <<from, b>>
        /\ Newlines(f, from, ls) = b
        /\ b = context \/ from = 0
  BY <1>4, <1>5, BeforeContextIs
<1>7. PICK to \in le .. f.size, a \in 0 .. context :
        /\ AfterContext(f, le, context) = <<to, a>>
        /\ Newlines(f, le, to) = a
        /\ a = context \/ to = f.size
  BY <1>4, <1>5, AfterContextIs
<1>8. c <= ls
  <2>1. CASE c = 0
    BY <2>1, <1>4
  <2>2. CASE c - 1 \in f.newlines
    <3>1. c - 1 < s
      BY <1>0
    <3>2. c - 1 < ls
      BY <2>2, <3>1, <1>4
    <3> QED BY <3>2, <1>4, <1>0
  <2> QED BY <2>1, <2>2 DEF IsLineStart
<1>9. PICK p : p = MatchLine(f, context, c, Newlines(f, 0, c) + 1, s)
  OBVIOUS
<1>10. /\ p.contextStart = (Newlines(f, 0, c) + 1) + Newlines(f, c, ls) - b
       /\ p.beforeContext = b /\ p.afterContext = a
       /\ p.startCol = s - ls + 1 /\ p.endCol = e - LineStart(f, e) + 1
       /\ p.from = from /\ p.to = to
  BY <1>1, <1>2, <1>3, <1>6, <1>7, <1>9 DEF MatchLine
<1>11. PICK first : first = Newlines(f, 0, ls) + 1
  OBVIOUS
<1>12. PICK last : last = Newlines(f, 0, le) + 1
  OBVIOUS
<1>13. PICK all : all = LastLine(f)
  OBVIOUS
<1> DEFINE N(i, j) == Newlines(f, i, j)
<1>14. /\ N(0, c) \in Nat /\ N(c, ls) \in Nat /\ N(0, ls) \in Nat /\ N(0, from) \in Nat
       /\ N(from, to) \in Nat /\ N(ls, le) \in Nat /\ N(0, le) \in Nat /\ N(0, to) \in Nat
       /\ N(to, f.size) \in Nat /\ N(0, f.size) \in Nat
  BY NewlinesType
<1>15. /\ c \in Nat /\ ls \in Nat /\ le \in Nat /\ from \in Nat /\ to \in Nat /\ f.size \in Nat
       /\ c <= ls /\ from <= ls /\ ls <= le /\ le <= to /\ to <= f.size /\ from <= to
  BY ONLY <1>0, <1>1, <1>4, <1>8, from \in 0 .. ls, to \in le .. f.size, c \in Nat
<1>16. /\ N(0, ls) = N(0, c) + N(c, ls)
       /\ N(0, ls) = N(0, from) + N(from, ls)
       /\ N(0, le) = N(0, ls) + N(ls, le)
       /\ N(0, to) = N(0, le) + N(le, to)
       /\ N(0, to) = N(0, from) + N(from, to)
       /\ N(0, f.size) = N(0, to) + N(to, f.size)
  BY ONLY <1>15, IsText(f), NewlinesAdd
<1> HIDE DEF N
<1>17. N(from, ls) = b /\ N(le, to) = a /\ first = N(0, ls) + 1 /\ last = N(0, le) + 1
  BY <1>6, <1>7, <1>11, <1>12 DEF N
<1>18. all = N(0, f.size) + 1 /\ TextLines(f, p) = N(from, to) + 1
  BY <1>10, <1>13 DEF N, LastLine, TextLines
<1>19. p.contextStart = N(0, c) + 1 + N(c, ls) - b
  BY <1>10 DEF N
<1>20. b \in 0 .. context /\ a \in 0 .. context /\ context \in Nat
  OBVIOUS
<1>21. p.contextStart = first - b
  BY ONLY <1>14, <1>16, <1>17, <1>19, <1>20
<1>22. EndLine(f, p) = last
  <2>1. EndLine(f, p) = first - b + (N(from, to) + 1) - a - 1
    BY <1>10, <1>18, <1>21 DEF EndLine
  <2> QED BY ONLY <1>14, <1>16, <1>17, <1>20, <2>1
<1>23. RangeOf(f, s) = << <<first - 1, s - ls>>, <<last - 1, e - LineStart(f, e)>> >>
  <2>1. N(0, s) = N(0, ls)
    BY <1>0, <1>2, SameLine DEF N
  <2>2. N(0, e) = N(0, le)
    BY <1>0, <1>1, <1>3, SameLine DEF N
  <2>3. first - 1 = N(0, s) /\ last - 1 = N(0, e)
    BY ONLY <1>14, <1>17, <2>1, <2>2
  <2> QED BY <2>3, <1>1, <1>2 DEF N, RangeOf, Position
<1>24. ClientRange(f, p) = RangeOf(f, s)
  <2>1. PICK l : l = LineStart(f, e)
    OBVIOUS
  <2>2. l \in 0 .. e
    BY <1>0, <1>1, <2>1, LineStartIs
  <2>3. /\ (s - ls + 1) - 1 = s - ls /\ (e - l + 1) - 1 = e - l
        /\ (first - b) + b - 1 = first - 1
    BY ONLY <1>0, <1>1, <1>4, <2>2, <1>14, <1>17, <1>20
  <2> QED BY <1>10, <1>21, <1>22, <1>23, <2>1, <2>3 DEF ClientRange
<1>25. ClientContext(f, p) = ContextLines(f, s, context)
  <2>1. RangeOf(f, s)[1][1] = first - 1 /\ RangeOf(f, s)[2][1] = last - 1
    BY <1>23
  <2>2. /\ first \in Nat /\ last \in Nat /\ all \in Nat /\ first <= last
        /\ first - b >= 1 /\ (b = context \/ first - b = 1)
        /\ last + a <= all /\ (a = context \/ last + a = all)
        /\ N(from, to) = b + (last - first) + a
    <3>1. first \in Nat /\ last \in Nat /\ all \in Nat /\ first <= last
      BY ONLY <1>14, <1>16, <1>17, <1>18
    <3>2. first - b >= 1 /\ last + a <= all
      BY ONLY <1>14, <1>16, <1>17, <1>18, <1>20
    <3>3. b = context \/ first - b = 1
      <4>1. from = 0 => N(0, ls) = b
        BY <1>17
      <4> QED BY ONLY <1>6, <4>1, <1>14, <1>17, <1>20
    <3>4. a = context \/ last + a = all
      <4>1. to = f.size => N(0, to) = N(0, f.size)
        OBVIOUS
      <4> QED BY ONLY <1>7, <4>1, <1>14, <1>16, <1>17, <1>18, <1>20
    <3>5. N(from, to) = b + (last - first) + a
      <4>1. N(0, ls) + N(from, to) = b + N(0, le) + a
        BY ONLY <1>14, <1>16, <1>17, <1>20
      <4>2. last - first = N(0, le) - N(0, ls)
        BY ONLY <1>14, <1>17
      <4> QED BY ONLY <4>1, <4>2, <1>14, <1>20
    <3> QED BY <3>1, <3>2, <3>3, <3>4, <3>5
  <2>3. (first - 1) + 1 = first /\ (last - 1) + 1 = last /\ first - b + b = first
        /\ (N(from, to) + 1) - 1 = N(from, to)
    BY ONLY <2>2, <1>14, <1>20
  <2>4. ClientContext(f, p) = {first - b + i : i \in 0 .. N(from, to)} \ (first .. last)
    BY <1>10, <1>18, <1>21, <1>22, <2>3 DEF ClientContext
  <2>5. ContextLines(f, s, context) = {n \in 1 .. all : (n < first /\ n >= first - context)
                                                      \/ (n > last /\ n <= last + context)}
    <3>1. ContextLines(f, s, context) =
            LET first_ == RangeOf(f, s)[1][1] + 1
                last_  == RangeOf(f, s)[2][1] + 1
            IN  {n \in 1 .. LastLine(f) : (n < first_ /\ n >= first_ - context)
                                           \/ (n > last_ /\ n <= last_ + context)}
      BY Zenon DEF ContextLines
    <3> QED BY <1>13, <2>1, <2>3, <3>1
  <2>6. \A n : n \in {first - b + i : i \in 0 .. N(from, to)} <=> n \in first - b .. last + a
    <3>1. ASSUME NEW n \in first - b .. last + a
          PROVE  n \in {first - b + i : i \in 0 .. N(from, to)}
      <4>1. n - (first - b) \in 0 .. N(from, to) /\ n = first - b + (n - (first - b))
        BY ONLY <2>2, <1>20, <3>1
      <4> QED BY <4>1
    <3>2. ASSUME NEW i \in 0 .. N(from, to) PROVE first - b + i \in first - b .. last + a
      BY ONLY <2>2, <1>20, <3>2
    <3> QED BY <3>1, <3>2
  <2>7. \A n : n \in ClientContext(f, p) <=> n \in first - b .. last + a /\ n \notin first .. last
    BY <2>4, <2>6
  <2>8. \A n \in Int : (n \in first - b .. last + a /\ n \notin first .. last)
                   <=> (n \in 1 .. all /\ ((n < first /\ n >= first - context)
                                          \/ (n > last /\ n <= last + context)))
    BY ONLY <2>2, <1>20
  <2>9. first - b .. last + a \subseteq Int /\ 1 .. all \subseteq Int
    BY ONLY <2>2, <1>20
  <2> QED BY <2>5, <2>7, <2>8, <2>9
<1>26. N(0, p.from) + 1 = p.contextStart
  BY ONLY <1>10, <1>14, <1>16, <1>17, <1>20, <1>21
<1> QED BY <1>9, <1>24, <1>25, <1>26 DEF Leads, N

-----------------------------------------------------------------------------
(* The loop of Grep.Reader comes to an end: each turn starts behind the last.*)
LEMMA NextIs ==
  ASSUME NEW f, IsText(f), NEW c \in Nat, c < f.size,
         NEW found, found = {t \in DOMAIN f.hits : t >= c}, found # {},
         NEW s, s = Min(found)
  PROVE  /\ s \in found /\ \A t \in found : s <= t
         /\ NextLine(f, s) \in c + 1 .. f.size
         /\ \/ LineEnd(f, s) = f.size /\ NextLine(f, s) = f.size
            \/ /\ LineEnd(f, s) \in 0 .. f.size - 1
               /\ NextLine(f, s) = LineEnd(f, s) + 1
               /\ IsLineStart(f, NextLine(f, s))
<1>1. s \in found /\ \A t \in found : s <= t
  <2>1. found \in SUBSET Nat
    BY DEF IsText
  <2> QED BY ONLY <2>1, found # {}, s = Min(found), MinIsLeast
<1>2. s \in 0 .. f.size /\ s >= c /\ f.size \in Nat
  BY <1>1 DEF IsText
<1>3. PICK le : le = LineEnd(f, s)
  OBVIOUS
<1>4. le \in s .. f.size /\ (le = f.size \/ le \in f.newlines)
  BY <1>2, <1>3, LineEndIs
<1>5. CASE le = f.size
  <2>1. NextLine(f, s) = f.size
    BY <1>3, <1>5 DEF NextLine
  <2>2. f.size \in c + 1 .. f.size
    BY <1>2
  <2> QED BY <1>1, <1>3, <1>5, <2>1, <2>2
<1>6. CASE le # f.size
  <2>1. NextLine(f, s) = le + 1
    BY <1>3, <1>6 DEF NextLine
  <2>2. le + 1 \in c + 1 .. f.size /\ le \in 0 .. f.size - 1 /\ (le + 1) - 1 = le
    BY ONLY <1>2, <1>4, <1>6, c \in Nat
  <2>3. IsLineStart(f, le + 1)
    BY <1>4, <1>6, <2>2 DEF IsLineStart
  <2> QED BY <1>1, <1>3, <2>1, <2>2, <2>3
<1> QED BY <1>5, <1>6

(* Offsets up to the end of a line are on that line; offsets on both sides   *)
(* of the start of a line are not.                                           *)
LEMMA OnLine ==
  ASSUME NEW f, IsText(f), NEW s \in 0 .. f.size, NEW t \in s .. LineEnd(f, s)
  PROVE  LineStart(f, t) = LineStart(f, s)
<1>0. f.size \in Nat /\ s \in Nat /\ f.newlines \subseteq Nat
  BY DEF IsText
<1>1. LineEnd(f, s) \in s .. f.size /\ \A n \in f.newlines : n >= s => LineEnd(f, s) <= n
  BY LineEndIs
<1>2. t \in Nat /\ s <= t /\ t <= LineEnd(f, s)
  BY <1>0, <1>1
<1>3. PICK a : a = LineStart(f, s)
  OBVIOUS
<1>4. PICK b : b = LineStart(f, t)
  OBVIOUS
<1>5. a \in 0 .. s /\ (a = 0 \/ a - 1 \in f.newlines) /\ \A n \in f.newlines : n < s => n < a
  BY <1>0, <1>3, LineStartIs
<1>6. b \in 0 .. t /\ (b = 0 \/ b - 1 \in f.newlines) /\ \A n \in f.newlines : n < t => n < b
  BY <1>2, <1>4, LineStartIs
<1>7. a <= b
  <2>1. CASE a = 0
    BY <2>1, <1>2, <1>6
  <2>2. CASE a - 1 \in f.newlines
    <3>1. a - 1 < t
      BY <1>0, <1>2, <1>5
    <3>2. a - 1 < b
      BY <2>2, <3>1, <1>6
    <3> QED BY ONLY <3>2, <1>0, <1>2, <1>5, <1>6
  <2> QED BY <2>1, <2>2, <1>5
<1>8. b <= a
  <2>1. CASE b = 0
    BY <2>1, <1>0, <1>5
  <2>2. CASE b - 1 \in f.newlines
    <3>1. b - 1 < s
      <4>1. b - 1 < t /\ b - 1 \in Nat
        BY <1>0, <1>2, <1>6, <2>2
      <4>2. ~ (b - 1 >= s)
        <5>1. b - 1 >= s => LineEnd(f, s) <= b - 1
          BY <1>1, <2>2
        <5> QED BY ONLY <5>1, <4>1, <1>0, <1>1, <1>2
      <4> QED BY ONLY <4>1, <4>2, <1>0
    <3>2. b - 1 < a
      BY <2>2, <3>1, <1>5
    <3> QED BY ONLY <3>2, <1>0, <1>2, <1>5, <1>6
  <2> QED BY <2>1, <2>2, <1>6
<1> QED BY ONLY <1>0, <1>2, <1>3, <1>4, <1>5, <1>6, <1>7, <1>8

LEMMA AcrossLines ==
  ASSUME NEW f, IsText(f), NEW c \in Nat, IsLineStart(f, c), NEW s \in Nat, c <= s
  PROVE  c <= LineStart(f, s)
<1>1. LineStart(f, s) \in 0 .. s /\ \A n \in f.newlines : n < s => n < LineStart(f, s)
  BY LineStartIs
<1>2. CASE c = 0
  BY <1>1, <1>2
<1>3. CASE c - 1 \in f.newlines
  <2>1. c - 1 < s /\ c - 1 \in Int
    OBVIOUS
  <2>2. c - 1 < LineStart(f, s)
    BY <1>1, <1>3, <2>1
  <2> QED BY ONLY <1>1, <2>1, <2>2, c \in Nat, s \in Nat
<1> QED BY <1>2, <1>3 DEF IsLineStart

(* What one turn prints, and the turns after it, which `rest` has printed.    *)
Turn(f, context, rest, at) ==
  LET found == {s \in DOMAIN f.hits : s >= at[1]}
      s     == Min(found)
      next  == NextLine(f, s)
  IN  IF at[1] >= f.size \/ found = {} THEN <<>>
      ELSE <<MatchLine(f, context, at[1], at[2], s)>>
             \o rest[<<next, at[2] + Newlines(f, at[1], next)>>]

LineSet(f, context) ==
  {MatchLine(f, context, at[1], at[2], s) : at \in Nat \X Nat, s \in DOMAIN f.hits}

(* The cases of a turn.                                                      *)
LEMMA TurnEnds ==
  ASSUME NEW f, NEW context, NEW rest, NEW at,
         at[1] >= f.size \/ {s \in DOMAIN f.hits : s >= at[1]} = {}
  PROVE  Turn(f, context, rest, at) = <<>>
BY Zenon DEF Turn

LEMMA TurnNeeds ==
  ASSUME NEW f, IsText(f), NEW context, NEW at \in Nat \X Nat, NEW g, NEW h,
         \A x \in Nat \X Nat : x[1] > at[1] => g[x] = h[x] /\ g[x] \in Seq(LineSet(f, context))
  PROVE  /\ Turn(f, context, g, at) = Turn(f, context, h, at)
         /\ Turn(f, context, g, at) \in Seq(LineSet(f, context))
<1>1. PICK found : found = {s \in DOMAIN f.hits : s >= at[1]}
  OBVIOUS
<1>2. CASE at[1] >= f.size \/ found = {}
  <2>1. Turn(f, context, g, at) = <<>> /\ Turn(f, context, h, at) = <<>>
    BY <1>1, <1>2, TurnEnds
  <2> QED BY <2>1
<1>3. CASE ~ (at[1] >= f.size) /\ found # {}
  <2>0. f.size \in Nat /\ at[1] \in Nat /\ at[2] \in Nat
    BY DEF IsText
  <2>1. PICK s : s = Min(found)
    OBVIOUS
  <2>2. s \in found /\ NextLine(f, s) \in at[1] + 1 .. f.size
    <3>1. at[1] < f.size
      BY <1>3, <2>0
    <3> QED BY <1>1, <1>3, <2>0, <2>1, <3>1, NextIs
  <2>3. PICK x : x = <<NextLine(f, s), at[2] + Newlines(f, at[1], NextLine(f, s))>>
    OBVIOUS
  <2>4. x \in Nat \X Nat /\ x[1] > at[1]
    <3>1. Newlines(f, at[1], NextLine(f, s)) \in Nat
      BY NewlinesType
    <3>2. NextLine(f, s) \in Nat /\ NextLine(f, s) > at[1]
      BY ONLY <2>0, <2>2
    <3>3. at[2] + Newlines(f, at[1], NextLine(f, s)) \in Nat
      BY ONLY <2>0, <3>1
    <3> QED BY <2>3, <3>2, <3>3
  <2>5. g[x] = h[x] /\ g[x] \in Seq(LineSet(f, context))
    BY <2>4
  <2>6. /\ Turn(f, context, g, at) = <<MatchLine(f, context, at[1], at[2], s)>> \o g[x]
        /\ Turn(f, context, h, at) = <<MatchLine(f, context, at[1], at[2], s)>> \o h[x]
    BY ONLY <1>1, <1>3, <2>1, <2>3, Zenon DEF Turn
  <2>7. MatchLine(f, context, at[1], at[2], s) \in LineSet(f, context)
    BY <1>1, <2>2 DEF LineSet
  <2> QED BY ONLY <2>5, <2>6, <2>7
<1> QED BY <1>2, <1>3

LEMMA TurnsExist ==
  ASSUME NEW f, IsText(f), NEW context
  PROVE  \E g : g = [at \in Nat \X Nat |-> Turn(f, context, g, at)]
<1> DEFINE D(k) == {at \in Nat \X Nat : at[1] + k >= f.size}
           L == Seq(LineSet(f, context))
           S == {k \in Nat : \E g \in [D(k) -> L] : \A at \in D(k) : g[at] = Turn(f, context, g, at)}
<1>0. f.size \in Nat
  BY DEF IsText
<1>1. 0 \in S
  <2>1. PICK g : g = [at \in D(0) |-> <<>>]
    OBVIOUS
  <2>2. g \in [D(0) -> L]
    BY <2>1
  <2>3. ASSUME NEW at \in D(0) PROVE g[at] = Turn(f, context, g, at)
    <3>1. at[1] >= f.size
      BY <1>0
    <3>2. Turn(f, context, g, at) = <<>>
      BY <3>1, TurnEnds
    <3> QED BY <2>1, <3>2
  <2> QED BY <2>2, <2>3
<1>2. ASSUME NEW k \in Nat, k \in S PROVE k + 1 \in S
  <2>1. PICK g \in [D(k) -> L] : \A at \in D(k) : g[at] = Turn(f, context, g, at)
    BY <1>2
  <2>2. PICK h : h = [at \in D(k + 1) |-> Turn(f, context, g, at)]
    OBVIOUS
  <2>3. \A x \in D(k) : x \in D(k + 1)
    BY <1>0
  <2>4. \A x \in D(k) : h[x] = g[x] /\ g[x] \in L
    BY <2>1, <2>2, <2>3
  <2>5. ASSUME NEW at \in D(k + 1)
        PROVE  Turn(f, context, g, at) = Turn(f, context, h, at) /\ Turn(f, context, g, at) \in L
    <3>1. ASSUME NEW x \in Nat \X Nat, x[1] > at[1] PROVE g[x] = h[x] /\ g[x] \in L
      <4>1. x[1] + k >= f.size
        BY <1>0, <3>1
      <4> QED BY <2>4, <4>1
    <3>2. at \in Nat \X Nat
      OBVIOUS
    <3> QED BY ONLY <3>1, <3>2, IsText(f), TurnNeeds
  <2>6. h \in [D(k + 1) -> L] /\ \A at \in D(k + 1) : h[at] = Turn(f, context, h, at)
    BY <2>2, <2>5
  <2>7. k + 1 \in Nat
    OBVIOUS
  <2> HIDE DEF D, L
  <2> QED BY <2>6, <2>7
<1>3. f.size \in S
  <2> HIDE DEF S
  <2> QED BY <1>0, <1>1, <1>2, SetInduction
<1>4. PICK g \in [D(f.size) -> L] : \A at \in D(f.size) : g[at] = Turn(f, context, g, at)
  BY <1>3
<1>5. D(f.size) = Nat \X Nat
  BY <1>0
<1>6. g = [at \in Nat \X Nat |-> Turn(f, context, g, at)]
  BY <1>4, <1>5
<1> QED BY <1>6

(* What is printed from the start of a line on.                              *)
PrintedFrom(f, context, ps, c) ==
  /\ ps \in Seq(LineSet(f, context))
  /\ \A i \in DOMAIN ps : \E s \in FirstOfLine(f) : Leads(f, context, ps[i], s)
  /\ \A s \in Required(f) : s >= c => \E i \in DOMAIN ps : Leads(f, context, ps[i], s)

LEMMA NothingPrinted ==
  ASSUME NEW f, NEW context, NEW c, \A s \in Required(f) : ~ (s >= c)
  PROVE  PrintedFrom(f, context, <<>>, c)
BY DEF PrintedFrom

LEMMA TurnPrints ==
  ASSUME NEW f, IsText(f), NEW context \in Nat, NEW c \in Nat, IsLineStart(f, c), c <= f.size,
         NEW rest,
         \A d \in c + 1 .. f.size :
           IsLineStart(f, d) => PrintedFrom(f, context, rest[<<d, Newlines(f, 0, d) + 1>>], d),
         \A n \in Nat : rest[<<f.size, n>>] = <<>>
  PROVE  PrintedFrom(f, context, Turn(f, context, rest, <<c, Newlines(f, 0, c) + 1>>), c)
<1>0. /\ f.size \in Nat /\ f.newlines \subseteq Nat /\ Newlines(f, 0, c) \in Nat
      /\ \A t \in DOMAIN f.hits : t \in 0 .. f.size
  <2>1. Newlines(f, 0, c) \in Nat
    BY ONLY IsText(f), NewlinesType
  <2> QED BY <2>1 DEF IsText
<1>1. PICK at : at = <<c, Newlines(f, 0, c) + 1>>
  OBVIOUS
<1>2. at \in Nat \X Nat /\ at[1] = c /\ at[2] = Newlines(f, 0, c) + 1
  BY <1>0, <1>1
<1>3. PICK found : found = {t \in DOMAIN f.hits : t >= c}
  OBVIOUS
<1>4. CASE c >= f.size
  <2>1. Turn(f, context, rest, at) = <<>>
    BY <1>2, <1>4, TurnEnds
  <2>2. ASSUME NEW s \in Required(f), s >= c PROVE FALSE
    <3>1. s \in 0 .. f.size /\ LineStart(f, s) < f.size
      BY <1>0 DEF Required, FirstOfLine
    <3>2. c <= LineStart(f, s)
      BY <1>0, <2>2, <3>1, AcrossLines
    <3>3. LineStart(f, s) \in 0 .. s
      BY <1>0, <3>1, LineStartIs
    <3> QED BY ONLY <1>0, <1>4, <3>1, <3>2, <3>3, c \in Nat
  <2> QED BY <1>1, <2>1, <2>2, NothingPrinted
<1>5. CASE found = {}
  <2>1. Turn(f, context, rest, at) = <<>>
    BY <1>2, <1>3, <1>5, TurnEnds
  <2>2. \A s \in Required(f) : ~ (s >= c)
    BY <1>3, <1>5 DEF Required, FirstOfLine
  <2> QED BY <1>1, <2>1, <2>2, NothingPrinted
<1>6. CASE c < f.size /\ found # {}
  <2>1. PICK s : s = Min(found)
    OBVIOUS
  <2>2. PICK next : next = NextLine(f, s)
    OBVIOUS
  <2>3. PICK le : le = LineEnd(f, s)
    OBVIOUS
  <2>4. /\ s \in found /\ \A t \in found : s <= t
        /\ next \in c + 1 .. f.size
        /\ \/ le = f.size /\ next = f.size
           \/ le \in 0 .. f.size - 1 /\ next = le + 1 /\ IsLineStart(f, next)
    <3>1. /\ s \in found /\ \A t \in found : s <= t
          /\ NextLine(f, s) \in c + 1 .. f.size
          /\ \/ LineEnd(f, s) = f.size /\ NextLine(f, s) = f.size
             \/ /\ LineEnd(f, s) \in 0 .. f.size - 1
                /\ NextLine(f, s) = LineEnd(f, s) + 1
                /\ IsLineStart(f, NextLine(f, s))
      BY ONLY IsText(f), c \in Nat, <1>3, <1>6, <2>1, NextIs
    <3> QED BY ONLY <2>2, <2>3, <3>1
  <2>5. s \in DOMAIN f.hits /\ s \in 0 .. f.size /\ s >= c
    BY <1>0, <1>3, <2>4
  <2>6. PICK m : m = MatchLine(f, context, c, Newlines(f, 0, c) + 1, s)
    OBVIOUS
  <2>7. Leads(f, context, m, s)
    BY <2>5, <2>6, MatchLineLeads
  <2>8. s \in FirstOfLine(f)
    <3> SUFFICES ASSUME NEW t \in DOMAIN f.hits, LineStart(f, t) = LineStart(f, s)
                 PROVE  s <= t
      BY <2>5 DEF FirstOfLine
    <3>1. t \in Nat /\ s \in Nat
      BY <1>0, <2>5
    <3>2. c <= LineStart(f, s)
      BY <2>5, <3>1, AcrossLines
    <3>3. LineStart(f, t) \in 0 .. t
      BY <3>1, LineStartIs
    <3>4. t >= c
      BY <3>1, <3>2, <3>3
    <3> QED BY <1>3, <2>4, <3>4
  <2>9. ASSUME NEW t \in Required(f), t >= c, t # s PROVE next = le + 1 /\ IsLineStart(f, next) /\ t >= next
    <3>1. t \in DOMAIN f.hits /\ t \in 0 .. f.size /\ t \in FirstOfLine(f)
      BY <1>0 DEF Required, FirstOfLine
    <3>2. s <= t /\ ~ (t <= s)
      BY <1>3, <2>4, <2>5, <2>9, <3>1
    <3>3. LineStart(f, t) # LineStart(f, s)
      BY <2>5, <3>1, <3>2 DEF FirstOfLine
    <3>4. le \in s .. f.size
      BY <2>3, <2>5, LineEndIs
    <3>5. ~ (t \in s .. le)
      BY <2>3, <2>5, <3>3, OnLine
    <3>6. ~ (t <= le)
      BY ONLY <1>0, <2>5, <3>1, <3>2, <3>4, <3>5
    <3> QED BY ONLY <1>0, <2>4, <3>1, <3>4, <3>6
  <2>10. PICK r : r = rest[<<next, Newlines(f, 0, next) + 1>>]
    OBVIOUS
  <2>11. Turn(f, context, rest, at) = <<m>> \o r
    <3>1. (Newlines(f, 0, c) + 1) + Newlines(f, c, next) = Newlines(f, 0, next) + 1
      <4>1. Newlines(f, 0, next) = Newlines(f, 0, c) + Newlines(f, c, next)
        <5>1. next \in Nat /\ c <= next /\ 0 <= c
          BY <1>0, <2>4
        <5> QED BY <5>1, NewlinesAdd
      <4>2. Newlines(f, c, next) \in Nat
        BY NewlinesType
      <4> QED BY ONLY <1>0, <4>1, <4>2
    <3>2. ~ (at[1] >= f.size)
      BY <1>0, <1>2, <1>6
    <3>3. Turn(f, context, rest, at)
            = <<MatchLine(f, context, at[1], at[2], s)>>
                \o rest[<<next, at[2] + Newlines(f, at[1], next)>>]
      <4>1. found = {t \in DOMAIN f.hits : t >= at[1]}
        BY <1>2, <1>3
      <4> QED BY ONLY <1>6, <2>1, <2>2, <3>2, <4>1, Zenon DEF Turn
    <3> QED BY <1>2, <2>6, <2>10, <3>1, <3>3
  <2>12. m \in LineSet(f, context)
    <3>1. MatchLine(f, context, at[1], at[2], s) \in LineSet(f, context)
      BY <1>2, <2>5 DEF LineSet
    <3> QED BY <1>2, <2>6, <3>1
  <2>13. CASE IsLineStart(f, next)
    <3>1. PrintedFrom(f, context, r, next)
      BY <2>4, <2>10, <2>13
    <3>2. r \in Seq(LineSet(f, context))
      BY <3>1 DEF PrintedFrom
    <3>3. PICK ps : ps = <<m>> \o r
      OBVIOUS
    <3>4. /\ ps \in Seq(LineSet(f, context)) /\ DOMAIN ps = 1 .. Len(r) + 1 /\ Len(r) \in Nat
          /\ DOMAIN r = 1 .. Len(r)
          /\ ps[1] = m /\ \A i \in 1 .. Len(r) : ps[i + 1] = r[i]
      BY ONLY <2>12, <3>2, <3>3
    <3>5. ASSUME NEW i \in DOMAIN ps PROVE \E t \in FirstOfLine(f) : Leads(f, context, ps[i], t)
      <4>1. CASE i = 1
        BY <2>7, <2>8, <3>4, <4>1
      <4>2. CASE i # 1
        <5>1. i - 1 \in 1 .. Len(r) /\ (i - 1) + 1 = i
          BY ONLY <3>4, <3>5, <4>2
        <5>2. ps[i] = r[i - 1] /\ i - 1 \in DOMAIN r
          BY ONLY <3>4, <5>1
        <5> QED BY <3>1, <5>2 DEF PrintedFrom
      <4> QED BY <4>1, <4>2
    <3>6. ASSUME NEW t \in Required(f), t >= c PROVE \E i \in DOMAIN ps : Leads(f, context, ps[i], t)
      <4>1. CASE t = s
        <5>1. 1 \in DOMAIN ps
          BY ONLY <3>4
        <5> QED BY <2>7, <3>4, <4>1, <5>1
      <4>2. CASE t # s
        <5>1. t >= next
          BY <2>9, <3>6, <4>2
        <5>2. PICK i \in DOMAIN r : Leads(f, context, r[i], t)
          BY <3>1, <5>1 DEF PrintedFrom
        <5>3. i + 1 \in DOMAIN ps /\ ps[i + 1] = r[i]
          BY ONLY <3>4, i \in DOMAIN r
        <5> QED BY <5>2, <5>3
      <4> QED BY <4>1, <4>2
    <3> QED BY <1>1, <2>11, <3>3, <3>4, <3>5, <3>6 DEF PrintedFrom
  <2>14. CASE ~ IsLineStart(f, next)
    <3>1. next = f.size
      BY <2>4, <2>14
    <3>2. r = <<>>
      <4>1. Newlines(f, 0, next) \in Nat
        BY ONLY IsText(f), NewlinesType
      <4> QED BY <2>10, <3>1, <4>1
    <3>3. PICK ps : ps = Turn(f, context, rest, at)
      OBVIOUS
    <3>4. ps = <<m>>
      BY <2>11, <3>2, <3>3
    <3>5. \A t \in Required(f) : t >= c => t = s
      BY <2>9, <2>14
    <3>6. ps \in Seq(LineSet(f, context)) /\ DOMAIN ps = {1} /\ ps[1] = m
      BY ONLY <2>12, <3>4
    <3> QED BY <1>1, <2>7, <2>8, <3>3, <3>5, <3>6 DEF PrintedFrom
  <2> QED BY <2>13, <2>14
<1> QED BY <1>0, <1>4, <1>5, <1>6

(* What Grep.Reader prints of a file leads the editor to the first match of  *)
(* a line, with the context around it; and does so for every line.           *)
LEMMA ReaderLeads ==
  ASSUME NEW f, IsText(f), NEW context \in Nat
  PROVE  PrintedFrom(f, context, Reader(f, context), 0)
<1>0. f.size \in Nat
  BY DEF IsText
<1>1. PICK h : /\ h = [at \in Nat \X Nat |-> Turn(f, context, h, at)]
               /\ Reader(f, context) = h[<<0, 1>>]
  <2>1. \E g : g = [at \in Nat \X Nat |-> Turn(f, context, g, at)]
    BY TurnsExist
  <2> QED BY <2>1, Zenon DEF Reader, Turn
<1>2. \A at \in Nat \X Nat : h[at] = Turn(f, context, h, at)
  BY <1>1
<1>3. ASSUME NEW n \in Nat PROVE h[<<f.size, n>>] = <<>>
  <2>1. PICK at : at = <<f.size, n>>
    OBVIOUS
  <2>2. at \in Nat \X Nat /\ at[1] >= f.size
    BY <1>0, <2>1
  <2> QED BY <1>2, <2>1, <2>2, TurnEnds
<1> DEFINE At(d) == <<d, Newlines(f, 0, d) + 1>>
           S == {k \in Nat : \A d \in 0 .. f.size :
                               d + k >= f.size /\ IsLineStart(f, d) => PrintedFrom(f, context, h[At(d)], d)}
<1>4. ASSUME NEW d \in 0 .. f.size, IsLineStart(f, d),
             \A x \in d + 1 .. f.size : IsLineStart(f, x) => PrintedFrom(f, context, h[At(x)], x)
      PROVE  PrintedFrom(f, context, h[At(d)], d)
  <2>1. d \in Nat /\ d <= f.size
    BY <1>0
  <2>2. PrintedFrom(f, context, Turn(f, context, h, At(d)), d)
    BY <1>3, <1>4, <2>1, TurnPrints
  <2>3. At(d) \in Nat \X Nat
    <3>1. Newlines(f, 0, d) \in Nat
      BY ONLY IsText(f), NewlinesType
    <3> QED BY <2>1, <3>1
  <2> QED BY <1>2, <2>2, <2>3
<1>5. 0 \in S
  <2> SUFFICES ASSUME NEW d \in 0 .. f.size, d + 0 >= f.size, IsLineStart(f, d)
               PROVE  PrintedFrom(f, context, h[At(d)], d)
    OBVIOUS
  <2>1. d + 1 .. f.size = {}
    BY <1>0
  <2> HIDE DEF At
  <2> QED BY <1>4, <2>1
<1>6. ASSUME NEW k \in Nat, k \in S PROVE k + 1 \in S
  <2> SUFFICES ASSUME NEW d \in 0 .. f.size, d + (k + 1) >= f.size, IsLineStart(f, d)
               PROVE  PrintedFrom(f, context, h[At(d)], d)
    OBVIOUS
  <2>1. \A x \in d + 1 .. f.size : x \in 0 .. f.size /\ x + k >= f.size
    BY <1>0
  <2> HIDE DEF At
  <2>2. \A x \in d + 1 .. f.size : IsLineStart(f, x) => PrintedFrom(f, context, h[At(x)], x)
    BY <1>6, <2>1
  <2> QED BY <1>4, <2>2
<1>7. f.size \in S
  <2> HIDE DEF S
  <2> QED BY <1>0, <1>5, <1>6, SetInduction
<1>8. PrintedFrom(f, context, h[At(0)], 0)
  <2>1. 0 \in 0 .. f.size /\ 0 + f.size >= f.size /\ IsLineStart(f, 0)
    BY <1>0 DEF IsLineStart
  <2> HIDE DEF At
  <2> QED BY <1>7, <2>1
<1>9. At(0) = <<0, 1>>
  <2>1. Newlines(f, 0, 0) = 0
    <3>1. \A n \in f.newlines : ~ (0 <= n /\ n < 0)
      BY DEF IsText
    <3> QED BY <3>1, NewlinesNone
  <2> QED BY <2>1
<1> QED BY <1>1, <1>8, <1>9

-----------------------------------------------------------------------------

-----------------------------------------------------------------------------
(* doublestar.Match is a function of the rest of the glob.                   *)
GlobTurn(glob, path, m, at) ==
  LET i == at[1]
      j == at[2]
  IN  IF i > Len(glob) THEN j > Len(path)
      ELSE \/ /\ glob[i] = "**"
              /\ \/ i = Len(glob)
                 \/ \E k \in j .. Len(path) :
                      (k = j \/ path[k - 1] = "/") /\ m[<<i + 2, k>>]
           \/ /\ glob[i] = "*"
              /\ \E k \in j .. Len(path) + 1 :
                   (\A n \in j .. k - 1 : path[n] # "/") /\ m[<<i + 1, k>>]
           \/ /\ glob[i] \in Wildcards
              /\ \E k \in j .. Len(path) + 1 :
                   SubSeq(path, j, k - 1) \in Meaning[glob[i]] /\ m[<<i + 1, k>>]
           \/ /\ glob[i] \notin Stars \cup Wildcards
              /\ j <= Len(path) /\ path[j] = glob[i] /\ m[<<i + 1, j + 1>>]

Offsets(glob, path) == (1 .. Len(glob) + 1) \X (1 .. Len(path) + 1)

LEMMA GlobTurnNeeds ==
  ASSUME NEW glob \in Seq(Fragments), NEW path \in Seq(Fragments), NEW at \in Offsets(glob, path), NEW g, NEW h,
         \A x \in Offsets(glob, path) : x[1] > at[1] => (g[x] <=> h[x])
  PROVE  GlobTurn(glob, path, g, at) <=> GlobTurn(glob, path, h, at)
<1>1. PICK i, j : i = at[1] /\ j = at[2]
  OBVIOUS
<1>2. i \in 1 .. Len(glob) + 1 /\ j \in 1 .. Len(path) + 1 /\ Len(glob) \in Nat /\ Len(path) \in Nat
  BY <1>1 DEF Offsets
<1>3. ASSUME NEW a \in i + 1 .. Len(glob) + 1, NEW b \in 1 .. Len(path) + 1
      PROVE  g[<<a, b>>] <=> h[<<a, b>>]
  <2>1. PICK x : x = <<a, b>>
    OBVIOUS
  <2>2. x \in Offsets(glob, path) /\ x[1] > at[1]
    BY <1>1, <1>2, <2>1 DEF Offsets
  <2> QED BY <2>1, <2>2
<1>4. CASE i > Len(glob)
  BY <1>1, <1>4 DEF GlobTurn
<1>5. CASE ~ (i > Len(glob))
  <2>1. ASSUME i # Len(glob), NEW k \in j .. Len(path)
        PROVE  g[<<i + 2, k>>] <=> h[<<i + 2, k>>]
    <3>1. i + 2 \in i + 1 .. Len(glob) + 1 /\ k \in 1 .. Len(path) + 1
      BY ONLY <1>2, <1>5, <2>1
    <3> QED BY <1>3, <3>1
  <2>2. ASSUME NEW k \in j .. Len(path) + 1
        PROVE  g[<<i + 1, k>>] <=> h[<<i + 1, k>>]
    <3>1. i + 1 \in i + 1 .. Len(glob) + 1 /\ k \in 1 .. Len(path) + 1
      BY ONLY <1>2, <1>5, <2>2
    <3> QED BY <1>3, <3>1
  <2>3. ASSUME j <= Len(path) PROVE g[<<i + 1, j + 1>>] <=> h[<<i + 1, j + 1>>]
    <3>1. i + 1 \in i + 1 .. Len(glob) + 1 /\ j + 1 \in 1 .. Len(path) + 1
      BY ONLY <1>2, <1>5, <2>3
    <3> QED BY <1>3, <3>1
  <2> QED BY ONLY <1>1, <1>5, <2>1, <2>2, <2>3, Zenon DEF GlobTurn
<1> QED BY <1>4, <1>5

LEMMA MatchFunction ==
  ASSUME NEW glob \in Seq(Fragments), NEW path \in Seq(Fragments)
  PROVE  \E m : m = [at \in Offsets(glob, path) |-> GlobTurn(glob, path, m, at)]
<1> DEFINE D(k) == {at \in Offsets(glob, path) : at[1] + k >= Len(glob) + 1}
           S == {k \in Nat : \E m : /\ m = [at \in D(k) |-> m[at]]
                                    /\ \A at \in D(k) : m[at] = GlobTurn(glob, path, m, at)}
<1>0. Len(glob) \in Nat
  OBVIOUS
<1>1. ASSUME NEW k \in Int, NEW g, NEW h,
             \A x \in D(k) : g[x] = h[x],
             NEW at \in D(k + 1)
      PROVE  GlobTurn(glob, path, g, at) = GlobTurn(glob, path, h, at)
  <2>1. \A x \in Offsets(glob, path) : x[1] > at[1] => x \in D(k)
    BY <1>0 DEF Offsets
  <2>2. \A x \in Offsets(glob, path) : x[1] > at[1] => (g[x] <=> h[x])
    BY <1>1, <2>1
  <2>3. at \in Offsets(glob, path)
    OBVIOUS
  <2>4. GlobTurn(glob, path, g, at) <=> GlobTurn(glob, path, h, at)
    BY ONLY <2>2, <2>3, glob \in Seq(Fragments), path \in Seq(Fragments), GlobTurnNeeds
  <2>5. ASSUME NEW m
        PROVE  GlobTurn(glob, path, m, at) = TRUE \/ GlobTurn(glob, path, m, at) = FALSE
    <3>1. CASE at[1] > Len(glob)
      BY ONLY <3>1 DEF GlobTurn
    <3>2. CASE ~ (at[1] > Len(glob))
      BY ONLY <3>2, Zenon DEF GlobTurn
    <3> QED BY <3>1, <3>2
  <2> QED BY <2>4, <2>5
<1>2. 0 \in S
  <2>1. PICK h : h = [at \in D(0) |-> GlobTurn(glob, path, <<>>, at)]
    OBVIOUS
  <2>2. D(-1 + 1) = D(0)
    OBVIOUS
  <2>3. \A x \in D(-1) : FALSE
    BY <1>0 DEF Offsets
  <2>4. \A at \in D(0) : GlobTurn(glob, path, <<>>, at) = GlobTurn(glob, path, h, at)
    <3>1. -1 \in Int
      OBVIOUS
    <3> QED BY <1>1, <2>2, <2>3, <3>1
  <2>5. h = [at \in D(0) |-> h[at]] /\ \A at \in D(0) : h[at] = GlobTurn(glob, path, h, at)
    BY <2>1, <2>4
  <2> HIDE DEF D
  <2> QED BY <2>5
<1>3. ASSUME NEW k \in Nat, k \in S PROVE k + 1 \in S
  <2>1. PICK g : g = [at \in D(k) |-> g[at]] /\ \A at \in D(k) : g[at] = GlobTurn(glob, path, g, at)
    BY <1>3
  <2>2. PICK h : h = [at \in D(k + 1) |-> GlobTurn(glob, path, g, at)]
    OBVIOUS
  <2>3. \A x \in D(k) : x \in D(k + 1)
    BY <1>0 DEF Offsets
  <2>4. \A x \in D(k) : g[x] = h[x]
    BY <2>1, <2>2, <2>3
  <2>5. \A at \in D(k + 1) : GlobTurn(glob, path, g, at) = GlobTurn(glob, path, h, at)
    <3>1. k \in Int
      OBVIOUS
    <3> QED BY <1>1, <2>4, <3>1
  <2>6. h = [at \in D(k + 1) |-> h[at]] /\ \A at \in D(k + 1) : h[at] = GlobTurn(glob, path, h, at)
    BY <2>2, <2>5
  <2>7. k + 1 \in Nat
    OBVIOUS
  <2> HIDE DEF D
  <2> QED BY <2>6, <2>7
<1>4. Len(glob) \in S
  <2> HIDE DEF S
  <2> QED BY <1>0, <1>2, <1>3, SetInduction
<1>5. D(Len(glob)) = Offsets(glob, path)
  BY <1>0 DEF Offsets
<1>6. PICK m : /\ m = [at \in D(Len(glob)) |-> m[at]]
               /\ \A at \in D(Len(glob)) : m[at] = GlobTurn(glob, path, m, at)
  BY <1>4
<1>7. m = [at \in Offsets(glob, path) |-> GlobTurn(glob, path, m, at)]
  BY <1>5, <1>6
<1> QED BY <1>7

(* What Match is of a glob from i on and a path from j on: the conditions of  *)
(* its definition, for some m.                                               *)
LEMMA MatchIs ==
  ASSUME NEW glob \in Seq(Fragments), NEW path \in Seq(Fragments)
  PROVE  \E m : /\ \A at \in Offsets(glob, path) : m[at] <=> GlobTurn(glob, path, m, at)
                /\ Match(glob, path) <=> m[<<1, 1>>]
<1>1. PICK m : /\ m = [at \in Offsets(glob, path) |-> GlobTurn(glob, path, m, at)]
               /\ Match(glob, path) <=> m[<<1, 1>>]
  <2>1. \E m : m = [at \in Offsets(glob, path) |-> GlobTurn(glob, path, m, at)]
    BY MatchFunction
  <2> QED BY <2>1, Zenon DEF Match, GlobTurn, Offsets
<1> QED BY <1>1, Zenon

Literal(x) == x \notin Stars \cup Wildcards

(* A path that a glob matches begins with what the glob has before its first *)
(* wildcard.                                                                 *)
LEMMA LiteralPrefix ==
  ASSUME NEW glob \in Seq(Fragments), NEW path \in Seq(Fragments), Match(glob, path),
         NEW n \in 0 .. Len(glob), \A i \in 1 .. n : Literal(glob[i])
  PROVE  n <= Len(path) /\ \A i \in 1 .. n : path[i] = glob[i]
<1>0. Len(glob) \in Nat /\ Len(path) \in Nat
  OBVIOUS
<1>1. PICK m : /\ \A at \in Offsets(glob, path) : m[at] <=> GlobTurn(glob, path, m, at)
               /\ Match(glob, path) <=> m[<<1, 1>>]
  BY MatchIs
<1> DEFINE S == {k \in Nat : k <= n => /\ k <= Len(path) /\ m[<<k + 1, k + 1>>]
                                       /\ \A i \in 1 .. k : path[i] = glob[i]}
<1>2. 0 \in S
  <2>1. m[<<0 + 1, 0 + 1>>]
    BY <1>1
  <2>2. 1 .. 0 = {} /\ 0 <= Len(path)
    BY <1>0
  <2> QED BY <2>1, <2>2
<1>3. ASSUME NEW k \in Nat, k \in S PROVE k + 1 \in S
  <2> SUFFICES ASSUME k + 1 <= n
               PROVE  /\ k + 1 <= Len(path) /\ m[<<(k + 1) + 1, (k + 1) + 1>>]
                      /\ \A i \in 1 .. k + 1 : path[i] = glob[i]
    OBVIOUS
  <2>1. k <= Len(path) /\ m[<<k + 1, k + 1>>] /\ \A i \in 1 .. k : path[i] = glob[i]
    BY <1>3
  <2>2. PICK at : at = <<k + 1, k + 1>>
    OBVIOUS
  <2>3. at \in Offsets(glob, path) /\ at[1] = k + 1 /\ at[2] = k + 1 /\ ~ (k + 1 > Len(glob))
    BY <1>0, <2>1, <2>2 DEF Offsets
  <2>4. GlobTurn(glob, path, m, at)
    BY <1>1, <2>1, <2>2, <2>3
  <2>5. Literal(glob[k + 1])
    OBVIOUS
  <2>6. k + 1 <= Len(path) /\ path[k + 1] = glob[k + 1] /\ m[<<(k + 1) + 1, (k + 1) + 1>>]
    BY ONLY <2>3, <2>4, <2>5 DEF GlobTurn, Literal, Stars
  <2>7. \A i \in 1 .. k + 1 : path[i] = glob[i]
    BY <2>1, <2>6
  <2> QED BY <2>6, <2>7
<1>4. n \in S
  <2> HIDE DEF S
  <2> QED BY <1>2, <1>3, SetInduction
<1> QED BY <1>4

(* An include glob lets a package pass if it matches a file of it, unless it *)
(* has a wildcard before its first star and its first slash.                 *)
LEMMA CanMatch ==
  ASSUME NEW g \in Seq(Fragments),
         \A i \in DOMAIN g : g[i] \in Wildcards => \E j \in 1 .. i - 1 : g[j] \in Stars \cup {"/"},
         NEW path \in Seq(Fragments), NEW part \in Seq(Fragments),
         "/" \notin ToSet(part), IsPrefix(Append(part, "/"), path),
         Match(g, path) \/ Match(g \o <<"/", "**">>, path)
  PROVE  CanMatchPrefix({g}, part)
<1>0. Len(g) \in Nat /\ Len(path) \in Nat /\ Len(part) \in Nat
  OBVIOUS
<1> DEFINE I == {i \in 1 .. Len(g) : g[i] \in Stars}
           prefix == Append(part, "/")
           Cut(n) == SubSeq(g, 1, n)
<1>1. \E n \in 0 .. Len(g) :
        /\ \A i \in 1 .. n : g[i] \notin Stars
        /\ n # Len(g) => g[n + 1] \in Stars
        /\ IsPrefix(Cut(n), prefix) \/ IsPrefix(prefix, Cut(n)) => CanMatchPrefix({g}, part)
  <2>1. CASE I = {}
    <3>1. Cut(Len(g)) = g
      BY <1>0
    <3>2. IsPrefix(g, prefix) \/ IsPrefix(prefix, g) => CanMatchPrefix({g}, part)
      BY <2>1 DEF CanMatchPrefix, SelectInSeq
    <3>3. \A i \in 1 .. Len(g) : g[i] \notin Stars
      BY <2>1
    <3>4. Len(g) \in 0 .. Len(g)
      BY <1>0
    <3> QED BY <3>1, <3>2, <3>3, <3>4
  <2>2. CASE I # {}
    <3>1. I \in SUBSET Nat
      BY <1>0
    <3>2. PICK star : star = Min(I)
      OBVIOUS
    <3>3. star \in I /\ \A y \in I : star <= y
      <4> HIDE DEF I
      <4> QED BY <2>2, <3>1, <3>2, MinIsLeast
    <3>4. star # 0 /\ star - 1 \in 0 .. Len(g) /\ (star - 1) + 1 = star
      BY <1>0, <3>3
    <3>5. IsPrefix(Cut(star - 1), prefix) \/ IsPrefix(prefix, Cut(star - 1))
            => CanMatchPrefix({g}, part)
      BY <2>2, <3>2, <3>4 DEF CanMatchPrefix, SelectInSeq
    <3>6. \A i \in 1 .. star - 1 : g[i] \notin Stars
      BY <1>0, <3>3, <3>4
    <3> QED BY <3>3, <3>4, <3>5, <3>6
  <2> QED BY <2>1, <2>2
<1>2. PICK n \in 0 .. Len(g) :
        /\ \A i \in 1 .. n : g[i] \notin Stars
        /\ n # Len(g) => g[n + 1] \in Stars
        /\ IsPrefix(Cut(n), prefix) \/ IsPrefix(prefix, Cut(n)) => CanMatchPrefix({g}, part)
  BY <1>1
(* The letters before its first wildcard are those of the path.              *)
<1> DEFINE W == {i \in 1 .. n : g[i] \in Wildcards}
<1>7. PICK l \in 0 .. n :
        /\ \A i \in 1 .. l : Literal(g[i])
        /\ l # n => g[l + 1] \in Wildcards
  <2>1. CASE W = {}
    <3>1. \A i \in 1 .. n : Literal(g[i])
      BY <1>2, <2>1 DEF Literal
    <3>2. n \in 0 .. n
      BY <1>0
    <3> QED BY <3>1, <3>2
  <2>2. CASE W # {}
    <3>1. W \in SUBSET Nat
      BY <1>0
    <3>2. PICK x \in W : \A y \in W : x <= y
      <4> HIDE DEF W
      <4> QED BY <2>2, <3>1, LeastNumber
    <3>3. x - 1 \in 0 .. n /\ (x - 1) + 1 = x /\ g[x] \in Wildcards
      BY <1>0, <3>2
    <3>4. \A i \in 1 .. x - 1 : i \in 1 .. n /\ i \notin W
      BY <1>0, <3>2
    <3>5. \A i \in 1 .. x - 1 : Literal(g[i])
      BY <1>2, <3>4 DEF Literal
    <3> QED BY <3>3, <3>5
  <2> QED BY <2>1, <2>2
<1>3. l <= Len(path) /\ \A i \in 1 .. l : path[i] = g[i]
  <2>0. l \in 0 .. Len(g)
    BY <1>0
  <2>2. CASE Match(g, path)
    BY <1>7, <2>0, <2>2, LiteralPrefix
  <2>3. CASE Match(g \o <<"/", "**">>, path)
    <3>1. PICK w : w = g \o <<"/", "**">>
      OBVIOUS
    <3>2. w \in Seq(Fragments) /\ l \in 0 .. Len(w) /\ \A i \in 1 .. l : w[i] = g[i]
      BY <1>0, <2>0, <3>1, FragmentsType DEF Stars
    <3>3. \A i \in 1 .. l : Literal(w[i])
      BY <1>7, <3>2
    <3>4. l <= Len(path) /\ \A i \in 1 .. l : path[i] = w[i]
      BY <2>3, <3>1, <3>2, <3>3, LiteralPrefix
    <3> QED BY <3>2, <3>4
  <2> QED BY <2>2, <2>3
<1>4. /\ prefix \in Seq(Fragments) /\ Len(prefix) = Len(part) + 1 /\ Len(prefix) <= Len(path)
      /\ \A i \in 1 .. Len(prefix) : prefix[i] = path[i]
  <2>1. prefix \in Seq(Fragments) /\ Len(prefix) = Len(part) + 1
    BY FragmentsType
  <2>2. Len(prefix) <= Len(path) /\ SubSeq(prefix, 1, Len(prefix)) = SubSeq(path, 1, Len(prefix))
    BY DEF IsPrefix
  <2>3. \A i \in 1 .. Len(prefix) : prefix[i] = path[i]
    <3> HIDE DEF prefix
    <3>1. \A i \in 1 .. Len(prefix) :
            SubSeq(prefix, 1, Len(prefix))[i] = prefix[i] /\ SubSeq(path, 1, Len(prefix))[i] = path[i]
      BY <1>0, <2>1, <2>2
    <3> QED BY <2>2, <3>1
  <2> QED BY <2>1, <2>2, <2>3
(* If a wildcard ends them, there is a slash among them: the package is over. *)
<1>8. l # n => Len(prefix) <= l
  <2> SUFFICES ASSUME l # n PROVE Len(part) + 1 <= l
    BY <1>4
  <2>1. l + 1 \in DOMAIN g /\ g[l + 1] \in Wildcards
    BY <1>0, <1>7
  <2>2. PICK j \in 1 .. (l + 1) - 1 : g[j] \in Stars \cup {"/"}
    BY <2>1
  <2>3. j \in 1 .. l
    BY <1>0, <2>2
  <2>4. path[j] = "/"
    BY <1>3, <1>7, <2>2, <2>3 DEF Literal
  <2>5. \A i \in 1 .. Len(part) : path[i] = part[i] /\ part[i] \in ToSet(part)
    <3> HIDE DEF prefix
    <3>1. \A i \in 1 .. Len(part) : prefix[i] = part[i]
      BY DEF prefix
    <3>2. \A i \in 1 .. Len(part) : i \in DOMAIN part /\ i \in 1 .. Len(prefix)
      BY <1>0, <1>4
    <3> QED BY <1>4, <3>1, <3>2 DEF ToSet
  <2>6. ~ (j <= Len(part))
    BY <1>0, <2>3, <2>4, <2>5
  <2> QED BY <1>0, <2>3, <2>6
<1>5. Cut(n) \in Seq(Fragments) /\ Len(Cut(n)) = n /\ \A i \in 1 .. n : Cut(n)[i] = g[i]
  BY <1>0
<1>6. IsPrefix(Cut(n), prefix) \/ IsPrefix(prefix, Cut(n))
  <2>1. PICK a \in Seq(Fragments), b \in Seq(Fragments) : a = Cut(n) /\ b = prefix
    BY <1>4, <1>5
  <2>2. /\ Len(a) = n /\ \A i \in 1 .. l : a[i] = path[i]
        /\ Len(b) = Len(part) + 1 /\ \A i \in 1 .. Len(b) : b[i] = path[i]
    <3>1. \A i \in 1 .. l : i \in 1 .. n
      BY <1>0
    <3> QED BY <1>3, <1>4, <1>5, <2>1, <3>1
  <2>3. CASE l = n /\ n <= Len(b)
    <3>1. SubSeq(a, 1, n) = SubSeq(b, 1, n)
      BY ONLY <1>0, <2>2, <2>3, a \in Seq(Fragments), b \in Seq(Fragments), n \in 0 .. Len(g)
    <3> QED BY <2>1, <2>2, <2>3, <3>1 DEF IsPrefix
  <2>4. CASE Len(b) <= l
    <3>1. SubSeq(a, 1, Len(b)) = SubSeq(b, 1, Len(b)) /\ Len(b) <= Len(a)
      BY ONLY <1>0, <2>2, <2>4, a \in Seq(Fragments), b \in Seq(Fragments), n \in 0 .. Len(g), l \in 0 .. n
    <3> QED BY <2>1, <3>1 DEF IsPrefix
  <2>5. (l = n /\ n <= Len(b)) \/ Len(b) <= l
    BY <1>0, <1>8, <2>1, <2>2
  <2> QED BY <2>3, <2>4, <2>5
<1> QED BY <1>2, <1>6

(* An element of a part of a sequence.                                      *)
LEMMA InSubSeq ==
  ASSUME NEW s \in Seq(Fragments), NEW a \in 1 .. Len(s), NEW b \in 1 .. Len(s), NEW k \in 1 .. b - a + 1
  PROVE  k \in DOMAIN SubSeq(s, a, b) /\ SubSeq(s, a, b)[k] = s[a + k - 1]
OBVIOUS

(* An exclude glob that skips a package matches all files of it, unless it   *)
(* goes on behind the "**".                                                  *)
LEMMA MustMatch ==
  ASSUME NEW g, IsGlob(g),
         \A i \in DOMAIN g : g[i] = "**" => i = Len(g) \/ ToSet(SubSeq(g, 1, i)) \subseteq {"**", "/"},
         NEW path \in Seq(Fragments), NEW part \in Seq(Fragments),
         IsPrefix(Append(part, "/"), path),
         MustMatchPrefix({g}, part)
  PROVE  Match(g, path)
<1>0. /\ Len(g) \in Nat /\ Len(path) \in Nat /\ Len(part) \in Nat /\ g \in Seq(Fragments)
      /\ DOMAIN g = 1 .. Len(g)
  BY DEF IsGlob
<1>1. PICK n \in DOMAIN g, e \in DOMAIN g :
        /\ \A i \in 1 .. n - 1 : g[i] = IF i % 2 = 1 THEN "**" ELSE "/"
        /\ g[n] # "**" /\ "/" \notin ToSet(SubSeq(g, n, e - 1))
        /\ n < e /\ e < Len(g)
        /\ g[e] = "/" /\ g[e + 1] = "**"
        /\ Match(SubSeq(g, n, e - 1), part)
  BY DEF MustMatchPrefix
<1>2. \A i \in n .. e - 1 : g[i] # "/" /\ g[i] # "**"
  <2>1. ASSUME NEW i \in n .. e - 1 PROVE g[i] # "/"
    <3>1. /\ i - n + 1 \in DOMAIN SubSeq(g, n, e - 1)
          /\ SubSeq(g, n, e - 1)[i - n + 1] = g[i]
      <4>1. n \in 1 .. Len(g) /\ e - 1 \in 1 .. Len(g) /\ n \in Nat /\ e \in Nat
        BY <1>0, <1>1
      <4>2. PICK k : k = i - n + 1
        OBVIOUS
      <4>3. k \in 1 .. (e - 1) - n + 1 /\ n + k - 1 = i
        BY ONLY <4>1, <4>2, i \in n .. e - 1
      <4>4. k \in DOMAIN SubSeq(g, n, e - 1) /\ SubSeq(g, n, e - 1)[k] = g[n + k - 1]
        BY ONLY <1>0, <4>1, <4>3, InSubSeq
      <4> QED BY ONLY <4>2, <4>3, <4>4
    <3>2. g[i] \in ToSet(SubSeq(g, n, e - 1))
      BY ONLY <3>1 DEF ToSet
    <3> QED BY <1>1, <3>2
  <2>2. ASSUME NEW i \in n .. e - 1, g[i] = "**" PROVE FALSE
    <3>1. i # n /\ i - 1 \in n .. e - 1 /\ i \in DOMAIN g /\ i # 1
      BY <1>0, <1>1, <2>2
    <3>2. g[i - 1] = "/"
      BY <2>2, <3>1 DEF IsGlob
    <3> QED BY <2>1, <3>1, <3>2
  <2> QED BY <2>1, <2>2
<1>3. e + 1 = Len(g)
  <2>1. e + 1 \in DOMAIN g /\ g[e + 1] = "**"
    BY <1>0, <1>1
  <2>2. ASSUME ToSet(SubSeq(g, 1, e + 1)) \subseteq {"**", "/"} PROVE FALSE
    <3>1. n \in DOMAIN SubSeq(g, 1, e + 1) /\ SubSeq(g, 1, e + 1)[n] = g[n] /\ n \in n .. e - 1
      BY <1>0, <1>1
    <3>2. g[n] \in ToSet(SubSeq(g, 1, e + 1))
      BY ONLY <3>1 DEF ToSet
    <3> QED BY <1>2, <2>2, <3>1, <3>2
  <2> QED BY <2>1, <2>2
<1>4. Len(path) > Len(part) /\ path[Len(part) + 1] = "/" /\ \A i \in 1 .. Len(part) : path[i] = part[i]
  <2>1. PICK prefix : prefix = Append(part, "/")
    OBVIOUS
  <2>2. /\ prefix \in Seq(Fragments) /\ Len(prefix) = Len(part) + 1
        /\ prefix[Len(part) + 1] = "/" /\ \A i \in 1 .. Len(part) : prefix[i] = part[i]
    BY <2>1, FragmentsType
  <2>3. Len(prefix) <= Len(path) /\ SubSeq(prefix, 1, Len(prefix)) = SubSeq(path, 1, Len(prefix))
    BY <2>1 DEF IsPrefix
  <2>4. \A i \in 1 .. Len(prefix) : prefix[i] = path[i]
    <3>1. \A i \in 1 .. Len(prefix) :
            SubSeq(prefix, 1, Len(prefix))[i] = prefix[i] /\ SubSeq(path, 1, Len(prefix))[i] = path[i]
      BY <1>0, <2>2, <2>3
    <3> QED BY <2>3, <3>1
  <2> QED BY <1>0, <2>2, <2>3, <2>4
<1>5. PICK m : /\ \A at \in Offsets(g, path) : m[at] <=> GlobTurn(g, path, m, at)
               /\ Match(g, path) <=> m[<<1, 1>>]
  BY <1>0, MatchIs
<1>6. PICK sub \in Seq(Fragments) :
        /\ sub = SubSeq(g, n, e - 1) /\ Len(sub) = e - n
        /\ \A i \in n .. e - 1 : sub[i - n + 1] = g[i]
  <2>1. PICK sub : sub = SubSeq(g, n, e - 1)
    OBVIOUS
  <2>2. n \in 1 .. Len(g) /\ e - 1 \in n .. Len(g) /\ (e - 1) - n + 1 = e - n
    BY <1>0, <1>1
  <2>3. sub \in Seq(Fragments) /\ Len(sub) = e - n
    BY ONLY <1>0, <2>1, <2>2
  <2>4. ASSUME NEW i \in n .. e - 1 PROVE sub[i - n + 1] = g[i]
    <3>1. i - n + 1 \in 1 .. (e - 1) - n + 1 /\ n + (i - n + 1) - 1 = i
      BY ONLY <2>2, <2>4, <1>0
    <3>2. PICK k : k = i - n + 1
      OBVIOUS
    <3>3. k \in 1 .. (e - 1) - n + 1 /\ n + k - 1 = i
      BY ONLY <3>1, <3>2
    <3>4. n \in 1 .. Len(g) /\ e - 1 \in 1 .. Len(g)
      BY ONLY <2>2, <1>0
    <3>5. sub[k] = g[n + k - 1]
      BY ONLY <1>0, <2>1, <3>3, <3>4, InSubSeq
    <3> QED BY ONLY <3>2, <3>3, <3>5
  <2> QED BY <2>1, <2>3, <2>4
<1>7. PICK w : /\ \A at \in Offsets(sub, part) : w[at] <=> GlobTurn(sub, part, w, at)
               /\ Match(sub, part) <=> w[<<1, 1>>]
  BY <1>0, <1>6, MatchIs
(* The "**" at the end and the "/" before it match what follows the package. *)
<1>8. ASSUME NEW j \in 1 .. Len(path) + 1 PROVE m[<<e + 1, j>>]
  <2>1. PICK at : at = <<e + 1, j>>
    OBVIOUS
  <2>2. at \in Offsets(g, path) /\ at[1] = e + 1 /\ ~ (e + 1 > Len(g))
    BY <1>0, <1>1, <1>3, <2>1 DEF Offsets
  <2>3. GlobTurn(g, path, m, at)
    BY ONLY <1>1, <1>3, <2>2 DEF GlobTurn
  <2> QED BY <1>5, <2>1, <2>2, <2>3
<1>9. m[<<e, Len(part) + 1>>]
  <2>1. PICK at : at = <<e, Len(part) + 1>>
    OBVIOUS
  <2>2. at \in Offsets(g, path) /\ at[1] = e /\ at[2] = Len(part) + 1 /\ ~ (e > Len(g))
    BY <1>0, <1>1, <1>4, <2>1 DEF Offsets
  <2>3. m[<<e + 1, (Len(part) + 1) + 1>>]
    <3>1. (Len(part) + 1) + 1 \in 1 .. Len(path) + 1
      BY ONLY <1>0, <1>4
    <3> QED BY <1>8, <3>1
  <2>4. Len(part) + 1 <= Len(path) /\ g[e] \notin Stars \cup Wildcards /\ path[Len(part) + 1] = g[e]
    BY <1>0, <1>1, <1>4, MeaningType DEF Stars
  <2>5. GlobTurn(g, path, m, at)
    BY ONLY <2>2, <2>3, <2>4 DEF GlobTurn
  <2> QED BY <1>5, <2>1, <2>2, <2>5
<1>10. n \in Nat /\ e \in Nat /\ 1 <= n /\ n < e /\ e < Len(g)
  BY <1>0, <1>1
(* From its start in the glob to its end, the part that matches the package. *)
<1> DEFINE S == {k \in Nat : \A i \in n .. e, j \in 1 .. Len(part) + 1 :
                               e - i <= k /\ w[<<i - n + 1, j>>] => m[<<i, j>>]}
<1>11. 0 \in S
  <2> SUFFICES ASSUME NEW i \in n .. e, NEW j \in 1 .. Len(part) + 1,
                      e - i <= 0, w[<<i - n + 1, j>>]
               PROVE  m[<<i, j>>]
    OBVIOUS
  <2>1. i = e /\ i - n + 1 \in Nat /\ i - n + 1 = (e - n) + 1
    BY ONLY <1>10, i \in n .. e, e - i <= 0
  <2>2. PICK at : at = <<i - n + 1, j>>
    OBVIOUS
  <2>3. at \in Offsets(sub, part) /\ at[1] > Len(sub) /\ at[2] = j
    <3>1. i - n + 1 \in 1 .. Len(sub) + 1 /\ i - n + 1 > Len(sub)
      <4>1. PICK l \in Nat : l = Len(sub)
        BY <1>6
      <4>2. PICK k \in Nat : k = i - n + 1
        BY <2>1
      <4>3. k = l + 1
        BY <1>6, <2>1, <4>1, <4>2
      <4>4. k \in 1 .. l + 1 /\ k > l
        BY ONLY <4>3, k \in Nat, l \in Nat
      <4> QED BY ONLY <4>1, <4>2, <4>4
    <3>2. at \in (1 .. Len(sub) + 1) \X (1 .. Len(part) + 1)
      BY ONLY <2>2, <3>1, j \in 1 .. Len(part) + 1
    <3>3. at[1] = i - n + 1 /\ at[2] = j
      BY ONLY <2>2
    <3> QED BY <3>1, <3>2, <3>3 DEF Offsets
  <2>4. GlobTurn(sub, part, w, at)
    BY <1>7, <2>2, <2>3
  <2>5. j > Len(part)
    BY ONLY <2>3, <2>4 DEF GlobTurn
  <2>6. j = Len(part) + 1
    BY <1>0, <2>5
  <2> QED BY <1>9, <2>1, <2>6
<1>12. ASSUME NEW k \in Nat, k \in S PROVE k + 1 \in S
  <2> SUFFICES ASSUME NEW i \in n .. e, NEW j \in 1 .. Len(part) + 1,
                      e - i <= k + 1, w[<<i - n + 1, j>>]
               PROVE  m[<<i, j>>]
    OBVIOUS
  <2>1. CASE e - i <= k
    BY <1>12, <2>1
  <2>2. CASE i = e
    <3>1. e - i <= 0
      BY <1>10, <2>2
    <3> QED BY <1>11, <3>1
  <2>3. CASE i # e
    <3>1. /\ i \in n .. e - 1 /\ i + 1 \in n .. e /\ e - (i + 1) <= k
          /\ (i + 1) - n + 1 = (i - n + 1) + 1 /\ i - n + 1 \in 1 .. e - n
      <4>1. i \in n .. e /\ e - i <= k + 1 /\ i # e
        BY <2>3
      <4>2. n \in Nat /\ e \in Nat /\ i \in Nat /\ n <= i /\ i < e /\ e - i <= k + 1
        <5>1. n \in Nat /\ e \in Nat
          BY <1>10
        <5> QED BY ONLY <4>1, <5>1
      <4>3. i \in n .. e - 1 /\ i + 1 \in n .. e
        BY ONLY <4>2
      <4>4. e - (i + 1) <= k
        BY ONLY <4>2, k \in Nat
      <4>5. (i + 1) - n + 1 = (i - n + 1) + 1 /\ i - n + 1 \in 1 .. e - n
        BY ONLY <4>2
      <4> QED BY ONLY <4>3, <4>4, <4>5
    <3>2. \A b \in 1 .. Len(part) + 1 : w[<<(i - n + 1) + 1, b>>] => m[<<i + 1, b>>]
      BY <1>12, <3>1
    <3>3. PICK at : at = <<i - n + 1, j>>
      OBVIOUS
    <3>4. at \in Offsets(sub, part) /\ at[1] = i - n + 1 /\ at[2] = j /\ ~ (at[1] > Len(sub))
      <4>1. i - n + 1 \in 1 .. Len(sub) + 1 /\ ~ (i - n + 1 > Len(sub))
        <5>1. PICK l \in Nat : l = Len(sub)
          BY <1>6
        <5>2. PICK d : d = i - n + 1
          OBVIOUS
        <5>3. l = e - n /\ d \in 1 .. e - n
          BY <1>6, <3>1, <5>1, <5>2
        <5>4. d \in 1 .. l + 1 /\ ~ (d > l)
          BY ONLY <5>3, <1>10, l \in Nat
        <5> QED BY ONLY <5>1, <5>2, <5>4
      <4>2. at \in (1 .. Len(sub) + 1) \X (1 .. Len(part) + 1)
        BY ONLY <3>3, <4>1, j \in 1 .. Len(part) + 1
      <4>3. at[1] = i - n + 1 /\ at[2] = j
        BY ONLY <3>3
      <4> QED BY <4>1, <4>2, <4>3 DEF Offsets
    <3>5. GlobTurn(sub, part, w, at)
      BY <1>7, <3>3, <3>4
    <3>6. PICK x : x = sub[i - n + 1]
      OBVIOUS
    <3>7. x = g[i] /\ x # "**"
      BY <1>2, <1>6, <3>1, <3>6
    <3>8. \/ /\ x = "*"
             /\ \E b \in j .. Len(part) + 1 :
                  (\A c \in j .. b - 1 : part[c] # "/") /\ w[<<(i - n + 1) + 1, b>>]
          \/ /\ x \in Wildcards
             /\ \E b \in j .. Len(part) + 1 :
                  SubSeq(part, j, b - 1) \in Meaning[x] /\ w[<<(i - n + 1) + 1, b>>]
          \/ /\ x \notin Stars \cup Wildcards
             /\ j <= Len(part) /\ part[j] = x /\ w[<<(i - n + 1) + 1, j + 1>>]
      BY ONLY <3>4, <3>5, <3>6, <3>7 DEF GlobTurn
    <3>9. PICK at2 : at2 = <<i, j>>
      OBVIOUS
    <3>10. at2 \in Offsets(g, path) /\ at2[1] = i /\ at2[2] = j /\ ~ (at2[1] > Len(g))
      <4>1. i \in 1 .. Len(g) + 1 /\ ~ (i > Len(g))
        <5>1. PICK l \in Nat : l = Len(g)
          BY <1>0
        <5>2. e < l /\ i \in n .. e - 1
          BY <1>10, <3>1, <5>1
        <5>3. i \in 1 .. l + 1 /\ ~ (i > l)
          BY ONLY <1>10, <5>2, l \in Nat
        <5> QED BY ONLY <5>1, <5>3
      <4>2. j \in 1 .. Len(path) + 1
        <5>1. Len(path) \in Nat /\ Len(part) \in Nat /\ Len(part) <= Len(path) /\ j \in 1 .. Len(part) + 1
          BY <1>0, <1>4
        <5> QED BY ONLY <5>1
      <4>3. at2 \in (1 .. Len(g) + 1) \X (1 .. Len(path) + 1)
        BY ONLY <3>9, <4>1, <4>2
      <4>4. at2[1] = i /\ at2[2] = j
        BY ONLY <3>9
      <4> QED BY <4>1, <4>3, <4>4 DEF Offsets
    <3>11. CASE /\ x = "*"
                /\ \E b \in j .. Len(part) + 1 :
                     (\A c \in j .. b - 1 : part[c] # "/") /\ w[<<(i - n + 1) + 1, b>>]
      <4>1. PICK b \in j .. Len(part) + 1 :
              (\A c \in j .. b - 1 : part[c] # "/") /\ w[<<(i - n + 1) + 1, b>>]
        BY <3>11
      <4>2. b \in 1 .. Len(part) + 1 /\ b \in j .. Len(path) + 1
        BY <1>0, <1>4, <4>1
      <4>3. m[<<i + 1, b>>]
        BY <3>2, <4>1, <4>2
      <4>4. \A c \in j .. b - 1 : path[c] # "/"
        <5>1. \A c \in j .. b - 1 : c \in 1 .. Len(part)
          BY <1>0, <4>2
        <5> QED BY <1>4, <4>1, <5>1
      <4>5. g[i] = "*"
        BY <3>7, <3>11
      <4>6. GlobTurn(g, path, m, at2)
        BY ONLY <3>10, <4>2, <4>3, <4>4, <4>5 DEF GlobTurn
      <4> QED BY <1>5, <3>9, <3>10, <4>6
    <3>12. CASE /\ x \notin Stars \cup Wildcards
                /\ j <= Len(part) /\ part[j] = x /\ w[<<(i - n + 1) + 1, j + 1>>]
      <4>1. j \in 1 .. Len(part) /\ j + 1 \in 1 .. Len(part) + 1 /\ j <= Len(path)
        BY <1>0, <1>4, <3>12
      <4>2. m[<<i + 1, j + 1>>]
        BY <3>2, <3>12, <4>1
      <4>3. path[j] = part[j]
        BY <1>4, <4>1
      <4>4. g[i] \notin Stars \cup Wildcards /\ path[j] = g[i]
        BY <3>7, <3>12, <4>3
      <4>5. GlobTurn(g, path, m, at2)
        BY ONLY <3>10, <4>1, <4>2, <4>4 DEF GlobTurn
      <4> QED BY <1>5, <3>9, <3>10, <4>5
    <3>13. CASE /\ x \in Wildcards
                /\ \E b \in j .. Len(part) + 1 :
                     SubSeq(part, j, b - 1) \in Meaning[x] /\ w[<<(i - n + 1) + 1, b>>]
      <4>1. PICK b \in j .. Len(part) + 1 :
              SubSeq(part, j, b - 1) \in Meaning[x] /\ w[<<(i - n + 1) + 1, b>>]
        BY <3>13
      <4>2. b \in 1 .. Len(part) + 1 /\ b \in j .. Len(path) + 1
        BY <1>0, <1>4, <4>1
      <4>3. m[<<i + 1, b>>]
        BY <3>2, <4>1, <4>2
      <4>4. SubSeq(path, j, b - 1) = SubSeq(part, j, b - 1)
        <5>1. \A c \in j .. b - 1 : c \in 1 .. Len(part) /\ c \in 1 .. Len(path)
          BY <1>0, <1>4, <4>2
        <5>2. \A c \in j .. b - 1 : path[c] = part[c]
          BY <1>4, <5>1
        <5> QED BY ONLY <1>0, <5>1, <5>2, <4>2, j \in 1 .. Len(part) + 1,
                        part \in Seq(Fragments), path \in Seq(Fragments)
      <4>5. g[i] \in Wildcards /\ SubSeq(path, j, b - 1) \in Meaning[g[i]]
        BY <3>7, <3>13, <4>1, <4>4
      <4>6. GlobTurn(g, path, m, at2)
        BY ONLY <3>10, <4>2, <4>3, <4>5 DEF GlobTurn
      <4> QED BY <1>5, <3>9, <3>10, <4>6
    <3> QED BY <3>8, <3>11, <3>12, <3>13
  <2> QED BY <2>1, <2>2, <2>3
<1>13. m[<<n, 1>>]
  <2>1. e - n \in S
    <3>1. e - n \in Nat
      BY <1>10
    <3> HIDE DEF S
    <3> QED BY <1>11, <1>12, <3>1, SetInduction
  <2>2. w[<<1, 1>>]
    BY <1>1, <1>6, <1>7
  <2>3. n - n + 1 = 1 /\ n \in n .. e /\ 1 \in 1 .. Len(part) + 1 /\ e - n <= e - n
    BY <1>0, <1>10
  <2> QED BY <2>1, <2>2, <2>3
(* The parts before it are "**", which match nothing.                        *)
<1>14. PICK q \in Nat : n = 2 * q + 1
  <2>0. PICK k \in Nat : k = n - 1
    BY <1>10
  <2>1. k % 2 # 1
    <3> SUFFICES ASSUME k % 2 = 1 PROVE FALSE
      OBVIOUS
    <3>1. n # 1
      BY ONLY <2>0, k % 2 = 1
    <3>2. k \in 1 .. n - 1 /\ k \in DOMAIN g /\ k # Len(g) /\ k + 1 = n
      BY <1>0, <1>10, <2>0, <3>1
    <3>3. g[k] = "**"
      BY <1>1, <3>2
    <3>4. g[n] = "/"
      BY <3>2, <3>3 DEF IsGlob
    <3>5. n \in n .. e - 1
      BY <1>10
    <3> QED BY <1>2, <3>4, <3>5
  <2>2. k % 2 = 0
    BY ONLY k \in Nat, <2>1
  <2>3. k = 2 * (k \div 2) /\ k \div 2 \in Nat
    BY ONLY k \in Nat, <2>2
  <2>4. PICK r : r = k \div 2
    OBVIOUS
  <2>5. n = 2 * r + 1 /\ r \in Nat
    BY ONLY k \in Nat, <1>10, <2>0, <2>3, <2>4
  <2> QED BY <2>5
<1> DEFINE B == {k \in Nat : k <= q => m[<<2 * (q - k) + 1, 1>>]}
<1>15. 0 \in B
  <2>1. 2 * (q - 0) + 1 = n
    BY <1>14
  <2> QED BY <1>13, <2>1
<1>16. ASSUME NEW k \in Nat, k \in B PROVE k + 1 \in B
  <2> SUFFICES ASSUME k + 1 <= q PROVE m[<<2 * (q - (k + 1)) + 1, 1>>]
    OBVIOUS
  <2>1. PICK i : i = 2 * (q - (k + 1)) + 1
    OBVIOUS
  <2>2. i + 2 = 2 * (q - k) + 1 /\ i \in 1 .. n - 1 /\ i % 2 = 1 /\ k <= q
    BY ONLY <1>14, <2>1, k \in Nat, q \in Nat, k + 1 <= q
  <2>3. m[<<i + 2, 1>>]
    BY <1>16, <2>2
  <2>4. g[i] = "**"
    BY <1>1, <2>2
  <2>5. PICK at : at = <<i, 1>>
    OBVIOUS
  <2>6. at \in Offsets(g, path) /\ at[1] = i /\ at[2] = 1 /\ ~ (at[1] > Len(g)) /\ 1 \in 1 .. Len(path)
    BY <1>0, <1>4, <1>10, <2>2, <2>5 DEF Offsets
  <2>7. GlobTurn(g, path, m, at)
    BY ONLY <2>3, <2>4, <2>6 DEF GlobTurn
  <2> QED BY <1>5, <2>1, <2>5, <2>6, <2>7
<1>17. m[<<1, 1>>]
  <2>1. q \in B
    <3> HIDE DEF B
    <3> QED BY <1>15, <1>16, SetInduction
  <2>2. 2 * (q - q) + 1 = 1 /\ q <= q
    OBVIOUS
  <2> QED BY <2>1, <2>2
<1> QED BY <1>5, <1>17

-----------------------------------------------------------------------------

LEMMA CanMatchOf ==
  ASSUME NEW globs, NEW g \in globs, NEW part, CanMatchPrefix({g}, part)
  PROVE  CanMatchPrefix(globs, part)
BY Zenon DEF CanMatchPrefix

LEMMA MustMatchOf ==
  ASSUME NEW globs, NEW part, MustMatchPrefix(globs, part)
  PROVE  \E g \in globs : MustMatchPrefix({g}, part)
BY Zenon DEF MustMatchPrefix

(* The filters of a query that FiltersAgree skip no package with a file that *)
(* the query selects.                                                        *)
LEMMA FiltersPass ==
  ASSUME \A g \in query.includes \cup query.excludes : IsGlob(g), FiltersAgree,
         NEW p \in Packages, NEW f \in ToSet(Walk[p]), f \in Files, Selects(f)
  PROVE  ~ Skips(p)
<1>1. /\ Spelling[f] \in Seq(Fragments) /\ Spelling[p] \in Seq(Fragments)
      /\ "/" \notin ToSet(Spelling[p]) /\ IsPrefix(Append(Spelling[p], "/"), Spelling[f])
  BY SpellingType
<1>2. ASSUME query.includes # {} PROVE CanMatchPrefix(query.includes, Spelling[p])
  <2>1. PICK g \in query.includes :
          Match(g, Spelling[f]) \/ Match(g \o <<"/", "**">>, Spelling[f])
    BY <1>2 DEF Selects, MatchPath
  <2>2. /\ g \in Seq(Fragments)
        /\ \A i \in DOMAIN g : g[i] \in Wildcards => \E j \in 1 .. i - 1 : g[j] \in Stars \cup {"/"}
    BY DEF FiltersAgree, IsGlob
  <2>3. CanMatchPrefix({g}, Spelling[p])
    BY <1>1, <2>1, <2>2, CanMatch
  <2> QED BY <2>3, CanMatchOf
<1>3. ASSUME MustMatchPrefix(query.excludes, Spelling[p]) PROVE FALSE
  <2>1. PICK g \in query.excludes : MustMatchPrefix({g}, Spelling[p])
    BY <1>3, MustMatchOf
  <2>2. IsGlob(g)
    OBVIOUS
  <2>3. \A i \in DOMAIN g : g[i] = "**" => i = Len(g) \/ ToSet(SubSeq(g, 1, i)) \subseteq {"**", "/"}
    BY DEF FiltersAgree
  <2>4. Match(g, Spelling[f])
    BY <1>1, <2>1, <2>2, <2>3, MustMatch
  <2> QED BY <2>4 DEF Selects, MatchPath
<1> QED BY <1>2, <1>3 DEF Skips

-----------------------------------------------------------------------------
(* The positions of files in the indexes, and their order.                   *)
LEMMA PositionIs ==
  ASSUME NEW v \in Positions
  PROVE  /\ v[1] \in DOMAIN Glob /\ v[1] \in 1 .. Len(Glob)
         /\ PackageAt(v) \in Packages
         /\ v[2] \in DOMAIN Walk[PackageAt(v)] /\ v[2] \in 1 .. Len(Walk[PackageAt(v)])
         /\ v = <<v[1], v[2]>>
         /\ FileAt(v) \in Files /\ FileAt(v) \in ToSet(Walk[PackageAt(v)])
<1>1. PICK i \in DOMAIN Glob : v \in {i} \X DOMAIN Walk[Glob[i]]
  BY DEF Positions
<1>2. v[1] = i /\ v[2] \in DOMAIN Walk[Glob[i]] /\ v = <<v[1], v[2]>>
  BY <1>1
<1>3. i \in 1 .. Len(Glob) /\ Glob[i] \in Packages
  BY WalkType
<1>4. Walk[Glob[i]] \in Seq(Files)
  BY <1>3, WalkType
<1> QED BY <1>2, <1>3, <1>4 DEF PackageAt, FileAt, ToSet

LEMMA PositionsFinite == IsFiniteSet(Positions)
<1> DEFINE F == [i \in DOMAIN Glob |-> {i} \X DOMAIN Walk[Glob[i]]]
           T == {{i} \X DOMAIN Walk[Glob[i]] : i \in DOMAIN Glob}
<1>1. IsFiniteSet(DOMAIN Glob)
  <2>1. DOMAIN Glob = 1 .. Len(Glob) /\ Len(Glob) \in Int /\ 1 \in Int
    BY WalkType
  <2> QED BY <2>1, FS_Interval
<1>2. F \in Surjection(DOMAIN Glob, T)
  BY DEF Surjection
<1>3. IsFiniteSet(T)
  <2> HIDE DEF F, T
  <2> QED BY <1>1, <1>2, FS_Surjection
<1>4. ASSUME NEW i \in DOMAIN Glob PROVE IsFiniteSet({i} \X DOMAIN Walk[Glob[i]])
  <2>1. Walk[Glob[i]] \in Seq(Files)
    BY WalkType
  <2>2. DOMAIN Walk[Glob[i]] = 1 .. Len(Walk[Glob[i]]) /\ Len(Walk[Glob[i]]) \in Int /\ 1 \in Int
    BY <2>1
  <2>3. IsFiniteSet(DOMAIN Walk[Glob[i]])
    BY <2>2, FS_Interval
  <2>4. IsFiniteSet({i})
    BY FS_Singleton
  <2> QED BY <2>3, <2>4, FS_Product
<1>5. \A t \in T : IsFiniteSet(t)
  BY <1>4
<1>6. Positions = UNION T
  BY DEF Positions
<1> HIDE DEF T
<1> QED BY <1>3, <1>5, <1>6, FS_UNION

LEMMA FirstPosition ==
  ASSUME NEW U \in SUBSET Positions, U # {}
  PROVE  \E v \in U : \A u \in U : ~ Precedes(u, v)
<1> DEFINE I == {v[1] : v \in U}
<1>1. I \in SUBSET Nat /\ I # {}
  BY PositionIs
<1>2. PICK i \in I : \A k \in I : i <= k
  <2> HIDE DEF I
  <2> QED BY <1>1, LeastNumber
<1> DEFINE J == {v[2] : v \in {u \in U : u[1] = i}}
<1>3. J \in SUBSET Nat /\ J # {}
  BY PositionIs
<1>4. PICK j \in J : \A k \in J : j <= k
  <2> HIDE DEF J
  <2> QED BY <1>3, LeastNumber
<1>5. PICK v \in U : v[1] = i /\ v[2] = j
  OBVIOUS
<1>6. ASSUME NEW u \in U, Precedes(u, v) PROVE FALSE
  <2>1. u[1] \in Nat /\ u[2] \in Nat /\ i \in Nat /\ j \in Nat /\ i <= u[1]
    <3>1. u \in Positions /\ u[1] \in I
      OBVIOUS
    <3>2. u[1] \in Nat /\ u[2] \in Nat
      BY <3>1, PositionIs
    <3> HIDE DEF I, J
    <3> QED BY <1>1, <1>2, <1>3, <1>4, <3>1, <3>2
  <2>2. u[1] = i /\ u[2] < j
    BY <1>5, <1>6, <2>1 DEF Precedes
  <2>3. j <= u[2]
    BY <1>4, <2>2
  <2> QED BY <2>1, <2>2, <2>3
<1> QED BY <1>6

LEMMA LastPosition ==
  ASSUME NEW U \in SUBSET Positions, U # {}
  PROVE  \E v \in U : \A u \in U : u = v \/ Precedes(u, v)
<1> DEFINE I == {v[1] : v \in U}
<1>1. I \in SUBSET (0 .. Len(Glob)) /\ I # {} /\ Len(Glob) \in Nat
  <2>1. Len(Glob) \in Nat
    BY WalkType
  <2>2. \A v \in U : v[1] \in 0 .. Len(Glob)
    <3>1. \A v \in U : v[1] \in 1 .. Len(Glob)
      BY PositionIs
    <3> QED BY ONLY <2>1, <3>1
  <2> QED BY <2>1, <2>2
<1>2. PICK i \in I : \A k \in I : k <= i
  <2> HIDE DEF I
  <2> QED BY <1>1, MaxIsGreatest
<1> DEFINE J == {v[2] : v \in {u \in U : u[1] = i}}
<1>3. J \in SUBSET (0 .. Len(Walk[Glob[i]])) /\ J # {} /\ Len(Walk[Glob[i]]) \in Nat
  <2>1. \A u \in U : u[1] = i => u[2] \in 0 .. Len(Walk[Glob[i]])
    BY PositionIs DEF PackageAt
  <2>2. Glob[i] \in Packages
    BY PositionIs DEF PackageAt
  <2>3. Len(Walk[Glob[i]]) \in Nat
    BY <2>2, WalkType
  <2> QED BY <2>1, <2>3
<1>4. PICK j \in J : \A k \in J : k <= j
  <2> HIDE DEF J
  <2> QED BY <1>3, MaxIsGreatest
<1>5. PICK v \in U : v[1] = i /\ v[2] = j
  OBVIOUS
<1>6. ASSUME NEW u \in U PROVE u = v \/ Precedes(u, v)
  <2>1. u[1] \in Nat /\ u[2] \in Nat /\ i \in Nat /\ j \in Nat /\ u[1] <= i
        /\ u = <<u[1], u[2]>> /\ v = <<i, j>>
    BY <1>1, <1>2, <1>3, <1>4, <1>5, PositionIs
  <2>2. CASE u[1] < i
    BY <1>5, <2>2 DEF Precedes
  <2>3. CASE u[1] = i
    <3>1. u[2] <= j
      BY <1>4, <2>3
    <3>2. CASE u[2] < j
      BY <1>5, <2>3, <3>2 DEF Precedes
    <3>3. CASE u[2] = j
      BY <2>1, <2>3, <3>3
    <3> QED BY <2>1, <3>1, <3>2, <3>3
  <2> QED BY <2>1, <2>2, <2>3
<1> QED BY <1>6

(* A page that does not reach its limit has searched every candidate.        *)
LEMMA AllScanned ==
  ASSUME NEW a, Cardinality(Opened(Scans(a))) < MaxFileVisits
  PROVE  Scans(a) = Candidates(a)
<1>1. Scans(a) \subseteq Candidates(a) /\ Candidates(a) \subseteq Positions
  BY DEF Scans, Candidates
<1> DEFINE U == Candidates(a) \ Scans(a)
<1> SUFFICES ASSUME U # {} PROVE FALSE
  BY <1>1
<1>2. PICK v \in U : \A u \in U : ~ Precedes(u, v)
  BY <1>1, FirstPosition
<1>3. {u \in Opened(Candidates(a)) : Precedes(u, v)} \subseteq Opened(Scans(a))
  BY <1>2 DEF Opened
<1>4. IsFiniteSet(Opened(Scans(a)))
  <2>1. Opened(Scans(a)) \in SUBSET Positions
    BY <1>1 DEF Opened
  <2> QED BY <2>1, PositionsFinite, FS_Subset
<1>5. PICK c : c = {u \in Opened(Candidates(a)) : Precedes(u, v)}
  OBVIOUS
<1>6. IsFiniteSet(c) /\ Cardinality(c) <= Cardinality(Opened(Scans(a)))
  BY <1>3, <1>4, <1>5, FS_Subset
<1>7. Cardinality(c) \in Nat /\ Cardinality(Opened(Scans(a))) \in Nat
  BY <1>4, <1>6, FS_CardinalityType
<1>8. Cardinality(c) < MaxFileVisits
  BY <1>6, <1>7, PageType
<1> QED BY <1>5, <1>8 DEF Scans

(* No page that reaches its limit is the last.                               *)
LEMMA ResumeIs ==
  ASSUME NEW U \in SUBSET Positions, Resume(U) = NoFile
  PROVE  Cardinality(U) < MaxFileVisits
<1> SUFFICES ASSUME ~ (Cardinality(U) < MaxFileVisits) PROVE FALSE
  OBVIOUS
<1>1. U # {}
  BY PageType, FS_EmptySet
<1>2. PICK v \in U : v = CHOOSE x \in U : \A u \in U : u = x \/ Precedes(u, x)
  <2>1. \E x \in U : \A u \in U : u = x \/ Precedes(u, x)
    BY <1>1, LastPosition
  <2> QED BY <2>1, Zenon
<1>3. FileAt(v) \in Files
  BY PositionIs
<1>4. Resume(U) = FileAt(v)
  BY <1>2 DEF Resume
<1> QED BY <1>3, <1>4, NoFileType

-----------------------------------------------------------------------------
QueryInv == \E s \in Searches : query = s.query /\ content = s.content

LinesInv ==
  \A p \in printed :
    /\ p.file \in Found
    /\ \E s \in FirstOfLine(Text(p.file)) : Leads(Text(p.file), query.context, p.line, s)

FirstPageInv ==
  /\ pages \in Nat
  /\ pages = 0 => after = NoFile /\ printed = {} /\ errors = {} /\ ~ done
  /\ pages = 1 /\ done =>
       /\ errors = Errors(Candidates(NoFile))
       /\ printed = UNION {Prints(FileAt(v)) : v \in Opened(Candidates(NoFile))}

IInv == QueryInv /\ LinesInv /\ FirstPageInv

LEMMA QueryIs ==
  ASSUME QueryInv
  PROVE  /\ query.context \in Nat
         /\ \A g \in query.includes \cup query.excludes : IsGlob(g)
         /\ DOMAIN content \subseteq Files
         /\ \A f \in DOMAIN content : content[f].kind = "ok" => IsText(content[f].text)
BY SearchesType DEF QueryInv

LEMMA PrintsLead ==
  ASSUME QueryInv, NEW f \in DOMAIN content
  PROVE  /\ \A p \in Prints(f) :
              /\ p.file = f /\ content[f].kind = "ok"
              /\ \E s \in FirstOfLine(Text(f)) : Leads(Text(f), query.context, p.line, s)
         /\ content[f].kind = "ok" =>
              \A s \in Required(Text(f)) :
                \E p \in Prints(f) : p.file = f /\ Leads(Text(f), query.context, p.line, s)
<1>1. CASE content[f].kind # "ok"
  BY <1>1 DEF Prints
<1>2. CASE content[f].kind = "ok"
  <2>1. PICK ps : ps = Reader(content[f].text, query.context)
    OBVIOUS
  <2>2. IsText(content[f].text) /\ query.context \in Nat
    BY <1>2, QueryIs
  <2>3. PrintedFrom(content[f].text, query.context, ps, 0)
    BY <2>1, <2>2, ReaderLeads
  <2>4. Prints(f) = {[file |-> f, line |-> p] : p \in ToSet(ps)}
    BY <1>2, <2>1 DEF Prints
  <2>5. /\ \A p \in ToSet(ps) : \E s \in FirstOfLine(Text(f)) : Leads(Text(f), query.context, p, s)
        /\ \A s \in Required(Text(f)) : \E p \in ToSet(ps) : Leads(Text(f), query.context, p, s)
    <3>1. \A s \in Required(content[f].text) : s >= 0
      BY <2>2 DEF IsText, Required, FirstOfLine
    <3> QED BY <2>3, <3>1 DEF PrintedFrom, ToSet, Text
  <2>6. \A p \in Prints(f) : p.file = f /\ p.line \in ToSet(ps)
    BY <2>4
  <2>7. \A p \in ToSet(ps) : \E q \in Prints(f) : q.file = f /\ q.line = p
    <3> SUFFICES ASSUME NEW p \in ToSet(ps) PROVE \E q \in Prints(f) : q.file = f /\ q.line = p
      OBVIOUS
    <3>1. PICK q : q = [file |-> f, line |-> p]
      OBVIOUS
    <3> QED BY ONLY <2>4, <3>1, p \in ToSet(ps)
  <2> QED BY <1>2, <2>5, <2>6, <2>7
<1> QED BY <1>1, <1>2

LEMMA CandidateFiles ==
  ASSUME NEW a, NEW v \in Candidates(a)
  PROVE  v \in Positions /\ FileAt(v) \in Wanted
BY DEF Candidates, Wanted

(* All that the query selects is a candidate of the first page.              *)
LEMMA AllWanted ==
  ASSUME QueryInv, FiltersAgree
  PROVE  {FileAt(v) : v \in Candidates(NoFile)} = Wanted
<1>1. ASSUME NEW f \in Wanted PROVE \E v \in Candidates(NoFile) : FileAt(v) = f
  <2>1. f \in Files /\ f \in DOMAIN content /\ Selects(f)
    BY QueryIs DEF Wanted
  <2>2. PICK i \in DOMAIN Glob : f \in ToSet(Walk[Glob[i]])
    BY <2>1, WalkType
  <2>3. PICK j \in DOMAIN Walk[Glob[i]] : f = Walk[Glob[i]][j]
    BY <2>2 DEF ToSet
  <2>4. PICK v : v = <<i, j>>
    OBVIOUS
  <2>5. v \in Positions /\ PackageAt(v) = Glob[i] /\ FileAt(v) = f
    BY <2>3, <2>4 DEF Positions, PackageAt, FileAt
  <2>6. Glob[i] \in Packages
    BY WalkType
  <2>7. ~ Skips(Glob[i])
    BY <2>1, <2>2, <2>6, FiltersPass, QueryIs
  <2> QED BY <2>1, <2>5, <2>7 DEF Candidates, IsAfter
<1> QED BY <1>1, CandidateFiles

LEMMA Start == Init => IInv
BY DEF Init, IInv, QueryInv, LinesInv, FirstPageInv

LEMMA Step == IInv /\ [Next]_vars => IInv'
<1> SUFFICES ASSUME IInv, [Next]_vars PROVE IInv'
  OBVIOUS
<1>1. CASE UNCHANGED vars
  <2>1. QueryInv' /\ pages' = pages /\ after' = after /\ printed' = printed /\ errors' = errors
        /\ done' = done /\ query' = query /\ content' = content
    BY <1>1 DEF vars, IInv, QueryInv
  <2>2. LinesInv'
    BY <2>1 DEF IInv, LinesInv, Found, Wanted, Text, Selects
  <2>3. FirstPageInv'
    BY <2>1 DEF IInv, FirstPageInv, Errors, Candidates, Prints, Opened, Skips, Selects
  <2> QED BY <2>1, <2>2, <2>3 DEF IInv
<1>2. CASE ServePage
  <2>1. /\ query' = query /\ content' = content /\ page' = Opened(Scans(after))
        /\ errors' = errors \cup Errors(Scans(after))
        /\ printed' = printed \cup UNION {Prints(FileAt(v)) : v \in page'}
        /\ pages' = pages + 1 /\ after' = Resume(page') /\ done' = (after' = NoFile)
    BY <1>2 DEF ServePage
  <2>2. QueryInv /\ QueryInv'
    BY <2>1 DEF IInv, QueryInv
  <2>3. page' \subseteq Candidates(after) /\ page' \subseteq Positions
    BY <2>1 DEF Opened, Scans, Candidates
  <2>4. LinesInv'
    <3>1. ASSUME NEW p \in printed'
          PROVE  /\ p.file \in Found
                 /\ \E s \in FirstOfLine(Text(p.file)) : Leads(Text(p.file), query.context, p.line, s)
      <4>1. CASE p \in printed
        BY <4>1 DEF IInv, LinesInv
      <4>2. ASSUME NEW v \in page', p \in Prints(FileAt(v))
            PROVE  /\ p.file \in Found
                   /\ \E s \in FirstOfLine(Text(p.file)) : Leads(Text(p.file), query.context, p.line, s)
        <5>1. FileAt(v) \in Wanted /\ FileAt(v) \in DOMAIN content
          BY <2>3, CandidateFiles DEF Wanted
        <5>2. p.file = FileAt(v) /\ content[FileAt(v)].kind = "ok"
              /\ \E s \in FirstOfLine(Text(FileAt(v))) : Leads(Text(FileAt(v)), query.context, p.line, s)
          BY <2>2, <4>2, <5>1, PrintsLead
        <5> QED BY <5>1, <5>2 DEF Found
      <4> QED BY <2>1, <4>1, <4>2
    <3> QED BY <2>1, <3>1 DEF LinesInv, Found, Wanted, Text, Selects
  <2>5. FirstPageInv'
    <3>1. pages \in Nat /\ pages' \in Nat /\ pages' # 0
      BY <2>1 DEF IInv, FirstPageInv
    <3>2. ASSUME pages' = 1, done'
          PROVE  /\ errors' = Errors(Candidates(NoFile))
                 /\ printed' = UNION {Prints(FileAt(v)) : v \in Opened(Candidates(NoFile))}
      <4>1. after = NoFile /\ printed = {} /\ errors = {}
        <5>1. pages = 0
          BY <2>1, <3>1, <3>2
        <5> QED BY <5>1 DEF IInv, FirstPageInv
      <4>2. Cardinality(page') < MaxFileVisits
        BY <2>1, <2>3, <3>2, ResumeIs
      <4>3. Scans(NoFile) = Candidates(NoFile)
        BY <2>1, <4>1, <4>2, AllScanned
      <4> QED BY <2>1, <4>1, <4>3
    <3>3. /\ Errors(Candidates(NoFile))' = Errors(Candidates(NoFile))
          /\ (UNION {Prints(FileAt(v)) : v \in Opened(Candidates(NoFile))})'
               = UNION {Prints(FileAt(v)) : v \in Opened(Candidates(NoFile))}
      BY <2>1 DEF Errors, Candidates, Prints, Opened, Skips, Selects
    <3> QED BY <3>1, <3>2, <3>3 DEF FirstPageInv
  <2> QED BY <2>2, <2>4, <2>5 DEF IInv
<1> QED BY <1>1, <1>2 DEF Next

LEMMA Always == Spec => []IInv
BY Start, Step, PTL DEF Spec

(* Every line of every page leads the editor to the first match of a line    *)
(* (the conversion back in grep.ts undoes that of algorithm.go), and shows   *)
(* the lines around it under their numbers.                                  *)
THEOREM LinesLead == Spec => []RangesAreMatches
<1>1. IInv => RangesAreMatches
  BY DEF IInv, LinesInv, RangesAreMatches, Leads
<1> QED BY <1>1, Always, PTL

(* A search that ends with its first page has shown a line for each line     *)
(* with a match, in every file that the globs select and that can be read,   *)
(* if the globs satisfy FiltersAgree.  Of others it is not true: an include  *)
(* such as {apt,lxc}/a or [ab]pt/a has packages skipped whose files it       *)
(* selects, and so has an exclude such as apt/**/b.                          *)
THEOREM OnePageShowsAll == Spec => []SinglePageComplete
<1>1. IInv => SinglePageComplete
  <2> SUFFICES ASSUME IInv, done, pages = 1, FiltersAgree,
                      NEW f \in Found, NEW s \in Required(Text(f))
               PROVE  Shown(f, s)
    BY DEF SinglePageComplete, AllShown
  <2>1. f \in Wanted /\ f \in DOMAIN content /\ content[f].kind = "ok"
    BY DEF Found, Wanted
  <2>2. PICK v \in Candidates(NoFile) : FileAt(v) = f
    BY <2>1, AllWanted DEF IInv
  <2>3. v \in Opened(Candidates(NoFile))
    BY <2>1, <2>2 DEF Opened
  <2>4. Prints(f) \subseteq printed
    BY <2>2, <2>3 DEF IInv, FirstPageInv
  <2>5. PICK p \in Prints(f) : p.file = f /\ Leads(Text(f), query.context, p.line, s)
    BY <2>1, PrintsLead DEF IInv
  <2> QED BY <2>4, <2>5 DEF Shown, Leads
<1> QED BY <1>1, Always, PTL

(* The footer of a search of one page names the selected files that it could *)
(* not search, and no others.                                                *)
THEOREM OnePageWarns == Spec => []ErrorsReported
<1>1. IInv => ErrorsReported
  <2> SUFFICES ASSUME IInv, done, pages = 1, FiltersAgree PROVE errors = Wanted \ Found
    BY DEF ErrorsReported
  <2>1. errors = Errors(Candidates(NoFile))
    BY DEF IInv, FirstPageInv
  <2>2. {FileAt(v) : v \in Candidates(NoFile)} = Wanted
    BY AllWanted DEF IInv
  <2> QED BY <2>1, <2>2 DEF Errors, Found
<1> QED BY <1>1, Always, PTL
=============================================================================
