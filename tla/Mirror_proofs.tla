---------------------------- MODULE Mirror_proofs ----------------------------
(* A snapshot of the mirror is whole and follows the order of priority, for  *)
(* any areas, components, Release files and indexes, wherever a Release file *)
(* was cut, and however often the mirror publishes meanwhile.                *)
EXTENDS Mirror, WellFoundedInduction, TLAPS

USE NoHashType, ChangesType, ZeroType, ListsType

-------------------------------------------------------------------------------
(* The smallest element of a set of numbers, from the library's theorem that *)
(* the numbers are well-founded.                                             *)
LEMMA LeastNumber ==
  ASSUME NEW T \in SUBSET Nat, T # {}
  PROVE  Min(T) \in T /\ \A y \in T : Min(T) <= y
<1>1. PICK x \in T : \A y \in T : ~ (<<y, x>> \in OpToRel(<, Nat))
  BY NatLessThanWellFounded, WFMin
<1>2. \A y \in T : ~ (y < x)
  BY <1>1 DEF OpToRel
<1>3. \A y \in T : x <= y
  BY <1>2
<1> QED BY <1>3 DEF Min

-------------------------------------------------------------------------------
(* Release files.                                                            *)

Names(r, c, h) == [name |-> c, hash |-> h] \in ToSet(r)

HashIn(r, c) == CHOOSE h \in HashesOf(r) : Names(r, c, h)

(* Up to component i, release r names indexes, and none of length zero.      *)
ReachedIn(r, i) ==
  \A j \in 1 .. i : /\ \E h \in Hashes : Names(r, Components[j], h)
                    /\ HashIn(r, Components[j]) \notin ZeroLength

LEMMA ReachedSeen ==
  /\ \A k, i : Reached(k, i) = ReachedIn(seen[k], i)
  /\ \A k, i : IndexAt(k, i) = Content[HashIn(seen[k], Components[i])]
BY DEF Reached, ReachedIn, IsNamed, IndexAt, HashAt, HashIn, Names

LEMMA ReleaseEntry ==
  ASSUME NEW r \in Releases, NEW i \in DOMAIN r
  PROVE  r[i].hash \in Hashes /\ r[i] = [name |-> r[i].name, hash |-> r[i].hash]
<1> DEFINE named == {r[j].name : j \in DOMAIN r}
           entries == [name : named, hash : Hashes]
<1>1. r \in Seq(entries)
  BY ReleasesType
<1> HIDE DEF entries
<1>2. r[i] \in entries
  BY <1>1
<1> HIDE DEF named
<1> QED BY <1>2 DEF entries

LEMMA HashUnique ==
  ASSUME NEW r \in Releases, NEW c, NEW h, Names(r, c, h)
  PROVE  h \in Hashes /\ HashIn(r, c) = h
<1>1. PICK i \in DOMAIN r : r[i] = [name |-> c, hash |-> h]
  BY DEF Names, ToSet
<1>2. r[i].hash = h /\ r[i].name = c
  BY <1>1
<1>3. h \in Hashes /\ h \in HashesOf(r)
  BY <1>2, ReleaseEntry DEF HashesOf
<1>4. ASSUME NEW g, Names(r, c, g) PROVE g = h
  <2>1. PICK j \in DOMAIN r : r[j] = [name |-> c, hash |-> g]
    BY <1>4 DEF Names, ToSet
  <2>2. r[j].hash = g /\ r[j].name = c
    BY <2>1
  <2> QED BY <1>2, <2>2, ReleasesType
<1> QED BY <1>3, <1>4 DEF HashIn

(* What FindFileInList finds in any first part of a release is what the      *)
(* release says.                                                             *)
LEMMA FoundIsNamed ==
  ASSUME NEW r \in Releases, NEW n \in 0 .. Len(r), NEW c,
         FindFileInList(SubSeq(r, 1, n), c) # NoHash
  PROVE  Names(r, c, FindFileInList(SubSeq(r, 1, n), c))
<1> DEFINE files == SubSeq(r, 1, n)
<1>1. r \in Seq([name : {r[i].name : i \in DOMAIN r}, hash : Hashes])
  BY ReleasesType
<1>2. DOMAIN files = 1 .. n /\ \A i \in 1 .. n : i \in DOMAIN r /\ files[i] = r[i]
  BY <1>1
<1> HIDE DEF files
<1>3. PICK i \in DOMAIN files : Occurrences(files, c) = {i}
  BY DEF FindFileInList, files
<1>4. PICK j \in DOMAIN files :
        files[j].name = c /\ FindFileInList(files, c) = files[j].hash
  <2>1. files[i].name = c
    BY <1>3 DEF Occurrences
  <2> QED BY <1>3, <2>1 DEF FindFileInList
<1>5. files[j] = r[j] /\ j \in DOMAIN r
  BY <1>2, <1>4
<1>6. r[j] = [name |-> c, hash |-> FindFileInList(files, c)]
  BY <1>4, <1>5, ReleaseEntry
<1> QED BY <1>5, <1>6 DEF Names, ToSet, files

LEMMA EndsAtFirst ==
  ASSUME NEW files
  PROVE  LET end == EndsAt(files)
             Found(i) == FindFileInList(files, Components[i])
         IN  /\ end \in 0 .. Len(Components)
             /\ end # 0 => Found(end) = NoHash \/ Found(end) \in ZeroLength
             /\ \A i \in 1 .. Len(Components) :
                  end = 0 \/ i < end => Found(i) # NoHash /\ Found(i) \notin ZeroLength
<1> DEFINE Found(i) == FindFileInList(files, Components[i])
           I == {i \in 1 .. Len(Components) : Found(i) = NoHash \/ Found(i) \in ZeroLength}
<1>1. EndsAt(files) = IF I # {} THEN Min(I) ELSE 0
  BY DEF EndsAt, SelectInSeq
<1>2. I \in SUBSET Nat
  OBVIOUS
<1>3. I # {} => Min(I) \in I /\ \A y \in I : Min(I) <= y
  BY <1>2, LeastNumber
<1>4. \A i \in 1 .. Len(Components) :
        i \notin I => Found(i) # NoHash /\ Found(i) \notin ZeroLength
  OBVIOUS
<1>5. \A i \in I : i \in 1 .. Len(Components)
                     /\ (Found(i) = NoHash \/ Found(i) \in ZeroLength)
  OBVIOUS
<1> HIDE DEF Found, I
<1>6. Len(Components) \in Nat
  OBVIOUS
<1>7. CASE I = {}
  BY <1>1, <1>4, <1>6, <1>7 DEF Found
<1>8. CASE I # {}
  <2>1. EndsAt(files) = Min(I) /\ Min(I) \in I
    BY <1>1, <1>3, <1>8
  <2>2. \A i \in 1 .. Len(Components) : i < Min(I) => i \notin I
    BY <1>3, <1>5, <1>8
  <2>3. Min(I) \in 1 .. Len(Components)
    BY <1>5, <2>1
  <2> QED BY <1>4, <1>5, <1>6, <2>1, <2>2, <2>3 DEF Found
<1> QED BY <1>7, <1>8

(* The sources of an area: one per component, up to the first without an     *)
(* index, wherever the Release file was cut.                                 *)
LEMMA SourcesAreReached ==
  ASSUME NEW r \in Releases, NEW n \in 0 .. Len(r), NEW a,
         ~ Panics(SubSeq(r, 1, n))
  PROVE  LET new == SourcesOf(a, SubSeq(r, 1, n))
         IN  /\ new \in Seq([area : {a}, component : ToSet(Components), hash : Hashes])
             /\ Len(new) <= Len(Components)
             /\ \A i \in 1 .. Len(Components) : ReachedIn(r, i) <=> i <= Len(new)
             /\ \A i \in 1 .. Len(new) : new[i].hash = HashIn(r, Components[i])
<1> DEFINE files == SubSeq(r, 1, n)
           end == EndsAt(files)
           Found(i) == FindFileInList(files, Components[i])
           last == IF end = 0 THEN Len(Components) ELSE end - 1
           new == SourcesOf(a, files)
<1>1. /\ end \in 0 .. Len(Components)
      /\ end # 0 => Found(end) = NoHash \/ Found(end) \in ZeroLength
      /\ \A i \in 1 .. Len(Components) :
           end = 0 \/ i < end => Found(i) # NoHash /\ Found(i) \notin ZeroLength
  BY EndsAtFirst
<1>2. end # 0 => Found(end) # NoHash
  BY DEF Panics
<1>3. ASSUME NEW i, Found(i) # NoHash
      PROVE  /\ Names(r, Components[i], Found(i)) /\ Found(i) \in Hashes
             /\ HashIn(r, Components[i]) = Found(i)
  <2>1. Names(r, Components[i], Found(i))
    BY <1>3, FoundIsNamed
  <2> QED BY <2>1, HashUnique
<1>4. new = [i \in 1 .. last |-> [area |-> a, component |-> Components[i], hash |-> Found(i)]]
  BY DEF SourcesOf
<1> HIDE DEF files, end, Found, new
<1>5. last \in 0 .. Len(Components)
        /\ \A i \in 1 .. last : i \in 1 .. Len(Components) /\ (end = 0 \/ i < end)
  BY <1>1
<1>6. \A i \in 1 .. last : Found(i) # NoHash /\ Found(i) \notin ZeroLength
  BY <1>1, <1>5
<1> HIDE DEF last
<1>7. Len(new) = last /\ \A i \in 1 .. last :
        new[i] = [area |-> a, component |-> Components[i], hash |-> Found(i)]
  BY <1>4, <1>5
<1>8. new \in Seq([area : {a}, component : ToSet(Components), hash : Hashes])
  <2> DEFINE S == [area : {a}, component : ToSet(Components), hash : Hashes]
  <2>1. ASSUME NEW i \in 1 .. last
        PROVE  [area |-> a, component |-> Components[i], hash |-> Found(i)] \in S
    <3>1. Found(i) \in Hashes
      BY <1>3, <1>6
    <3>2. Components[i] \in ToSet(Components)
      BY <1>5 DEF ToSet
    <3> QED BY <3>1, <3>2
  <2> HIDE DEF S
  <2>2. last \in Nat
    BY <1>5
  <2>3. new \in [1 .. last -> S]
    BY <1>4, <2>1
  <2>4. new \in Seq(S)
    BY <2>2, <2>3
  <2> QED BY <2>4 DEF S
<1>9. ASSUME NEW i \in 1 .. last PROVE ReachedIn(r, i)
  <2> SUFFICES ASSUME NEW j \in 1 .. i
               PROVE  /\ \E h \in Hashes : Names(r, Components[j], h)
                      /\ HashIn(r, Components[j]) \notin ZeroLength
    BY DEF ReachedIn
  <2>1. j \in 1 .. last
    BY <1>5
  <2> QED BY <1>3, <1>6, <2>1
<1>10. ASSUME NEW i \in 1 .. Len(Components), ReachedIn(r, i) PROVE i <= last
  <2> SUFFICES ASSUME i > last PROVE FALSE
    BY <1>5
  <2>1. end # 0 /\ end \in 1 .. i
    BY <1>1 DEF last
  <2>2. HashIn(r, Components[end]) \notin ZeroLength
    BY <1>10, <2>1 DEF ReachedIn
  <2> QED BY <1>1, <1>2, <1>3, <2>1, <2>2
<1>11. \A i \in 1 .. last : new[i].hash = HashIn(r, Components[i])
  BY <1>3, <1>6, <1>7
<1>12. \A i \in 1 .. Len(Components) : ReachedIn(r, i) <=> i <= Len(new)
  <2>1. \A i \in 1 .. Len(Components) : i <= last => i \in 1 .. last
    BY <1>5
  <2> QED BY <1>7, <1>9, <1>10, <2>1
<1>13. Len(new) <= Len(Components) /\ \A i \in 1 .. Len(new) : new[i].hash = HashIn(r, Components[i])
  BY <1>5, <1>7, <1>11
<1> QED BY ONLY <1>8, <1>12, <1>13 DEF new, files

-------------------------------------------------------------------------------
(* The inductive invariant.                                                  *)

Sources == [area : ToSet(Areas), component : ToSet(Components), hash : Hashes]

TypeInv ==
  /\ release \in [ToSet(Areas) -> Releases]
  /\ at \in {"sources", "packages", "done", "failed"}
  /\ sources \in Seq(Sources) /\ seen \in Seq(Releases)
  /\ fetched \in 0 .. Len(sources)
  /\ at = "sources" => Len(seen) < Len(Areas)
  /\ at \in {"packages", "done"} => Len(seen) = Len(Areas)
  /\ at = "done" => fetched = Len(sources)

(* Position p of the sources is that of component i of area k.               *)
IsSource(p, k, i) ==
  /\ p \in DOMAIN sources /\ Reached(k, i)
  /\ sources[p].hash = HashIn(seen[k], Components[i])

Before(j, m, k, i) == j < k \/ (j = k /\ m < i)

(* What the releases list is among the sources, in the order of priority.    *)
SourcesInv ==
  /\ \A k \in DOMAIN seen, i \in DOMAIN Components :
       Reached(k, i) => \E p \in DOMAIN sources : IsSource(p, k, i)
  /\ \A p \in DOMAIN sources : \E k \in DOMAIN seen, i \in DOMAIN Components :
       /\ IsSource(p, k, i)
       /\ \A j \in DOMAIN seen, m \in DOMAIN Components :
            Before(j, m, k, i) /\ Reached(j, m) =>
              \E q \in DOMAIN sources : q < p /\ IsSource(q, j, m)

Index(p) == Content[sources[p].hash]

Stanzas(index, n) == {s \in DOMAIN index : index[s].name = n}

First(index, n) ==
  index[CHOOSE s \in Stanzas(index, n) : \A t \in Stanzas(index, n) : s <= t]

(* The map has the packages of the indexes fetched so far, each from the     *)
(* first that lists it.                                                      *)
MapInv ==
  /\ \A p \in 1 .. fetched : \A s \in DOMAIN Index(p) : Index(p)[s].name \in DOMAIN packages
  /\ \A n \in DOMAIN packages : \E p \in 1 .. fetched :
       /\ Stanzas(Index(p), n) # {} /\ packages[n] = First(Index(p), n)
       /\ \A q \in 1 .. p - 1 : Stanzas(Index(q), n) = {}

IInv == TypeInv /\ SourcesInv /\ MapInv

LEMMA InvInit == Init => IInv
<1> SUFFICES ASSUME Init PROVE IInv
  OBVIOUS
<1>1. /\ release \in [ToSet(Areas) -> Releases] /\ at = "sources" /\ sources = <<>>
      /\ fetched = 0 /\ packages = <<>> /\ seen = <<>>
  BY DEF Init
<1>2. Len(Areas) > 0
  OBVIOUS
<1>3. TypeInv
  BY <1>1, <1>2 DEF TypeInv
<1>4. SourcesInv
  BY <1>1 DEF SourcesInv
<1>5. MapInv
  BY <1>1 DEF MapInv
<1> QED BY <1>3, <1>4, <1>5 DEF IInv

(* Steps that gather nothing.                                                *)
LEMMA InvQuiet ==
  ASSUME IInv, TypeInv', UNCHANGED <<sources, fetched, packages, seen>>
  PROVE  IInv'
<1>1. SourcesInv'
  <2>1. \A k, i : Reached(k, i)' = Reached(k, i)
    BY DEF Reached, IsNamed, IndexAt, HashAt
  <2>2. \A p, k, i : IsSource(p, k, i)' = IsSource(p, k, i)
    BY <2>1 DEF IsSource
  <2> QED BY <2>1, <2>2 DEF IInv, SourcesInv
<1>2. MapInv'
  BY DEF IInv, MapInv, Index
<1> QED BY <1>1, <1>2 DEF IInv

(* Reading one more area.                                                    *)
LEMMA InvSources ==
  ASSUME IInv, FetchSources
  PROVE  IInv'
<1>0. PICK k, old : k = Len(seen) + 1 /\ old = Len(sources)
  OBVIOUS
<1> DEFINE a == Areas[k]
<1>r. PICK r : r = release[a]
  OBVIOUS
<1>1. at = "sources" /\ Len(seen) \in Nat /\ k \in 1 .. Len(Areas) /\ a \in ToSet(Areas)
        /\ r \in Releases
  <2>1. at = "sources" /\ seen \in Seq(Releases) /\ Len(seen) < Len(Areas)
          /\ release \in [ToSet(Areas) -> Releases]
    BY DEF FetchSources, IInv, TypeInv
  <2>2. Len(seen) \in Nat /\ k \in 1 .. Len(Areas)
    BY <1>0, <2>1
  <2>3. a \in ToSet(Areas)
    BY <2>2 DEF ToSet
  <2> QED BY <1>r, <2>1, <2>2, <2>3
<1>2. PICK n \in 0 .. Len(r) :
        IF Panics(SubSeq(r, 1, n)) THEN Panic
        ELSE /\ seen' = Append(seen, r)
             /\ sources' = sources \o SourcesOf(a, SubSeq(r, 1, n))
             /\ at' = IF Len(seen') = Len(Areas) THEN "packages" ELSE "sources"
             /\ UNCHANGED <<mirror, fetched, packages>>
  BY <1>0, <1>r DEF FetchSources
<1>3. CASE Panics(SubSeq(r, 1, n))
  <2>1. Panic
    BY <1>2, <1>3
  <2>2. TypeInv'
    BY <2>1 DEF Panic, mirror, IInv, TypeInv
  <2> QED BY <2>1, <2>2, InvQuiet DEF Panic
<1>4. CASE ~ Panics(SubSeq(r, 1, n))
  <2>0. PICK new : new = SourcesOf(a, SubSeq(r, 1, n))
    OBVIOUS
  <2>1. /\ new \in Seq([area : {a}, component : ToSet(Components), hash : Hashes])
        /\ Len(new) <= Len(Components)
        /\ \A i \in 1 .. Len(Components) : ReachedIn(r, i) <=> i <= Len(new)
        /\ \A i \in 1 .. Len(new) : new[i].hash = HashIn(r, Components[i])
    BY <1>1, <1>4, <2>0, SourcesAreReached
  <2>2. /\ seen' = Append(seen, r) /\ sources' = sources \o new
        /\ at' = IF Len(seen') = Len(Areas) THEN "packages" ELSE "sources"
        /\ UNCHANGED <<mirror, fetched, packages>>
    BY <1>2, <1>4, <2>0
  <2>3. new \in Seq(Sources) /\ Len(new) \in Nat
    <3>1. [area : {a}, component : ToSet(Components), hash : Hashes] \subseteq Sources
      BY <1>1 DEF Sources
    <3>2. \A S, T : S \subseteq T => Seq(S) \subseteq Seq(T)
      OBVIOUS
    <3>3. new \in Seq(Sources)
      BY ONLY <2>1, <3>1, <3>2
    <3> QED BY <3>3
  <2> HIDE DEF a
  <2>4. sources \in Seq(Sources) /\ old \in Nat /\ fetched \in 0 .. old
          /\ seen \in Seq(Releases) /\ release \in [ToSet(Areas) -> Releases]
    BY <1>0 DEF IInv, TypeInv
  <2>5. /\ Len(sources') = old + Len(new) /\ DOMAIN sources' = 1 .. old + Len(new)
        /\ DOMAIN sources = 1 .. old
        /\ \A p \in DOMAIN sources : sources'[p] = sources[p] /\ p \in DOMAIN sources'
        /\ \A i \in 1 .. Len(new) : sources'[old + i] = new[i] /\ old + i \in DOMAIN sources'
        /\ \A p \in DOMAIN sources' :
             p \in DOMAIN sources \/ \E i \in 1 .. Len(new) : p = old + i
    <3>1. sources' = sources \o new /\ Len(sources') = old + Len(new)
      BY <1>0, <2>2, <2>3, <2>4
    <3>2. \A p \in 1 .. old + Len(new) :
            sources'[p] = IF p <= old THEN sources[p] ELSE new[p - old]
      BY <1>0, <2>2, <2>3, <2>4
    <3>3. DOMAIN sources' = 1 .. old + Len(new) /\ DOMAIN sources = 1 .. old
      BY <1>0, <2>2, <2>3, <2>4
    <3>4. \A p \in 1 .. old + Len(new) : p \in 1 .. old \/ p - old \in 1 .. Len(new)
      BY ONLY <2>3, <2>4
    <3>5. \A p \in 1 .. old + Len(new) : p = old + (p - old)
      BY ONLY <2>3, <2>4
    <3>6. \A i \in 1 .. Len(new) : /\ old + i \in 1 .. old + Len(new)
                                   /\ ~ (old + i <= old) /\ (old + i) - old = i
      BY ONLY <2>3, <2>4
    <3>7. \A p \in 1 .. old : p \in 1 .. old + Len(new) /\ p <= old
      BY ONLY <2>3, <2>4
    <3> QED BY ONLY <3>1, <3>2, <3>3, <3>4, <3>5, <3>6, <3>7
  <2>6. /\ DOMAIN seen = 1 .. k - 1 /\ DOMAIN seen' = 1 .. k /\ Len(seen') = k
        /\ seen'[k] = r /\ \A j \in DOMAIN seen : seen'[j] = seen[j]
    BY <1>0, <1>1, <2>2, <2>4
  <2>7. TypeInv'
    <3>1. sources' \in Seq(Sources) /\ seen' \in Seq(Releases)
      BY <1>1, <2>2, <2>3, <2>4
    <3>2. fetched' \in 0 .. Len(sources')
      BY <2>2, <2>3, <2>4, <2>5
    <3>3. release' = release
      BY <2>2 DEF mirror
    <3>4. /\ at' \in {"sources", "packages"}
          /\ at' = "sources" => Len(seen') < Len(Areas)
          /\ at' = "packages" => Len(seen') = Len(Areas)
      <4>1. k <= Len(Areas) /\ k \in Nat /\ Len(Areas) \in Nat
        BY <1>1
      <4> QED BY <2>2, <2>6, <4>1
    <3> QED BY <2>4, <3>1, <3>2, <3>3, <3>4 DEF TypeInv
  <2>8. ASSUME NEW j \in DOMAIN seen, NEW i
        PROVE  Reached(j, i)' = Reached(j, i)
    BY <2>6, <2>8 DEF Reached, IsNamed, IndexAt, HashAt
  <2>9. ASSUME NEW p \in DOMAIN sources, NEW j \in DOMAIN seen, NEW i, IsSource(p, j, i)
        PROVE  IsSource(p, j, i)'
    BY <2>5, <2>6, <2>8, <2>9 DEF IsSource
  <2>10. ASSUME NEW i \in DOMAIN Components
         PROVE  Reached(k, i)' <=> i <= Len(new)
    <3>1. Reached(k, i)' = ReachedIn(r, i)
      BY <2>6 DEF Reached, IsNamed, IndexAt, HashAt, ReachedIn, HashIn, Names
    <3> QED BY <2>1, <3>1
  <2>11. ASSUME NEW i \in 1 .. Len(new)
         PROVE  IsSource(old + i, k, i)' /\ i \in DOMAIN Components
    <3>1. i \in DOMAIN Components
      BY <2>1, <2>3
    <3>2. Reached(k, i)'
      BY <2>3, <2>10, <3>1
    <3> QED BY <2>1, <2>5, <2>6, <3>1, <3>2 DEF IsSource
  <2>12. SourcesInv'
    <3>1. ASSUME NEW j \in DOMAIN seen', NEW i \in DOMAIN Components, Reached(j, i)'
          PROVE  \E p \in DOMAIN sources' : IsSource(p, j, i)'
      <4>1. CASE j \in DOMAIN seen
        <5>1. PICK p \in DOMAIN sources : IsSource(p, j, i)
          BY <2>8, <3>1, <4>1 DEF IInv, SourcesInv
        <5> QED BY <2>5, <2>9, <4>1, <5>1
      <4>2. CASE j = k
        <5>1. i \in 1 .. Len(new)
          BY <2>3, <2>10, <3>1, <4>2
        <5> QED BY <2>5, <2>11, <4>2, <5>1
      <4> QED BY <1>1, <2>6, <4>1, <4>2
    <3>2. ASSUME NEW p \in DOMAIN sources'
          PROVE  \E j \in DOMAIN seen', i \in DOMAIN Components :
                   /\ IsSource(p, j, i)'
                   /\ \A l \in DOMAIN seen', m \in DOMAIN Components :
                        Before(l, m, j, i) /\ Reached(l, m)' =>
                          \E q \in DOMAIN sources' : q < p /\ IsSource(q, l, m)'
      <4>1. CASE p \in DOMAIN sources
        <5>1. PICK j \in DOMAIN seen, i \in DOMAIN Components :
                /\ IsSource(p, j, i)
                /\ \A l \in DOMAIN seen, m \in DOMAIN Components :
                     Before(l, m, j, i) /\ Reached(l, m) =>
                       \E q \in DOMAIN sources : q < p /\ IsSource(q, l, m)
          BY <4>1 DEF IInv, SourcesInv
        <5>2. j \in DOMAIN seen' /\ IsSource(p, j, i)'
          BY <1>1, <2>6, <2>9, <4>1, <5>1
        <5>3. ASSUME NEW l \in DOMAIN seen', NEW m \in DOMAIN Components,
                     Before(l, m, j, i), Reached(l, m)'
              PROVE  \E q \in DOMAIN sources' : q < p /\ IsSource(q, l, m)'
          <6>1. l \in DOMAIN seen
            BY <1>1, <2>6, <5>3 DEF Before
          <6>2. Reached(l, m)
            BY <2>8, <5>3, <6>1
          <6>3. PICK q \in DOMAIN sources : q < p /\ IsSource(q, l, m)
            BY <5>1, <5>3, <6>1, <6>2
          <6> QED BY <2>5, <2>9, <6>1, <6>3
        <5> QED BY <5>2, <5>3
      <4>2. ASSUME NEW i \in 1 .. Len(new), p = old + i
            PROVE  /\ IsSource(p, k, i)' /\ k \in DOMAIN seen' /\ i \in DOMAIN Components
                   /\ \A l \in DOMAIN seen', m \in DOMAIN Components :
                        Before(l, m, k, i) /\ Reached(l, m)' =>
                          \E q \in DOMAIN sources' : q < p /\ IsSource(q, l, m)'
        <5>1. IsSource(p, k, i)' /\ k \in DOMAIN seen' /\ i \in DOMAIN Components
          BY <1>1, <2>6, <2>11, <4>2
        <5>2. ASSUME NEW l \in DOMAIN seen', NEW m \in DOMAIN Components,
                     Before(l, m, k, i), Reached(l, m)'
              PROVE  \E q \in DOMAIN sources' : q < p /\ IsSource(q, l, m)'
          <6>1. CASE l \in DOMAIN seen
            <7>1. PICK q \in DOMAIN sources : IsSource(q, l, m)
              BY <2>8, <5>2, <6>1 DEF IInv, SourcesInv
            <7>2. q < p
              BY <2>3, <2>4, <2>5, <4>2
            <7> QED BY <2>5, <2>9, <6>1, <7>1, <7>2
          <6>2. CASE l = k
            <7>1. m < i /\ m \in 1 .. Len(new)
              BY <1>1, <2>3, <2>10, <5>2, <6>2 DEF Before
            <7>2. old + m < p /\ old + m \in DOMAIN sources'
              BY <2>3, <2>4, <2>5, <4>2, <7>1
            <7> QED BY <2>11, <6>2, <7>1, <7>2
          <6> QED BY <1>1, <2>6, <6>1, <6>2
        <5> QED BY <5>1, <5>2
      <4> QED BY <2>5, <4>1, <4>2
    <3> QED BY <3>1, <3>2 DEF SourcesInv, Before
  <2>13. MapInv'
    <3>1. \A p \in 1 .. fetched : p \in DOMAIN sources /\ Index(p)' = Index(p)
      <4>1. \A p \in 1 .. fetched : p \in 1 .. old
        BY ONLY <2>4
      <4> QED BY <2>5, <4>1 DEF Index
    <3>2. fetched' = fetched /\ packages' = packages
      BY <2>2
    <3>3. \A p \in 1 .. fetched : \A q \in 1 .. p - 1 : q \in 1 .. fetched
      BY <2>4
    <3>4. \A p \in 1 .. fetched' : \A s \in DOMAIN Index(p)' : Index(p)'[s].name \in DOMAIN packages'
      BY <3>1, <3>2 DEF IInv, MapInv
    <3>5. ASSUME NEW m \in DOMAIN packages'
          PROVE  \E p \in 1 .. fetched' :
                   /\ Stanzas(Index(p)', m) # {} /\ packages'[m] = First(Index(p)', m)
                   /\ \A q \in 1 .. p - 1 : Stanzas(Index(q)', m) = {}
      <4>1. PICK p \in 1 .. fetched :
              /\ Stanzas(Index(p), m) # {} /\ packages[m] = First(Index(p), m)
              /\ \A q \in 1 .. p - 1 : Stanzas(Index(q), m) = {}
        BY <3>2 DEF IInv, MapInv
      <4> QED BY <3>1, <3>2, <3>3, <4>1
    <3> QED BY <3>4, <3>5 DEF MapInv
  <2> QED BY <2>7, <2>12, <2>13 DEF IInv
<1> QED BY <1>3, <1>4

NamesIn(index) == {index[s].name : s \in DOMAIN index}

(* Fetching one more index.                                                  *)
LEMMA InvFetch ==
  ASSUME IInv, FetchPackages
  PROVE  IInv'
<1>0. PICK f : f = fetched + 1
  OBVIOUS
<1>1. /\ UNCHANGED <<release, at, sources, seen>> /\ fetched' = f /\ fetched < Len(sources)
      /\ packages' = Merge(packages, Index(f)) /\ at = "packages"
  BY <1>0 DEF FetchPackages, mirror, Index
<1>2. sources \in Seq(Sources) /\ fetched \in 0 .. Len(sources) /\ Len(sources) \in Nat
  BY DEF IInv, TypeInv
<1>3. /\ f \in 0 .. Len(sources) /\ f \in 1 .. f
      /\ \A p \in 1 .. f : p \in 1 .. fetched \/ p = f
      /\ \A p \in 1 .. fetched : p \in 1 .. f
  BY ONLY <1>0, <1>1, <1>2
<1>4. TypeInv'
  <2>1. at' = "packages" /\ fetched' \in 0 .. Len(sources')
    BY <1>1, <1>3
  <2> QED BY <1>1, <2>1 DEF IInv, TypeInv
<1>5. SourcesInv'
  <2>1. \A k, i : Reached(k, i)' = Reached(k, i)
    BY <1>1 DEF Reached, IsNamed, IndexAt, HashAt
  <2>2. \A p, k, i : IsSource(p, k, i)' = IsSource(p, k, i)
    BY <1>1, <2>1 DEF IsSource
  <2> QED BY <1>1, <2>1, <2>2 DEF IInv, SourcesInv
<1>6. MapInv'
  <2>1. \A p : Index(p)' = Index(p)
    BY <1>1 DEF Index
  <2>2. /\ DOMAIN packages' = DOMAIN packages \cup NamesIn(Index(f))
        /\ \A n \in DOMAIN packages' :
             packages'[n] = IF n \in DOMAIN packages THEN packages[n] ELSE First(Index(f), n)
    <3>1. PICK map, index : map = packages /\ index = Index(f)
      OBVIOUS
    <3>2. PICK new : new = packages'
      OBVIOUS
    <3>4. new = Merge(map, index)
      BY <1>1, <3>1, <3>2
    <3>3. /\ DOMAIN new = DOMAIN map \cup NamesIn(index)
          /\ \A n \in DOMAIN new :
               new[n] = IF n \in DOMAIN map THEN map[n] ELSE First(index, n)
      BY ONLY <3>4 DEF Merge, First, Stanzas, NamesIn
    <3> QED BY ONLY <3>1, <3>2, <3>3
  <2>3. ASSUME NEW p \in 1 .. f, NEW s \in DOMAIN Index(p)
        PROVE  Index(p)[s].name \in DOMAIN packages'
    <3>1. CASE p \in 1 .. fetched
      BY <2>2, <3>1 DEF IInv, MapInv
    <3>2. CASE p = f
      BY <2>2, <3>2 DEF NamesIn
    <3> QED BY <1>3, <3>1, <3>2
  <2>4. ASSUME NEW n \in DOMAIN packages'
        PROVE  \E p \in 1 .. f :
                 /\ Stanzas(Index(p), n) # {} /\ packages'[n] = First(Index(p), n)
                 /\ \A q \in 1 .. p - 1 : Stanzas(Index(q), n) = {}
    <3>1. CASE n \in DOMAIN packages
      <4>1. PICK p \in 1 .. fetched :
              /\ Stanzas(Index(p), n) # {} /\ packages[n] = First(Index(p), n)
              /\ \A q \in 1 .. p - 1 : Stanzas(Index(q), n) = {}
        BY <3>1 DEF IInv, MapInv
      <4>2. p \in 1 .. f /\ packages'[n] = packages[n]
        BY <1>3, <2>2, <3>1
      <4> QED BY <4>1, <4>2
    <3>2. CASE n \notin DOMAIN packages
      <4>1. packages'[n] = First(Index(f), n) /\ Stanzas(Index(f), n) # {}
        BY <2>2, <3>2 DEF Stanzas, NamesIn
      <4>2. \A q \in 1 .. fetched : Stanzas(Index(q), n) = {}
        BY <3>2 DEF IInv, MapInv, Stanzas
      <4>3. \A q \in 1 .. f - 1 : q \in 1 .. fetched
        BY ONLY <1>0, <1>2
      <4> QED BY <1>3, <4>1, <4>2, <4>3
    <3> QED BY <3>1, <3>2
  <2> QED BY <1>1, <2>1, <2>3, <2>4 DEF MapInv
<1> QED BY <1>4, <1>5, <1>6 DEF IInv

LEMMA InvStep == IInv /\ [Next]_vars => IInv'
<1> SUFFICES ASSUME IInv, [Next]_vars PROVE IInv'
  OBVIOUS
<1>1. CASE FetchSources
  BY <1>1, InvSources
<1>2. CASE FetchPackages
  BY <1>2, InvFetch
<1>3. CASE \/ \E a \in ToSet(Areas) : PublishRelease(a)
           \/ Gathered \/ DownloadFails \/ UNCHANGED vars
  <2>1. UNCHANGED <<sources, fetched, packages, seen>>
    BY <1>3 DEF PublishRelease, Gathered, DownloadFails, Panic, vars
  <2>2. release' \in [ToSet(Areas) -> Releases]
    <3>1. CASE \E a \in ToSet(Areas) : PublishRelease(a)
      BY <3>1 DEF PublishRelease, IInv, TypeInv
    <3>2. CASE Gathered \/ DownloadFails \/ UNCHANGED vars
      BY <3>2 DEF Gathered, DownloadFails, Panic, vars, mirror, IInv, TypeInv
    <3> QED BY <1>3, <3>1, <3>2
  <2>3. \/ at' = at \/ at' = "failed"
        \/ at' = "done" /\ at = "packages" /\ fetched = Len(sources)
    BY <1>3 DEF PublishRelease, Gathered, DownloadFails, Panic, vars
  <2>4. TypeInv'
    BY <2>1, <2>2, <2>3 DEF IInv, TypeInv
  <2> QED BY <2>1, <2>4, InvQuiet
<1> QED BY <1>1, <1>2, <1>3 DEF Next

THEOREM Invariance == Spec => []IInv
BY InvInit, InvStep, PTL DEF Spec

-------------------------------------------------------------------------------
(* Every package that the Release files lead to is in a finished snapshot:   *)
(* a Release file that was cut either still has the components it is asked   *)
(* for or ends the run, and an index that the mirror replaced is still       *)
(* fetched by its hash or ends the run.                                      *)
THEOREM SnapshotWhole == Spec => []NothingMissing
<1>1. ASSUME IInv PROVE NothingMissing
  <2> SUFFICES ASSUME at = "done"
               PROVE  /\ Len(seen) = Len(Areas)
                      /\ \A k \in DOMAIN seen, i \in DOMAIN Components :
                           Reached(k, i) => \A s \in DOMAIN IndexAt(k, i) :
                             IndexAt(k, i)[s].name \in DOMAIN packages
    BY DEF NothingMissing
  <2>1. Len(seen) = Len(Areas) /\ fetched = Len(sources) /\ sources \in Seq(Sources)
    BY <1>1 DEF IInv, TypeInv
  <2>2. ASSUME NEW k \in DOMAIN seen, NEW i \in DOMAIN Components, Reached(k, i),
               NEW s \in DOMAIN IndexAt(k, i)
        PROVE  IndexAt(k, i)[s].name \in DOMAIN packages
    <3>1. PICK p \in DOMAIN sources : IsSource(p, k, i)
      BY <1>1, <2>2 DEF IInv, SourcesInv
    <3>2. p \in 1 .. fetched
      BY <2>1
    <3>3. Index(p) = IndexAt(k, i)
      BY <3>1, ReachedSeen DEF Index, IsSource
    <3> QED BY <1>1, <2>2, <3>2, <3>3 DEF IInv, MapInv
  <2> QED BY <2>1, <2>2
<1> QED BY <1>1, Invariance, PTL

(* The stanza of a package is the first of the first area and component, in  *)
(* the order of the configuration, that lists it in the release that was     *)
(* read, whatever the mirror published since.                                *)
THEOREM PriorityKept == Spec => []FirstWins
<1>1. ASSUME IInv PROVE FirstWins
  <2> SUFFICES ASSUME at = "done", NEW n \in DOMAIN packages
               PROVE  \E k \in DOMAIN seen, i \in DOMAIN Components :
                        /\ Reached(k, i)
                        /\ LET named == {s \in DOMAIN IndexAt(k, i) : IndexAt(k, i)[s].name = n}
                           IN  named # {} /\ packages[n] = IndexAt(k, i)[CHOOSE s \in named :
                                                             \A t \in named : s <= t]
                        /\ \A j \in DOMAIN seen, m \in DOMAIN Components :
                             (j < k \/ (j = k /\ m < i)) /\ Reached(j, m) =>
                               \A s \in DOMAIN IndexAt(j, m) : IndexAt(j, m)[s].name # n
    BY DEF FirstWins
  <2>1. fetched = Len(sources) /\ sources \in Seq(Sources)
    BY <1>1 DEF IInv, TypeInv
  <2>2. PICK p \in 1 .. fetched :
          /\ Stanzas(Index(p), n) # {} /\ packages[n] = First(Index(p), n)
          /\ \A q \in 1 .. p - 1 : Stanzas(Index(q), n) = {}
    BY <1>1 DEF IInv, MapInv
  <2>3. p \in DOMAIN sources
    BY <2>1
  <2>4. PICK k \in DOMAIN seen, i \in DOMAIN Components :
          /\ IsSource(p, k, i)
          /\ \A j \in DOMAIN seen, m \in DOMAIN Components :
               Before(j, m, k, i) /\ Reached(j, m) =>
                 \E q \in DOMAIN sources : q < p /\ IsSource(q, j, m)
    BY <1>1, <2>3 DEF IInv, SourcesInv
  <2>5. Reached(k, i) /\ Index(p) = IndexAt(k, i)
    BY <2>4, ReachedSeen DEF Index, IsSource
  <2>6. ASSUME NEW j \in DOMAIN seen, NEW m \in DOMAIN Components,
               Before(j, m, k, i), Reached(j, m), NEW s \in DOMAIN IndexAt(j, m)
        PROVE  IndexAt(j, m)[s].name # n
    <3>1. PICK q \in DOMAIN sources : q < p /\ IsSource(q, j, m)
      BY <2>4, <2>6
    <3>2. q \in 1 .. p - 1
      BY <2>1, <3>1
    <3>3. Index(q) = IndexAt(j, m)
      BY <3>1, ReachedSeen DEF Index, IsSource
    <3> QED BY <2>2, <2>6, <3>2, <3>3 DEF Stanzas
  <2>7. LET named == {s \in DOMAIN IndexAt(k, i) : IndexAt(k, i)[s].name = n}
        IN  named # {} /\ packages[n] = IndexAt(k, i)[CHOOSE s \in named :
                                                             \A t \in named : s <= t]
    BY <2>2, <2>5 DEF Stanzas, First
  <2>8. \A j \in DOMAIN seen, m \in DOMAIN Components :
          (j < k \/ (j = k /\ m < i)) /\ Reached(j, m) =>
             \A s \in DOMAIN IndexAt(j, m) : IndexAt(j, m)[s].name # n
    BY <2>6 DEF Before
  <2> QED BY <2>4, <2>5, <2>7, <2>8
<1> QED BY <1>1, Invariance, PTL

=============================================================================
