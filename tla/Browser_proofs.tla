---------------------------- MODULE Browser_proofs ----------------------------
(* A session never asks for what is not there, what it finds opens, and a    *)
(* link leads where it leads on disk, for any packages, contents, links, and *)
(* any number of lists that replace those it works from.                     *)
EXTENDS Browser, WellFoundedInduction, TLAPS

(* Lists and symbols.txt name stored objects. *)
ListsInv ==
  /\ listing \in [Distros -> SUBSET store]
  /\ symbols \subseteq store

(* Every package has a promise of its tree, and one of its tags.             *)
PromisesOf(map) ==
  /\ map = [n \in Names |-> map[n]]
  /\ \A n \in Names : map[n] = Promise(map[n].at, map[n].of)

PromisesInv == PromisesOf(contents) /\ PromisesOf(locals)

LEMMA SetPromise ==
  ASSUME NEW map, PromisesOf(map), NEW n \in Names, NEW at, NEW of
  PROVE  PromisesOf([map EXCEPT ![n] = Promise(at, of)])
  BY DEF PromisesOf, Promise

(* A promise that settles is about what it was about.                        *)
LEMMA SettlePromise ==
  ASSUME NEW map, PromisesOf(map), NEW n \in Names, NEW at
  PROVE  [map EXCEPT ![n].at = at] = [map EXCEPT ![n] = Promise(at, map[n].of)]
<1>1. \A a, o : [Promise(a, o) EXCEPT !.at = at] = Promise(at, o)
  BY DEF Promise
<1>2. map[n] = Promise(map[n].at, map[n].of)
  BY DEF PromisesOf
<1>3. [map[n] EXCEPT !.at = at] = Promise(at, map[n].of)
  BY <1>1, <1>2
<1> QED BY <1>3

(* The entries that the session knows, asked for or received, are stored.    *)
IInv == ListsInv /\ PromisesInv /\ RequestsExist

LEMMA InitInv == Init => IInv
<1> SUFFICES ASSUME Init PROVE IInv
  OBVIOUS
<1>1. ListsInv /\ PromisesInv
  BY DEF Init, CatalogInit, ListsInv, PromisesInv, PromisesOf, None, Promise
<1>2. RequestsExist
  BY DEF Init, RequestsExist, Pending, None, Promise
<1> QED BY <1>1, <1>2 DEF IInv

(* The publisher goes on: what was stored is stored, and lists are of what   *)
(* is stored.                                                                *)
LEMMA PublisherStep ==
  ASSUME IInv,
         \/ \E e \in Entries : PublisherStores(e)
         \/ PublisherLists
         \/ PublisherConsolidates
  PROVE  IInv'
<1> USE DistroType DEF IInv
<1>1. PromisesInv' /\ UNCHANGED promises
  BY DEF PublisherStores, PublisherLists, PublisherConsolidates, promises, PromisesInv
<1>2. store \subseteq store'
  BY DEF PublisherStores, PublisherLists, PublisherConsolidates, StoreEntry, PublishList, catalogVars
<1>3. RequestsExist'
  BY <1>1, <1>2 DEF RequestsExist, promises
<1>4. ListsInv'
  <2>1. ASSUME NEW e \in Entries, PublisherStores(e) PROVE ListsInv'
    <3>1. listing' = listing /\ symbols' = symbols
      BY <2>1 DEF PublisherStores, StoreEntry
    <3>2. listing \in [Distros -> SUBSET store']
      BY <1>2 DEF ListsInv
    <3> QED BY <1>2, <3>1, <3>2 DEF ListsInv
  <2>2. CASE PublisherLists
    <3>1. PICK list \in SUBSET {e \in store : e.distro = Distro} :
            listing' = [listing EXCEPT ![Distro] = list]
      BY <2>2 DEF PublisherLists, PublishList
    <3>2. listing' \in [Distros -> SUBSET store]
      BY <3>1 DEF ListsInv
    <3> QED BY <2>2, <3>2 DEF PublisherLists, PublishList, ListsInv
  <2>3. CASE PublisherConsolidates
    BY <2>3 DEF PublisherConsolidates, catalogVars, ListsInv
  <2> QED BY <2>1, <2>2, <2>3
<1> QED BY <1>1, <1>3, <1>4

(* The session goes on: what it asks for comes from its list, and its list   *)
(* was the publisher's when it was fetched.                                  *)
LEMMA SessionStep ==
  ASSUME IInv,
         \/ PackagesSettle \/ GlobalsSettle \/ Reload
         \/ \E n \in Names : \/ ListPackageContents(n) \/ ListPackageSymbols(n)
                             \/ ManifestSettles(n) \/ TagsSettle(n)
  PROVE  IInv'
<1> USE DistroType DEF IInv, Publisher, catalogVars
<1>1. UNCHANGED <<store, listing, symbols>>
  BY DEF PackagesSettle, GlobalsSettle, Reload, ListPackageContents,
         ListPackageSymbols, ManifestSettles, TagsSettle
<1>2. ListsInv'
  BY <1>1 DEF ListsInv
<1>3. listing[Distro] \subseteq store /\ symbols \subseteq store
  BY DEF ListsInv
<1>4. CASE PackagesSettle
  BY <1>1, <1>2, <1>3, <1>4 DEF PackagesSettle, PromisesInv, RequestsExist, Promise, Rejected
<1>5. CASE GlobalsSettle
  BY <1>1, <1>2, <1>3, <1>5 DEF GlobalsSettle, PromisesInv, RequestsExist, Promise, Rejected
<1>6. CASE Reload
  BY <1>1, <1>2, <1>6
  DEF Reload, Activated, PromisesInv, PromisesOf, RequestsExist, Pending, None, Promise
<1>7. ASSUME NEW n \in Names, ListPackageContents(n) PROVE IInv'
  <2>1. PICK e \in packages.of : contents' = [contents EXCEPT ![n] = Promise("pending", e)]
    BY <1>7 DEF ListPackageContents, GetPackage
  <2>2. e \in store
    BY <2>1 DEF RequestsExist
  <2>3. PromisesInv'
    BY <1>7, <2>1, SetPromise DEF ListPackageContents, PromisesInv
  <2>4. \A m \in Names : contents'[m] = IF m = n THEN Promise("pending", e) ELSE contents[m]
    BY <2>1 DEF PromisesInv, PromisesOf
  <2>5. RequestsExist'
    BY <1>1, <1>7, <2>2, <2>4 DEF ListPackageContents, RequestsExist, Promise
  <2> QED BY <1>2, <2>3, <2>5
<1>8. ASSUME NEW n \in Names, ListPackageSymbols(n) PROVE IInv'
  <2>1. PICK e \in packages.of : locals' = [locals EXCEPT ![n] = Promise("pending", e)]
    BY <1>8 DEF ListPackageSymbols, GetPackage
  <2>2. e \in store
    BY <2>1 DEF RequestsExist
  <2>3. PromisesInv'
    BY <1>8, <2>1, SetPromise DEF ListPackageSymbols, PromisesInv
  <2>4. \A m \in Names : locals'[m] = IF m = n THEN Promise("pending", e) ELSE locals[m]
    BY <2>1 DEF PromisesInv, PromisesOf
  <2>5. RequestsExist'
    BY <1>1, <1>8, <2>2, <2>4 DEF ListPackageSymbols, RequestsExist, Promise
  <2> QED BY <1>2, <2>3, <2>5
<1>9. ASSUME NEW n \in Names, ManifestSettles(n) PROVE IInv'
  <2>1. PICK at : contents' = [contents EXCEPT ![n].at = at]
    BY <1>9 DEF ManifestSettles
  <2>2. contents[n].at = "pending" /\ contents[n].of \in store
    BY <1>9 DEF ManifestSettles, RequestsExist
  <2>3. contents' = [contents EXCEPT ![n] = Promise(at, contents[n].of)]
    BY <2>1, SettlePromise DEF PromisesInv
  <2>4. PromisesInv'
    BY <1>9, <2>3, SetPromise DEF ManifestSettles, PromisesInv
  <2>5. \A m \in Names : contents'[m] = IF m = n THEN Promise(at, contents[n].of) ELSE contents[m]
    BY <2>3 DEF PromisesInv, PromisesOf
  <2>6. RequestsExist'
    BY <1>1, <1>9, <2>2, <2>5 DEF ManifestSettles, RequestsExist, Promise
  <2> QED BY <1>2, <2>4, <2>6
<1>10. ASSUME NEW n \in Names, TagsSettle(n) PROVE IInv'
  <2>1. PICK at : locals' = [locals EXCEPT ![n].at = at]
    BY <1>10 DEF TagsSettle
  <2>2. locals[n].at = "pending" /\ locals[n].of \in store
    BY <1>10 DEF TagsSettle, RequestsExist
  <2>3. locals' = [locals EXCEPT ![n] = Promise(at, locals[n].of)]
    BY <2>1, SettlePromise DEF PromisesInv
  <2>4. PromisesInv'
    BY <1>10, <2>3, SetPromise DEF TagsSettle, PromisesInv
  <2>5. \A m \in Names : locals'[m] = IF m = n THEN Promise(at, locals[n].of) ELSE locals[m]
    BY <2>3 DEF PromisesInv, PromisesOf
  <2>6. RequestsExist'
    BY <1>1, <1>10, <2>2, <2>5 DEF TagsSettle, RequestsExist, Promise
  <2> QED BY <1>2, <2>4, <2>6
<1> QED BY <1>4, <1>5, <1>6, <1>7, <1>8, <1>9, <1>10

LEMMA InvStep == ASSUME IInv, [Next]_vars PROVE IInv'
<1>1. CASE UNCHANGED vars
  BY <1>1 DEF vars, catalogVars, promises, IInv, ListsInv, PromisesInv, RequestsExist
<1> QED BY <1>1, PublisherStep, SessionStep DEF Next

-----------------------------------------------------------------------------
(* However often the publisher replaces its lists while the window is open,  *)
(* the manifests and tags that clients/package.ts and clients/symbols.ts ask *)
(* for, by the names in the list they fetched once, are there.               *)
THEOREM NoRequestMisses == Spec => []RequestsExist
<1>1. IInv => RequestsExist
  BY DEF IInv
<1> QED BY <1>1, InitInv, InvStep, PTL DEF Spec
-----------------------------------------------------------------------------
(* The state of the session keeps its types: a promise is absent, pending or *)
(* settled, and, unless absent, about an entry.                              *)
States == {"none", "pending", "fulfilled", "rejected"}

StatesInv ==
  /\ disk \in Disks /\ store \subseteq Entries
  /\ packages.at \in States \ {"none"} /\ globals.at \in States \ {"none"}
  /\ \A n \in Names : contents[n].at \in States /\ locals[n].at \in States

LEMMA StatesInit == Init => StatesInv
BY DEF Init, CatalogInit, StatesInv, States, Pending, None, Promise

(* Only the settling of a promise, a request and a reload change it.         *)
LEMMA StatesStep == ASSUME IInv, StatesInv, [Next]_vars PROVE StatesInv'
<1> USE DEF StatesInv, States
<1>1. CASE UNCHANGED vars
  BY <1>1 DEF vars, catalogVars, promises
<1>2. CASE \/ \E e \in Entries : PublisherStores(e)
           \/ PublisherLists \/ PublisherConsolidates
  BY <1>2 DEF PublisherStores, PublisherLists, PublisherConsolidates, StoreEntry,
              PublishList, catalogVars, promises
<1>3. CASE PackagesSettle \/ GlobalsSettle
  <2>1. packages'.at \in States \ {"none"} /\ globals'.at \in States \ {"none"}
    BY <1>3 DEF PackagesSettle, GlobalsSettle, Promise, Rejected
  <2> QED BY <1>3, <2>1 DEF PackagesSettle, GlobalsSettle, Publisher, catalogVars
<1>4. CASE Reload
  BY <1>4 DEF Reload, Activated, Publisher, catalogVars, Pending, None, Promise
<1>5. ASSUME NEW map, PromisesOf(map), NEW map2, NEW n \in Names, NEW at \in States, NEW of,
             map2 = [map EXCEPT ![n] = Promise(at, of)],
             \A m \in Names : map[m].at \in States
      PROVE  \A m \in Names : map2[m].at \in States
  <2>1. \A m \in Names : map2[m] = IF m = n THEN Promise(at, of) ELSE map[m]
    BY <1>5 DEF PromisesOf
  <2> QED BY <1>5, <2>1 DEF Promise
<1>6. PromisesOf(contents) /\ PromisesOf(locals)
  BY DEF IInv, PromisesInv
<1>7. ASSUME NEW n \in Names, ListPackageContents(n) \/ ManifestSettles(n)
      PROVE  StatesInv'
  <2>1. \E at \in States : \E of : contents' = [contents EXCEPT ![n] = Promise(at, of)]
    <3>1. CASE ListPackageContents(n)
      <4>1. \E of : contents' = [contents EXCEPT ![n] = Promise("pending", of)]
        BY <3>1 DEF ListPackageContents
      <4> QED BY <4>1
    <3>2. CASE ManifestSettles(n)
      <4>1. PICK at \in States : contents' = [contents EXCEPT ![n].at = at]
        BY <3>2 DEF ManifestSettles
      <4>2. contents' = [contents EXCEPT ![n] = Promise(at, contents[n].of)]
        BY ONLY <1>6, <4>1, n \in Names, SettlePromise
      <4> QED BY <4>2
    <3> QED BY <1>7, <3>1, <3>2
  <2>2. \A m \in Names : contents'[m].at \in States
    BY <1>5, <1>6, <2>1
  <2> QED BY <1>7, <2>2 DEF ListPackageContents, ManifestSettles, Publisher, catalogVars
<1>8. ASSUME NEW n \in Names, ListPackageSymbols(n) \/ TagsSettle(n)
      PROVE  StatesInv'
  <2>1. \E at \in States : \E of : locals' = [locals EXCEPT ![n] = Promise(at, of)]
    <3>1. CASE ListPackageSymbols(n)
      <4>1. \E of : locals' = [locals EXCEPT ![n] = Promise("pending", of)]
        BY <3>1 DEF ListPackageSymbols
      <4> QED BY <4>1
    <3>2. CASE TagsSettle(n)
      <4>1. PICK at \in States : locals' = [locals EXCEPT ![n].at = at]
        BY <3>2 DEF TagsSettle
      <4>2. locals' = [locals EXCEPT ![n] = Promise(at, locals[n].of)]
        BY ONLY <1>6, <4>1, n \in Names, SettlePromise
      <4> QED BY <4>2
    <3> QED BY <1>8, <3>1, <3>2
  <2>2. \A m \in Names : locals'[m].at \in States
    BY <1>5, <1>6, <2>1
  <2> QED BY <1>8, <2>2 DEF ListPackageSymbols, TagsSettle, Publisher, catalogVars
<1> QED BY <1>1, <1>2, <1>3, <1>4, <1>7, <1>8 DEF Next

(* What a promise of the session is about is an entry of the catalog, which  *)
(* follows from its being stored.                                            *)
THEOREM TypeCorrect == Spec => []TypeOK
<1>1. IInv /\ StatesInv => TypeOK
  <2> SUFFICES ASSUME IInv, StatesInv PROVE TypeOK
    OBVIOUS
  <2>1. symbols \subseteq Entries /\ packages.of \subseteq Entries /\ globals.of \subseteq Entries
    BY DEF IInv, ListsInv, RequestsExist, StatesInv
  <2>2. \A n \in Names : /\ contents[n].at # "none" => contents[n].of \in Entries
                         /\ locals[n].at # "none" => locals[n].of \in Entries
    BY DEF IInv, RequestsExist, StatesInv
  <2> QED BY <2>1, <2>2 DEF StatesInv, States, TypeOK
<1>2. IInv /\ StatesInv /\ [Next]_vars => IInv' /\ StatesInv'
  BY InvStep, StatesStep
<1> QED BY <1>1, <1>2, InitInv, StatesInit, PTL DEF Spec

-----------------------------------------------------------------------------
(* Induction, and definitions by recursion, along two numbers: a set is said to *)
(* be inductive, and a function to compute, instead of operators that say so. *)

(* A set of numbers has a least one.                                         *)
LEMMA LeastNumber ==
  ASSUME NEW T, T \subseteq Nat, T # {}
  PROVE  \E x \in T : \A y \in T : x <= y
<1>1. PICK x \in T : \A y \in T : ~ (<<y, x>> \in OpToRel(<, Nat))
  BY NatLessThanWellFounded, WFMin
<1>2. \A y \in T : ~ (y < x)
  BY <1>1 DEF OpToRel
<1>3. \A y \in T : x <= y
  BY <1>2
<1> QED BY <1>3

(* Induction on numbers, as a fact about sets of them.                       *)
LEMMA SetInduction ==
  ASSUME NEW S, 0 \in S, \A n \in Nat : n \in S => n + 1 \in S
  PROVE  Nat \subseteq S
<1> DEFINE T == Nat \ S
<1> SUFFICES ASSUME T # {} PROVE FALSE
  OBVIOUS
<1>1. PICK x \in T : \A y \in T : x <= y
  <2>1. T \subseteq Nat
    OBVIOUS
  <2> HIDE DEF T
  <2> QED BY <2>1, LeastNumber
<1>2. x - 1 \in Nat /\ x - 1 \notin T
  BY <1>1
<1> QED BY <1>2

(* What is below x in S by one number, or, if that is the same, by another.  *)
Below(S, m, k, x) ==
  {y \in S : m[y] < m[x] \/ (m[y] = m[x] /\ k[y] < k[x])}

Measures(S, m, k) == m \in [S -> Nat] /\ k \in [S -> Nat]

Inductive(G, S, m, k) == \A x \in S : Below(S, m, k, x) \subseteq G => x \in G

(* F computes the value for an argument from the values below it.            *)
Computes(F, S, m, k, V) ==
  /\ F \in [[S -> V] -> [S -> V]]
  /\ \A g, h \in [S -> V] : \A x \in S :
       (\A y \in Below(S, m, k, x) : g[y] = h[y]) => F[g][x] = F[h][x]

(* A set has an element with nothing of the set below it.                    *)
LEMMA LeastElement ==
  ASSUME NEW S, NEW m, NEW k, Measures(S, m, k), NEW T, T \subseteq S, T # {}
  PROVE  \E x \in T : \A y \in T : y \notin Below(S, m, k, x)
<1> USE DEF Measures
<1> DEFINE M == {m[y] : y \in T}
<1>0. M # {} /\ M \subseteq Nat
  OBVIOUS
<1>1. PICK a \in M : \A b \in M : a <= b
  <2> HIDE DEF M
  <2> QED BY <1>0, LeastNumber
<1> DEFINE K == {k[y] : y \in {z \in T : m[z] = a}}
<1>2. K # {} /\ K \subseteq Nat
  OBVIOUS
<1>3. PICK b \in K : \A c \in K : b <= c
  <2> HIDE DEF K
  <2> QED BY <1>2, LeastNumber
<1>4. PICK x \in T : m[x] = a /\ k[x] = b
  BY <1>3
<1>5. ASSUME NEW y \in T PROVE y \notin Below(S, m, k, x)
  <2>1. a <= m[y] /\ a \in Nat /\ m[y] \in Nat /\ b \in Nat /\ k[y] \in Nat
    BY <1>1, <1>2
  <2>2. m[y] = a => b <= k[y]
    BY <1>3
  <2> QED BY <1>4, <2>1, <2>2 DEF Below
<1> QED BY <1>4, <1>5

(* Induction along these two numbers.                                        *)
LEMMA InductionBelow ==
  ASSUME NEW S, NEW m, NEW k, Measures(S, m, k), NEW G, Inductive(G, S, m, k)
  PROVE  S \subseteq G
<1> DEFINE T == S \ G
<1> SUFFICES ASSUME T # {} PROVE FALSE
  OBVIOUS
<1>1. PICK x \in T : \A y \in T : y \notin Below(S, m, k, x)
  BY LeastElement
<1>2. Below(S, m, k, x) \subseteq G
  BY <1>1 DEF Below
<1> QED BY <1>2 DEF Inductive

(* A function may be defined by what it is below each argument.  F computes  *)
(* its values from a function that is right below.                           *)
LEMMA RecursionBelow ==
  ASSUME NEW S, NEW m, NEW k, Measures(S, m, k), NEW V, V # {},
         NEW F, Computes(F, S, m, k, V)
  PROVE  \E f \in [S -> V] : f = F[f]
<1> USE DEF Measures, Computes
<1> DEFINE Closed(A) == A \subseteq S /\ \A x \in A : Below(S, m, k, x) \subseteq A
           Right(A, g) == Closed(A) /\ g \in [S -> V] /\ \A x \in A : g[x] = F[g][x]
<1>0. ASSUME NEW x \in S, NEW y \in Below(S, m, k, x) PROVE y \in S /\ y # x
  <2>1. m[x] \in Nat /\ k[x] \in Nat
    OBVIOUS
  <2> QED BY <2>1 DEF Below
<1>1. ASSUME NEW A, NEW B, NEW g, NEW h, Right(A, g), Right(B, h)
      PROVE  \A x \in A \cap B : g[x] = h[x]
  <2> DEFINE D == {x \in A \cap B : g[x] # h[x]}
  <2> SUFFICES ASSUME D # {} PROVE FALSE
    OBVIOUS
  <2>1. PICK x \in D : \A y \in D : y \notin Below(S, m, k, x)
    <3>1. D \subseteq S
      BY <1>1
    <3> QED BY <3>1, LeastElement
  <2>2. \A y \in Below(S, m, k, x) : g[y] = h[y]
    BY <1>1, <2>1
  <2>3. F[g][x] = F[h][x]
    BY <1>1, <2>2
  <2> QED BY <1>1, <2>1, <2>3
<1> DEFINE U == {x \in S : \E A, g : Right(A, g) /\ x \in A}
           Value(x) == CHOOSE v : \E A, g : Right(A, g) /\ x \in A /\ v = g[x]
           f == [x \in S |-> IF x \in U THEN Value(x) ELSE CHOOSE v \in V : TRUE]
<1>2. ASSUME NEW A, NEW g, Right(A, g), NEW x \in A PROVE x \in U /\ f[x] = g[x]
  <2>1. x \in S /\ x \in U
    BY <1>2
  <2>2. \E v : \E B, h : Right(B, h) /\ x \in B /\ v = h[x]
    BY <1>2
  <2>3. PICK B, h : Right(B, h) /\ x \in B /\ f[x] = h[x]
    <3>1. f[x] = Value(x)
      BY <2>1
    <3>2. \E B, h : Right(B, h) /\ x \in B /\ Value(x) = h[x]
      <4> HIDE DEF Right
      <4> QED BY <2>2
    <3> HIDE DEF f, Value, Right
    <3> QED BY <3>1, <3>2
  <2>4. h[x] = g[x]
    <3> HIDE DEF Right
    <3> QED BY <1>1, <1>2, <2>3
  <2> HIDE DEF f, U
  <2> QED BY <2>1, <2>3, <2>4
<1>3. f \in [S -> V]
  <2>1. ASSUME NEW x \in U PROVE Value(x) \in V
    <3>1. PICK A, g : Right(A, g) /\ x \in A
      OBVIOUS
    <3>2. f[x] = Value(x) /\ x \in S /\ g \in [S -> V]
      BY <3>1
    <3>3. f[x] = g[x]
      <4> HIDE DEF f, Right, U
      <4> QED BY <1>2, <3>1
    <3> HIDE DEF f, Value, U
    <3> QED BY <3>2, <3>3
  <2> QED BY <2>1
<1>4. Closed(U)
  <2>1. ASSUME NEW x \in U, NEW y \in Below(S, m, k, x) PROVE y \in U
    <3>1. PICK A, g : Right(A, g) /\ x \in A
      OBVIOUS
    <3> QED BY <1>2, <3>1
  <2> QED BY <2>1
<1> HIDE DEF f
<1>5. ASSUME NEW x \in U PROVE f[x] = F[f][x]
  <2>0. x \in S
    OBVIOUS
  <2>1. PICK A, g : Right(A, g) /\ x \in A
    OBVIOUS
  <2> HIDE DEF U
  <2>2. \A y \in Below(S, m, k, x) : f[y] = g[y]
    BY <1>2, <2>1
  <2>3. F[f][x] = F[g][x]
    BY <1>3, <2>0, <2>1, <2>2
  <2> QED BY <1>2, <2>1, <2>3
<1>6. U = S
  <2> SUFFICES ASSUME S \ U # {} PROVE FALSE
    OBVIOUS
  <2>1. PICK x \in S \ U : \A y \in S \ U : y \notin Below(S, m, k, x)
    <3> HIDE DEF U
    <3>1. S \ U \subseteq S
      OBVIOUS
    <3> QED BY <3>1, LeastElement
  <2> DEFINE g == [f EXCEPT ![x] = F[f][x]]
  <2>2. F[f][x] \in V
    BY <1>3
  <2>3. g \in [S -> V] /\ g[x] = F[f][x] /\ \A y \in S \ {x} : g[y] = f[y]
    BY <1>3, <2>2
  <2> HIDE DEF g, U
  <2>4. Closed(U \cup {x})
    BY <1>0, <1>4, <2>1
  <2>5. ASSUME NEW z \in U \cup {x} PROVE g[z] = F[g][z]
    <3>1. z \in S /\ \A y \in Below(S, m, k, z) : y \in U
      BY <1>0, <1>4, <2>1
    <3>2. \A y \in Below(S, m, k, z) : g[y] = f[y]
      BY <1>0, <2>1, <2>3, <3>1
    <3>3. F[g][z] = F[f][z]
      BY <1>3, <2>3, <3>1, <3>2
    <3> QED BY <1>5, <2>1, <2>3, <3>1, <3>3
  <2>6. Right(U \cup {x}, g)
    BY <2>3, <2>4, <2>5
  <2>7. x \in U
    <3> HIDE DEF Right
    <3> QED BY <1>2, <2>6
  <2> QED BY <2>1, <2>7
<1> HIDE DEF U
<1>7. f = F[f]
  <2>1. F[f] \in [S -> V]
    BY <1>3
  <2> QED BY <1>3, <1>5, <1>6, <2>1
<1> QED BY <1>3, <1>7

-----------------------------------------------------------------------------
(* Paths.                                                                    *)

(* What joins of paths are.                                                  *)
LEMMA Paths ==
  ASSUME NEW S, NEW p \in Seq(S)
  PROVE  /\ \A q \in Seq(S) : p \o q \in Seq(S)
         /\ \A x \in S : Append(p, x) \in Seq(S)
         /\ p \o <<>> = p /\ <<>> \o p = p
OBVIOUS

(* A path and one name more.                                                 *)
LEMMA Appended ==
  ASSUME NEW S, NEW p \in Seq(S), NEW x \in S
  PROVE  /\ Append(p, x) \in Seq(S) /\ Len(Append(p, x)) = Len(p) + 1
         /\ Append(p, x)[Len(p) + 1] = x
         /\ \A i \in 1 .. Len(p) : Append(p, x)[i] = p[i]
OBVIOUS

(* A name at the end of a path.                                              *)
LEMMA FrontOfAppend ==
  ASSUME NEW S, NEW p \in Seq(S), NEW x \in S
  PROVE  /\ Append(p, x) \in Seq(S) /\ Append(p, x) # <<>>
         /\ Front(Append(p, x)) = p /\ Last(Append(p, x)) = x
<1>1. Append(p, x) \in Seq(S) /\ Len(Append(p, x)) = Len(p) + 1 /\ Len(p) \in Nat
  OBVIOUS
<1>2. Append(p, x) # <<>>
  BY <1>1
<1>3. Last(Append(p, x)) = x
  BY <1>1 DEF Last
<1>4. Front(Append(p, x)) = p
  <2>1. Front(Append(p, x)) = SubSeq(Append(p, x), 1, Len(p))
    BY <1>1 DEF Front
  <2>2. SubSeq(Append(p, x), 1, Len(p)) = p
    BY <1>1
  <2> QED BY <2>1, <2>2
<1> QED BY <1>1, <1>2, <1>3, <1>4

(* A path is its directory and its last name.                                *)
LEMMA AppendLast ==
  ASSUME NEW S, NEW p \in Seq(S), p # <<>>
  PROVE  /\ Front(p) \in Seq(S) /\ Last(p) \in S
         /\ Append(Front(p), Last(p)) = p
<1>1. Len(p) \in Nat /\ Len(p) > 0
  OBVIOUS
<1>2. Front(p) = SubSeq(p, 1, Len(p) - 1)
  BY DEF Front
<1>3. /\ Front(p) \in Seq(S) /\ Len(Front(p)) = Len(p) - 1
      /\ \A i \in 1 .. Len(p) - 1 : Front(p)[i] = p[i]
  <2>1. PICK l \in Nat : l = Len(p) - 1 /\ l < Len(p)
    <3>1. Len(p) - 1 \in Nat /\ Len(p) - 1 < Len(p)
      BY <1>1
    <3> QED BY <3>1, Zenon
  <2>2. PICK f : f = SubSeq(p, 1, l)
    OBVIOUS
  <2>3. f = [i \in 1 .. l |-> p[i]]
    BY <1>1, <2>1, <2>2
  <2>4. \A i \in 1 .. l : p[i] \in S
    BY <1>1, <2>1
  <2>5. f \in Seq(S) /\ Len(f) = l /\ \A i \in 1 .. l : f[i] = p[i]
    BY ONLY l \in Nat, <2>3, <2>4
  <2> QED BY <1>2, <2>1, <2>2, <2>5
<1>4. Last(p) = p[Len(p)] /\ Last(p) \in S
  BY <1>1 DEF Last
<1>5. /\ Append(Front(p), Last(p)) \in Seq(S) /\ Len(Append(Front(p), Last(p))) = Len(p)
      /\ \A i \in 1 .. Len(p) : Append(Front(p), Last(p))[i] = p[i]
  BY <1>1, <1>3, <1>4
<1> QED BY <1>3, <1>4, <1>5

(* The beginnings of a path, name after name.                                *)
LEMMA NextPrefix ==
  ASSUME NEW S, NEW p \in Seq(S), NEW i \in 1 .. Len(p)
  PROVE  Append(SubSeq(p, 1, i - 1), p[i]) = SubSeq(p, 1, i)
<1>1. PICK q : q = SubSeq(p, 1, i - 1)
  OBVIOUS
<1>2. /\ q \in Seq(S) /\ Len(q) = i - 1 /\ p[i] \in S
      /\ \A j \in 1 .. i - 1 : q[j] = p[j]
  BY <1>1
<1>3. /\ Append(q, p[i]) \in Seq(S) /\ Len(Append(q, p[i])) = i
      /\ \A j \in 1 .. i : Append(q, p[i])[j] = p[j]
  BY <1>2
<1>4. /\ SubSeq(p, 1, i) \in Seq(S) /\ Len(SubSeq(p, 1, i)) = i
      /\ \A j \in 1 .. i : SubSeq(p, 1, i)[j] = p[j]
  OBVIOUS
<1>5. Append(q, p[i]) = SubSeq(p, 1, i)
  BY <1>3, <1>4
<1> QED BY <1>1, <1>5

(* A path, cut in two, and one name further.                                 *)
LEMMA Cut ==
  ASSUME NEW S, NEW p \in Seq(S), NEW k \in Nat, k + 1 < Len(p)
  PROVE  LET a == SubSeq(p, 1, k)
             b == SubSeq(p, k + 1, Len(p))
         IN  /\ a \in Seq(S) /\ b \in Seq(S) /\ b # <<>>
             /\ Head(b) \in S
             /\ Append(a, Head(b)) = SubSeq(p, 1, k + 1)
             /\ Tail(b) = SubSeq(p, k + 2, Len(p))
<1>1. PICK n \in Nat : n = Len(p)
  OBVIOUS
<1>2. PICK a, b, c, e : /\ a = SubSeq(p, 1, k) /\ b = SubSeq(p, k + 1, n)
                        /\ c = SubSeq(p, 1, k + 1) /\ e = SubSeq(p, k + 2, n)
  OBVIOUS
<1>3. a \in Seq(S) /\ Len(a) = k /\ \A i \in 1 .. k : a[i] = p[i]
  BY <1>1, <1>2
<1>4. b \in Seq(S) /\ Len(b) = n - k /\ \A i \in 1 .. n - k : b[i] = p[k + i]
  BY <1>1, <1>2
<1>5. c \in Seq(S) /\ Len(c) = k + 1 /\ \A i \in 1 .. k + 1 : c[i] = p[i]
  BY <1>1, <1>2
<1>6. e \in Seq(S) /\ Len(e) = n - (k + 1) /\ \A i \in 1 .. n - (k + 1) : e[i] = p[k + 1 + i]
  BY <1>1, <1>2
<1>7. Len(b) > 0 /\ b # <<>> /\ Head(b) = p[k + 1] /\ Head(b) \in S
  BY <1>1, <1>4
<1>8. /\ Append(a, Head(b)) \in Seq(S) /\ Len(Append(a, Head(b))) = k + 1
      /\ \A i \in 1 .. k + 1 : Append(a, Head(b))[i] = p[i]
  BY <1>3, <1>7
<1>9. Append(a, Head(b)) = c
  BY <1>5, <1>8
<1>10. /\ Tail(b) \in Seq(S) /\ Len(Tail(b)) = n - (k + 1)
       /\ \A i \in 1 .. n - (k + 1) : Tail(b)[i] = p[k + 1 + i]
  <2>1. Tail(b) \in Seq(S) /\ Len(Tail(b)) = Len(b) - 1
    BY <1>4, <1>7
  <2>11. Len(b) - 1 = n - (k + 1)
    BY <1>4
  <2>2. ASSUME NEW i \in 1 .. n - (k + 1) PROVE Tail(b)[i] = p[k + 1 + i]
    <3>1. Tail(b)[i] = b[i + 1]
      BY <1>4, <1>7
    <3>2. i + 1 \in 1 .. n - k /\ k + (i + 1) = k + 1 + i
      BY <1>1
    <3> QED BY <1>4, <3>1, <3>2
  <2> QED BY <2>1, <2>2, <2>11
<1>11. Tail(b) = e
  BY <1>6, <1>10
<1> QED BY <1>1, <1>2, <1>3, <1>4, <1>7, <1>9, <1>11

(* What a path of two parts begins with.                                     *)
LEMMA Concat ==
  ASSUME NEW S, NEW p \in Seq(S), NEW q \in Seq(S), p # <<>>
  PROVE  /\ p \o q \in Seq(S) /\ p \o q # <<>>
         /\ Head(p \o q) = Head(p) /\ Tail(p \o q) = Tail(p) \o q
         /\ Head(p) \in S /\ Tail(p) \in Seq(S) /\ Len(Tail(p)) < Len(p)
<1>1. Len(p) \in Nat /\ Len(q) \in Nat /\ Len(p) > 0 /\ Len(p \o q) = Len(p) + Len(q)
  OBVIOUS
<1>2. p \o q \in Seq(S) /\ p \o q # <<>>
  BY <1>1
<1>3. Head(p \o q) = Head(p)
  BY <1>1
<1>4. /\ Tail(p) \in Seq(S) /\ Len(Tail(p)) = Len(p) - 1
      /\ Tail(p \o q) \in Seq(S) /\ Len(Tail(p \o q)) = Len(p) + Len(q) - 1
      /\ Tail(p) \o q \in Seq(S) /\ Len(Tail(p) \o q) = Len(p) + Len(q) - 1
  BY <1>1, <1>2
<1>5. ASSUME NEW i \in 1 .. Len(p) + Len(q) - 1
      PROVE  Tail(p \o q)[i] = (Tail(p) \o q)[i]
  <2>1. Tail(p \o q)[i] = (p \o q)[i + 1]
    BY <1>1, <1>2, <1>4
  <2>2. CASE i + 1 <= Len(p)
    BY <1>1, <1>4, <2>1, <2>2
  <2>3. CASE i + 1 > Len(p)
    <3>1. (p \o q)[i + 1] = q[i + 1 - Len(p)]
      BY <1>1, <2>3
    <3>2. (Tail(p) \o q)[i] = q[i - (Len(p) - 1)]
      BY <1>1, <1>4, <2>3
    <3>3. i + 1 - Len(p) = i - (Len(p) - 1)
      BY <1>1
    <3> QED BY <2>1, <3>1, <3>2, <3>3
  <2> QED BY <1>1, <2>2, <2>3
<1>6. Tail(p \o q) = Tail(p) \o q
  BY <1>1, <1>4, <1>5
<1> QED BY <1>1, <1>2, <1>3, <1>4, <1>6

(* A path without a name begins with another, and goes on without it.        *)
LEMMA WithoutName ==
  ASSUME NEW S, NEW parts \in Seq(S), parts # <<>>, NEW x, x \notin ToSet(parts)
  PROVE  /\ Head(parts) # x /\ Head(parts) \in S
         /\ Tail(parts) \in Seq(S) /\ Len(Tail(parts)) < Len(parts)
         /\ x \notin ToSet(Tail(parts))
<1>1. /\ Len(parts) \in Nat /\ Len(parts) > 0
      /\ Tail(parts) \in Seq(S) /\ Len(Tail(parts)) = Len(parts) - 1
      /\ \A i \in 1 .. Len(parts) - 1 : Tail(parts)[i] = parts[i + 1]
      /\ Head(parts) = parts[1] /\ Head(parts) \in S
  OBVIOUS
<1>2. \A i \in 1 .. Len(parts) : parts[i] # x
  BY DEF ToSet
<1>3. \A i \in 1 .. Len(parts) - 1 : Tail(parts)[i] # x
  BY <1>1, <1>2
<1>4. x \notin ToSet(Tail(parts))
  BY <1>1, <1>3 DEF ToSet
<1> QED BY <1>1, <1>2, <1>4

-----------------------------------------------------------------------------
(* The lookups of the kernel and of resolveLinks are functions.              *)

(* What a lookup comes to.                                                   *)
Ends == Seq(STRING) \cup Failures

(* Each turn of a lookup is below the last: of fewer links that are left, or *)
(* of a shorter path.                                                        *)
Left  == [s \in Lookups |-> s[3]]
Parts == [s \in Lookups |-> Len(s[2])]

(* Links and names are counted.                                              *)
LEMMA LeftParts == Measures(Lookups, Left, Parts)
<1>1. \A s \in Lookups : s[3] \in Nat /\ s[2] \in Seq(STRING)
  BY DEF Lookups
<1> QED BY <1>1 DEF Left, Parts, Measures

(* One link, or one name less.                                               *)
LEMMA LowerLookup ==
  ASSUME NEW dir \in Seq(STRING), NEW parts \in Seq(STRING), NEW left \in Nat,
         NEW dir2 \in Seq(STRING), NEW parts2 \in Seq(STRING), NEW left2 \in Nat,
         left2 < left \/ (left2 = left /\ Len(parts2) < Len(parts))
  PROVE  <<dir2, parts2, left2>> \in Below(Lookups, Left, Parts, <<dir, parts, left>>)
BY DEF Below, Left, Parts, Lookups

(* The lookup is a function, whatever the disk, that unfolds as it is defined: *)
(* it ends, by the number of links that may be followed and of names to look *)
(* up.                                                                       *)
LEMMA KernelIs ==
  ASSUME NEW d, IsDisk(d)
  PROVE  /\ Kernel(d) \in [Lookups -> Ends]
         /\ \A dir, parts \in Seq(STRING), left \in Nat :
              Kernel(d)[<<dir, parts, left>>] = LookUp(d, Kernel(d), dir, parts, left)
<1> DEFINE V == [Lookups -> Ends]
           F == [g \in V |-> [s \in Lookups |-> LookUp(d, g, s[1], s[2], s[3])]]
           Eq(h) == h = [s \in Lookups |-> LookUp(d, h, s[1], s[2], s[3])]
           Agree(g, h, s) == \A y \in Below(Lookups, Left, Parts, s) :
                               g[y] = h[y] /\ g[y] \in Ends
<1>1. ASSUME NEW dir \in Seq(STRING), NEW parts \in Seq(STRING), NEW left \in Nat,
             NEW g, NEW h, Agree(g, h, <<dir, parts, left>>)
      PROVE  /\ LookUp(d, g, dir, parts, left) \in Ends
             /\ LookUp(d, g, dir, parts, left) = LookUp(d, h, dir, parts, left)
  <2>1. CASE parts = <<>>
    BY <2>1 DEF LookUp, Ends
  <2>2. CASE parts # <<>>
    <3> DEFINE next == Append(dir, Head(parts))
    <3>1. /\ Head(parts) \in STRING /\ Tail(parts) \in Seq(STRING) /\ Len(Tail(parts)) < Len(parts)
          /\ next \in Seq(STRING)
      BY <2>2
    <3>2. \A dir2 \in Seq(STRING) :
            LET s == <<dir2, Tail(parts), left>>
            IN  g[s] = h[s] /\ g[s] \in Ends
      BY <1>1, <3>1, LowerLookup DEF Lookups
    <3>3. dir # <<>> => Front(dir) \in Seq(STRING)
      BY DEF Front
    <3>4. next \in DOMAIN d /\ d[next].kind = "link" /\ left # 0 =>
            LET s == <<dir, d[next].to \o Tail(parts), left - 1>>
            IN  g[s] = h[s] /\ g[s] \in Ends
      <4> SUFFICES ASSUME next \in DOMAIN d, d[next].kind = "link", left # 0
                   PROVE  LET s == <<dir, d[next].to \o Tail(parts), left - 1>>
                          IN  g[s] = h[s] /\ g[s] \in Ends
        OBVIOUS
      <4>0. d[next].to \in Seq(STRING)
        BY DEF IsDisk
      <4>1. d[next].to \o Tail(parts) \in Seq(STRING) /\ left - 1 \in Nat /\ left - 1 < left
        <5> HIDE DEF next
        <5> QED BY <3>1, <4>0
      <4>2. PICK s : s = <<dir, d[next].to \o Tail(parts), left - 1>>
        OBVIOUS
      <4>3. s \in Below(Lookups, Left, Parts, <<dir, parts, left>>)
        BY <4>1, <4>2, LowerLookup
      <4> QED BY <1>1, <4>2, <4>3 DEF Below
    <3> HIDE DEF next
    <3>5. {NotADirectory, Outside, NotFound, Loop} \subseteq Ends
      BY DEF Failures, Ends
    <3>6. /\ g[<<dir, Tail(parts), left>>] = h[<<dir, Tail(parts), left>>]
          /\ g[<<dir, Tail(parts), left>>] \in Ends
          /\ g[<<next, Tail(parts), left>>] = h[<<next, Tail(parts), left>>]
          /\ g[<<next, Tail(parts), left>>] \in Ends
          /\ dir # <<>> =>
               /\ g[<<Front(dir), Tail(parts), left>>] = h[<<Front(dir), Tail(parts), left>>]
               /\ g[<<Front(dir), Tail(parts), left>>] \in Ends
      BY <3>1, <3>2, <3>3
    <3> QED BY ONLY <2>2, <3>4, <3>5, <3>6 DEF LookUp, next
  <2> QED BY <2>1, <2>2
<1>2. F \in [V -> V]
  <2>1. ASSUME NEW g \in V, NEW s \in Lookups PROVE LookUp(d, g, s[1], s[2], s[3]) \in Ends
    <3>1. PICK dir, parts \in Seq(STRING), left \in Nat : s = <<dir, parts, left>>
      BY DEF Lookups
    <3>2. Agree(g, g, <<dir, parts, left>>)
      BY DEF Below
    <3> HIDE DEF Agree
    <3> QED BY <1>1, <3>1, <3>2
  <2> QED BY <2>1
<1>3. ASSUME NEW g \in V, NEW h \in V, NEW s \in Lookups,
             \A y \in Below(Lookups, Left, Parts, s) : g[y] = h[y]
      PROVE  F[g][s] = F[h][s]
  <2>1. PICK dir, parts \in Seq(STRING), left \in Nat : s = <<dir, parts, left>>
    BY DEF Lookups
  <2>2. Agree(g, h, <<dir, parts, left>>)
    BY <1>3, <2>1 DEF Below
  <2>4. LookUp(d, g, dir, parts, left) = LookUp(d, h, dir, parts, left)
    <3> HIDE DEF Agree
    <3> QED BY <1>1, <2>2
  <2>3. F[g][s] = LookUp(d, g, dir, parts, left) /\ F[h][s] = LookUp(d, h, dir, parts, left)
    BY <2>1
  <2> QED BY <2>3, <2>4
<1>4. PICK f \in V : f = F[f]
  <2>1. Ends # {}
    BY DEF Ends, Failures
  <2>2. Computes(F, Lookups, Left, Parts, Ends)
    BY <1>2, <1>3 DEF Computes
  <2> HIDE DEF F
  <2> QED BY <2>1, <2>2, LeftParts, RecursionBelow
<1>5. Eq(f)
  BY <1>4
<1>6. PICK at : Eq(at) /\ Kernel(d) = at
  <2>1. \E h : Eq(h)
    BY <1>5
  <2> QED BY <2>1, Zenon DEF Kernel
<1>7. at \in [Lookups -> Ends]
  <2> DEFINE G == {s \in Lookups : at[s] \in Ends}
  <2>1. ASSUME NEW s \in Lookups, Below(Lookups, Left, Parts, s) \subseteq G PROVE s \in G
    <3>1. PICK dir, parts \in Seq(STRING), left \in Nat : s = <<dir, parts, left>>
      BY DEF Lookups
    <3>2. Agree(at, at, <<dir, parts, left>>)
      BY <2>1, <3>1
    <3>3. LookUp(d, at, dir, parts, left) \in Ends
      <4> HIDE DEF Agree
      <4> QED BY <1>1, <3>2
    <3> QED BY <1>6, <3>1, <3>3
  <2>2. Inductive(G, Lookups, Left, Parts)
    BY <2>1 DEF Inductive
  <2>3. Lookups \subseteq G
    <3> HIDE DEF G
    <3> QED BY <2>2, LeftParts, InductionBelow
  <2> QED BY <1>6, <2>3
<1>8. ASSUME NEW dir \in Seq(STRING), NEW parts \in Seq(STRING), NEW left \in Nat
      PROVE  at[<<dir, parts, left>>] = LookUp(d, at, dir, parts, left)
  <2>1. <<dir, parts, left>> \in Lookups
    BY DEF Lookups
  <2> QED BY <1>6, <2>1
<1> QED BY <1>6, <1>7, <1>8

(* Each turn of resolveLinks is below the last: of a frame further up the    *)
(* stack, or of a shorter path.                                              *)
Depth  == [s \in Frames |-> s[4]]
ToGo   == [s \in Frames |-> Len(s[3])]

(* Frames and names are counted.                                             *)
LEMMA DepthToGo == Measures(Frames, Depth, ToGo)
<1>1. \A s \in Frames : s[4] \in Nat /\ s[3] \in Seq(STRING)
  BY DEF Frames
<1> QED BY <1>1 DEF Depth, ToGo, Measures

(* One frame, or one name less.                                              *)
LEMMA LowerFrame ==
  ASSUME NEW link \in Seq(STRING), NEW n \in Seq(STRING), NEW parts \in Seq(STRING), NEW depth \in Nat,
         NEW link2 \in Seq(STRING), NEW n2 \in Seq(STRING), NEW parts2 \in Seq(STRING), NEW depth2 \in Nat,
         depth2 < depth \/ (depth2 = depth /\ Len(parts2) < Len(parts))
  PROVE  <<link2, n2, parts2, depth2>> \in Below(Frames, Depth, ToGo, <<link, n, parts, depth>>)
BY DEF Below, Depth, ToGo, Frames

(* What a manifest is made of.                                               *)
IsTree(t) ==
  /\ DOMAIN t \subseteq Seq(STRING) \ Failures
  /\ \A p \in DOMAIN t : t[p].type = "symlink" => p # <<>> /\ t[p].symlink_to \in Seq(STRING)

(* A child has the path of its directory, and a name.                        *)
LEMMA ChildIs ==
  ASSUME NEW t, IsTree(t), NEW n \in Seq(STRING), NEW name \in STRING
  PROVE  \/ Child(t, n, name) \in {NotADirectory, NotFound}
         \/ /\ Child(t, n, name) = Append(n, name) /\ Append(n, name) \in DOMAIN t
            /\ t[n].type # "file"
BY DEF Child

(* So is the walk of resolveLinks: it ends, by the frames that fit on the    *)
(* stack and the names that are to go.                                       *)
LEMMA ResolverIs ==
  ASSUME NEW t, IsTree(t)
  PROVE  /\ Resolver(t) \in [Frames -> Ends]
         /\ \A link, n, parts \in Seq(STRING), depth \in Nat :
              Resolver(t)[<<link, n, parts, depth>>]
                = ResolveFrom(t, Resolver(t), link, n, parts, depth)
<1> DEFINE V == [Frames -> Ends]
           F == [g \in V |-> [s \in Frames |-> ResolveFrom(t, g, s[1], s[2], s[3], s[4])]]
           Eq(h) == h = [s \in Frames |-> ResolveFrom(t, h, s[1], s[2], s[3], s[4])]
           Agree(g, h, s) == \A y \in Below(Frames, Depth, ToGo, s) :
                               g[y] = h[y] /\ g[y] \in Ends
<1>1. ASSUME NEW link \in Seq(STRING), NEW n \in Seq(STRING), NEW parts \in Seq(STRING),
             NEW depth \in Nat, NEW g, NEW h, Agree(g, h, <<link, n, parts, depth>>)
      PROVE  /\ ResolveFrom(t, g, link, n, parts, depth) \in Ends
             /\ ResolveFrom(t, g, link, n, parts, depth) = ResolveFrom(t, h, link, n, parts, depth)
  <2>1. CASE parts = <<>>
    BY <2>1 DEF ResolveFrom, Ends
  <2>2. CASE parts # <<>>
    <3>1. Head(parts) \in STRING /\ Tail(parts) \in Seq(STRING) /\ Len(Tail(parts)) < Len(parts)
      BY <2>2
    <3>2. \A n2 \in Seq(STRING) :
            LET s == <<link, n2, Tail(parts), depth>>
            IN  g[s] = h[s] /\ g[s] \in Ends
      BY <1>1, <3>1, LowerFrame DEF Frames
    <3>3. n # <<>> => Front(n) \in Seq(STRING)
      BY DEF Front
    <3> DEFINE tmp == Child(t, n, Head(parts))
               deeper(f) == f[<<tmp, Front(tmp), t[tmp].symlink_to, depth - 1>>]
    <3>4. tmp \in Failures \/ (tmp \in DOMAIN t /\ tmp \in Seq(STRING) \ Failures)
      BY <3>1, ChildIs DEF Failures, IsTree
    <3> HIDE DEF tmp
    <3>5. tmp \notin Failures /\ t[tmp].type = "symlink" /\ depth # 0 =>
            deeper(g) = deeper(h) /\ deeper(g) \in Ends
      <4> SUFFICES ASSUME tmp \notin Failures, t[tmp].type = "symlink", depth # 0
                   PROVE  deeper(g) = deeper(h) /\ deeper(g) \in Ends
        OBVIOUS
      <4>1. /\ tmp \in Seq(STRING) /\ t[tmp].symlink_to \in Seq(STRING) /\ tmp # <<>>
            /\ depth - 1 \in Nat /\ depth - 1 < depth
        BY <3>4 DEF IsTree
      <4>2. Front(tmp) \in Seq(STRING)
        BY <4>1 DEF Front
      <4>3. PICK s : s = <<tmp, Front(tmp), t[tmp].symlink_to, depth - 1>>
        OBVIOUS
      <4>4. s \in Below(Frames, Depth, ToGo, <<link, n, parts, depth>>)
        BY <4>1, <4>2, <4>3, LowerFrame
      <4> QED BY <1>1, <4>3, <4>4
    <3> DEFINE dst(f) == IF tmp \in Failures THEN tmp
                         ELSE IF tmp = link \/ depth = 0 THEN Loop
                         ELSE IF t[tmp].type # "symlink" THEN tmp
                         ELSE deeper(f)
    <3>6. dst(g) = dst(h) /\ (dst(g) \in Failures \/ dst(g) \in Seq(STRING))
      <4> HIDE DEF deeper
      <4> QED BY <3>4, <3>5 DEF Failures, Ends
    <3>7. PICK e : e = dst(g) /\ e = dst(h)
      BY <3>6
    <3>8. e \notin Failures =>
            LET s == <<link, e, Tail(parts), depth>> IN g[s] = h[s] /\ g[s] \in Ends
      BY <3>2, <3>6, <3>7
    <3>9. ASSUME NEW f, f = g \/ f = h
          PROVE  ResolveFrom(t, f, link, n, parts, depth) =
            IF Head(parts) = "." THEN f[<<link, n, Tail(parts), depth>>]
            ELSE IF Head(parts) = ".."
                 THEN IF n = <<>> THEN Outside ELSE f[<<link, Front(n), Tail(parts), depth>>]
            ELSE IF e \in Failures THEN e ELSE f[<<link, e, Tail(parts), depth>>]
      BY ONLY <2>2, <3>7, <3>9, Zenon DEF ResolveFrom, tmp, dst, deeper
    <3>10. /\ g[<<link, n, Tail(parts), depth>>] = h[<<link, n, Tail(parts), depth>>]
           /\ g[<<link, n, Tail(parts), depth>>] \in Ends
           /\ n # <<>> =>
                /\ g[<<link, Front(n), Tail(parts), depth>>] = h[<<link, Front(n), Tail(parts), depth>>]
                /\ g[<<link, Front(n), Tail(parts), depth>>] \in Ends
      BY <3>2, <3>3
    <3>11. Outside \in Ends /\ Failures \subseteq Ends
      BY DEF Failures, Ends
    <3> DEFINE turn(f) ==
            IF Head(parts) = "." THEN f[<<link, n, Tail(parts), depth>>]
            ELSE IF Head(parts) = ".."
                 THEN IF n = <<>> THEN Outside ELSE f[<<link, Front(n), Tail(parts), depth>>]
            ELSE IF e \in Failures THEN e ELSE f[<<link, e, Tail(parts), depth>>]
    <3>12. turn(g) \in Ends /\ turn(g) = turn(h)
      BY ONLY <3>8, <3>10, <3>11
    <3>13. /\ ResolveFrom(t, g, link, n, parts, depth) = turn(g)
           /\ ResolveFrom(t, h, link, n, parts, depth) = turn(h)
      BY ONLY <3>9, Zenon
    <3> HIDE DEF turn
    <3> QED BY ONLY <3>12, <3>13
  <2> QED BY <2>1, <2>2
<1>2. F \in [V -> V]
  <2>1. ASSUME NEW g \in V, NEW s \in Frames
        PROVE  ResolveFrom(t, g, s[1], s[2], s[3], s[4]) \in Ends
    <3>1. PICK link, n, parts \in Seq(STRING), depth \in Nat : s = <<link, n, parts, depth>>
      BY DEF Frames
    <3>2. Agree(g, g, <<link, n, parts, depth>>)
      BY DEF Below
    <3> HIDE DEF Agree
    <3> QED BY <1>1, <3>1, <3>2
  <2> QED BY <2>1
<1>3. ASSUME NEW g \in V, NEW h \in V, NEW s \in Frames,
             \A y \in Below(Frames, Depth, ToGo, s) : g[y] = h[y]
      PROVE  F[g][s] = F[h][s]
  <2>1. PICK link, n, parts \in Seq(STRING), depth \in Nat : s = <<link, n, parts, depth>>
    BY DEF Frames
  <2>2. Agree(g, h, <<link, n, parts, depth>>)
    BY <1>3, <2>1 DEF Below
  <2>3. ResolveFrom(t, g, link, n, parts, depth) = ResolveFrom(t, h, link, n, parts, depth)
    <3> HIDE DEF Agree
    <3> QED BY <1>1, <2>2
  <2>4. /\ F[g][s] = ResolveFrom(t, g, link, n, parts, depth)
        /\ F[h][s] = ResolveFrom(t, h, link, n, parts, depth)
    BY <2>1
  <2> QED BY <2>3, <2>4
<1>4. PICK f \in V : f = F[f]
  <2>1. Ends # {}
    BY DEF Ends, Failures
  <2>2. Computes(F, Frames, Depth, ToGo, Ends)
    BY <1>2, <1>3 DEF Computes
  <2> HIDE DEF F
  <2> QED BY <2>1, <2>2, DepthToGo, RecursionBelow
<1>5. Eq(f)
  BY <1>4
<1>6. PICK from : Eq(from) /\ Resolver(t) = from
  <2>1. \E h : Eq(h)
    BY <1>5
  <2> QED BY <2>1, Zenon DEF Resolver
<1>7. from \in [Frames -> Ends]
  <2> DEFINE G == {s \in Frames : from[s] \in Ends}
  <2>1. ASSUME NEW s \in Frames, Below(Frames, Depth, ToGo, s) \subseteq G PROVE s \in G
    <3>1. PICK link, n, parts \in Seq(STRING), depth \in Nat : s = <<link, n, parts, depth>>
      BY DEF Frames
    <3>2. Agree(from, from, <<link, n, parts, depth>>)
      BY <2>1, <3>1
    <3>3. ResolveFrom(t, from, link, n, parts, depth) \in Ends
      <4> HIDE DEF Agree
      <4> QED BY <1>1, <3>2
    <3> QED BY <1>6, <3>1, <3>3
  <2>2. Inductive(G, Frames, Depth, ToGo)
    BY <2>1 DEF Inductive
  <2>3. Frames \subseteq G
    <3> HIDE DEF G
    <3> QED BY <2>2, DepthToGo, InductionBelow
  <2> QED BY <1>6, <2>3
<1>8. ASSUME NEW link \in Seq(STRING), NEW n \in Seq(STRING), NEW parts \in Seq(STRING), NEW depth \in Nat
      PROVE  from[<<link, n, parts, depth>>] = ResolveFrom(t, from, link, n, parts, depth)
  <2>1. <<link, n, parts, depth>> \in Frames
    BY DEF Frames
  <2> QED BY <1>6, <2>1
<1> QED BY <1>6, <1>7, <1>8

-----------------------------------------------------------------------------
(* The nodes of a package, on disk and in the manifest.                      *)

(* What the lookup of a file goes through are directories.                   *)
LEMMA PrefixesAreDirs ==
  ASSUME NEW d, IsDisk(d), NEW p \in DOMAIN d, NEW i \in 0 .. Len(p)
  PROVE  /\ SubSeq(p, 1, i) \in DOMAIN d
         /\ i # Len(p) => d[SubSeq(p, 1, i)].kind = "dir"
<1>1. p \in Seq(STRING) /\ Len(p) \in Nat
  <2>1. p \in Seq(STRING)
    BY Zenon DEF IsDisk
  <2> QED BY <2>1
<1> DEFINE S == {k \in Nat : k <= Len(p) =>
                   /\ SubSeq(p, 1, Len(p) - k) \in DOMAIN d
                   /\ k # 0 => d[SubSeq(p, 1, Len(p) - k)].kind = "dir"}
<1>2. 0 \in S
  <2>1. SubSeq(p, 1, Len(p) - 0) = p
    BY <1>1
  <2> QED BY <2>1
<1>3. ASSUME NEW k \in Nat, k \in S PROVE k + 1 \in S
  <2> SUFFICES ASSUME k + 1 <= Len(p)
               PROVE  LET q == SubSeq(p, 1, Len(p) - (k + 1))
                      IN  q \in DOMAIN d /\ d[q].kind = "dir"
    OBVIOUS
  <2>1. PICK r : r = SubSeq(p, 1, Len(p) - k)
    OBVIOUS
  <2>2. r \in DOMAIN d
    BY <1>1, <1>3, <2>1
  <2>3. r \in Seq(STRING) /\ Len(r) = Len(p) - k /\ \A j \in 1 .. Len(p) - k : r[j] = p[j]
    BY <1>1, <2>1
  <2>4. r # <<>>
    BY <1>1, <2>3
  <2>5. Front(r) = SubSeq(p, 1, Len(p) - (k + 1))
    <3>1. Front(r) = SubSeq(r, 1, Len(r) - 1)
      BY DEF Front
    <3>2. Len(r) - 1 = Len(p) - (k + 1) /\ Len(p) - (k + 1) \in Nat /\ Len(p) - (k + 1) <= Len(r)
      BY <1>1, <2>3
    <3>3. PICK l \in Nat : l = Len(p) - (k + 1)
      BY <3>2
    <3>4. \A j \in 1 .. l : SubSeq(r, 1, l)[j] = SubSeq(p, 1, l)[j]
      BY <1>1, <2>3, <3>2, <3>3
    <3>5. /\ SubSeq(r, 1, l) \in Seq(STRING) /\ Len(SubSeq(r, 1, l)) = l
          /\ SubSeq(p, 1, l) \in Seq(STRING) /\ Len(SubSeq(p, 1, l)) = l
      BY <1>1, <2>3, <3>2, <3>3
    <3>6. SubSeq(r, 1, l) = SubSeq(p, 1, l)
      BY <3>4, <3>5
    <3> QED BY <3>1, <3>2, <3>3, <3>6
  <2>6. Front(r) \in DOMAIN d /\ d[Front(r)].kind = "dir"
    BY <2>2, <2>4 DEF IsDisk
  <2>7. PICK q : q = SubSeq(p, 1, Len(p) - (k + 1))
    OBVIOUS
  <2> QED BY ONLY <2>5, <2>6, <2>7
<1>4. Len(p) - i \in S
  <2>1. Len(p) - i \in Nat
    BY <1>1
  <2> HIDE DEF S
  <2> QED BY <1>2, <1>3, <2>1, SetInduction
<1>5. Len(p) - (Len(p) - i) = i /\ Len(p) - i <= Len(p) /\ (i # Len(p) => Len(p) - i # 0)
  BY <1>1
<1> QED BY <1>4, <1>5

(* What constructTree writes of each kind of node.                           *)
LEMMA TreeIs ==
  ASSUME NEW d, IsDisk(d), NEW p \in DOMAIN d
  PROVE  /\ d[p].kind # "pipe" => p \in DOMAIN ConstructTree(d)
         /\ d[p].kind = "dir"  => ConstructTree(d)[p].type = "directory"
         /\ d[p].kind = "file" => /\ ConstructTree(d)[p].type = "file"
                                  /\ ConstructTree(d)[p].sha256 = d[p].sha256
         /\ d[p].kind = "link" => ConstructTree(d)[p].type = "symlink"
<1>1. CASE d[p].kind = "pipe"
  BY <1>1
<1>2. CASE d[p].kind = "dir"
  BY <1>2 DEF ConstructTree
<1>3. CASE d[p].kind = "file"
  BY <1>3 DEF ConstructTree
<1>4. CASE d[p].kind = "link"
  BY <1>4 DEF ConstructTree
<1> QED BY <1>1, <1>2, <1>3, <1>4 DEF IsDisk

(* What the manifest says of a node.                                         *)
LEMMA NodeIs ==
  ASSUME NEW d, IsDisk(d)
  PROVE  /\ IsTree(ConstructTree(d))
         /\ DOMAIN ConstructTree(d) = {p \in DOMAIN d : d[p].kind # "pipe"}
         /\ \A p \in DOMAIN d : d[p].kind # "pipe" =>
              /\ (ConstructTree(d)[p].type = "symlink") <=> (d[p].kind = "link")
              /\ (ConstructTree(d)[p].type = "file") <=> (d[p].kind = "file")
              /\ (ConstructTree(d)[p].type = "directory") <=> (d[p].kind = "dir")
              /\ d[p].kind = "link" =>
                   /\ ConstructTree(d)[p].symlink_to = d[p].to
                   /\ ConstructTree(d)[p].is_directory = IsDir(d, p)
<1>1. DOMAIN ConstructTree(d) = {p \in DOMAIN d : d[p].kind # "pipe"}
  BY DEF ConstructTree
<1>2. \A p \in DOMAIN d : d[p].kind = "link" =>
        /\ ConstructTree(d)[p].symlink_to = d[p].to
        /\ ConstructTree(d)[p].is_directory = IsDir(d, p)
  BY DEF ConstructTree
<1>3. \A p \in DOMAIN d : d[p].kind # "pipe" =>
        /\ (ConstructTree(d)[p].type = "symlink") <=> (d[p].kind = "link")
        /\ (ConstructTree(d)[p].type = "file") <=> (d[p].kind = "file")
        /\ (ConstructTree(d)[p].type = "directory") <=> (d[p].kind = "dir")
  <2> SUFFICES ASSUME NEW p \in DOMAIN d, d[p].kind # "pipe"
               PROVE  /\ (ConstructTree(d)[p].type = "symlink") <=> (d[p].kind = "link")
                      /\ (ConstructTree(d)[p].type = "file") <=> (d[p].kind = "file")
                      /\ (ConstructTree(d)[p].type = "directory") <=> (d[p].kind = "dir")
    OBVIOUS
  <2>1. d[p].kind \in {"dir", "file", "link"}
    BY DEF IsDisk
  <2> QED BY <2>1, TreeIs
<1>4. IsTree(ConstructTree(d))
  <2>1. DOMAIN ConstructTree(d) \subseteq Seq(STRING) \ Failures
    BY <1>1 DEF IsDisk
  <2>2. ASSUME NEW p \in DOMAIN ConstructTree(d), ConstructTree(d)[p].type = "symlink"
        PROVE  p # <<>> /\ ConstructTree(d)[p].symlink_to \in Seq(STRING)
    <3>1. p \in DOMAIN d /\ d[p].kind = "link"
      BY <1>1, <1>3, <2>2
    <3> QED BY <1>2, <3>1 DEF IsDisk
  <2> HIDE DEF ConstructTree
  <2> QED BY <2>1, <2>2 DEF IsTree
<1> QED BY <1>1, <1>2, <1>3, <1>4

(* The nodes where a path can end: directories and files.                    *)
Solid(d) == {p \in DOMAIN d : d[p].kind \in {"dir", "file"}}

(* The nodes of a package have their directories.                            *)
LEMMA Nodes ==
  ASSUME NEW d, IsDisk(d)
  PROVE  /\ \A p \in Solid(d) \cup LinksOf(d) :
              /\ p \in Seq(STRING) \ Failures
              /\ p # <<>> => Front(p) \in Solid(d) /\ IsDirAt(d, Front(p))
         /\ \A p \in Solid(d) : p \notin LinksOf(d)
         /\ \A p \in LinksOf(d) : p # <<>>
         /\ \A p \in DOMAIN d : p \in Seq(STRING)
<1>1. DOMAIN d \subseteq Seq(STRING) \ Failures
  BY Zenon DEF IsDisk
<1>2. \A p \in DOMAIN d : p # <<>> => Front(p) \in DOMAIN d /\ d[Front(p)].kind = "dir"
  BY Zenon DEF IsDisk
<1>3. d[<<>>].kind = "dir"
  BY Zenon DEF IsDisk
<1> QED BY <1>1, <1>2, <1>3 DEF Solid, LinksOf, IsDirAt

(* The nodes of the manifest.                                                *)
LEMMA NodesOf ==
  ASSUME NEW d, IsDisk(d)
  PROVE  /\ DOMAIN ConstructTree(d) = Solid(d) \cup LinksOf(d)
         /\ \A p \in Solid(d) \cup LinksOf(d) : p \in DOMAIN d /\ d[p].kind # "pipe"
<1>1. DOMAIN ConstructTree(d) = {q \in DOMAIN d : d[q].kind # "pipe"}
  BY NodeIs, Zenon
<1>2. \A q \in DOMAIN d : d[q].kind \in {"dir", "pipe", "file", "link"}
  BY Zenon DEF IsDisk
<1> QED BY <1>1, <1>2 DEF Solid, LinksOf

(* A path without empty names.                                               *)
Named(parts) == "" \notin ToSet(parts)

(* The next name of a destination, and the others.                           *)
LEMMA NamedParts ==
  ASSUME NEW parts \in Seq(STRING), parts # <<>>, Named(parts)
  PROVE  /\ Head(parts) # "" /\ Head(parts) \in STRING
         /\ Tail(parts) \in Seq(STRING) /\ Len(Tail(parts)) < Len(parts)
         /\ Named(Tail(parts))
BY WithoutName, Zenon DEF Named

(* The destinations of links are paths of names.                             *)
LEMMA Destinations ==
  ASSUME NEW d, IsDisk(d), Tidy(d), NEW p \in LinksOf(d)
  PROVE  /\ d[p].to \in Seq(STRING) /\ Named(d[p].to) /\ ~ IsAbsolute(d[p].to)
         /\ p \in DOMAIN d /\ d[p].kind = "link"
<1>1. p \in DOMAIN d /\ d[p].kind = "link"
  BY DEF LinksOf
<1>2. d[p].to \in Seq(STRING) \ {<<>>}
  BY <1>1, Zenon DEF IsDisk
<1>3. Named(d[p].to)
  BY DEF Tidy, Named
<1>4. Head(d[p].to) # ""
  BY <1>2, <1>3, NamedParts
<1> QED BY <1>1, <1>2, <1>3, <1>4 DEF IsAbsolute

-----------------------------------------------------------------------------
(* What one turn does.                                                       *)

(* One turn of a lookup, from dir, where `next` has the name that is looked  *)
(* up and `tail` is what is left after it.                                   *)
Turns(d, K, dir, name, next, tail, left, now) ==
  /\ ~ IsDirAt(d, dir) => now = NotADirectory
  /\ IsDirAt(d, dir) =>
       /\ name \in {"", "."} => now = K[<<dir, tail, left>>]
       /\ name = ".." => now = IF dir = <<>> THEN Outside ELSE K[<<Front(dir), tail, left>>]
       /\ name \notin {"", ".", ".."} =>
            /\ next \notin DOMAIN d => now = NotFound
            /\ next \in DOMAIN d /\ d[next].kind # "link" => now = K[<<next, tail, left>>]
            /\ next \in DOMAIN d /\ d[next].kind = "link" =>
                 /\ left = 0 => now = Loop
                 /\ left # 0 /\ IsAbsolute(d[next].to) => now = Outside
                 /\ left # 0 /\ ~ IsAbsolute(d[next].to) =>
                      now = K[<<dir, d[next].to \o tail, left - 1>>]

(* It is what the lookup does.                                               *)
LEMMA KernelTurn ==
  ASSUME NEW d, IsDisk(d), NEW dir \in Seq(STRING), NEW parts \in Seq(STRING), parts # <<>>,
         NEW rest \in Seq(STRING), NEW left \in Nat
  PROVE  Turns(d, Kernel(d), dir, Head(parts), Append(dir, Head(parts)), Tail(parts) \o rest,
               left, Kernel(d)[<<dir, parts \o rest, left>>])
<1>1. PICK whole : whole = parts \o rest
  OBVIOUS
<1>2. /\ whole \in Seq(STRING) /\ whole # <<>>
      /\ Head(whole) = Head(parts) /\ Tail(whole) = Tail(parts) \o rest
  BY <1>1, Concat
<1>3. Kernel(d)[<<dir, whole, left>>] = LookUp(d, Kernel(d), dir, whole, left)
  BY <1>2, KernelIs
<1>4. Turns(d, Kernel(d), dir, Head(whole), Append(dir, Head(whole)), Tail(whole),
            left, LookUp(d, Kernel(d), dir, whole, left))
  BY ONLY <1>2 DEF LookUp, Turns
<1> QED BY ONLY <1>1, <1>2, <1>3, <1>4

(* A turn with all of the path that is left.                                 *)
LEMMA KernelTurnWhole ==
  ASSUME NEW d, IsDisk(d), NEW dir \in Seq(STRING), NEW parts \in Seq(STRING), parts # <<>>,
         NEW left \in Nat
  PROVE  Turns(d, Kernel(d), dir, Head(parts), Append(dir, Head(parts)), Tail(parts),
               left, Kernel(d)[<<dir, parts, left>>])
<1>1. \A S : <<>> \in Seq(S)
  OBVIOUS
<1>2. PICK none \in Seq(STRING) : none = <<>>
  BY <1>1, Zenon
<1>3. Turns(d, Kernel(d), dir, Head(parts), Append(dir, Head(parts)), Tail(parts) \o none,
            left, Kernel(d)[<<dir, parts \o none, left>>])
  BY KernelTurn, Zenon
<1>4. Tail(parts) \in Seq(STRING)
  OBVIOUS
<1>5. parts \o none = parts /\ Tail(parts) \o none = Tail(parts)
  BY <1>2, <1>4, Paths, Zenon
<1> QED BY ONLY <1>3, <1>5

(* A lookup ends where the path does.                                        *)
LEMMA KernelStops ==
  ASSUME NEW d, IsDisk(d), NEW dir \in Seq(STRING), NEW left \in Nat
  PROVE  Kernel(d)[<<dir, <<>>, left>>] = dir
<1>1. PICK parts \in Seq(STRING) : parts = <<>>
  <2>1. \A S : <<>> \in Seq(S)
    OBVIOUS
  <2> QED BY <2>1, Zenon
<1>2. Kernel(d)[<<dir, parts, left>>] = LookUp(d, Kernel(d), dir, parts, left)
  BY KernelIs
<1> QED BY <1>1, <1>2 DEF LookUp

(* One turn of resolveLinks, from a directory or a file.                     *)
Resolves(d, R, link, n, name, next, tail, depth, now) ==
  /\ name = "." => now = R[<<link, n, tail, depth>>]
  /\ name = ".." => now = IF n = <<>> THEN Outside ELSE R[<<link, Front(n), tail, depth>>]
  /\ name \notin {".", ".."} =>
       /\ d[n].kind = "file" \/ next \notin Solid(d) \cup LinksOf(d) => now \in Failures
       /\ d[n].kind = "dir" /\ next \in Solid(d) \cup LinksOf(d) =>
            /\ next = link \/ depth = 0 => now = Loop
            /\ next # link /\ depth # 0 =>
                 /\ next \in Solid(d) => now = R[<<link, next, tail, depth>>]
                 /\ next \in LinksOf(d) =>
                      LET dst == R[<<next, n, d[next].to, depth - 1>>]
                      IN  now = IF dst \in Failures THEN dst ELSE R[<<link, dst, tail, depth>>]

(* It is what resolveLinks does.                                             *)
LEMMA ResolverTurn ==
  ASSUME NEW d, IsDisk(d), NEW link \in Seq(STRING), NEW n \in Solid(d),
         NEW parts \in Seq(STRING), parts # <<>>, NEW depth \in Nat
  PROVE  LET R == Resolver(ConstructTree(d))
         IN  Resolves(d, R, link, n, Head(parts), Append(n, Head(parts)), Tail(parts), depth,
                      R[<<link, n, parts, depth>>])
<1>0. PICK t, R, next, tail, now :
        /\ t = ConstructTree(d) /\ R = Resolver(t) /\ now = R[<<link, n, parts, depth>>]
        /\ next = Append(n, Head(parts)) /\ tail = Tail(parts)
  OBVIOUS
<1> SUFFICES Resolves(d, R, link, n, Head(parts), next, tail, depth, now)
  BY <1>0
<1>1. n \in Seq(STRING) \ Failures /\ n \in DOMAIN d /\ d[n].kind \in {"dir", "file"}
  BY Zenon DEF IsDisk, Solid
<1>2. IsTree(t) /\ DOMAIN t = Solid(d) \cup LinksOf(d)
  <2>1. DOMAIN t = {p \in DOMAIN d : d[p].kind # "pipe"}
    BY <1>0, NodeIs
  <2>2. \A p \in DOMAIN d : d[p].kind \in {"dir", "pipe", "file", "link"}
    BY Zenon DEF IsDisk
  <2>3. IsTree(t)
    BY <1>0, NodeIs
  <2> QED BY <2>1, <2>2, <2>3 DEF Solid, LinksOf
<1>3. /\ t[n].type = "file" <=> d[n].kind = "file"
      /\ \A p \in Solid(d) : t[p].type # "symlink"
      /\ \A p \in LinksOf(d) : t[p].type = "symlink" /\ t[p].symlink_to = d[p].to
  BY <1>0, <1>1, NodeIs DEF Solid, LinksOf
<1>4. now = ResolveFrom(t, R, link, n, parts, depth)
  <2>1. now = Resolver(t)[<<link, n, parts, depth>>] /\ R = Resolver(t)
    BY <1>0
  <2>2. Resolver(t)[<<link, n, parts, depth>>] = ResolveFrom(t, Resolver(t), link, n, parts, depth)
    BY <1>1, <1>2, ResolverIs
  <2> QED BY <2>1, <2>2
<1>5. Head(parts) \in STRING /\ Tail(parts) \in Seq(STRING)
  OBVIOUS
<1>6. Front(next) = n
  BY <1>0, <1>1, <1>5, FrontOfAppend
<1>7. NotADirectory \in Failures /\ NotFound \in Failures /\ Loop \in Failures
  BY DEF Failures
<1>8. \A p \in Solid(d) \cup LinksOf(d) : p \notin Failures
  BY Zenon DEF IsDisk, Solid, LinksOf
<1>9. CASE Head(parts) \in {".", ".."}
  BY ONLY <1>0, <1>4, <1>9, parts # <<>> DEF ResolveFrom, Resolves
<1>10. CASE Head(parts) \notin {".", ".."}
  <2> USE DEF Resolves
  <2>1. PICK tmp : tmp = Child(t, n, Head(parts))
    OBVIOUS
  <2>2. tmp = IF d[n].kind = "file" THEN NotADirectory
              ELSE IF next \in Solid(d) \cup LinksOf(d) THEN next ELSE NotFound
    BY <1>0, <1>2, <1>3, <2>1 DEF Child
  <2> DEFINE dst == IF tmp \in Failures THEN tmp
                    ELSE IF tmp = link \/ depth = 0 THEN Loop
                    ELSE IF t[tmp].type # "symlink" THEN tmp
                    ELSE R[<<tmp, Front(tmp), t[tmp].symlink_to, depth - 1>>]
  <2>3. now = IF dst \in Failures THEN dst ELSE R[<<link, dst, tail, depth>>]
    BY ONLY <1>0, <1>4, <1>10, <2>1, parts # <<>> DEF ResolveFrom
  <2>4. CASE d[n].kind = "file" \/ next \notin Solid(d) \cup LinksOf(d)
    <3>1. tmp \in Failures
      BY <1>7, <2>2, <2>4
    <3> QED BY <1>1, <1>10, <2>3, <2>4, <3>1
  <2>5. CASE d[n].kind # "file" /\ next \in Solid(d) \cup LinksOf(d)
    <3>1. tmp = next /\ tmp \notin Failures
      BY <1>8, <2>2, <2>5
    <3>2. CASE next = link \/ depth = 0
      BY <1>7, <1>10, <2>3, <2>5, <3>1, <3>2
    <3>3. CASE next # link /\ depth # 0 /\ next \in Solid(d)
      <4>1. dst = next /\ dst \notin Failures
        BY <1>3, <3>1, <3>3
      <4>2. next \notin LinksOf(d)
        BY <3>3 DEF Solid, LinksOf
      <4> HIDE DEF dst
      <4> QED BY <1>10, <2>3, <2>5, <3>3, <4>1, <4>2
    <3>4. CASE next # link /\ depth # 0 /\ next \in LinksOf(d)
      <4>1. dst = R[<<next, n, d[next].to, depth - 1>>]
        BY <1>3, <1>6, <3>1, <3>4
      <4>2. next \notin Solid(d)
        BY <3>4 DEF Solid, LinksOf
      <4> HIDE DEF dst
      <4> QED BY <1>10, <2>3, <2>5, <3>4, <4>1, <4>2
    <3> QED BY <2>5, <3>2, <3>3, <3>4
  <2> QED BY <2>4, <2>5
<1> QED BY <1>9, <1>10

(* So does resolveLinks.                                                     *)
LEMMA ResolverStops ==
  ASSUME NEW d, IsDisk(d), NEW link \in Seq(STRING), NEW n \in Seq(STRING), NEW depth \in Nat
  PROVE  Resolver(ConstructTree(d))[<<link, n, <<>>, depth>>] = n
<1>1. PICK t : t = ConstructTree(d) /\ IsTree(t)
  BY NodeIs
<1>2. PICK parts \in Seq(STRING) : parts = <<>>
  <2>1. \A S : <<>> \in Seq(S)
    OBVIOUS
  <2> QED BY <2>1, Zenon
<1>3. Resolver(t)[<<link, n, parts, depth>>] = ResolveFrom(t, Resolver(t), link, n, parts, depth)
  BY <1>1, ResolverIs
<1> QED BY <1>1, <1>2, <1>3 DEF ResolveFrom

-----------------------------------------------------------------------------
(* From the disk to the tree.                                                *)

(* A lookup that goes on from node r with these parts and at most so many    *)
(* links.                                                                    *)
GoesOn(d, r, rest, left, now) ==
  r \in Solid(d) /\ \E left2 \in 0 .. left : now = Kernel(d)[<<r, rest, left2>>]

(* When a lookup that begins with these parts ends at a node of the tree,    *)
(* then resolveLinks goes through them, without meeting the link it is of.   *)
GoesAlong(d, n, parts, left) ==
  \A link \in LinksOf(d), depth \in Nat, rest \in Seq(STRING) :
    LET now == Kernel(d)[<<n, parts \o rest, left>>]
        R   == Resolver(ConstructTree(d))
    IN  /\ n \in Solid(d) /\ Named(parts) /\ left < depth
        /\ now \in Solid(d) \cup LinksOf(d)
        /\ R[<<link, n, parts, depth>>] = R[<<link, Front(link), d[link].to, depth>>]
        => GoesOn(d, R[<<link, n, parts, depth>>], rest, left, now)

(* The lookups below one with so many links and such parts are followed.     *)
GoesBelow(d, parts, left) ==
  \A n2 \in Seq(STRING), parts2 \in Seq(STRING), left2 \in Nat :
    left2 < left \/ (left2 = left /\ Len(parts2) < Len(parts)) => GoesAlong(d, n2, parts2, left2)

(* So is this one: through the names, the links on the way, and never back   *)
(* to the link itself, which would make the lookup begin again, with fewer   *)
(* links left, and end nowhere.                                              *)
LEMMA GoesAlongStep ==
  ASSUME NEW d, IsDisk(d), Tidy(d),
         NEW n \in Seq(STRING), NEW parts \in Seq(STRING), NEW left \in Nat,
         GoesBelow(d, parts, left)
  PROVE  GoesAlong(d, n, parts, left)
<1>0. PICK K, R : K = Kernel(d) /\ R = Resolver(ConstructTree(d))
  OBVIOUS
<1> SUFFICES ASSUME NEW link \in LinksOf(d), NEW depth \in Nat, NEW rest \in Seq(STRING),
                    NEW now, now = K[<<n, parts \o rest, left>>],
                    n \in Solid(d), Named(parts), left < depth,
                    now \in Solid(d) \cup LinksOf(d),
                    R[<<link, n, parts, depth>>] = R[<<link, Front(link), d[link].to, depth>>]
             PROVE  GoesOn(d, R[<<link, n, parts, depth>>], rest, left, now)
  BY <1>0, Zenon DEF GoesAlong
<1>1. CASE parts = <<>>
  <2>1. now = K[<<n, rest, left>>]
    <3>1. parts \o rest = rest
      BY <1>1, Paths, Zenon
    <3> QED BY <3>1
  <2>2. R[<<link, n, parts, depth>>] = n
    BY <1>0, <1>1, ResolverStops, Nodes
  <2>3. left \in 0 .. left
    OBVIOUS
  <2> QED BY ONLY <1>0, <2>1, <2>2, <2>3, n \in Solid(d), Zenon DEF GoesOn
<1>2. CASE parts # <<>>
  <2>0. PICK name, next : name = Head(parts) /\ next = Append(n, Head(parts))
    OBVIOUS
  <2>1. /\ name # "" /\ name \in STRING /\ Tail(parts) \in Seq(STRING)
        /\ Len(Tail(parts)) < Len(parts) /\ Named(Tail(parts)) /\ next \in Seq(STRING)
    <3>1. /\ Head(parts) # "" /\ Head(parts) \in STRING /\ Tail(parts) \in Seq(STRING)
          /\ Len(Tail(parts)) < Len(parts) /\ Named(Tail(parts))
      BY <1>2, NamedParts, Zenon
    <3>2. next \in Seq(STRING)
      BY <2>0, <3>1, Paths, Zenon
    <3> QED BY <2>0, <3>1, <3>2, Zenon
  <2>2. PICK tail \in Seq(STRING) : tail = Tail(parts) \o rest
    <3>1. Tail(parts) \o rest \in Seq(STRING)
      BY <2>1, Paths, Zenon
    <3> QED BY <3>1, Zenon
  <2>3. now \notin Failures
    BY Nodes
  <2>4. {NotADirectory, NotFound, Loop, Outside} \subseteq Failures
    BY DEF Failures
  (* going on from another node *)
  <2>5. ASSUME NEW n2 \in Solid(d), NEW left2 \in Nat, left2 <= left,
               R[<<link, n, parts, depth>>] = R[<<link, n2, Tail(parts), depth>>],
               now = K[<<n2, tail, left2>>]
        PROVE  GoesOn(d, R[<<link, n, parts, depth>>], rest, left, now)
    <3>1. GoesAlong(d, n2, Tail(parts), left2)
      <4>1. n2 \in Seq(STRING) /\ (left2 < left \/ (left2 = left /\ Len(Tail(parts)) < Len(parts)))
        <5>1. n2 \in Seq(STRING)
          BY Nodes
        <5>2. left2 < left \/ left2 = left
          BY ONLY <2>5, left \in Nat, left2 \in Nat
        <5> QED BY <2>1, <5>1, <5>2, Zenon
      <4> QED BY <2>1, <4>1, Zenon DEF GoesBelow
    <3>2. GoesOn(d, R[<<link, n2, Tail(parts), depth>>], rest, left2, now)
      <4>1. left2 < depth
        BY <2>5
      <4>2. now = Kernel(d)[<<n2, Tail(parts) \o rest, left2>>]
        BY <1>0, <2>2, <2>5
      <4>3. /\ now \in Solid(d) \cup LinksOf(d)
            /\ R[<<link, n2, Tail(parts), depth>>] = R[<<link, Front(link), d[link].to, depth>>]
        BY <2>5
      <4> QED BY <1>0, <2>1, <3>1, <4>1, <4>2, <4>3, Zenon DEF GoesAlong
    <3>3. 0 .. left2 \subseteq 0 .. left
      BY <2>5
    <3> QED BY <2>5, <3>2, <3>3, Zenon DEF GoesOn
  <2> DEFINE KNext == K[<<n, d[next].to \o tail, left - 1>>]
  <2>6. /\ IsDirAt(d, n)
        /\ name = "." => now = K[<<n, tail, left>>]
        /\ name = ".." => n # <<>> /\ now = K[<<Front(n), tail, left>>]
        /\ name \notin {".", ".."} =>
             /\ next \in DOMAIN d
             /\ next \notin LinksOf(d) => now = K[<<next, tail, left>>]
             /\ next \in LinksOf(d) => left # 0 /\ now = KNext
    <3>0. Turns(d, Kernel(d), n, Head(parts), Append(n, Head(parts)), Tail(parts) \o rest,
                left, Kernel(d)[<<n, parts \o rest, left>>])
      BY <1>2, KernelTurn
    <3>1. Turns(d, K, n, name, next, tail, left, now)
      BY <1>0, <2>0, <2>2, <3>0
    <3>2. next \in LinksOf(d) => ~ IsAbsolute(d[next].to) /\ d[next].kind = "link" /\ next \in DOMAIN d
      BY Destinations
    <3>3. next \in DOMAIN d /\ next \notin LinksOf(d) => d[next].kind # "link"
      BY DEF LinksOf
    <3> QED BY <2>1, <2>3, <2>4, <3>1, <3>2, <3>3 DEF Turns, KNext
  <2>7. d[n].kind = "dir"
    BY <2>6 DEF IsDirAt
  <2>8. /\ name = "." => R[<<link, n, parts, depth>>] = R[<<link, n, Tail(parts), depth>>]
        /\ name = ".." => R[<<link, n, parts, depth>>] =
             IF n = <<>> THEN Outside ELSE R[<<link, Front(n), Tail(parts), depth>>]
        /\ name \notin {".", ".."} /\ next \in Solid(d) \cup LinksOf(d) =>
             /\ next = link => R[<<link, n, parts, depth>>] = Loop
             /\ next # link =>
                  /\ next \in Solid(d) =>
                       R[<<link, n, parts, depth>>] = R[<<link, next, Tail(parts), depth>>]
                  /\ next \in LinksOf(d) =>
                       LET dst == R[<<next, n, d[next].to, depth - 1>>]
                       IN  R[<<link, n, parts, depth>>] =
                             IF dst \in Failures THEN dst ELSE R[<<link, dst, Tail(parts), depth>>]
    <3>1. depth # 0 /\ link \in Seq(STRING)
      BY Nodes
    <3>2. LET S == Resolver(ConstructTree(d))
          IN  Resolves(d, S, link, n, Head(parts), Append(n, Head(parts)), Tail(parts), depth,
                       S[<<link, n, parts, depth>>])
      BY <1>2, <3>1, ResolverTurn
    <3>3. Resolves(d, R, link, n, name, next, Tail(parts), depth, R[<<link, n, parts, depth>>])
      BY <1>0, <2>0, <3>2
    <3> QED BY ONLY <2>7, <3>1, <3>3 DEF Resolves
  <2>9. CASE name = "."
    <3>1. now = K[<<n, tail, left>>] /\ R[<<link, n, parts, depth>>] = R[<<link, n, Tail(parts), depth>>]
      BY <2>6, <2>8, <2>9
    <3>2. left <= left
      OBVIOUS
    <3> QED BY <2>5, <3>1, <3>2, Zenon
  <2>10. CASE name = ".."
    <3>1. n # <<>> /\ now = K[<<Front(n), tail, left>>]
      BY <2>6, <2>10
    <3>2. R[<<link, n, parts, depth>>] = R[<<link, Front(n), Tail(parts), depth>>]
      BY <2>8, <2>10, <3>1
    <3>3. Front(n) \in Solid(d)
      BY <3>1, Nodes
    <3>4. left <= left
      OBVIOUS
    <3> QED BY <2>5, <3>1, <3>2, <3>3, <3>4, Zenon
  <2>11. CASE name \notin {".", ".."} /\ next \notin Solid(d) \cup LinksOf(d)
    <3>1. next \in DOMAIN d /\ now = K[<<next, tail, left>>]
      BY <2>6, <2>11
    <3>2. ~ IsDirAt(d, next)
      BY <2>11 DEF IsDirAt, Solid
    <3>3. CASE tail = <<>>
      <4>1. now = next
        BY <1>0, <2>1, <3>1, <3>3, KernelStops
      <4> QED BY <2>11, <4>1
    <3>4. CASE tail # <<>>
      <4>1. K[<<next, tail \o <<>>, left>>] = NotADirectory
        <5>1. \A S : <<>> \in Seq(S)
          OBVIOUS
        <5>2. PICK none \in Seq(STRING) : none = <<>>
          BY <5>1, Zenon
        <5>3. Turns(d, Kernel(d), next, Head(tail), Append(next, Head(tail)), Tail(tail) \o none,
                    left, Kernel(d)[<<next, tail \o none, left>>])
          BY <2>1, <3>4, KernelTurn
        <5> QED BY <1>0, <3>2, <5>2, <5>3 DEF Turns
      <4>2. tail \o <<>> = tail
        OBVIOUS
      <4> QED BY <2>3, <2>4, <3>1, <4>1, <4>2
    <3> QED BY <3>3, <3>4
  <2>12. CASE name \notin {".", ".."} /\ next \in Solid(d)
    <3>1. next \notin LinksOf(d) /\ next # link
      BY <2>12, Nodes
    <3>2. now = K[<<next, tail, left>>]
      BY <2>6, <2>12, <3>1
    <3>3. R[<<link, n, parts, depth>>] = R[<<link, next, Tail(parts), depth>>]
      BY <2>8, <2>12, <3>1
    <3>4. left <= left
      OBVIOUS
    <3> QED BY <2>5, <2>12, <3>2, <3>3, <3>4, Zenon
  <2>13. CASE name \notin {".", ".."} /\ next \in LinksOf(d)
    <3>1. left # 0 /\ left - 1 \in Nat /\ left - 1 < left /\ now = KNext
      BY <2>6, <2>13
    <3>2. d[next].to \in Seq(STRING) /\ Named(d[next].to) /\ Front(next) = n
      <4>1. Front(next) = n
        BY <2>0, <2>1, Nodes, FrontOfAppend
      <4> QED BY <2>13, <4>1, Destinations
    <3>3. GoesAlong(d, n, d[next].to, left - 1)
      BY <3>1, <3>2 DEF GoesBelow
    <3>4. CASE next = link
      <4>1. R[<<link, n, parts, depth>>] = Loop
        BY <2>8, <2>13, <3>4
      <4>2. now = Kernel(d)[<<n, d[link].to \o tail, left - 1>>]
        BY <1>0, <3>1, <3>4
      <4>3. Front(link) = n
        BY <3>2, <3>4
      <4>4. R[<<link, n, d[link].to, depth>>] \in Solid(d)
        <5>1. left - 1 < depth
          BY <3>1
        <5>2. GoesAlong(d, n, d[link].to, left - 1) /\ Named(d[link].to)
          BY <3>2, <3>3, <3>4
        <5> HIDE DEF KNext
        <5> QED BY <1>0, <4>2, <4>3, <5>1, <5>2, Zenon DEF GoesAlong, GoesOn
      <4>5. R[<<link, n, d[link].to, depth>>] = Loop
        BY <4>1, <4>3
      <4> QED BY <2>4, <4>4, <4>5, Nodes
    <3>5. CASE next # link
      <4>1. depth - 1 \in Nat /\ left - 1 < depth - 1
        BY <3>1
      <4>2. now = Kernel(d)[<<n, d[next].to \o tail, left - 1>>]
        BY <1>0, <3>1
      <4>3. PICK n2 : n2 = R[<<next, n, d[next].to, depth - 1>>]
        OBVIOUS
      <4>4. GoesOn(d, n2, tail, left - 1, now)
        <5> HIDE DEF KNext
        <5> QED BY <1>0, <2>13, <3>2, <3>3, <4>1, <4>2, <4>3, Zenon DEF GoesAlong
      <4>5. PICK left2 \in 0 .. left - 1 : n2 \in Solid(d) /\ now = K[<<n2, tail, left2>>]
        BY <1>0, <4>4, Zenon DEF GoesOn
      <4>6. R[<<link, n, parts, depth>>] = R[<<link, n2, Tail(parts), depth>>]
        <5>1. n2 \notin Failures
          BY <4>5, Nodes
        <5>2. R[<<link, n, parts, depth>>] =
                IF n2 \in Failures THEN n2 ELSE R[<<link, n2, Tail(parts), depth>>]
          BY <2>8, <2>13, <3>5, <4>3, Zenon
        <5> QED BY ONLY <5>1, <5>2
      <4>7. left2 \in Nat /\ left2 <= left
        BY <3>1
      <4> QED BY <2>5, <4>5, <4>6, <4>7, Zenon
    <3> QED BY <3>4, <3>5
  <2> QED BY <2>9, <2>10, <2>11, <2>12, <2>13
<1> QED BY <1>1, <1>2

(* By induction, whatever the lookup.                                        *)
LEMMA LookupsGoAlong ==
  ASSUME NEW d, IsDisk(d), Tidy(d),
         NEW n \in Seq(STRING), NEW parts \in Seq(STRING), NEW left \in Nat
  PROVE  GoesAlong(d, n, parts, left)
<1> DEFINE G == {s \in Lookups : GoesAlong(d, s[1], s[2], s[3])}
<1>1. ASSUME NEW s \in Lookups, Below(Lookups, Left, Parts, s) \subseteq G PROVE s \in G
  <2>1. PICK m, p \in Seq(STRING), l \in Nat : s = <<m, p, l>>
    BY DEF Lookups
  <2>2. ASSUME NEW m2 \in Seq(STRING), NEW p2 \in Seq(STRING), NEW l2 \in Nat,
               l2 < l \/ (l2 = l /\ Len(p2) < Len(p))
        PROVE  GoesAlong(d, m2, p2, l2)
    <3>1. <<m2, p2, l2>> \in Below(Lookups, Left, Parts, s)
      BY <2>1, <2>2, LowerLookup
    <3> QED BY <1>1, <3>1
  <2>3. GoesAlong(d, m, p, l)
    BY <2>2, GoesAlongStep DEF GoesBelow
  <2> QED BY <2>1, <2>3
<1>2. Inductive(G, Lookups, Left, Parts)
  BY <1>1 DEF Inductive
<1>3. Lookups \subseteq G
  <2> HIDE DEF G
  <2> QED BY <1>2, LeftParts, InductionBelow
<1>4. <<n, parts, left>> \in Lookups
  BY DEF Lookups
<1> QED BY <1>3, <1>4

-----------------------------------------------------------------------------
(* From the tree to the disk.                                                *)

(* Looked up on disk, the parts lead from n to r by so many links, or through *)
(* a file.                                                                   *)
Takes(d, n, parts, r, links) ==
  \A rest \in Seq(STRING), more \in Nat :
    Kernel(d)[<<n, parts \o rest, links + more>>]
      \in {Kernel(d)[<<r, rest, more>>], NotADirectory}

(* Where resolveLinks ends, they lead.                                       *)
Resolved(d, link, n, parts, depth) ==
  LET r == Resolver(ConstructTree(d))[<<link, n, parts, depth>>]
  IN  n \in Solid(d) /\ Named(parts) /\ r \notin Failures
        => r \in Solid(d) /\ \E links \in Nat : Takes(d, n, parts, r, links)

(* The frames below one at such a depth and with such parts lead on disk.    *)
ResolvedBelow(d, parts, depth) ==
  \A link2, n2, parts2 \in Seq(STRING), depth2 \in Nat :
    depth2 < depth \/ (depth2 = depth /\ Len(parts2) < Len(parts))
      => Resolved(d, link2, n2, parts2, depth2)

(* Through one name.                                                         *)
LEMMA TakesName ==
  ASSUME NEW d, IsDisk(d), NEW n \in Solid(d), NEW parts \in Seq(STRING), parts # <<>>, Named(parts),
         NEW n2 \in Seq(STRING), NEW r, NEW links \in Nat,
         Takes(d, n2, Tail(parts), r, links),
         \/ Head(parts) = "." /\ n2 = n
         \/ Head(parts) = ".." /\ n # <<>> /\ n2 = Front(n)
         \/ /\ Head(parts) \notin {".", ".."}
            /\ n2 \in DOMAIN d /\ n2 = Append(n, Head(parts)) /\ d[n2].kind # "link"
  PROVE  Takes(d, n, parts, r, links)
<1>0. PICK K : K = Kernel(d)
  OBVIOUS
<1> SUFFICES ASSUME NEW rest \in Seq(STRING), NEW more \in Nat
             PROVE  K[<<n, parts \o rest, links + more>>] \in {K[<<r, rest, more>>], NotADirectory}
  BY <1>0, Zenon DEF Takes
<1>1. PICK left \in Nat : left = links + more
  OBVIOUS
<1>2. PICK now : now = K[<<n, parts \o rest, left>>]
  OBVIOUS
<1>3. Turns(d, Kernel(d), n, Head(parts), Append(n, Head(parts)), Tail(parts) \o rest, left, now)
  <2>1. n \in Seq(STRING)
    BY Nodes
  <2> QED BY <1>0, <1>2, <2>1, KernelTurn, Zenon
<1>4. K[<<n2, Tail(parts) \o rest, left>>] \in {K[<<r, rest, more>>], NotADirectory}
  BY <1>0, <1>1, Zenon DEF Takes
<1>5. Head(parts) # ""
  BY NamedParts, Zenon
<1>6. now = NotADirectory \/ now = K[<<n2, Tail(parts) \o rest, left>>]
  BY ONLY <1>0, <1>3, <1>5,
          \/ Head(parts) = "." /\ n2 = n
          \/ Head(parts) = ".." /\ n # <<>> /\ n2 = Front(n)
          \/ /\ Head(parts) \notin {".", ".."}
             /\ n2 \in DOMAIN d /\ n2 = Append(n, Head(parts)) /\ d[n2].kind # "link"
  DEF Turns
<1> QED BY ONLY <1>1, <1>2, <1>4, <1>6

(* Through one link, and from its end on.                                    *)
LEMMA TakesLink ==
  ASSUME NEW d, IsDisk(d), Tidy(d), NEW n \in Solid(d), d[n].kind = "dir",
         NEW parts \in Seq(STRING), parts # <<>>, Named(parts), Head(parts) \notin {".", ".."},
         NEW next \in LinksOf(d), next = Append(n, Head(parts)),
         NEW dst \in Solid(d), NEW r, NEW links \in Nat, NEW more \in Nat,
         Takes(d, n, d[next].to, dst, links), Takes(d, dst, Tail(parts), r, more)
  PROVE  Takes(d, n, parts, r, 1 + links + more)
<1>0. PICK K : K = Kernel(d)
  OBVIOUS
<1> SUFFICES ASSUME NEW rest \in Seq(STRING), NEW rem \in Nat
             PROVE  K[<<n, parts \o rest, (1 + links + more) + rem>>] \in {K[<<r, rest, rem>>], NotADirectory}
  BY <1>0, Zenon DEF Takes
<1>1. PICK left, right \in Nat : /\ left = (1 + links + more) + rem /\ right = more + rem
                                 /\ left # 0 /\ left - 1 = links + right
  <2>1. (1 + links + more) + rem \in Nat /\ more + rem \in Nat /\ (1 + links + more) + rem # 0
        /\ ((1 + links + more) + rem) - 1 = links + (more + rem)
    OBVIOUS
  <2> QED BY <2>1, Zenon
<1>2. PICK now, tail : now = K[<<n, parts \o rest, left>>] /\ tail = Tail(parts) \o rest
  OBVIOUS
<1>3. Turns(d, Kernel(d), n, Head(parts), Append(n, Head(parts)), Tail(parts) \o rest, left, now)
  <2>1. n \in Seq(STRING)
    BY Nodes
  <2> QED BY <1>0, <1>2, <2>1, KernelTurn, Zenon
<1>4. Turns(d, K, n, Head(parts), next, tail, left, now)
  BY <1>0, <1>2, <1>3, Zenon
<1>5. now = K[<<n, d[next].to \o tail, left - 1>>]
  <2>1. IsDirAt(d, n)
    BY DEF Solid, IsDirAt
  <2>2. Head(parts) # ""
    BY NamedParts, Zenon
  <2>3. next \in DOMAIN d /\ d[next].kind = "link" /\ ~ IsAbsolute(d[next].to)
    BY Destinations, Zenon
  <2>4. Head(parts) \notin {"", ".", ".."} /\ left # 0
    BY <1>1, <2>2
  <2> QED BY ONLY <1>4, <2>1, <2>3, <2>4 DEF Turns
<1>6. tail \in Seq(STRING)
  BY <1>2, NamedParts, Paths, Zenon
<1>7. now \in {K[<<dst, tail, right>>], NotADirectory}
  <2>1. K[<<n, d[next].to \o tail, links + right>>] \in {K[<<dst, tail, right>>], NotADirectory}
    BY <1>0, <1>6, Zenon DEF Takes
  <2> QED BY ONLY <1>1, <1>5, <2>1
<1>8. K[<<dst, tail, right>>] \in {K[<<r, rest, rem>>], NotADirectory}
  <2>1. K[<<dst, Tail(parts) \o rest, more + rem>>] \in {K[<<r, rest, rem>>], NotADirectory}
    BY <1>0, Zenon DEF Takes
  <2> QED BY ONLY <1>1, <1>2, <2>1
<1> QED BY ONLY <1>1, <1>2, <1>7, <1>8

(* So does this one.                                                         *)
LEMMA ResolvedStep ==
  ASSUME NEW d, IsDisk(d), Tidy(d), NEW link \in Seq(STRING),
         NEW n \in Seq(STRING), NEW parts \in Seq(STRING), NEW depth \in Nat,
         ResolvedBelow(d, parts, depth)
  PROVE  Resolved(d, link, n, parts, depth)
<1>0. PICK R, r : R = Resolver(ConstructTree(d)) /\ r = R[<<link, n, parts, depth>>]
  OBVIOUS
<1> SUFFICES ASSUME n \in Solid(d), Named(parts), r \notin Failures
             PROVE  r \in Solid(d) /\ \E links \in Nat : Takes(d, n, parts, r, links)
  BY <1>0, Zenon DEF Resolved
<1>1. CASE parts = <<>>
  <2>1. r = n
    BY <1>0, <1>1, ResolverStops
  <2>2. ASSUME NEW rest \in Seq(STRING), NEW more \in Nat
        PROVE  Kernel(d)[<<n, parts \o rest, 0 + more>>] = Kernel(d)[<<n, rest, more>>]
    <3>1. parts \o rest = rest
      BY <1>1, Paths, Zenon
    <3>2. 0 + more = more
      OBVIOUS
    <3> QED BY ONLY <3>1, <3>2
  <2>3. Takes(d, n, parts, n, 0)
    BY <2>2 DEF Takes
  <2> QED BY <2>1, <2>3
<1>2. CASE parts # <<>>
  <2>0. PICK name, next, tail : name = Head(parts) /\ next = Append(n, Head(parts)) /\ tail = Tail(parts)
    OBVIOUS
  <2>1. name # "" /\ tail \in Seq(STRING) /\ Len(tail) < Len(parts) /\ Named(tail)
    BY <1>2, <2>0, NamedParts, Zenon
  <2>2. Resolves(d, R, link, n, name, next, tail, depth, r)
    BY <1>0, <1>2, <2>0, ResolverTurn, Zenon
  <2>3. {NotADirectory, NotFound, Loop, Outside} \subseteq Failures
    BY DEF Failures
  (* going on from another node *)
  <2>4. ASSUME NEW n2 \in Solid(d), r = R[<<link, n2, tail, depth>>]
        PROVE  r \in Solid(d) /\ \E links \in Nat : Takes(d, n2, tail, r, links)
    <3>1. n2 \in Seq(STRING)
      BY Nodes
    <3>2. Resolved(d, link, n2, tail, depth)
      BY <2>1, <3>1, Zenon DEF ResolvedBelow
    <3> QED BY <1>0, <2>1, <2>4, <3>2, Zenon DEF Resolved
  <2>5. CASE name = "."
    <3>1. r = R[<<link, n, tail, depth>>]
      BY <2>2, <2>5 DEF Resolves
    <3>2. PICK links \in Nat : r \in Solid(d) /\ Takes(d, n, tail, r, links)
      BY <2>4, <3>1, Zenon
    <3>3. Takes(d, n, parts, r, links)
      BY <1>2, <2>0, <2>5, <3>2, TakesName, Zenon
    <3> QED BY <3>2, <3>3, Zenon
  <2>6. CASE name = ".."
    <3>1. n # <<>> /\ r = R[<<link, Front(n), tail, depth>>]
      BY <2>2, <2>3, <2>6 DEF Resolves
    <3>2. Front(n) \in Solid(d) /\ Front(n) \in Seq(STRING)
      BY <3>1, Nodes
    <3>3. PICK links \in Nat : r \in Solid(d) /\ Takes(d, Front(n), tail, r, links)
      BY <2>4, <3>1, <3>2, Zenon
    <3>4. Takes(d, n, parts, r, links)
      BY <1>2, <2>0, <2>6, <3>1, <3>2, <3>3, TakesName, Zenon
    <3> QED BY <3>3, <3>4, Zenon
  <2>7. CASE name \notin {".", ".."}
    <3>1. /\ d[n].kind = "dir" /\ next \in Solid(d) \cup LinksOf(d) /\ depth # 0
          /\ next \in Solid(d) => r = R[<<link, next, tail, depth>>]
          /\ next \in LinksOf(d) =>
               LET dst == R[<<next, n, d[next].to, depth - 1>>]
               IN  r = IF dst \in Failures THEN dst ELSE R[<<link, dst, tail, depth>>]
      <4>1. d[n].kind \in {"dir", "file"}
        BY DEF Solid
      <4> QED BY ONLY <2>2, <2>3, <2>7, <4>1, r \notin Failures DEF Resolves
    <3>2. CASE next \in Solid(d)
      <4>1. PICK links \in Nat : r \in Solid(d) /\ Takes(d, next, tail, r, links)
        BY <2>4, <3>1, <3>2, Zenon
      <4>2. next \in DOMAIN d /\ d[next].kind # "link" /\ next \in Seq(STRING)
        BY <3>2, Nodes DEF Solid
      <4>3. Takes(d, n, parts, r, links)
        BY <1>2, <2>0, <2>7, <4>1, <4>2, TakesName, Zenon
      <4> QED BY <4>1, <4>3, Zenon
    <3>3. CASE next \in LinksOf(d)
      <4>1. PICK dst : dst = R[<<next, n, d[next].to, depth - 1>>]
        OBVIOUS
      <4>2. r = IF dst \in Failures THEN dst ELSE R[<<link, dst, tail, depth>>]
        BY <3>1, <3>3, <4>1, Zenon
      <4>3. dst \notin Failures /\ r = R[<<link, dst, tail, depth>>]
        BY ONLY <4>2, r \notin Failures
      <4>4. depth - 1 \in Nat /\ depth - 1 < depth
        BY <3>1
      <4>5. d[next].to \in Seq(STRING) /\ Named(d[next].to) /\ next \in Seq(STRING)
        BY <3>3, Destinations, Nodes
      <4>6. Resolved(d, next, n, d[next].to, depth - 1)
        BY <4>4, <4>5, Zenon DEF ResolvedBelow
      <4>7. PICK links \in Nat : dst \in Solid(d) /\ Takes(d, n, d[next].to, dst, links)
        BY <1>0, <4>1, <4>3, <4>5, <4>6, Zenon DEF Resolved
      <4>8. PICK more \in Nat : r \in Solid(d) /\ Takes(d, dst, tail, r, more)
        BY <2>4, <4>3, <4>7, Zenon
      <4>9. Takes(d, n, parts, r, 1 + links + more)
        BY <1>2, <2>0, <2>7, <3>1, <3>3, <4>7, <4>8, TakesLink, Zenon
      <4>10. 1 + links + more \in Nat
        OBVIOUS
      <4> QED BY <4>8, <4>9, <4>10, Zenon
    <3> QED BY <3>1, <3>2, <3>3
  <2> QED BY <2>5, <2>6, <2>7
<1> QED BY <1>1, <1>2

(* By induction, whatever the frame.                                         *)
LEMMA FramesResolve ==
  ASSUME NEW d, IsDisk(d), Tidy(d), NEW link \in Seq(STRING),
         NEW n \in Seq(STRING), NEW parts \in Seq(STRING), NEW depth \in Nat
  PROVE  Resolved(d, link, n, parts, depth)
<1> DEFINE G == {s \in Frames : Resolved(d, s[1], s[2], s[3], s[4])}
<1>1. ASSUME NEW s \in Frames, Below(Frames, Depth, ToGo, s) \subseteq G PROVE s \in G
  <2>1. PICK l, m, p \in Seq(STRING), h \in Nat : s = <<l, m, p, h>>
    BY DEF Frames
  <2>2. ASSUME NEW l2 \in Seq(STRING), NEW m2 \in Seq(STRING), NEW p2 \in Seq(STRING), NEW h2 \in Nat,
               h2 < h \/ (h2 = h /\ Len(p2) < Len(p))
        PROVE  Resolved(d, l2, m2, p2, h2)
    <3>1. <<l2, m2, p2, h2>> \in Below(Frames, Depth, ToGo, s)
      BY <2>1, <2>2, LowerFrame
    <3> QED BY <1>1, <3>1
  <2>3. Resolved(d, l, m, p, h)
    BY <2>2, ResolvedStep DEF ResolvedBelow
  <2> QED BY <2>1, <2>3
<1>2. Inductive(G, Frames, Depth, ToGo)
  BY <1>1 DEF Inductive
<1>3. Frames \subseteq G
  <2> HIDE DEF G
  <2> QED BY <1>2, DepthToGo, InductionBelow
<1>4. <<link, n, parts, depth>> \in Frames
  BY DEF Frames
<1> QED BY <1>3, <1>4

-----------------------------------------------------------------------------
(* How many links a lookup follows.                                          *)

(* A lookup that ends needs no more links.                                   *)
Ended(d, dir, parts, left) ==
  LET now == Kernel(d)[<<dir, parts, left>>]
  IN  now # Loop => \A more \in Nat : Kernel(d)[<<dir, parts, left + more>>] = now

(* So for the lookups below one with so many links and such parts.           *)
EndedBelow(d, parts, left) ==
  \A dir2, parts2 \in Seq(STRING), left2 \in Nat :
    left2 < left \/ (left2 = left /\ Len(parts2) < Len(parts)) => Ended(d, dir2, parts2, left2)

(* And so for this one.                                                      *)
LEMMA EndedStep ==
  ASSUME NEW d, IsDisk(d), NEW dir \in Seq(STRING), NEW parts \in Seq(STRING), NEW left \in Nat,
         EndedBelow(d, parts, left)
  PROVE  Ended(d, dir, parts, left)
<1>0. PICK K, now : K = Kernel(d) /\ now = K[<<dir, parts, left>>]
  OBVIOUS
<1> SUFFICES ASSUME now # Loop, NEW more \in Nat PROVE K[<<dir, parts, left + more>>] = now
  BY <1>0, Zenon DEF Ended
<1>1. PICK left2, later : /\ left2 = left + more /\ left2 \in Nat
                          /\ later = K[<<dir, parts, left2>>]
  <2>1. left + more \in Nat
    OBVIOUS
  <2> QED BY <2>1, Zenon
<1>2. CASE parts = <<>>
  BY <1>0, <1>1, <1>2, KernelStops
<1>3. CASE parts # <<>>
  <2>0. PICK name, next, tail : name = Head(parts) /\ next = Append(dir, Head(parts)) /\ tail = Tail(parts)
    OBVIOUS
  <2>1. Turns(d, K, dir, name, next, tail, left, now) /\ Turns(d, K, dir, name, next, tail, left2, later)
    BY <1>0, <1>1, <1>3, <2>0, KernelTurnWhole, Zenon
  <2>2. /\ tail \in Seq(STRING) /\ Len(tail) < Len(parts) /\ next \in Seq(STRING)
        /\ dir # <<>> => Front(dir) \in Seq(STRING)
    <3>1. Head(parts) \in STRING /\ Tail(parts) \in Seq(STRING) /\ Len(Tail(parts)) < Len(parts)
      BY <1>3
    <3>2. Append(dir, Head(parts)) \in Seq(STRING)
      BY <3>1, Paths, Zenon
    <3>3. dir # <<>> => Front(dir) \in Seq(STRING)
      BY AppendLast, Zenon
    <3> QED BY <2>0, <3>1, <3>2, <3>3, Zenon
  <2>3. ASSUME NEW dir2 \in Seq(STRING), K[<<dir2, tail, left>>] = now
        PROVE  K[<<dir2, tail, left2>>] = now
    <3>1. Ended(d, dir2, tail, left)
      BY <2>2, Zenon DEF EndedBelow
    <3> QED BY <1>0, <1>1, <2>3, <3>1, Zenon DEF Ended
  <2>4. CASE \/ ~ IsDirAt(d, dir) \/ name \in {"", "."}
             \/ name = ".." \/ next \notin DOMAIN d \/ d[next].kind # "link"
    <3>1. /\ K[<<dir, tail, left>>] = now => K[<<dir, tail, left2>>] = now
          /\ K[<<next, tail, left>>] = now => K[<<next, tail, left2>>] = now
          /\ dir # <<>> /\ K[<<Front(dir), tail, left>>] = now => K[<<Front(dir), tail, left2>>] = now
      BY <2>2, <2>3, Zenon
    <3>2. later = now
      BY ONLY <2>1, <2>4, <3>1 DEF Turns
    <3> QED BY <1>1, <3>2, Zenon
  <2>5. CASE /\ IsDirAt(d, dir) /\ name \notin {"", ".", ".."}
             /\ next \in DOMAIN d /\ d[next].kind = "link"
    <3>1. left # 0 /\ left2 # 0 /\ left - 1 \in Nat /\ left - 1 < left /\ left2 - 1 = (left - 1) + more
      <4>1. left # 0
        BY ONLY <2>1, <2>5, now # Loop DEF Turns
      <4> QED BY <1>1, <4>1
    <3>2. CASE IsAbsolute(d[next].to)
      <4>1. later = now
        BY ONLY <2>1, <2>5, <3>1, <3>2 DEF Turns
      <4> QED BY <1>1, <4>1, Zenon
    <3>3. CASE ~ IsAbsolute(d[next].to)
      <4>1. PICK whole : whole = d[next].to \o tail
        OBVIOUS
      <4>2. now = K[<<dir, whole, left - 1>>] /\ later = K[<<dir, whole, left2 - 1>>]
        BY ONLY <2>1, <2>5, <3>1, <3>3, <4>1 DEF Turns
      <4>3. whole \in Seq(STRING)
        <5>1. d[next].to \in Seq(STRING) \ {<<>>}
          BY <2>5, Zenon DEF IsDisk
        <5> QED BY <2>2, <4>1, <5>1, Paths, Zenon
      <4>4. Ended(d, dir, whole, left - 1)
        BY <3>1, <4>3, Zenon DEF EndedBelow
      <4>5. K[<<dir, whole, (left - 1) + more>>] = now
        BY <1>0, <4>2, <4>4, Zenon DEF Ended
      <4>6. later = now
        BY ONLY <3>1, <4>2, <4>5
      <4> QED BY <1>1, <4>6, Zenon
    <3> QED BY <3>2, <3>3
  <2> QED BY <2>4, <2>5
<1> QED BY <1>2, <1>3

(* By induction, whatever the lookup.                                        *)
LEMMA LookupsEnd ==
  ASSUME NEW d, IsDisk(d), NEW dir \in Seq(STRING), NEW parts \in Seq(STRING), NEW left \in Nat
  PROVE  Ended(d, dir, parts, left)
<1> DEFINE G == {s \in Lookups : Ended(d, s[1], s[2], s[3])}
<1>1. ASSUME NEW s \in Lookups, Below(Lookups, Left, Parts, s) \subseteq G PROVE s \in G
  <2>1. PICK m, p \in Seq(STRING), l \in Nat : s = <<m, p, l>>
    BY DEF Lookups
  <2>2. ASSUME NEW m2 \in Seq(STRING), NEW p2 \in Seq(STRING), NEW l2 \in Nat,
               l2 < l \/ (l2 = l /\ Len(p2) < Len(p))
        PROVE  Ended(d, m2, p2, l2)
    <3>1. <<m2, p2, l2>> \in Below(Lookups, Left, Parts, s)
      BY <2>1, <2>2, LowerLookup
    <3> QED BY <1>1, <3>1
  <2>3. Ended(d, m, p, l)
    BY <2>2, EndedStep DEF EndedBelow
  <2> QED BY <2>1, <2>3
<1>2. Inductive(G, Lookups, Left, Parts)
  BY <1>1 DEF Inductive
<1>3. Lookups \subseteq G
  <2> HIDE DEF G
  <2> QED BY <1>2, LeftParts, InductionBelow
<1>4. <<dir, parts, left>> \in Lookups
  BY DEF Lookups
<1> QED BY <1>3, <1>4

-----------------------------------------------------------------------------
(* Where links lead.                                                         *)

(* A lookup from the root, with a path of the disk, gets to its directory.   *)
LEMMA LookupReaches ==
  ASSUME NEW d, IsDisk(d), NEW p \in DOMAIN d, p # <<>>, NEW left \in Nat
  PROVE  Kernel(d)[<< <<>>, p, left>>] = Kernel(d)[<<Front(p), <<Last(p)>>, left>>]
<1>0. PICK K : K = Kernel(d)
  OBVIOUS
<1>1. p \in Seq(STRING) /\ Len(p) \in Nat /\ Len(p) > 0
  <2>1. p \in Seq(STRING)
    BY Nodes
  <2> QED BY <2>1
<1> DEFINE Before(k) == SubSeq(p, 1, k)
           After(k)  == SubSeq(p, k + 1, Len(p))
           S == {k \in Nat : k < Len(p) => K[<<Before(k), After(k), left>>] = K[<< <<>>, p, left>>]}
<1>2. 0 \in S
  <2>1. Before(0) = <<>> /\ After(0) = p
    BY <1>1
  <2> HIDE DEF Before, After
  <2> QED BY <2>1
<1>3. ASSUME NEW k \in Nat, k \in S PROVE k + 1 \in S
  <2> SUFFICES ASSUME k + 1 < Len(p)
               PROVE  K[<<Before(k + 1), After(k + 1), left>>] = K[<< <<>>, p, left>>]
    OBVIOUS
  <2>1. k < Len(p) /\ k + 1 <= Len(p) /\ k \in 0 .. Len(p) /\ k + 1 \in 0 .. Len(p) /\ k # Len(p)
        /\ k + 1 # Len(p)
    BY <1>1
  <2>2. PICK a, b, c, e : a = Before(k) /\ b = After(k) /\ c = Before(k + 1) /\ e = After(k + 1)
    OBVIOUS
  <2>3. K[<<a, b, left>>] = K[<< <<>>, p, left>>]
    BY <1>3, <2>1, <2>2
  <2>4. /\ a \in Seq(STRING) /\ b \in Seq(STRING) /\ b # <<>> /\ Head(b) \in STRING
        /\ Append(a, Head(b)) = c /\ Tail(b) = e
    <3>1. (k + 1) + 1 = k + 2
      OBVIOUS
    <3> QED BY ONLY <1>1, <2>2, <3>1, k \in Nat, k + 1 < Len(p), Cut DEF Before, After
  <2>7. /\ a \in DOMAIN d /\ d[a].kind = "dir"
        /\ c \in DOMAIN d /\ d[c].kind = "dir"
    <3> HIDE DEF Before, After
    <3>1. \A i \in 0 .. Len(p) : Before(i) \in DOMAIN d /\ (i # Len(p) => d[Before(i)].kind = "dir")
      BY PrefixesAreDirs DEF Before
    <3> QED BY <2>1, <2>2, <3>1
  <2>8. Head(b) \notin {"", ".", ".."}
    <3>1. c # <<>> /\ Last(c) = Head(b)
      BY <2>4, FrontOfAppend
    <3> QED BY <2>7, <3>1, Zenon DEF IsDisk
  <2>9. Turns(d, K, a, Head(b), c, e, left, K[<<a, b, left>>])
    BY <1>0, <2>4, KernelTurnWhole, Zenon
  <2>10. K[<<a, b, left>>] = K[<<c, e, left>>]
    BY ONLY <2>7, <2>8, <2>9 DEF Turns, IsDirAt
  <2> HIDE DEF Before, After
  <2> QED BY <2>2, <2>3, <2>10, Zenon
<1>4. PICK l \in Nat : l = Len(p) - 1 /\ l < Len(p)
  BY <1>1
<1>5. K[<<Before(l), After(l), left>>] = K[<< <<>>, p, left>>]
  <2>1. l \in S
    <3> HIDE DEF S
    <3> QED BY <1>2, <1>3, SetInduction
  <2> QED BY <1>4, <2>1
<1>6. Before(l) = Front(p)
  BY <1>4 DEF Front
<1>7. After(l) = <<Last(p)>>
  <2>1. After(l) \in Seq(STRING) /\ Len(After(l)) = 1 /\ After(l)[1] = p[Len(p)] /\ p[Len(p)] \in STRING
    BY <1>1, <1>4
  <2>2. Last(p) = p[Len(p)]
    BY DEF Last
  <2> HIDE DEF After
  <2> QED BY <2>1, <2>2
<1> HIDE DEF Before, After
<1> QED BY <1>0, <1>5, <1>6, <1>7, Zenon

(* A lookup of a link goes on with its destination, from its directory.      *)
LEMMA LookupOfLink ==
  ASSUME NEW d, IsDisk(d), Tidy(d), NEW p \in LinksOf(d), NEW left \in Nat
  PROVE  OnDiskWithin(d, p, left) =
           IF left = 0 THEN Loop ELSE Kernel(d)[<<Front(p), d[p].to, left - 1>>]
<1>1. p \in DOMAIN d /\ d[p].kind = "link" /\ p # <<>> /\ p \in Seq(STRING)
      /\ Front(p) \in Seq(STRING) /\ IsDirAt(d, Front(p)) /\ ~ IsAbsolute(d[p].to)
      /\ d[p].to \in Seq(STRING)
  BY Nodes, Destinations
<1>2. Last(p) \notin {"", ".", ".."} /\ Last(p) \in STRING /\ Append(Front(p), Last(p)) = p
  BY <1>1, AppendLast, Zenon DEF IsDisk
<1>3. PICK parts : parts = <<Last(p)>>
  OBVIOUS
<1>4. parts \in Seq(STRING) /\ parts # <<>> /\ Head(parts) = Last(p) /\ Tail(parts) = <<>>
  <2>1. \A S : \A x \in S : /\ <<x>> \in Seq(S) /\ <<x>> # <<>> /\ Head(<<x>>) = x
                            /\ Tail(<<x>>) = <<>>
    OBVIOUS
  <2> QED BY <1>2, <1>3, <2>1, Zenon
<1>5. PICK K, now : K = Kernel(d) /\ now = K[<<Front(p), parts, left>>]
  OBVIOUS
<1>6. Turns(d, K, Front(p), Last(p), p, <<>>, left, now)
  BY <1>1, <1>2, <1>4, <1>5, KernelTurnWhole, Zenon
<1>7. d[p].to \o <<>> = d[p].to
  BY <1>1, Paths, Zenon
<1>8. now = IF left = 0 THEN Loop ELSE K[<<Front(p), d[p].to, left - 1>>]
  BY ONLY <1>1, <1>2, <1>6, <1>7 DEF Turns
<1>9. OnDiskWithin(d, p, left) = now
  BY <1>1, <1>3, <1>5, LookupReaches, Zenon DEF OnDiskWithin
<1> QED BY <1>5, <1>8, <1>9, Zenon

(* resolveLinks begins beside the link, with its destination.                *)
LEMMA FollowIs ==
  ASSUME NEW d, IsDisk(d), NEW p \in LinksOf(d)
  PROVE  ResolveLinks(ConstructTree(d), p) =
           Resolver(ConstructTree(d))[<<p, Front(p), d[p].to, MaxDepth>>]
<1>1. p \in DOMAIN d /\ d[p].kind = "link" /\ d[p].kind # "pipe"
  BY DEF LinksOf
<1>2. ConstructTree(d)[p].type = "symlink" /\ ConstructTree(d)[p].symlink_to = d[p].to
  BY <1>1, NodeIs, Zenon
<1> QED BY <1>2, Zenon DEF ResolveLinks, Follow

(* A link that leads to a node of the package on disk leads there in the     *)
(* browser: resolveLinks follows links as deep as the kernel follows many.   *)
LEMMA DiskToTree ==
  ASSUME NEW d, IsDisk(d), Tidy(d), NEW p \in LinksOf(d), OnDisk(d, p) \in DOMAIN ConstructTree(d)
  PROVE  /\ ResolveLinks(ConstructTree(d), p) = OnDisk(d, p)
         /\ OnDisk(d, p) \in Solid(d)
<1>1. DOMAIN ConstructTree(d) = Solid(d) \cup LinksOf(d)
  <2>1. DOMAIN ConstructTree(d) = {q \in DOMAIN d : d[q].kind # "pipe"}
    BY NodeIs, Zenon
  <2>2. \A q \in DOMAIN d : d[q].kind \in {"dir", "pipe", "file", "link"}
    BY Zenon DEF IsDisk
  <2> QED BY <2>1, <2>2 DEF Solid, LinksOf
<1>2. PICK now : now = OnDisk(d, p)
  OBVIOUS
<1>3. now \in Solid(d) \cup LinksOf(d) /\ now # Loop
  <2>1. Loop \in Failures
    BY DEF Failures
  <2> QED BY <1>1, <1>2, <2>1, Nodes
<1>4. MaxFollowed # 0 /\ now = Kernel(d)[<<Front(p), d[p].to, MaxFollowed - 1>>]
  <2>1. now = IF MaxFollowed = 0 THEN Loop ELSE Kernel(d)[<<Front(p), d[p].to, MaxFollowed - 1>>]
    BY <1>2, DepthType, LookupOfLink, Zenon DEF OnDisk
  <2> QED BY ONLY <1>3, <2>1
<1>5. MaxFollowed - 1 \in Nat /\ MaxFollowed - 1 < MaxDepth /\ MaxDepth \in Nat
  BY <1>4, DepthType
<1>6. /\ Front(p) \in Solid(d) /\ Front(p) \in Seq(STRING)
      /\ d[p].to \in Seq(STRING) /\ Named(d[p].to)
  BY Nodes, Destinations
<1>7. PICK r : r = Resolver(ConstructTree(d))[<<p, Front(p), d[p].to, MaxDepth>>]
  OBVIOUS
<1>8. GoesAlong(d, Front(p), d[p].to, MaxFollowed - 1)
  BY <1>5, <1>6, LookupsGoAlong, Zenon
<1>9. \A S : <<>> \in Seq(S)
  OBVIOUS
<1>10. PICK none \in Seq(STRING) : none = <<>>
  BY <1>9, Zenon
<1>11. d[p].to \o none = d[p].to
  BY <1>6, <1>10, Paths, Zenon
<1>12. GoesOn(d, r, none, MaxFollowed - 1, now)
  BY <1>3, <1>4, <1>5, <1>6, <1>7, <1>8, <1>11, Zenon DEF GoesAlong
<1>13. PICK left \in 0 .. MaxFollowed - 1 : r \in Solid(d) /\ now = Kernel(d)[<<r, none, left>>]
  BY <1>12, Zenon DEF GoesOn
<1>14. left \in Nat /\ r \in Seq(STRING)
  BY <1>5, <1>13, Nodes
<1>15. now = r
  BY <1>10, <1>13, <1>14, KernelStops, Zenon
<1> QED BY <1>2, <1>7, <1>13, <1>15, FollowIs, Zenon

(* A link that leads to a node of the package in the browser leads there on  *)
(* disk, given links enough, or through a file.                              *)
LEMMA TreeToDisk ==
  ASSUME NEW d, IsDisk(d), Tidy(d), NEW p \in LinksOf(d),
         ResolveLinks(ConstructTree(d), p) \in DOMAIN ConstructTree(d),
         \A k \in Nat : OnDiskWithin(d, p, k) # Loop => OnDisk(d, p) # Loop
  PROVE  OnDisk(d, p) \in {ResolveLinks(ConstructTree(d), p), NotADirectory}
<1>1. PICK r : r = Resolver(ConstructTree(d))[<<p, Front(p), d[p].to, MaxDepth>>]
  OBVIOUS
<1>2. /\ Front(p) \in Solid(d) /\ Front(p) \in Seq(STRING) /\ p \in Seq(STRING)
      /\ d[p].to \in Seq(STRING) /\ Named(d[p].to)
  BY Nodes, Destinations
<1>3. r = ResolveLinks(ConstructTree(d), p)
  BY <1>1, FollowIs, Zenon
<1>4. r \notin Failures
  <2>1. DOMAIN ConstructTree(d) \subseteq DOMAIN d
    <3>1. DOMAIN ConstructTree(d) = {q \in DOMAIN d : d[q].kind # "pipe"}
      BY NodeIs, Zenon
    <3> QED BY <3>1
  <2>2. \A q \in DOMAIN d : q \notin Failures
    BY Zenon DEF IsDisk
  <2> QED BY <1>3, <2>1, <2>2, Zenon
<1>5. PICK links \in Nat : r \in Solid(d) /\ Takes(d, Front(p), d[p].to, r, links)
  <2>1. Resolved(d, p, Front(p), d[p].to, MaxDepth)
    BY <1>2, DepthType, FramesResolve, Zenon
  <2> QED BY <1>1, <1>2, <1>4, <2>1, Zenon DEF Resolved
<1>6. ASSUME NEW more \in Nat
      PROVE  OnDiskWithin(d, p, links + more + 1) \in {r, NotADirectory}
  <2>1. PICK left \in Nat : left = links + more /\ links + more + 1 \in Nat /\ links + more + 1 # 0
                            /\ (links + more + 1) - 1 = left
    OBVIOUS
  <2>2. OnDiskWithin(d, p, links + more + 1) = Kernel(d)[<<Front(p), d[p].to, left>>]
    <3>1. OnDiskWithin(d, p, links + more + 1) =
            IF links + more + 1 = 0 THEN Loop
            ELSE Kernel(d)[<<Front(p), d[p].to, (links + more + 1) - 1>>]
      BY <2>1, LookupOfLink, Zenon
    <3> QED BY ONLY <2>1, <3>1
  <2>3. \A S : <<>> \in Seq(S)
    OBVIOUS
  <2>4. PICK none \in Seq(STRING) : none = <<>>
    BY <2>3, Zenon
  <2>5. d[p].to \o none = d[p].to
    BY <1>2, <2>4, Paths, Zenon
  <2>6. Kernel(d)[<<Front(p), d[p].to \o none, links + more>>] \in {Kernel(d)[<<r, none, more>>], NotADirectory}
    BY <1>5, Zenon DEF Takes
  <2>7. Kernel(d)[<<r, none, more>>] = r
    <3>1. r \in Seq(STRING)
      BY <1>5, Nodes
    <3> QED BY <2>4, <3>1, KernelStops, Zenon
  <2> QED BY ONLY <2>1, <2>2, <2>5, <2>6, <2>7
<1>7. OnDiskWithin(d, p, MaxFollowed) # Loop
  <2>1. Loop \in Failures /\ Loop # NotADirectory
    BY DEF Failures, Loop, NotADirectory
  <2>2. OnDiskWithin(d, p, links + 0 + 1) # Loop
    BY <1>4, <1>6, <2>1
  <2>3. links + 0 + 1 \in Nat
    OBVIOUS
  <2> QED BY <2>2, <2>3, Zenon DEF OnDisk
<1>8. OnDiskWithin(d, p, MaxFollowed + (links + 1)) = OnDiskWithin(d, p, MaxFollowed)
  <2>1. \A S : <<>> \in Seq(S)
    OBVIOUS
  <2>2. PICK none \in Seq(STRING) : none = <<>>
    BY <2>1, Zenon
  <2>3. Ended(d, none, p, MaxFollowed)
    BY <1>2, <2>2, DepthType, LookupsEnd, Zenon
  <2>4. links + 1 \in Nat
    OBVIOUS
  <2> QED BY <1>7, <2>2, <2>3, <2>4, Zenon DEF Ended, OnDiskWithin
<1>9. OnDiskWithin(d, p, links + MaxFollowed + 1) \in {r, NotADirectory}
  BY <1>6, DepthType
<1>10. links + MaxFollowed + 1 = MaxFollowed + (links + 1)
  BY DepthType
<1> QED BY ONLY <1>3, <1>8, <1>9, <1>10 DEF OnDisk

-----------------------------------------------------------------------------
(* What walks find: directories and files by their paths, and what is behind *)
(* links.                                                                    *)

(* What a walk computes, name after name.                                    *)
LEMMA WalkIs ==
  ASSUME NEW t, NEW p \in Seq(STRING), NEW g,
         g = [i \in 0 .. Len(p) |-> g[i]], g[0] = <<>>,
         \A i \in 1 .. Len(p) : g[i] = Descend(t, g[i - 1], p[i])
  PROVE  WalkPath(t, p) = g[Len(p)]
<1>1. Len(p) \in Nat
  OBVIOUS
<1> DEFINE Eq(h) == h = [i \in 0 .. Len(p) |->
                           IF i = 0 THEN <<>> ELSE Descend(t, h[i - 1], p[i])]
<1>2. Eq(g)
  <2>1. ASSUME NEW i \in 0 .. Len(p)
        PROVE  g[i] = IF i = 0 THEN <<>> ELSE Descend(t, g[i - 1], p[i])
    BY <1>1
  <2> QED BY <2>1
<1>3. PICK h : Eq(h) /\ WalkPath(t, p) = h[Len(p)]
  <2>1. \E h : Eq(h)
    BY <1>2
  <2> QED BY <2>1, Zenon DEF WalkPath
<1> DEFINE S == {k \in Nat : k <= Len(p) => h[k] = g[k]}
<1>4. 0 \in S
  <2>1. h[0] = <<>>
    BY <1>1, <1>3
  <2> QED BY <2>1
<1>5. ASSUME NEW k \in Nat, k \in S PROVE k + 1 \in S
  <2> SUFFICES ASSUME k + 1 <= Len(p) PROVE h[k + 1] = g[k + 1]
    OBVIOUS
  <2>1. k + 1 \in 0 .. Len(p) /\ k + 1 \in 1 .. Len(p) /\ (k + 1) - 1 = k /\ k + 1 # 0 /\ k <= Len(p)
    BY <1>1
  <2>2. h[k] = g[k]
    BY <1>5, <2>1
  <2>3. h[k + 1] = Descend(t, h[k], p[k + 1])
    BY <1>3, <2>1
  <2>4. g[k + 1] = Descend(t, g[(k + 1) - 1], p[k + 1])
    BY <2>1
  <2> QED BY <2>1, <2>2, <2>3, <2>4
<1>6. Len(p) \in S
  <2> HIDE DEF S
  <2> QED BY <1>1, <1>4, <1>5, SetInduction
<1>7. h[Len(p)] = g[Len(p)]
  BY <1>1, <1>6
<1> QED BY <1>3, <1>7

(* From a directory, the walk goes on to what is in it.                      *)
LEMMA DescendsDirectory ==
  ASSUME NEW d, IsDisk(d), NEW q \in DOMAIN d, d[q].kind = "dir", NEW name,
         Append(q, name) \in DOMAIN ConstructTree(d)
  PROVE  Descend(ConstructTree(d), q, name) = Append(q, name)
<1>1. PICK t : t = ConstructTree(d)
  OBVIOUS
<1>2. t[q].type = "directory"
  BY <1>1, NodeIs
<1>3. q \notin Failures
  BY Zenon DEF IsDisk
<1>4. Child(t, q, name) = Append(q, name)
  BY <1>1, <1>2 DEF Child
<1>5. Descend(t, q, name) = Child(t, q, name)
  BY <1>2, <1>3 DEF Descend
<1> QED BY <1>1, <1>4, <1>5

(* The walk of a node's path passes through its directories.                 *)
LEMMA PrefixStep ==
  ASSUME NEW d, IsDisk(d), NEW p \in DOMAIN ConstructTree(d), NEW i \in 1 .. Len(p)
  PROVE  Descend(ConstructTree(d), SubSeq(p, 1, i - 1), p[i]) = SubSeq(p, 1, i)
<1>1. p \in DOMAIN d /\ p \in Seq(STRING) /\ Len(p) \in Nat /\ d[p].kind # "pipe"
  <2>1. p \in DOMAIN d /\ d[p].kind # "pipe"
    BY NodesOf
  <2>2. p \in Seq(STRING)
    BY <2>1, Nodes
  <2> QED BY <2>1, <2>2
<1>2. PICK q : q = SubSeq(p, 1, i - 1)
  OBVIOUS
<1>3. q \in DOMAIN d /\ d[q].kind = "dir"
  <2>1. i - 1 \in 0 .. Len(p) /\ i - 1 # Len(p)
    BY <1>1
  <2> QED BY <1>1, <1>2, <2>1, PrefixesAreDirs
<1>4. SubSeq(p, 1, i) \in DOMAIN d
  BY <1>1, PrefixesAreDirs
<1>5. d[SubSeq(p, 1, i)].kind # "pipe"
  <2>1. CASE i = Len(p)
    <3>1. SubSeq(p, 1, Len(p)) = p
      BY <1>1
    <3> QED BY <1>1, <2>1, <3>1
  <2>2. CASE i # Len(p)
    BY <1>1, <2>2, PrefixesAreDirs
  <2> QED BY <2>1, <2>2
<1>6. Append(q, p[i]) = SubSeq(p, 1, i)
  BY <1>1, <1>2, NextPrefix, Zenon
<1>7. Append(q, p[i]) \in DOMAIN ConstructTree(d)
  BY <1>4, <1>5, <1>6, NodeIs
<1>8. Descend(ConstructTree(d), q, p[i]) = Append(q, p[i])
  BY <1>3, <1>7, DescendsDirectory, Zenon
<1> QED BY ONLY <1>2, <1>6, <1>8

(* The path of a node of the manifest leads to the node, and goes on from    *)
(* there.                                                                    *)
LEMMA WalkFinds ==
  ASSUME NEW d, IsDisk(d), NEW p \in DOMAIN ConstructTree(d)
  PROVE  /\ WalkPath(ConstructTree(d), p) = p
         /\ \A name \in STRING : WalkPath(ConstructTree(d), Append(p, name))
                                   = Descend(ConstructTree(d), p, name)
<1>1. PICK t : t = ConstructTree(d)
  OBVIOUS
<1>2. PICK n \in Nat : p \in Seq(STRING) /\ n = Len(p)
  <2>1. p \in Seq(STRING)
    BY NodesOf, Nodes
  <2>2. Len(p) \in Nat
    BY <2>1
  <2> QED BY <2>1, <2>2
<1>3. ASSUME NEW i \in 1 .. n PROVE Descend(t, SubSeq(p, 1, i - 1), p[i]) = SubSeq(p, 1, i)
  BY <1>1, <1>2, PrefixStep
<1>4. SubSeq(p, 1, n) = p /\ SubSeq(p, 1, 0) = <<>>
  BY <1>2
<1>5. WalkPath(t, p) = p
  <2> DEFINE g == [i \in 0 .. n |-> SubSeq(p, 1, i)]
  <2>1. g = [i \in 0 .. n |-> g[i]] /\ g[0] = <<>> /\ g[n] = p
    <3>1. 0 \in 0 .. n /\ n \in 0 .. n
      OBVIOUS
    <3>2. g[0] = SubSeq(p, 1, 0) /\ g[n] = SubSeq(p, 1, n)
      BY <3>1
    <3>3. g = [i \in 0 .. n |-> g[i]]
      BY Zenon
    <3> HIDE DEF g
    <3> QED BY <1>4, <3>2, <3>3, Zenon
  <2>2. ASSUME NEW i \in 1 .. n PROVE g[i] = Descend(t, g[i - 1], p[i])
    <3>1. i - 1 \in 0 .. n /\ i \in 0 .. n
      OBVIOUS
    <3>2. g[i - 1] = SubSeq(p, 1, i - 1) /\ g[i] = SubSeq(p, 1, i)
      BY <3>1
    <3> QED BY <1>3, <3>2
  <2> HIDE DEF g
  <2>3. WalkPath(t, p) = g[Len(p)]
    BY <1>2, <2>1, <2>2, WalkIs
  <2> QED BY <1>2, <2>1, <2>3
<1>6. ASSUME NEW name \in STRING PROVE WalkPath(t, Append(p, name)) = Descend(t, p, name)
  <2>1. PICK w : w = Append(p, name)
    OBVIOUS
  <2>2. w \in Seq(STRING) /\ Len(w) = n + 1 /\ w[n + 1] = name /\ \A i \in 1 .. n : w[i] = p[i]
    <3>1. p \in Seq(STRING)
      BY <1>2
    <3>2. n = Len(p)
      BY <1>2
    <3>3. name \in STRING
      OBVIOUS
    <3>4. PICK S : S = STRING
      OBVIOUS
    <3>5. p \in Seq(S) /\ name \in S
      BY ONLY <3>1, <3>3, <3>4
    <3>6. /\ Append(p, name) \in Seq(S) /\ Len(Append(p, name)) = Len(p) + 1
          /\ Append(p, name)[Len(p) + 1] = name
          /\ \A i \in 1 .. Len(p) : Append(p, name)[i] = p[i]
      <4>1. Append(p, name) \in Seq(S)
        BY ONLY <3>5, Appended, Zenon
      <4>2. Len(Append(p, name)) = Len(p) + 1
        BY ONLY <3>5, Appended, Zenon
      <4>3. Append(p, name)[Len(p) + 1] = name
        BY ONLY <3>5, Appended, Zenon
      <4>4. ASSUME NEW i \in 1 .. Len(p) PROVE Append(p, name)[i] = p[i]
        BY ONLY <3>5, i \in 1 .. Len(p)
      <4> QED BY ONLY <4>1, <4>2, <4>3, <4>4
    <3>7. w \in Seq(S) /\ Len(w) = Len(p) + 1
      BY ONLY <2>1, <3>6, Zenon
    <3>8. w[Len(p) + 1] = name
      BY ONLY <2>1, <3>6, Zenon
    <3>9. \A i \in 1 .. Len(p) : w[i] = p[i]
      BY ONLY <2>1, <3>6, Zenon
    <3>10. w \in Seq(STRING) /\ Len(w) = n + 1
      BY ONLY <3>2, <3>4, <3>7, Zenon
    <3>11. w[n + 1] = name
      BY ONLY <3>2, <3>8, Zenon
    <3>12. \A i \in 1 .. n : w[i] = p[i]
      BY ONLY <3>2, <3>9, Zenon
    <3> QED BY ONLY <3>10, <3>11, <3>12
  <2> DEFINE g == [i \in 0 .. n + 1 |-> IF i <= n THEN SubSeq(p, 1, i) ELSE Descend(t, p, name)]
  <2>3. /\ g = [i \in 0 .. n + 1 |-> g[i]] /\ g[0] = <<>> /\ g[n] = p
        /\ g[n + 1] = Descend(t, p, name)
    <3>1. 0 \in 0 .. n + 1 /\ n \in 0 .. n + 1 /\ n + 1 \in 0 .. n + 1 /\ ~ (n + 1 <= n) /\ 0 <= n /\ n <= n
      OBVIOUS
    <3>2. g[0] = SubSeq(p, 1, 0) /\ g[n] = SubSeq(p, 1, n)
      BY <3>1
    <3>3. g[n + 1] = Descend(t, p, name)
      BY <3>1
    <3>4. g = [i \in 0 .. n + 1 |-> g[i]]
      BY Zenon
    <3> HIDE DEF g
    <3> QED BY <1>4, <3>2, <3>3, <3>4, Zenon
  <2>4. ASSUME NEW i \in 1 .. n + 1 PROVE g[i] = Descend(t, g[i - 1], w[i])
    <3>1. CASE i = n + 1
      <4>1. i - 1 = n
        BY <3>1
      <4>2. g[i - 1] = p /\ g[i] = Descend(t, p, name) /\ w[i] = name
        <5> HIDE DEF g
        <5> QED BY <2>2, <2>3, <3>1, <4>1
      <4> HIDE DEF g
      <4> QED BY <4>2
    <3>2. CASE i # n + 1
      <4>1. i \in 1 .. n /\ i - 1 \in 0 .. n + 1 /\ i \in 0 .. n + 1 /\ i <= n /\ i - 1 <= n
        BY <3>2
      <4>2. g[i - 1] = SubSeq(p, 1, i - 1) /\ g[i] = SubSeq(p, 1, i)
        BY <4>1
      <4> HIDE DEF g
      <4> QED BY <1>3, <2>2, <4>1, <4>2
    <3> QED BY <3>1, <3>2
  <2> HIDE DEF g
  <2>5. WalkPath(t, w) = g[Len(w)]
    <3>1. g = [i \in 0 .. Len(w) |-> g[i]] /\ \A i \in 1 .. Len(w) : g[i] = Descend(t, g[i - 1], w[i])
      <4>1. \A i \in 1 .. n + 1 : g[i] = Descend(t, g[i - 1], w[i])
        BY <2>4, Zenon
      <4>2. Len(w) = n + 1
        BY <2>2, Zenon
      <4> QED BY ONLY <2>3, <4>1, <4>2
    <3>2. g[0] = <<>> /\ w \in Seq(STRING)
      BY <2>2, <2>3, Zenon
    <3> QED BY <3>1, <3>2, WalkIs, Zenon
  <2> QED BY <2>1, <2>2, <2>3, <2>5
<1> QED BY <1>1, <1>5, <1>6

(* A file opens with its content.                                            *)
LEMMA FilesOpen ==
  ASSUME NEW d, IsDisk(d), NEW p \in FilesOf(d)
  PROVE  ReadFile(ConstructTree(d), p) = d[p].sha256
<1> DEFINE T == ConstructTree(d)
<1>1. p \in DOMAIN d /\ d[p].kind = "file" /\ p \notin Failures
  <2>1. p \in DOMAIN d /\ d[p].kind = "file"
    BY DEF FilesOf
  <2> QED BY <2>1, Zenon DEF IsDisk
<1>2. T[p].type = "file" /\ T[p].sha256 = d[p].sha256 /\ p \in DOMAIN T
  BY <1>1, TreeIs
<1>3. WalkPath(T, p) = p
  BY <1>2, WalkFinds
<1> HIDE DEF T
<1>4. ResolveLinks(T, p) = p
  <2>1. T[p].type # "symlink"
    BY <1>2
  <2> QED BY <2>1 DEF ResolveLinks
<1>5. Reached(T, p) = p
  BY <1>1, <1>3, <1>4 DEF Reached
<1>6. ReadFile(T, p) = T[p].sha256
  BY <1>1, <1>2, <1>5 DEF ReadFile
<1> QED BY <1>2, <1>6 DEF T

(* Behind a link shown as a directory, what is listed opens; another is read. *)
Opens(d, t, p, dst) ==
  IF ShownAsDirectory(t, p)
  THEN \A q \in DOMAIN t :
         q # <<>> /\ Front(q) = dst =>
           /\ q \in ReadDirectory(t, p)
           /\ Stat(t, Append(p, Last(q))) = q
  ELSE dst \in FilesOf(d) /\ ReadFile(t, p) = d[dst].sha256

(* A link that leads into the package opens as what it is shown as.          *)
LEMMA LinkOpens ==
  ASSUME NEW d, IsDisk(d), Tidy(d), NEW p \in LinksOf(d),
         OnDisk(d, p) \in DOMAIN ConstructTree(d)
  PROVE  Opens(d, ConstructTree(d), p, OnDisk(d, p))
<1>0. PICK t, dst : t = ConstructTree(d) /\ dst = OnDisk(d, p) /\ dst \in DOMAIN t
  OBVIOUS
<1>1. dst \in Solid(d) /\ ResolveLinks(t, p) = dst
  BY <1>0, DiskToTree
<1>2. /\ p \in DOMAIN d /\ d[p].kind = "link" /\ p \in DOMAIN t /\ p \notin Failures
      /\ dst \in DOMAIN d /\ dst \notin Failures /\ d[dst].kind \in {"dir", "file"}
  BY <1>0, <1>1, NodesOf, Nodes DEF Solid, LinksOf
<1>3. /\ t[p].type = "symlink" /\ t[p].is_directory = IsDir(d, p)
      /\ t[dst].type = "file" <=> d[dst].kind = "file"
  BY <1>0, <1>2, NodeIs
<1>4. IsDir(d, p) = (d[dst].kind = "dir")
  <2>1. Outside \in Failures
    BY DEF Failures
  <2> QED BY <1>0, <1>2, <2>1 DEF IsDir, IsDirAt
<1>5. ShownAsDirectory(t, p) <=> d[dst].kind = "dir"
  <2>1. t[p].type # "directory"
    BY <1>3
  <2> QED BY <1>3, <1>4, <2>1 DEF ShownAsDirectory
<1>6. Reached(t, p) = dst
  <2>1. WalkPath(t, p) = p
    BY <1>0, <1>2, WalkFinds
  <2> QED BY <1>1, <1>2, <2>1 DEF Reached
<1>7. ASSUME d[dst].kind = "dir", NEW q \in DOMAIN t, q # <<>>, Front(q) = dst
      PROVE  q \in ReadDirectory(t, p) /\ Stat(t, Append(p, Last(q))) = q
  <2>1. t[dst].type # "file"
    BY <1>3, <1>7
  <2>2. q \in ReadDirectory(t, p)
    BY <1>2, <1>6, <1>7, <2>1 DEF ReadDirectory
  <2>3. Last(q) \in STRING /\ Append(dst, Last(q)) = q
    <3>1. q \in Seq(STRING)
      BY <1>0, NodesOf, Nodes
    <3> QED BY <1>7, <3>1, AppendLast, Zenon
  <2>4. Descend(t, p, Last(q)) = Child(t, dst, Last(q))
    BY <1>1, <1>2, <1>3, <1>4, <1>7 DEF Descend
  <2>5. Child(t, dst, Last(q)) = q
    BY <1>7, <2>1, <2>3 DEF Child
  <2>6. WalkPath(t, Append(p, Last(q))) = Descend(t, p, Last(q))
    BY <1>0, <1>2, <2>3, WalkFinds
  <2> QED BY <2>2, <2>4, <2>5, <2>6 DEF Stat
<1>8. ASSUME d[dst].kind = "file" PROVE dst \in FilesOf(d) /\ ReadFile(t, p) = d[dst].sha256
  <2>1. dst \in FilesOf(d)
    BY <1>2, <1>8 DEF FilesOf
  <2>2. t[dst].type = "file" /\ t[dst].sha256 = d[dst].sha256
    BY <1>0, <1>2, <1>8, TreeIs
  <2>3. ReadFile(t, p) = t[dst].sha256
    BY <1>2, <1>6, <2>2 DEF ReadFile
  <2> QED BY <2>1, <2>2, <2>3
<1>9. Opens(d, t, p, dst)
  BY <1>2, <1>5, <1>7, <1>8 DEF Opens
<1> QED BY <1>0, <1>9, Zenon

LEMMA IndexedAreFiles ==
  ASSUME NEW d, IsDisk(d)
  PROVE  /\ FzfIndex(d) \subseteq FilesOf(d)
         /\ CodesearchIndex(d) \subseteq FilesOf(d)
         /\ CtagsIndex(d) \subseteq FilesOf(d)
<1>1. ASSUME NEW p \in FzfIndex(d) PROVE p \in FilesOf(d)
  <2>1. p \in DOMAIN d /\ d[p].kind # "pipe" /\ ConstructTree(d)[p].type = "file"
    <3>1. DOMAIN ConstructTree(d) = {q \in DOMAIN d : d[q].kind # "pipe"}
      BY DEF ConstructTree
    <3>2. p \in DOMAIN ConstructTree(d) /\ ConstructTree(d)[p].type = "file"
      BY Zenon DEF FzfIndex
    <3> QED BY <3>1, <3>2
  <2>2. d[p].kind \in {"dir", "pipe", "file", "link"}
    BY <2>1 DEF IsDisk
  <2>3. d[p].kind # "dir" /\ d[p].kind # "link"
    BY <2>1, TreeIs
  <2> QED BY <2>1, <2>2, <2>3 DEF FilesOf
<1> QED BY <1>1 DEF CodesearchIndex, CtagsIndex

-----------------------------------------------------------------------------
(* What is stored of a package was made from its contents; a list has one    *)
(* version of a package; and what the session asks for is of its own list.   *)
OneOfEach(list) == \A e, f \in list : e.name = f.name => e = f

FromListInv(map) ==
  \A n \in Names : map[n].at # "none" =>
    packages.at = "fulfilled" /\ map[n].of \in packages.of /\ map[n].of.name = n

SessionInv ==
  /\ disk \in Disks
  /\ \A e \in store : <<e.name, e.version>> \in DOMAIN disk
  /\ OneOfEach(listing[Distro]) /\ OneOfEach(packages.of)
  /\ FromListInv(contents) /\ FromListInv(locals)

LEMMA SessionStart == Init => SessionInv
BY DistroType DEF Init, CatalogInit, SessionInv, OneOfEach, FromListInv, Pending, None, Promise

LEMMA SessionGoesOn == ASSUME IInv, SessionInv, [Next]_vars PROVE SessionInv'
<1> USE DistroType
<1>0. PromisesOf(contents) /\ PromisesOf(locals) /\ listing \in [Distros -> SUBSET store]
  BY DEF IInv, PromisesInv, ListsInv
<1>1. CASE UNCHANGED vars
  BY <1>1 DEF vars, catalogVars, promises, SessionInv, OneOfEach, FromListInv
<1>2. ASSUME NEW e \in Entries, PublisherStores(e) PROVE SessionInv'
  BY <1>2 DEF PublisherStores, StoreEntry, promises, SessionInv, OneOfEach, FromListInv
<1>3. CASE PublisherLists
  <2>1. PICK list : /\ \A e, f \in list : e.name = f.name => e = f
                    /\ listing' = [listing EXCEPT ![Distro] = list]
    BY <1>3 DEF PublisherLists, PublishList
  <2>2. listing'[Distro] = list
    BY <1>0, <2>1
  <2> QED BY <1>3, <2>1, <2>2
      DEF PublisherLists, PublishList, promises, SessionInv, OneOfEach, FromListInv
<1>4. CASE PublisherConsolidates
  BY <1>4 DEF PublisherConsolidates, catalogVars, promises, SessionInv, OneOfEach, FromListInv
<1>5. CASE PackagesSettle
  <2>1. \A n \in Names : contents[n].at = "none" /\ locals[n].at = "none"
    BY <1>5 DEF PackagesSettle, SessionInv, FromListInv, Pending, Promise
  <2>2. packages'.of = listing[Distro] \/ packages'.of = {}
    BY <1>5 DEF PackagesSettle, Promise, Rejected
  <2> QED BY <1>5, <2>1, <2>2
      DEF PackagesSettle, Publisher, catalogVars, SessionInv, OneOfEach, FromListInv
<1>6. CASE GlobalsSettle
  BY <1>6 DEF GlobalsSettle, Publisher, catalogVars, SessionInv, OneOfEach, FromListInv
<1>7. CASE Reload
  BY <1>7 DEF Reload, Activated, Publisher, catalogVars, Pending, None, Promise,
              SessionInv, OneOfEach, FromListInv
(* A promise is made for an entry of the list, and settles about it.         *)
<1>8. ASSUME NEW map, PromisesOf(map), FromListInv(map), NEW map2, NEW n \in Names, NEW at, NEW of,
             map2 = [map EXCEPT ![n] = Promise(at, of)],
             packages.at = "fulfilled", of \in packages.of, of.name = n
      PROVE  FromListInv(map2)
  <2>1. \A m \in Names : map2[m] = IF m = n THEN Promise(at, of) ELSE map[m]
    BY <1>8 DEF PromisesOf
  <2>2. Promise(at, of).of = of
    BY DEF Promise
  <2> QED BY <1>8, <2>1, <2>2 DEF FromListInv
<1>9. ASSUME NEW n \in Names, ListPackageContents(n) PROVE SessionInv'
  <2>1. PICK e \in packages.of : e.name = n /\ contents' = [contents EXCEPT ![n] = Promise("pending", e)]
    BY <1>9 DEF ListPackageContents, GetPackage
  <2>2. FromListInv(contents')
    <3>1. packages.at = "fulfilled" /\ FromListInv(contents)
      BY <1>9 DEF ListPackageContents, SessionInv
    <3> QED BY <1>0, <1>8, <2>1, <3>1
  <2> QED BY <1>9, <2>2 DEF ListPackageContents, Publisher, catalogVars, SessionInv, OneOfEach, FromListInv
<1>10. ASSUME NEW n \in Names, ListPackageSymbols(n) PROVE SessionInv'
  <2>1. PICK e \in packages.of : e.name = n /\ locals' = [locals EXCEPT ![n] = Promise("pending", e)]
    BY <1>10 DEF ListPackageSymbols, GetPackage
  <2>2. FromListInv(locals')
    <3>1. packages.at = "fulfilled" /\ FromListInv(locals)
      BY <1>10 DEF ListPackageSymbols, SessionInv
    <3> QED BY <1>0, <1>8, <2>1, <3>1
  <2> QED BY <1>10, <2>2 DEF ListPackageSymbols, Publisher, catalogVars, SessionInv, OneOfEach, FromListInv
<1>11. ASSUME NEW n \in Names, ManifestSettles(n) PROVE SessionInv'
  <2>1. PICK at : contents' = [contents EXCEPT ![n].at = at]
    BY <1>11 DEF ManifestSettles
  <2>2. contents' = [contents EXCEPT ![n] = Promise(at, contents[n].of)]
    BY ONLY <1>0, <2>1, n \in Names, SettlePromise
  <2>3. /\ packages.at = "fulfilled" /\ contents[n].of \in packages.of /\ contents[n].of.name = n
        /\ FromListInv(contents)
    BY <1>11 DEF ManifestSettles, SessionInv, FromListInv
  <2>4. FromListInv(contents')
    BY <1>0, <1>8, <2>2, <2>3
  <2> QED BY <1>11, <2>4 DEF ManifestSettles, Publisher, catalogVars, SessionInv, OneOfEach, FromListInv
<1>12. ASSUME NEW n \in Names, TagsSettle(n) PROVE SessionInv'
  <2>1. PICK at : locals' = [locals EXCEPT ![n].at = at]
    BY <1>12 DEF TagsSettle
  <2>2. locals' = [locals EXCEPT ![n] = Promise(at, locals[n].of)]
    BY ONLY <1>0, <2>1, n \in Names, SettlePromise
  <2>3. /\ packages.at = "fulfilled" /\ locals[n].of \in packages.of /\ locals[n].of.name = n
        /\ FromListInv(locals)
    BY <1>12 DEF TagsSettle, SessionInv, FromListInv
  <2>4. FromListInv(locals')
    BY <1>0, <1>8, <2>2, <2>3
  <2> QED BY <1>12, <2>4 DEF TagsSettle, Publisher, catalogVars, SessionInv, OneOfEach, FromListInv
<1> QED BY <1>1, <1>2, <1>3, <1>4, <1>5, <1>6, <1>7, <1>9, <1>10, <1>11, <1>12 DEF Next

(* What fzf, codesearch or ctags indexed of a package opens in a session,    *)
(* with the content that was indexed: the walks of the publisher             *)
(* (analysis/) and that of the extension (inode.ts) agree on files, and the  *)
(* tags and the tree that a session holds of a package are of one version.   *)
THEOREM IndexedFilesOpen == Spec => []FoundFilesOpen
<1>1. IInv /\ SessionInv => FoundFilesOpen
  <2> SUFFICES ASSUME IInv, SessionInv, NEW n \in Opened
               PROVE  LET e == contents[n].of
                          opens(d, p) == p \in FilesOf(d) /\ ReadFile(TreeOf(e), p) = d[p].sha256
                      IN  /\ \A p \in FzfIndex(DiskOf(e)) : opens(DiskOf(e), p)
                          /\ \A p \in CodesearchIndex(DiskOf(e)) : opens(DiskOf(e), p)
                          /\ locals[n].at = "fulfilled" =>
                               \A p \in CtagsIndex(DiskOf(locals[n].of)) :
                                 opens(DiskOf(locals[n].of), p)
                          /\ \A g \in globals.of :
                               g = e => \A p \in CtagsIndex(DiskOf(g)) : opens(DiskOf(g), p)
    BY DEF FoundFilesOpen
  <2>1. PICK e : e = contents[n].of
    OBVIOUS
  <2>2. /\ n \in Names /\ e \in store /\ e \in packages.of /\ e.name = n
    BY <2>1 DEF Opened, IInv, RequestsExist, SessionInv, FromListInv
  <2>3. IsDisk(DiskOf(e))
    BY <2>2, DisksType DEF SessionInv, DiskOf
  <2>4. \A p \in FilesOf(DiskOf(e)) : ReadFile(TreeOf(e), p) = DiskOf(e)[p].sha256
    BY <2>3, FilesOpen DEF TreeOf
  <2>5. locals[n].at = "fulfilled" => locals[n].of = e
    BY <2>2 DEF SessionInv, FromListInv, OneOfEach
  <2> QED BY <2>1, <2>3, <2>4, <2>5, IndexedAreFiles
<1>2. IInv /\ SessionInv /\ [Next]_vars => IInv' /\ SessionInv'
  BY InvStep, SessionGoesOn
<1> QED BY <1>1, <1>2, InitInv, SessionStart, PTL DEF Spec

(* No link leads through more links than the kernel follows, but in a loop:  *)
(* about the packages, of which those of distributions are.                  *)
FewLinks ==
  \A D \in Disks : \A x \in DOMAIN D : \A p \in LinksOf(D[x]) : \A k \in Nat :
    OnDiskWithin(D[x], p, k) # Loop => OnDisk(D[x], p) # Loop

(* The tree that is open is of a disk that a package may have.               *)
LEMMA OpenedIsDisk ==
  ASSUME IInv, SessionInv, NEW n \in Opened
  PROVE  /\ IsDisk(DiskOf(contents[n].of))
         /\ \E D \in Disks : \E x \in DOMAIN D : DiskOf(contents[n].of) = D[x]
<1>1. PICK e : e = contents[n].of
  OBVIOUS
<1>2. n \in Names /\ e \in store
  BY <1>1 DEF Opened, IInv, RequestsExist
<1>3. disk \in Disks /\ <<e.name, e.version>> \in DOMAIN disk
  BY <1>2 DEF SessionInv
<1> QED BY <1>1, <1>3, DisksType DEF DiskOf

(* resolveLinks of the extension (inode.ts) takes a link where the kernel    *)
(* takes it on the disk that the publisher unpacked: every link that leads   *)
(* to a node there leads to it in the browser, in as many steps, through any *)
(* other links; and every link that leads to a node in the browser leads to  *)
(* it on disk, or fails there because of a file on its way.                  *)
THEOREM LinksLeadAsOnDisk == ASSUME FewLinks PROVE Spec => []LinksAgree
<1>1. IInv /\ SessionInv => LinksAgree
  <2> SUFFICES ASSUME IInv, SessionInv, NEW n \in Opened,
                      NEW d, d = DiskOf(contents[n].of), NEW t, t = TreeOf(contents[n].of),
                      Tidy(d), NEW p \in LinksOf(d)
               PROVE  /\ OnDisk(d, p) \in DOMAIN t => ResolveLinks(t, p) = OnDisk(d, p)
                      /\ ResolveLinks(t, p) \in DOMAIN t =>
                           OnDisk(d, p) \in {ResolveLinks(t, p), NotADirectory}
    BY Zenon DEF LinksAgree
  <2>1. IsDisk(d) /\ t = ConstructTree(d)
    BY OpenedIsDisk DEF TreeOf
  <2>2. \A k \in Nat : OnDiskWithin(d, p, k) # Loop => OnDisk(d, p) # Loop
    BY OpenedIsDisk, Zenon DEF FewLinks
  <2>3. OnDisk(d, p) \in DOMAIN t => ResolveLinks(t, p) = OnDisk(d, p)
    BY <2>1, DiskToTree, Zenon
  <2>4. ResolveLinks(t, p) \in DOMAIN t => OnDisk(d, p) \in {ResolveLinks(t, p), NotADirectory}
    BY <2>1, <2>2, TreeToDisk, Zenon
  <2> QED BY <2>3, <2>4, Zenon
<1>2. IInv /\ SessionInv /\ [Next]_vars => IInv' /\ SessionInv'
  BY InvStep, SessionGoesOn
<1> QED BY <1>1, <1>2, InitInv, SessionStart, PTL DEF Spec

(* What os.Stat made the publisher write of a link, is_directory, is what    *)
(* the link leads to when the extension resolves it: behind a directory,     *)
(* every name that is listed opens as the node it names; behind a file, its  *)
(* content is read.                                                          *)
THEOREM LinksShownOpen == Spec => []LinksOpenAsShown
<1>1. IInv /\ SessionInv => LinksOpenAsShown
  <2> SUFFICES ASSUME IInv, SessionInv, NEW n \in Opened,
                      NEW d, d = DiskOf(contents[n].of), NEW t, t = TreeOf(contents[n].of),
                      Tidy(d), NEW p \in LinksOf(d), OnDisk(d, p) \in DOMAIN t
               PROVE  Opens(d, t, p, OnDisk(d, p))
    BY Zenon DEF LinksOpenAsShown, Opens
  <2>1. IsDisk(d) /\ t = ConstructTree(d)
    BY OpenedIsDisk DEF TreeOf
  <2> QED BY <2>1, LinkOpens, Zenon
<1>2. IInv /\ SessionInv /\ [Next]_vars => IInv' /\ SessionInv'
  BY InvStep, SessionGoesOn
<1> QED BY <1>1, <1>2, InitInv, SessionStart, PTL DEF Spec
=============================================================================
