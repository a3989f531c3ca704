---------------------------- MODULE Publish_proofs ----------------------------
(* Type correctness of Publish, the invariant that everything published can  *)
(* be fetched, the proof that Publish implements Catalog, the epochs of      *)
(* rows, and what the files of a finished distribution list.                 *)
EXTENDS Publish, TLAPS

USE EpochsType, NoneType, BoundsType

(* Row r of package_versions, or a copy of it read by a query, belongs to    *)
(* the distribution being processed and its artifacts are stored.  The copy  *)
(* may have an older epoch than the row.                                     *)
Known(r) ==
  /\ r.distro = distro
  /\ Entry(distro, r) \in ls
  /\ \E s \in pv : s.id = r.id /\ s.distro = r.distro /\ s.name = r.name

RowsInv ==
  /\ \A r \in pv : Entry(r.distro, r) \in ls
  /\ \A r, s \in pv : r.id = s.id => r = s

CopiesInv ==
  /\ \A r \in existing \cup pkgvers \cup results : Known(r)
  /\ pending \subseteq pkgvers

(* A package is waiting, being processed, or has at most one result.         *)
PoolInv ==
  /\ \A n \in Names : active[n] # "no" =>
       /\ phase = "feed" /\ n \notin unfed /\ packages[n] \in Versions
       /\ active[n] = "recording" =>
            [distro |-> distro, name |-> n, version |-> packages[n],
             epoch |-> epoch] \in ls
  /\ unfed \subseteq Available
  /\ \A r \in pkgvers \cup results :
       phase = "feed" => r.name \notin unfed /\ active[r.name] = "no"
  /\ \A r, s \in pkgvers \cup results : r.name = s.name => r = s
  /\ pending # {} => phase = "replace"
  /\ results # {} => phase \in {"feed", "collect"}
  /\ phase \in {"fetch", "existing"} => pkgvers = {} /\ results = {} /\ unfed = {}

MetaInv ==
  \A d \in Distros :
    /\ \A e \in meta[d].packages : e.distro = d
    /\ \A e, f \in meta[d].packages : e.name = f.name => e = f

IInv == /\ TypeOK
        /\ RowsInv
        /\ CopiesInv
        /\ PoolInv
        /\ ContentsSound
        /\ PublishedFetchable
        /\ MetaInv

-------------------------------------------------------------------------------
(* Type correctness.                                                         *)

USE DEF store, env, proc, fetched, pool, contents, At, Reads, Existing

LEMMA EntryType ==
  ASSUME NEW r \in Rows, NEW d \in Distros
  PROVE  Entry(d, r) \in Entries
BY DEF Rows, Entries, Entry

LEMMA TypeInit == Init => TypeOK
<1> SUFFICES ASSUME Init PROVE TypeOK
  OBVIOUS
<1>1. meta \in [Distros -> [packages : SUBSET Entries, fzf : SUBSET Entries,
                           symbols : SUBSET Entries]]
  BY DEF Init, EmptyMeta
<1>2. /\ packages \in [Names -> Versions \cup {NoVersion}]
      /\ active \in [Names -> {"no", "uploading", "recording", "sending"}]
  BY DEF Init
<1>3. mirror \in [Distros -> [Names -> Versions \cup {NoVersion}]]
  BY DEF Init
<1>4. /\ pv \subseteq Rows /\ dc \subseteq Contents /\ ls \subseteq Entries
      /\ existing \subseteq Rows /\ unfed \subseteq Names /\ results \subseteq Rows
      /\ pkgvers \subseteq Rows /\ pending \subseteq Rows /\ doomed \subseteq Nat
      /\ todo \subseteq Distros /\ distro \in Distros \cup {NoDistro}
  BY DEF Init
<1>5. /\ process \in {"exited", "running", "killed", "panicked"}
      /\ runs \in Nat /\ epoch \in Epochs /\ changes \in Nat
      /\ phase \in Phases /\ phase = "pick"
      /\ errored \in BOOLEAN /\ short \in BOOLEAN
  BY DEF Init, Phases
<1> QED BY <1>1, <1>2, <1>3, <1>4, <1>5 DEF TypeOK

(* The steps after which nothing is left of a distribution's progress: the   *)
(* end of processDistro or of the process, and the beginning of another.     *)
Resets ==
  \/ (\E e \in Epochs : StartRun(e)) \/ (\E d \in Distros : PickDistro(d))
  \/ Killed \/ Exit \/ (\E n \in Names : UploadPanics(n))
  \/ FindUnseenPanics \/ DownloadPanics \/ DistroFails \/ DistroReturns

LEMMA ResetStep ==
  ASSUME Resets
  PROVE  /\ Fresh /\ phase' \in {"pick", "fetch"}
         /\ UNCHANGED <<env, pv, dc, ls>>
<1>1. CASE DistroFails
  BY <1>1 DEF DistroFails, DistroEnds, PutMeta
<1>2. CASE \/ (\E e \in Epochs : StartRun(e)) \/ (\E d \in Distros : PickDistro(d))
           \/ Killed \/ Exit \/ (\E n \in Names : UploadPanics(n))
           \/ FindUnseenPanics \/ DownloadPanics \/ DistroReturns
  BY <1>2 DEF StartRun, PickDistro, Killed, Exit, UploadPanics, FindUnseenPanics,
     DownloadPanics, DistroReturns, ProcessEnds, DistroEnds
<1> QED BY <1>1, <1>2 DEF Resets

LEMMA TypeFresh ==
  ASSUME Fresh
  PROVE  /\ packages' \in [Names -> Versions \cup {NoVersion}]
         /\ active' \in [Names -> {"no", "uploading", "recording", "sending"}]
         /\ existing' \subseteq Rows /\ unfed' \subseteq Names /\ results' \subseteq Rows
         /\ pkgvers' \subseteq Rows /\ pending' \subseteq Rows /\ doomed' \subseteq Nat
         /\ short' \in BOOLEAN /\ errored' \in BOOLEAN
BY DEF Fresh

LEMMA TypeEnds ==
  ASSUME TypeOK, NEW how \in {"exited", "killed", "panicked"}, ProcessEnds(how)
  PROVE  TypeOK'
<1>1. Fresh /\ process' = how /\ todo' = {} /\ distro' = NoDistro /\ phase' = "pick"
        /\ UNCHANGED <<env, store, runs, epoch>>
  BY DEF ProcessEnds, DistroEnds
<1> QED BY <1>1, TypeFresh DEF TypeOK, Phases

LEMMA TypeEnvironment ==
  ASSUME TypeOK,
         \/ \E d \in Distros, n \in Names : MirrorChanges(d, n)
         \/ \E e \in Epochs : StartRun(e)
         \/ Killed
  PROVE  TypeOK'
<1>1. CASE \E d \in Distros, n \in Names : MirrorChanges(d, n)
  <2> PICK d \in Distros, n \in Names : MirrorChanges(d, n)
    BY <1>1
  <2> QED BY DEF TypeOK, MirrorChanges
<1>2. CASE \E e \in Epochs : StartRun(e)
  <2> PICK e \in Epochs : StartRun(e)
    BY <1>2
  <2>1. Fresh /\ UNCHANGED <<env, store>> /\ process' = "running" /\ epoch' = e
          /\ runs' = runs + 1 /\ todo' = Distros /\ distro' = NoDistro /\ phase' = "pick"
    BY DEF StartRun, DistroEnds
  <2> QED BY <2>1, TypeFresh DEF TypeOK, Phases
<1>3. CASE Killed
  BY <1>3, TypeEnds DEF Killed
<1> QED BY <1>1, <1>2, <1>3

LEMMA TypePackage ==
  ASSUME TypeOK, PoolInv, NEW n \in Names, PackageStep(n)
  PROVE  TypeOK'
<1> USE DEF TypeOK
<1>1. CASE SkipPackage(n)
  BY <1>1 DEF SkipPackage
<1>2. CASE FeedPackage(n)
  BY <1>2 DEF FeedPackage
<1>3. CASE StoreArtifacts(n)
  BY <1>3 DEF StoreArtifacts, PoolInv, Entries
<1>4. CASE RecordPackageVersion(n) \/ RecordUnread(n)
  <2>a. RecordRow(n)
    BY <1>4 DEF RecordPackageVersion, RecordUnread
  <2>1. distro \in Distros /\ packages[n] \in Versions
    BY <2>a DEF RecordRow, PoolInv
  <2>2. pv' \subseteq Rows
    <3>1. ASSUME NEW r \in pv PROVE [r EXCEPT !.epoch = epoch] \in Rows
      BY DEF Rows
    <3>2. CASE \E r \in pv : SameVersion(r, n)
      <4>1. pv' = {IF SameVersion(r, n) THEN [r EXCEPT !.epoch = epoch] ELSE r : r \in pv}
        BY <2>a, <3>2 DEF RecordRow
      <4> QED BY <3>1, <4>1
    <3>3. CASE ~ \E r \in pv : SameVersion(r, n)
      <4>1. PICK m \in {0} \cup {r.id : r \in pv} :
              pv' = pv \cup {[id |-> m + 1, distro |-> distro, name |-> n,
                              version |-> packages[n], epoch |-> epoch]}
        BY <2>a, <3>3 DEF RecordRow
      <4>2. m \in Nat
        BY DEF Rows
      <4> QED BY <2>1, <4>1, <4>2 DEF Rows
    <3> QED BY <3>2, <3>3
  <2>3. UNCHANGED <<env, dc, ls, meta, proc, distro, phase, fetched, unfed, results,
                    contents>>
    BY <2>a DEF RecordRow
  <2>4. /\ active' \in [Names -> {"no", "uploading", "recording", "sending"}]
        /\ errored' \in BOOLEAN
    BY <1>4 DEF RecordPackageVersion, RecordUnread
  <2> QED BY <2>2, <2>3, <2>4
<1>5. CASE SendResult(n)
  BY <1>5 DEF SendResult
<1>6. CASE PackageFails(n)
  BY <1>6 DEF PackageFails
<1>7. CASE UploadPanics(n)
  BY <1>7, TypeEnds DEF UploadPanics
<1> QED BY <1>1, <1>2, <1>3, <1>4, <1>5, <1>6, <1>7 DEF PackageStep

LEMMA TypePutMeta ==
  ASSUME TypeOK, NEW ph \in {"packages", "fzf", "symbols"},
         NEW m \in {meta[distro], WithPackages, WithFzf, WithSymbols}, PutMeta(ph, m)
  PROVE  /\ distro \in Distros
         /\ meta' \in [Distros -> [packages : SUBSET Entries, fzf : SUBSET Entries,
                                  symbols : SUBSET Entries]]
<1>1. distro \in Distros
  BY DEF TypeOK, PutMeta
<1>2. Listed \subseteq Entries /\ FzfEntries \subseteq Entries
  BY <1>1, EntryType DEF TypeOK, Listed, FzfEntries
<1>3. m \in [packages : SUBSET Entries, fzf : SUBSET Entries, symbols : SUBSET Entries]
  BY <1>1, <1>2 DEF TypeOK, WithPackages, WithFzf, WithSymbols
<1> QED BY <1>1, <1>3 DEF TypeOK, PutMeta

LEMMA TypeGoOn ==
  ASSUME TypeOK, NEW ph \in {"packages", "fzf", "symbols"},
         NEW m \in {meta[distro], WithPackages, WithFzf, WithSymbols}, PutMeta(ph, m),
         NEW next \in Phases, GoOn(next)
  PROVE  TypeOK'
BY TypePutMeta DEF TypeOK, PutMeta, GoOn

LEMMA TypeDistro ==
  ASSUME TypeOK, DistroStep
  PROVE  TypeOK'
<1> USE DEF TypeOK, Phases
<1>1. CASE Exit
  BY <1>1, TypeEnds DEF Exit
<1>2. CASE \E d \in Distros : PickDistro(d)
  BY <1>2, TypeFresh DEF PickDistro
<1>3. CASE FetchPackages
  BY <1>3 DEF FetchPackages
<1>4. CASE ListExistingPackages
  BY <1>4 DEF ListExistingPackages, Available
<1>5. CASE WorkersDone
  BY <1>5 DEF WorkersDone
<1>6. CASE CollectResults
  BY <1>6 DEF CollectResults
<1>7. CASE ReplaceBatch
  <2>a. PICK batch \in SUBSET pending, m \in {0} \cup {c.id : c \in dc} :
          /\ \E ids \in Bijection(batch, m + 1 .. m + Cardinality(batch)) :
               dc' = ReplaceRows(batch, ids)
          /\ pending' = pending \ batch
    BY <1>7 DEF ReplaceBatch
  <2>b. PICK ids \in Bijection(batch, m + 1 .. m + Cardinality(batch)) :
          dc' = ReplaceRows(batch, ids)
    BY <2>a
  <2>1. m \in Nat
    BY DEF Contents
  <2>2. \A r \in batch : ids[r] \in Nat
    BY <2>1, <2>b DEF Bijection, Injection
  <2>3. dc' \subseteq Contents
    BY <1>7, <2>2, <2>b DEF ReplaceRows, Contents, Rows, ReplaceBatch
  <2> QED BY <1>7, <2>3, <2>a DEF ReplaceBatch
<1>8. CASE ReplaceDone
  BY <1>8 DEF ReplaceDone
<1>9. CASE FindUnseen
  BY <1>9 DEF FindUnseen, UnseenIds, ListDistroContents, Rows
<1>10. CASE FindUnseenPanics
  BY <1>10, TypeEnds DEF FindUnseenPanics
<1>11. CASE DeleteUnseen
  BY <1>11 DEF DeleteUnseen
<1>12. CASE ListContents
  BY <1>12 DEF ListContents, ListDistroContents
<1>13. CASE UploadPackageList
  BY <1>13, TypeGoOn DEF UploadPackageList
<1>14. CASE ConsolidateFzfIndex
  BY <1>14, TypeGoOn DEF ConsolidateFzfIndex
<1>15. CASE ConsolidateSymbolsIndex
  BY <1>15, TypeGoOn DEF ConsolidateSymbolsIndex
<1>16. CASE DistroFails
  <2>1. DistroEnds /\ UNCHANGED <<env, pv, dc, ls, proc>>
    BY <1>16 DEF DistroFails, PutMeta
  <2>2. meta' \in [Distros -> [packages : SUBSET Entries, fzf : SUBSET Entries,
                              symbols : SUBSET Entries]]
    BY <1>16, TypePutMeta DEF DistroFails
  <2> QED BY <2>1, <2>2, TypeFresh DEF DistroEnds
<1>17. CASE DownloadPanics
  BY <1>17, TypeEnds DEF DownloadPanics
<1>18. CASE DistroReturns
  BY <1>18, TypeFresh DEF DistroReturns, DistroEnds
<1> QED BY <1>1, <1>2, <1>3, <1>4, <1>5, <1>6, <1>7, <1>8, <1>9, <1>10, <1>11,
           <1>12, <1>13, <1>14, <1>15, <1>16, <1>17, <1>18 DEF DistroStep

-------------------------------------------------------------------------------
(* The inductive invariant.                                                  *)

LEMMA InvInit == Init => IInv
<1> SUFFICES ASSUME Init PROVE IInv
  OBVIOUS
<1>1. TypeOK
  BY TypeInit
<1>2. pv = {} /\ dc = {} /\ existing = {} /\ pkgvers = {} /\ results = {}
        /\ pending = {} /\ unfed = {} /\ \A n \in Names : active[n] = "no"
  BY DEF Init
<1>3. \A d \in Distros : meta[d] = EmptyMeta
  BY DEF Init
<1>4. RowsInv /\ CopiesInv /\ PoolInv /\ ContentsSound
  BY <1>2 DEF RowsInv, CopiesInv, PoolInv, ContentsSound
<1>5. PublishedFetchable /\ MetaInv
  BY <1>3 DEF PublishedFetchable, MetaInv, EmptyMeta
<1> QED BY <1>1, <1>4, <1>5 DEF IInv

(* Steps that leave the database, the CDN and the copies of rows alone.      *)
LEMMA InvQuiet ==
  ASSUME IInv, TypeOK', UNCHANGED <<store, distro, existing, results, errored>>,
         UNCHANGED <<packages, epoch>>,
         pkgvers' = pkgvers, pending' = pending \/ pending' = {},
         PoolInv'
  PROVE  IInv'
<1>1. RowsInv' /\ ContentsSound' /\ PublishedFetchable' /\ MetaInv'
  BY DEF IInv, RowsInv, ContentsSound, PublishedFetchable, MetaInv
<1>2. CopiesInv'
  BY DEF IInv, CopiesInv, Known
<1> QED BY <1>1, <1>2 DEF IInv

(* Steps that keep the database, and nothing of the memory.                  *)
LEMMA InvFresh ==
  ASSUME IInv, TypeOK', Fresh, UNCHANGED <<pv, dc, ls>>, PublishedFetchable', MetaInv'
  PROVE  IInv'
<1>1. existing' = {} /\ pkgvers' = {} /\ results' = {} /\ pending' = {}
        /\ unfed' = {} /\ \A n \in Names : active'[n] = "no"
  BY DEF Fresh
<1>2. RowsInv' /\ ContentsSound'
  BY DEF IInv, RowsInv, ContentsSound
<1>3. CopiesInv' /\ PoolInv'
  BY <1>1 DEF CopiesInv, PoolInv
<1> QED BY <1>2, <1>3 DEF IInv

LEMMA InvReset ==
  ASSUME IInv, TypeOK', Resets, UNCHANGED meta
  PROVE  IInv'
<1>1. Fresh /\ UNCHANGED <<pv, dc, ls>>
  BY ResetStep
<1>2. PublishedFetchable' /\ MetaInv'
  BY <1>1 DEF IInv, PublishedFetchable, MetaInv
<1> QED BY <1>1, <1>2, InvFresh

LEMMA InvEnvironment ==
  ASSUME IInv, TypeOK',
         \/ \E d \in Distros, n \in Names : MirrorChanges(d, n)
         \/ \E e \in Epochs : StartRun(e)
         \/ Killed
  PROVE  IInv'
<1>1. CASE \E d \in Distros, n \in Names : MirrorChanges(d, n)
  <2>1. UNCHANGED <<store, proc, distro, phase, fetched, pool, contents>>
    BY <1>1 DEF MirrorChanges
  <2>2. PoolInv'
    BY <2>1 DEF IInv, PoolInv, Available
  <2> QED BY <2>1, <2>2, InvQuiet
<1>2. CASE (\E e \in Epochs : StartRun(e)) \/ Killed
  <2>1. UNCHANGED meta
    BY <1>2 DEF StartRun, Killed, ProcessEnds
  <2> QED BY <1>2, <2>1, InvReset DEF Resets
<1> QED BY <1>1, <1>2

LEMMA InvSkip ==
  ASSUME IInv, TypeOK', NEW n \in Names, SkipPackage(n)
  PROVE  IInv'
<1>1. PICK r \in existing : r.name = n /\ pkgvers' = pkgvers \cup {r}
  BY DEF SkipPackage
<1>2. UNCHANGED <<store, proc, distro, phase, fetched, active, results, pending>>
        /\ unfed' = unfed \ {n} /\ n \in unfed /\ phase = "feed"
  BY DEF SkipPackage
<1>3. RowsInv' /\ ContentsSound' /\ PublishedFetchable' /\ MetaInv'
  BY <1>2 DEF IInv, RowsInv, ContentsSound, PublishedFetchable, MetaInv
<1>4. CopiesInv'
  BY <1>1, <1>2 DEF IInv, CopiesInv, Known
<1>5. PoolInv'
  <2>1. active[n] = "no"
    BY <1>2 DEF IInv, PoolInv
  <2>2. \A s \in pkgvers \cup results : s.name # n
    BY <1>2 DEF IInv, PoolInv
  <2> QED BY <1>1, <1>2, <2>1, <2>2 DEF IInv, PoolInv, Available
<1> QED BY <1>3, <1>4, <1>5 DEF IInv

LEMMA InvStore ==
  ASSUME IInv, TypeOK', NEW n \in Names, StoreArtifacts(n)
  PROVE  IInv'
<1> DEFINE e == [distro |-> distro, name |-> n, version |-> packages[n],
                 epoch |-> epoch]
<1>1. ls' = ls \cup {e} /\ active' = [active EXCEPT ![n] = "recording"]
        /\ UNCHANGED <<pv, dc, meta, proc, distro, phase, fetched, unfed, results,
                       contents>> /\ active[n] = "uploading"
  BY DEF StoreArtifacts
<1>2. RowsInv' /\ ContentsSound' /\ PublishedFetchable' /\ MetaInv'
  BY <1>1 DEF IInv, RowsInv, ContentsSound, PublishedFetchable, MetaInv
<1>3. CopiesInv'
  BY <1>1 DEF IInv, CopiesInv, Known
<1>4. PoolInv'
  <2>1. \A m \in Names : active'[m] = IF m = n THEN "recording" ELSE active[m]
    BY <1>1 DEF IInv, TypeOK
  <2>2. \A r \in pkgvers \cup results : r.name \in Names
    BY DEF IInv, TypeOK, Rows
  <2>3. n \notin unfed /\ phase = "feed" /\ packages[n] \in Versions
    BY <1>1 DEF IInv, PoolInv
  <2> QED BY <1>1, <2>1, <2>2, <2>3 DEF IInv, PoolInv, Available
<1> QED BY <1>2, <1>3, <1>4 DEF IInv

LEMMA InvRecord ==
  ASSUME IInv, TypeOK', NEW n \in Names, RecordRow(n),
         NEW next \in {"sending", "no"}, active' = [active EXCEPT ![n] = next]
  PROVE  IInv'
<1> DEFINE e == [distro |-> distro, name |-> n, version |-> packages[n],
                 epoch |-> epoch]
<1>1. active[n] = "recording"
        /\ UNCHANGED <<dc, ls, meta, proc, distro, phase, fetched, unfed, results,
                       contents>>
  BY DEF RecordRow
<1>2. e \in ls /\ phase = "feed" /\ n \notin unfed /\ packages[n] \in Versions
        /\ distro \in Distros
  BY <1>1 DEF IInv, PoolInv, TypeOK
<1>3. /\ RowsInv'
      /\ \A r \in pv : \E s \in pv' : s.id = r.id /\ s.distro = r.distro
                                   /\ s.name = r.name
  <2>1. CASE \E r \in pv : SameVersion(r, n)
    <3> DEFINE Bump(r) == IF SameVersion(r, n) THEN [r EXCEPT !.epoch = epoch] ELSE r
    <3>1. pv' = {Bump(r) : r \in pv}
      BY <2>1 DEF RecordRow
    <3>2. ASSUME NEW r \in pv
          PROVE  /\ Bump(r).id = r.id /\ Bump(r).distro = r.distro
                 /\ Bump(r).name = r.name
                 /\ Entry(Bump(r).distro, Bump(r)) \in ls
      <4>1. CASE SameVersion(r, n)
        <5>1. Bump(r) = [id |-> r.id, distro |-> distro, name |-> n,
                         version |-> packages[n], epoch |-> epoch]
          <6>1. r \in Rows
            BY DEF IInv, TypeOK
          <6> QED BY ONLY <4>1, <6>1 DEF Rows, SameVersion
        <5>2. Entry(distro, Bump(r)) = e
          BY <5>1 DEF Entry
        <5> HIDE DEF Bump, e
        <5> QED BY <1>2, <4>1, <5>1, <5>2 DEF SameVersion
      <4>2. CASE ~ SameVersion(r, n)
        BY <4>2 DEF IInv, RowsInv
      <4> QED BY <4>1, <4>2
    <3>3. \A s \in pv' : \E r \in pv : s = Bump(r)
      BY <3>1
    <3> HIDE DEF Bump
    <3> QED BY <1>1, <3>1, <3>2, <3>3 DEF IInv, RowsInv
  <2>2. CASE ~ \E r \in pv : SameVersion(r, n)
    <3>1. PICK m \in {0} \cup {r.id : r \in pv} :
            /\ LastId(pv, m)
            /\ pv' = pv \cup {[id |-> m + 1, distro |-> distro, name |-> n,
                               version |-> packages[n], epoch |-> epoch]}
      BY <2>2 DEF RecordRow
    <3>2. m \in Nat /\ \A r \in pv : r.id \in Nat /\ r.id <= m
      BY <3>1 DEF LastId, IInv, TypeOK, Rows
    <3>3. \A r \in pv : r.id # m + 1
      BY <3>2
    <3> QED BY <1>1, <1>2, <3>1, <3>3 DEF IInv, RowsInv, Entry
  <2> QED BY <2>1, <2>2
<1>4. ContentsSound'
  <2>1. ASSUME NEW c \in dc
        PROVE  \E s \in pv' : s.id = c.current /\ s.distro = c.distro /\ s.name = c.name
    <3>1. PICK r \in pv : r.id = c.current /\ r.distro = c.distro /\ r.name = c.name
      BY DEF IInv, ContentsSound
    <3> QED BY <1>3, <3>1
  <2> QED BY <1>1, <2>1 DEF IInv, ContentsSound
<1>5. CopiesInv'
  <2>1. ASSUME NEW r, Known(r) PROVE Known(r)'
    <3>1. PICK t \in pv : t.id = r.id /\ t.distro = r.distro /\ t.name = r.name
      BY <2>1 DEF Known
    <3>2. \E s \in pv' : s.id = r.id /\ s.distro = r.distro /\ s.name = r.name
      BY <1>3, <3>1
    <3> QED BY <1>1, <2>1, <3>2 DEF Known
  <2> QED BY <1>1, <2>1 DEF IInv, CopiesInv
<1>6. PublishedFetchable' /\ MetaInv'
  BY <1>1 DEF IInv, PublishedFetchable, MetaInv
<1>7. PoolInv'
  <2>1. \A m \in Names : active'[m] = IF m = n THEN next ELSE active[m]
    BY <1>1 DEF IInv, TypeOK
  <2>2. \A r \in pkgvers \cup results : r.name \in Names
    BY DEF IInv, TypeOK, Rows
  <2> QED BY <1>1, <1>2, <2>1, <2>2 DEF IInv, PoolInv, Available
<1> QED BY <1>3, <1>4, <1>5, <1>6, <1>7 DEF IInv

LEMMA InvSend ==
  ASSUME IInv, TypeOK', NEW n \in Names, SendResult(n)
  PROVE  IInv'
<1>1. PICK r \in pv : SameVersion(r, n) /\ results' = results \cup {r}
  BY DEF SendResult
<1>2. active' = [active EXCEPT ![n] = "no"] /\ active[n] = "sending"
        /\ UNCHANGED <<store, proc, distro, phase, fetched, unfed, contents>>
  BY DEF SendResult
<1>3. RowsInv' /\ ContentsSound' /\ PublishedFetchable' /\ MetaInv'
  BY <1>2 DEF IInv, RowsInv, ContentsSound, PublishedFetchable, MetaInv
<1>4. CopiesInv'
  <2>1. Known(r)
    BY <1>1 DEF IInv, RowsInv, Known, SameVersion
  <2>2. \A s \in existing \cup pkgvers \cup results \cup {r} : Known(s)
    BY <2>1 DEF IInv, CopiesInv
  <2>3. \A s : Known(s) => Known(s)'
    BY <1>2 DEF Known
  <2> QED BY <1>1, <1>2, <2>2, <2>3 DEF IInv, CopiesInv
<1>5. PoolInv'
  <2>1. \A m \in Names : active'[m] = IF m = n THEN "no" ELSE active[m]
    BY <1>2 DEF IInv, TypeOK
  <2>2. n \notin unfed /\ phase = "feed"
    BY <1>2 DEF IInv, PoolInv
  <2>3. r.name = n /\ \A s \in pkgvers \cup results : s.name # n /\ s.name \in Names
    BY <1>1, <1>2, <2>2 DEF IInv, PoolInv, SameVersion, TypeOK, Rows
  <2>4. results' = results \cup {r} /\ pkgvers' = pkgvers
    BY <1>1, <1>2
  <2>5. \A s \in pkgvers' \cup results' : s = r \/ s \in pkgvers \cup results
    BY <2>4
  <2>6. \A s, t \in pkgvers' \cup results' : s.name = t.name => s = t
    BY <2>3, <2>5 DEF IInv, PoolInv
  <2>7. \A s \in pkgvers' \cup results' : s.name \notin unfed' /\ active'[s.name] = "no"
    BY <1>2, <2>1, <2>2, <2>3, <2>5 DEF IInv, PoolInv
  <2> QED BY <1>2, <2>1, <2>2, <2>6, <2>7 DEF IInv, PoolInv, Available
<1> QED BY <1>3, <1>4, <1>5 DEF IInv

LEMMA InvPackage ==
  ASSUME IInv, TypeOK', NEW n \in Names, PackageStep(n)
  PROVE  IInv'
<1>1. CASE FeedPackage(n)
  <2>1. active' = [active EXCEPT ![n] = "uploading"] /\ unfed' = unfed \ {n}
          /\ n \in unfed /\ phase = "feed"
          /\ UNCHANGED <<store, proc, distro, phase, fetched, results, errored,
                         contents>>
    BY <1>1 DEF FeedPackage
  <2>2. \A m \in Names : active'[m] = IF m = n THEN "uploading" ELSE active[m]
    BY <2>1 DEF IInv, TypeOK
  <2>3. packages[n] \in Versions
    BY <2>1 DEF IInv, PoolInv, Available, TypeOK
  <2>4. \A r \in pkgvers \cup results : r.name # n /\ r.name \in Names
    BY <2>1 DEF IInv, PoolInv, TypeOK, Rows
  <2>5. PoolInv'
    BY <2>1, <2>2, <2>3, <2>4 DEF IInv, PoolInv, Available
  <2> QED BY <2>1, <2>5, InvQuiet
<1>2. CASE PackageFails(n)
  <2>1. active' = [active EXCEPT ![n] = "no"]
          /\ UNCHANGED <<store, proc, distro, phase, fetched, unfed, results,
                         contents>>
    BY <1>2 DEF PackageFails
  <2>2. \A m \in Names : active'[m] = IF m = n THEN "no" ELSE active[m]
    BY <2>1 DEF IInv, TypeOK
  <2>3. \A r \in pkgvers \cup results : r.name \in Names
    BY DEF IInv, TypeOK, Rows
  <2>4. PoolInv'
    BY <2>1, <2>2, <2>3 DEF IInv, PoolInv, Available
  <2>5. RowsInv' /\ ContentsSound' /\ PublishedFetchable' /\ MetaInv'
    BY <2>1 DEF IInv, RowsInv, ContentsSound, PublishedFetchable, MetaInv
  <2>6. CopiesInv'
    BY <2>1 DEF IInv, CopiesInv, Known
  <2> QED BY <2>4, <2>5, <2>6 DEF IInv
<1>3. CASE UploadPanics(n)
  <2>1. UNCHANGED meta
    BY <1>3 DEF UploadPanics, ProcessEnds
  <2> QED BY <1>3, <2>1, InvReset DEF Resets
<1>4. CASE RecordPackageVersion(n) \/ RecordUnread(n)
  BY <1>4, InvRecord DEF RecordPackageVersion, RecordUnread
<1> QED BY <1>1, <1>2, <1>3, <1>4, InvSkip, InvStore, InvSend DEF PackageStep

(* The rows that ListDistroContents returns, and those left by an update.    *)
LEMMA ListedRows ==
  ASSUME IInv, distro \in Distros
  PROVE  /\ \A r \in ListDistroContents(distro) : Known(r)
         /\ \A r, s \in ListDistroContents(distro) : r.name = s.name => r = s
<1>1. ASSUME NEW r \in ListDistroContents(distro)
      PROVE  /\ r \in pv /\ r.distro = distro
             /\ \E c \in dc : c.distro = distro /\ c.current = r.id /\ c.name = r.name
  <2>1. r \in pv
    BY DEF ListDistroContents
  <2>2. PICK c \in dc : c.distro = distro /\ c.current = r.id
    BY DEF ListDistroContents
  <2>3. PICK s \in pv : s.id = c.current /\ s.distro = c.distro /\ s.name = c.name
    BY DEF IInv, ContentsSound
  <2>4. s = r
    BY <2>1, <2>2, <2>3 DEF IInv, RowsInv
  <2> QED BY <2>1, <2>2, <2>3, <2>4
<1>2. ASSUME NEW r \in ListDistroContents(distro) PROVE Known(r)
  BY <1>1 DEF Known, IInv, RowsInv
<1>3. ASSUME NEW r \in ListDistroContents(distro),
             NEW s \in ListDistroContents(distro), r.name = s.name
      PROVE  r = s
  <2>1. PICK c \in dc : c.distro = distro /\ c.current = r.id /\ c.name = r.name
    BY <1>1
  <2>2. PICK k \in dc : k.distro = distro /\ k.current = s.id /\ k.name = s.name
    BY <1>1
  <2>3. c = k
    BY <1>3, <2>1, <2>2 DEF IInv, ContentsSound
  <2>4. r \in pv /\ s \in pv /\ r.id = s.id
    BY <1>1, <2>1, <2>2, <2>3
  <2> QED BY <2>4 DEF IInv, RowsInv
<1> QED BY <1>2, <1>3

LEMMA InvReplace ==
  ASSUME IInv, TypeOK', ReplaceBatch
  PROVE  IInv'
<1>1. PICK batch \in SUBSET pending, m \in {0} \cup {c.id : c \in dc} :
        /\ \E ids \in Bijection(batch, m + 1 .. m + Cardinality(batch)) :
             dc' = ReplaceRows(batch, ids)
        /\ pending' = pending \ batch
  BY DEF ReplaceBatch
<1>2. PICK ids : dc' = ReplaceRows(batch, ids)
  BY <1>1
<1>3. UNCHANGED <<pv, ls, meta, proc, distro, phase, fetched, pool, pkgvers>>
        /\ phase = "replace"
  BY DEF ReplaceBatch
<1>4. \A r \in batch : Known(r) /\ r \in pkgvers
  BY DEF IInv, CopiesInv
<1>5. ContentsSound'
  <2> DEFINE New(r) == [id |-> ids[r], distro |-> distro, name |-> r.name,
                        current |-> r.id]
  <2>1. \A c \in dc' : \/ c \in dc /\ ~ (c.distro = distro /\ c.name \in NamesOf(batch))
                       \/ \E r \in batch : c = New(r)
    BY <1>2 DEF ReplaceRows
  <2>2. ASSUME NEW c \in dc'
        PROVE  \E s \in pv' : s.id = c.current /\ s.distro = c.distro /\ s.name = c.name
    <3>1. CASE c \in dc
      BY <1>3, <3>1 DEF IInv, ContentsSound
    <3>2. CASE \E r \in batch : c = New(r)
      BY <1>3, <1>4, <3>2 DEF Known
    <3> QED BY <2>1, <3>1, <3>2
  <2>3. ASSUME NEW c \in dc', NEW k \in dc', c.distro = k.distro, c.name = k.name
        PROVE  c = k
    <3>1. \A r \in batch : New(r).distro = distro /\ New(r).name \in NamesOf(batch)
      BY DEF NamesOf
    <3>2. CASE c \in dc /\ k \in dc
      BY <2>3, <3>2 DEF IInv, ContentsSound
    <3>3. CASE (\E r \in batch : c = New(r)) /\ (\E r \in batch : k = New(r))
      <4>1. PICK r \in batch : c = New(r)
        BY <3>3
      <4>2. PICK s \in batch : k = New(s)
        BY <3>3
      <4>3. r.name = s.name
        BY <2>3, <4>1, <4>2
      <4>4. r = s
        BY <1>4, <4>3 DEF IInv, PoolInv
      <4> QED BY <4>1, <4>2, <4>4
    <3>4. ~ (c \in dc /\ ~ (c.distro = distro /\ c.name \in NamesOf(batch))
               /\ \E r \in batch : k = New(r))
      BY <2>3, <3>1
    <3>5. ~ (k \in dc /\ ~ (k.distro = distro /\ k.name \in NamesOf(batch))
               /\ \E r \in batch : c = New(r))
      BY <2>3, <3>1
    <3> QED BY <2>1, <3>2, <3>3, <3>4, <3>5
  <2> QED BY <2>2, <2>3 DEF ContentsSound
<1>6. RowsInv' /\ PublishedFetchable' /\ MetaInv'
  BY <1>3 DEF IInv, RowsInv, PublishedFetchable, MetaInv
<1>7. CopiesInv'
  BY <1>1, <1>3 DEF IInv, CopiesInv, Known
<1>8. PoolInv'
  BY <1>1, <1>3 DEF IInv, PoolInv, Available
<1> QED BY <1>5, <1>6, <1>7, <1>8 DEF IInv

LEMMA InvPutMeta ==
  ASSUME IInv, NEW ph \in {"packages", "fzf", "symbols"},
         NEW m \in {meta[distro], WithPackages, WithFzf, WithSymbols}, PutMeta(ph, m)
  PROVE  PublishedFetchable' /\ MetaInv'
<1>1. distro \in Distros /\ meta' = [meta EXCEPT ![distro] = m] /\ ls' = ls
  BY DEF PutMeta, IInv, TypeOK
<1>2. Listed \subseteq ls /\ FzfEntries \subseteq ls
  BY DEF IInv, CopiesInv, Known, Listed, FzfEntries
<1>3. /\ \A e \in Listed : e.distro = distro
      /\ \A e, f \in Listed : e.name = f.name => e = f
  BY DEF IInv, PoolInv, Listed, Entry
<1>4. meta[distro] \in [packages : SUBSET Entries, fzf : SUBSET Entries,
                       symbols : SUBSET Entries]
  BY <1>1 DEF IInv, TypeOK
<1>5. /\ m.packages \in {meta[distro].packages, Listed}
      /\ m.fzf \in {meta[distro].fzf, FzfEntries}
      /\ m.symbols \in {meta[distro].symbols, Listed}
  BY <1>4 DEF WithPackages, WithFzf, WithSymbols
<1>6. \A d \in Distros : meta'[d] = IF d = distro THEN m ELSE meta[d]
  BY <1>1 DEF IInv, TypeOK
<1>7. PublishedFetchable'
  BY <1>1, <1>2, <1>5, <1>6 DEF IInv, PublishedFetchable
<1>8. MetaInv'
  BY <1>1, <1>3, <1>5, <1>6 DEF IInv, MetaInv
<1> QED BY <1>7, <1>8

LEMMA InvGoOn ==
  ASSUME IInv, TypeOK', NEW ph \in {"packages", "fzf", "symbols"},
         NEW m \in {meta[distro], WithPackages, WithFzf, WithSymbols}, PutMeta(ph, m),
         NEW next \in {"fzf", "symbols", "done"}, GoOn(next)
  PROVE  IInv'
<1>1. UNCHANGED <<pv, dc, ls, proc, distro, fetched, pool, contents>>
        /\ phase \in {"packages", "fzf", "symbols"} /\ phase' = next
  BY DEF PutMeta, GoOn
<1>2. RowsInv' /\ ContentsSound'
  BY <1>1 DEF IInv, RowsInv, ContentsSound
<1>3. CopiesInv'
  BY <1>1 DEF IInv, CopiesInv, Known
<1>4. PoolInv'
  BY <1>1 DEF IInv, PoolInv, Available
<1> QED BY <1>2, <1>3, <1>4, InvPutMeta DEF IInv

LEMMA InvDistro ==
  ASSUME IInv, TypeOK', DistroStep
  PROVE  IInv'
<1>1. CASE \/ Exit \/ FindUnseenPanics \/ DownloadPanics \/ DistroReturns
           \/ \E d \in Distros : PickDistro(d)
  <2>1. UNCHANGED meta
    BY <1>1 DEF Exit, FindUnseenPanics, DownloadPanics, DistroReturns, PickDistro,
       ProcessEnds
  <2> QED BY <1>1, <2>1, InvReset DEF Resets
<1>2. CASE DistroFails
  <2>1. CASE \E ph \in {"packages", "fzf", "symbols"},
                m \in {meta[distro], WithPackages, WithFzf, WithSymbols} : PutMeta(ph, m)
    <3>1. PublishedFetchable' /\ MetaInv'
      BY <2>1, InvPutMeta
    <3> QED BY <1>2, <3>1, ResetStep, InvFresh DEF Resets
  <2>2. CASE UNCHANGED meta
    BY <1>2, <2>2, InvReset DEF Resets
  <2> QED BY <1>2, <2>1, <2>2 DEF DistroFails
<1>3. CASE FetchPackages
  <2>1. UNCHANGED <<store, proc, distro, existing, pool, contents>>
          /\ phase = "fetch" /\ phase' = "existing"
    BY <1>3 DEF FetchPackages
  <2>2. pkgvers = {} /\ results = {} /\ unfed = {} /\ pending = {}
          /\ \A n \in Names : active[n] = "no"
    BY <2>1 DEF IInv, PoolInv
  <2>3. RowsInv' /\ ContentsSound' /\ PublishedFetchable' /\ MetaInv'
    BY <2>1 DEF IInv, RowsInv, ContentsSound, PublishedFetchable, MetaInv
  <2>4. CopiesInv' /\ PoolInv'
    BY <2>1, <2>2 DEF IInv, CopiesInv, Known, PoolInv
  <2> QED BY <2>3, <2>4 DEF IInv
<1>4. CASE ListExistingPackages
  <2>1. UNCHANGED <<store, proc, distro, packages, active, results, contents>>
          /\ phase = "existing" /\ phase' = "feed" /\ unfed' = Available
          /\ existing' \subseteq {r \in pv : r.distro = distro
                                           /\ r.version = packages[r.name]}
    BY <1>4 DEF ListExistingPackages
  <2>2. pkgvers = {} /\ results = {} /\ pending = {}
          /\ \A n \in Names : active[n] = "no"
    BY <2>1 DEF IInv, PoolInv
  <2>3. RowsInv' /\ ContentsSound' /\ PublishedFetchable' /\ MetaInv'
    BY <2>1 DEF IInv, RowsInv, ContentsSound, PublishedFetchable, MetaInv
  <2>4. CopiesInv'
    <3>1. \A r \in existing' : Known(r)
      BY <2>1 DEF Known, IInv, RowsInv
    <3> QED BY <2>1, <2>2, <3>1 DEF CopiesInv, Known
  <2>5. PoolInv'
    BY <2>1, <2>2 DEF PoolInv, Available
  <2> QED BY <2>3, <2>4, <2>5 DEF IInv
<1>5. CASE WorkersDone
  <2>1. UNCHANGED <<store, proc, distro, fetched, pool, contents>>
          /\ phase = "feed" /\ phase' = "collect" /\ \A n \in Names : active[n] = "no"
    BY <1>5 DEF WorkersDone
  <2>2. PoolInv'
    BY <2>1 DEF IInv, PoolInv, Available
  <2> QED BY <2>1, <2>2, InvQuiet
<1>6. CASE CollectResults
  <2>1. UNCHANGED <<store, proc, distro, fetched, unfed, active>> /\ phase = "collect"
          /\ pkgvers' = pkgvers \cup results /\ results' = {}
          /\ \/ phase' = "skipped" /\ pending' = pending /\ results = {}
             \/ phase' = "replace" /\ pending' = pkgvers'
    BY <1>6 DEF CollectResults
  <2>2. RowsInv' /\ ContentsSound' /\ PublishedFetchable' /\ MetaInv'
    BY <2>1 DEF IInv, RowsInv, ContentsSound, PublishedFetchable, MetaInv
  <2>3. CopiesInv'
    BY <2>1 DEF IInv, CopiesInv, Known
  <2>4. PoolInv'
    BY <2>1 DEF IInv, PoolInv, Available
  <2> QED BY <2>2, <2>3, <2>4 DEF IInv
<1>7. CASE ReplaceDone \/ FindUnseen
  <2>1. UNCHANGED <<store, proc, distro, packages, existing, pool, pkgvers, pending>>
          /\ phase' \in {"find", "delete"}
          /\ phase \notin {"feed", "fetch", "existing", "collect"}
          /\ (pending # {} => phase # "replace")
    BY <1>7 DEF ReplaceDone, FindUnseen
  <2>2. PoolInv'
    BY <2>1 DEF IInv, PoolInv, Available
  <2> QED BY <2>1, <2>2, InvQuiet
<1>8. CASE DeleteUnseen
  <2>1. UNCHANGED <<pv, ls, meta, proc, distro, fetched, pool, contents>>
          /\ phase = "delete" /\ phase' = "list" /\ dc' \subseteq dc
    BY <1>8 DEF DeleteUnseen
  <2>2. RowsInv' /\ PublishedFetchable' /\ MetaInv'
    BY <2>1 DEF IInv, RowsInv, PublishedFetchable, MetaInv
  <2>3. ContentsSound'
    BY <2>1 DEF IInv, ContentsSound
  <2>4. CopiesInv'
    BY <2>1 DEF IInv, CopiesInv, Known
  <2>5. PoolInv'
    BY <2>1 DEF IInv, PoolInv, Available
  <2> QED BY <2>2, <2>3, <2>4, <2>5 DEF IInv
<1>9. CASE ListContents
  <2>1. UNCHANGED <<store, proc, distro, packages, existing, pool, pending>>
          /\ phase = "list" /\ phase' = "packages"
          /\ pkgvers' \subseteq ListDistroContents(distro)
    BY <1>9 DEF ListContents
  <2>2. RowsInv' /\ ContentsSound' /\ PublishedFetchable' /\ MetaInv'
    BY <2>1 DEF IInv, RowsInv, ContentsSound, PublishedFetchable, MetaInv
  <2>3. results = {}
    BY <2>1 DEF IInv, PoolInv
  <2>4. CopiesInv'
    BY <2>1, ListedRows DEF IInv, CopiesInv, Known, TypeOK, PoolInv
  <2>5. PoolInv'
    BY <2>1, <2>3, ListedRows DEF IInv, PoolInv, Available, TypeOK
  <2> QED BY <2>2, <2>4, <2>5 DEF IInv
<1>10. CASE UploadPackageList
  BY <1>10, InvGoOn DEF UploadPackageList
<1>11. CASE ConsolidateFzfIndex
  BY <1>11, InvGoOn DEF ConsolidateFzfIndex
<1>12. CASE ConsolidateSymbolsIndex
  BY <1>12, InvGoOn DEF ConsolidateSymbolsIndex
<1> QED BY <1>1, <1>2, <1>3, <1>4, <1>5, <1>6, <1>7, <1>8, <1>9, <1>10, <1>11,
           <1>12, InvReplace DEF DistroStep

LEMMA InvStep == IInv /\ [Next]_vars => IInv'
<1> SUFFICES ASSUME IInv, [Next]_vars PROVE IInv'
  OBVIOUS
<1>0. TypeOK /\ PoolInv
  BY DEF IInv
<1>1. CASE \E n \in Names : PackageStep(n)
  BY <1>0, <1>1, TypePackage, InvPackage
<1>2. CASE DistroStep
  BY <1>0, <1>2, TypeDistro, InvDistro
<1>3. CASE \/ \E d \in Distros, n \in Names : MirrorChanges(d, n)
           \/ \E e \in Epochs : StartRun(e)
           \/ Killed
  BY <1>0, <1>3, TypeEnvironment, InvEnvironment
<1>4. CASE UNCHANGED vars
  <2>1. TypeOK'
    BY <1>0, <1>4 DEF vars, TypeOK
  <2>2. PoolInv'
    BY <1>0, <1>4 DEF vars, PoolInv, Available
  <2>3. UNCHANGED <<store, proc, distro, phase, fetched, pool, contents>>
    BY <1>4 DEF vars
  <2> QED BY <2>1, <2>2, <2>3, InvQuiet
<1> QED BY <1>1, <1>2, <1>3, <1>4 DEF Next

THEOREM Invariance == Spec => []IInv
BY InvInit, InvStep, PTL DEF Spec

(* The database, the CDN and the progress of a run keep their types.         *)
THEOREM TypeCorrect == Spec => []TypeOK
<1>1. IInv => TypeOK
  BY DEF IInv
<1> QED BY <1>1, Invariance, PTL

(* Whatever fails, crashes or is rebuilt with another epoch, packages.json,  *)
(* paths.fzf and symbols.txt name only versions whose artifacts are stored.  *)
THEOREM ListingsFetchable == Spec => []PublishedFetchable
<1>1. IInv => PublishedFetchable
  BY DEF IInv
<1> QED BY <1>1, Invariance, PTL

(* distribution_contents always refers to a row of the same package, at most *)
(* once per package, although rows are deleted by the wrong id.              *)
THEOREM ContentsReferToVersions == Spec => []ContentsSound
<1>1. IInv => ContentsSound
  BY DEF IInv
<1> QED BY <1>1, Invariance, PTL

-------------------------------------------------------------------------------
(* Publish implements Catalog.                                               *)

Listings == [d \in Distros |-> meta[d].packages]

LEMMA StepsOfPromise ==
  ASSUME IInv, IInv', [Next]_vars
  PROVE  [Promise!CatalogNext]_<<ls, Listings>>
<1> USE DEF Promise!CatalogNext, Promise!StoreEntry, Promise!PublishList,
            Promise!Entries, Listings
<1>1. ASSUME ls' = ls, NEW m \in {meta[distro].packages, Listed},
             distro \in Distros,
             \A d \in Distros : meta'[d].packages = IF d = distro THEN m ELSE meta[d].packages
      PROVE  [Promise!CatalogNext]_<<ls, Listings>>
  <2>1. Listings' = [Listings EXCEPT ![distro] = m]
    BY <1>1
  <2>2. m = meta'[distro].packages
    BY <1>1
  <2>3. m \subseteq {e \in ls : e.distro = distro}
    BY <1>1, <2>2 DEF IInv, PublishedFetchable, MetaInv
  <2>4. \A e, f \in m : e.name = f.name => e = f
    BY <1>1, <2>2 DEF IInv, MetaInv
  <2> QED BY <1>1, <2>1, <2>3, <2>4
<1>2. ASSUME NEW ph, NEW m \in {meta[distro], WithPackages, WithFzf, WithSymbols},
             PutMeta(ph, m), ph \in {"packages", "fzf", "symbols"}
      PROVE  [Promise!CatalogNext]_<<ls, Listings>>
  <2>1. distro \in Distros /\ meta' = [meta EXCEPT ![distro] = m] /\ ls' = ls
    BY <1>2 DEF PutMeta, IInv, TypeOK
  <2>2. meta[distro] \in [packages : SUBSET Entries, fzf : SUBSET Entries,
                         symbols : SUBSET Entries]
    BY <2>1 DEF IInv, TypeOK
  <2>3. m.packages \in {meta[distro].packages, Listed}
    BY <1>2, <2>2 DEF WithPackages, WithFzf, WithSymbols
  <2>4. \A d \in Distros :
          meta'[d].packages = IF d = distro THEN m.packages ELSE meta[d].packages
    BY <2>1 DEF IInv, TypeOK
  <2> QED BY <1>1, <2>1, <2>3, <2>4
<1>3. ASSUME NEW n \in Names, StoreArtifacts(n)
      PROVE  [Promise!CatalogNext]_<<ls, Listings>>
  <2> DEFINE e == [distro |-> distro, name |-> n, version |-> packages[n],
                   epoch |-> epoch]
  <2>1. ls' = ls \cup {e} /\ meta' = meta /\ active[n] = "uploading"
    BY <1>3 DEF StoreArtifacts
  <2>2. e \in Entries
    BY <2>1 DEF IInv, TypeOK, PoolInv, Entries
  <2> QED BY <2>1, <2>2 DEF Entries
<1>4. CASE UNCHANGED <<ls, meta>>
  BY <1>4
<1>5. CASE \E n \in Names : PackageStep(n)
  <2>1. PICK n \in Names : PackageStep(n)
    BY <1>5
  <2>2. StoreArtifacts(n) \/ UNCHANGED <<ls, meta>>
    BY <2>1 DEF PackageStep, SkipPackage, FeedPackage, RecordPackageVersion,
                RecordUnread, RecordRow, SendResult, PackageFails, UploadPanics,
                ProcessEnds
  <2> QED BY <1>3, <1>4, <2>2
<1>6. CASE DistroStep
  <2>1. CASE UploadPackageList \/ ConsolidateFzfIndex \/ ConsolidateSymbolsIndex
    BY <1>2, <2>1 DEF UploadPackageList, ConsolidateFzfIndex, ConsolidateSymbolsIndex
  <2>2. CASE DistroFails
    <3>1. CASE UNCHANGED <<ls, meta>>
      BY <1>4, <3>1
    <3>2. CASE \E m \in {meta[distro], WithPackages, WithFzf, WithSymbols},
                  ph \in {"packages", "fzf", "symbols"} : PutMeta(ph, m)
      BY <1>2, <3>2
    <3> QED BY <2>2, <3>1, <3>2 DEF DistroFails
  <2>3. CASE ~ (UploadPackageList \/ ConsolidateFzfIndex
                  \/ ConsolidateSymbolsIndex \/ DistroFails)
    <3>1. UNCHANGED <<ls, meta>>
      BY <1>6, <2>3 DEF DistroStep, Exit, PickDistro, FetchPackages,
         ListExistingPackages, WorkersDone, CollectResults, ReplaceBatch,
         ReplaceDone, FindUnseen, FindUnseenPanics, DeleteUnseen, ListContents,
         DownloadPanics, DistroReturns, ProcessEnds
    <3> QED BY <1>4, <3>1
  <2> QED BY <2>1, <2>2, <2>3
<1>7. CASE \/ \E d \in Distros, n \in Names : MirrorChanges(d, n)
           \/ \E e \in Epochs : StartRun(e)
           \/ Killed \/ UNCHANGED vars
  <2>1. UNCHANGED <<ls, meta>>
    BY <1>7 DEF MirrorChanges, StartRun, Killed, ProcessEnds, vars
  <2> QED BY <1>4, <2>1
<1> QED BY <1>5, <1>6, <1>7 DEF Next

(* The publisher keeps the catalog's promise: index objects only accumulate, *)
(* and a package list, replaced in one step, names stored objects of its own *)
(* distribution, one per package.                                            *)
THEOREM PublishImplementsCatalog == Spec => ImplementsCatalog
<1>1. Init => Promise!CatalogInit
  BY DEF Init, Promise!CatalogInit, EmptyMeta
<1>2. Listings = [d \in Distros |-> meta[d].packages]
  BY DEF Listings
<1>3. IInv /\ IInv' /\ [Next]_vars => [Promise!CatalogNext]_(Promise!catalogVars)
  BY StepsOfPromise DEF Promise!catalogVars, Listings
<1> QED BY <1>1, <1>3, Invariance, PTL
        DEF Spec, ImplementsCatalog, Promise!CatalogSpec

-------------------------------------------------------------------------------
(* Recorded epochs.                                                          *)

(* What FindUnseen leaves alone, and that a list once cut stays remembered   *)
(* until the next distribution.                                              *)
LEMMA FindUnseenReads ==
  ASSUME FindUnseen
  PROVE  /\ UNCHANGED <<env, store, proc, distro, packages, existing, pool, pkgvers,
                       pending>>
         /\ phase = "find" /\ phase' = "delete"
         /\ short => short'
BY DEF FindUnseen

LEMMA ShortStays ==
  ASSUME [Next]_vars, ~ Resets
  PROVE  short => short'
<1>1. CASE ListExistingPackages \/ ListContents
  BY <1>1 DEF ListExistingPackages, ListContents
<1>2. CASE \E n \in Names : PackageStep(n)
  BY <1>2 DEF PackageStep, SkipPackage, FeedPackage, StoreArtifacts, RecordRow,
     RecordPackageVersion, RecordUnread, SendResult, PackageFails, Resets
<1>3. CASE (\E d \in Distros, n \in Names : MirrorChanges(d, n)) \/ UNCHANGED vars
  BY <1>3 DEF MirrorChanges, vars
<1>4. CASE \/ FetchPackages \/ WorkersDone \/ CollectResults \/ ReplaceBatch
           \/ ReplaceDone \/ FindUnseen \/ DeleteUnseen
           \/ UploadPackageList \/ ConsolidateFzfIndex \/ ConsolidateSymbolsIndex
  BY <1>4, FindUnseenReads DEF FetchPackages, WorkersDone, CollectResults,
     ReplaceBatch, ReplaceDone, DeleteUnseen, UploadPackageList,
     ConsolidateFzfIndex, ConsolidateSymbolsIndex, GoOn
<1> QED BY <1>1, <1>2, <1>3, <1>4 DEF Next, DistroStep, Resets

(* A version that main has still to decide about is in the database only if  *)
(* `existing` has its row; one that a worker has was not up to date.  Both   *)
(* need the whole of `existing`.                                             *)
EpochInv ==
  ~ short =>
    /\ \A n \in Names, r \in pv :
         phase = "feed" /\ n \in unfed /\ SameVersion(r, n) => r \in existing
    /\ \A n \in Names, r \in pv :
         active[n] # "no" /\ SameVersion(r, n) => r.epoch <= epoch

(* A step that touches neither the table nor the loop over packages.         *)
LEMMA EpochQuiet ==
  ASSUME IInv, EpochInv,
         UNCHANGED <<pv, epoch, distro, packages, existing, unfed, active>>,
         phase' = "feed" => phase = "feed",
         short => short'
  PROVE  EpochInv'
<1> SUFFICES ASSUME ~ short' PROVE EpochInv'
  BY DEF EpochInv
<1>1. \A r \in pv, n \in Names : SameVersion(r, n)' = SameVersion(r, n)
  BY DEF SameVersion
<1>2. pv' = pv /\ epoch' = epoch /\ existing' = existing /\ unfed' = unfed /\ active' = active
  OBVIOUS
<1>3. \A n \in Names, r \in pv :
        phase' = "feed" /\ n \in unfed' /\ SameVersion(r, n)' => r \in existing'
  BY <1>1, <1>2 DEF EpochInv
<1>4. \A n \in Names, r \in pv :
        active'[n] # "no" /\ SameVersion(r, n)' => r.epoch <= epoch'
  BY <1>1, <1>2 DEF EpochInv
<1> QED BY <1>2, <1>3, <1>4 DEF EpochInv

LEMMA EpochInit == Init => EpochInv
BY DEF Init, EpochInv

(* Recording version n changes the row of n alone, and sets its epoch.       *)
LEMMA RecordedRows ==
  ASSUME IInv, NEW n \in Names, RecordRow(n), NEW s \in pv'
  PROVE  \/ s \in pv /\ ~ SameVersion(s, n)
         \/ SameVersion(s, n) /\ s.epoch = epoch
<1>1. CASE \E r \in pv : SameVersion(r, n)
  <2>1. PICK r \in pv : s = IF SameVersion(r, n) THEN [r EXCEPT !.epoch = epoch] ELSE r
    BY <1>1 DEF RecordRow
  <2>2. r \in Rows
    BY DEF IInv, TypeOK
  <2> QED BY <2>1, <2>2 DEF Rows, SameVersion
<1>2. CASE ~ \E r \in pv : SameVersion(r, n)
  BY <1>2 DEF RecordRow, SameVersion
<1> QED BY <1>1, <1>2

LEMMA EpochPackage ==
  ASSUME IInv, EpochInv, NEW n \in Names, PackageStep(n), ~ UploadPanics(n)
  PROVE  EpochInv'
<1>0. short' = short
  BY DEF PackageStep, SkipPackage, FeedPackage, StoreArtifacts, RecordPackageVersion,
         RecordUnread, RecordRow, SendResult, PackageFails
<1> SUFFICES ASSUME ~ short, ~ short' PROVE EpochInv'
  BY <1>0 DEF EpochInv
<1>1. CASE SkipPackage(n)
  <2>1. UNCHANGED <<pv, epoch, distro, phase, packages, existing, active>> /\ unfed' \subseteq unfed
    BY <1>1 DEF SkipPackage
  <2> QED BY <2>1 DEF EpochInv, SameVersion
<1>2. CASE FeedPackage(n)
  <2>1. /\ UNCHANGED <<pv, epoch, distro, phase, packages, existing>>
        /\ unfed' \subseteq unfed /\ n \in unfed /\ phase = "feed"
        /\ active' = [active EXCEPT ![n] = "uploading"]
        /\ ~ \E r \in existing : r.name = n /\ UpToDate(r)
    BY <1>2 DEF FeedPackage
  <2>2. \A r \in pv, m \in Names : SameVersion(r, m)' = SameVersion(r, m)
    BY <2>1 DEF SameVersion
  <2>3. ASSUME NEW r \in pv, SameVersion(r, n) PROVE r.epoch <= epoch
    <3>1. r \in existing /\ r.name = n
      BY <2>1, <2>3 DEF EpochInv, SameVersion
    <3>2. ~ (r.epoch >= epoch)
      BY <2>1, <3>1 DEF UpToDate
    <3>3. r.epoch \in Nat /\ epoch \in Nat
      BY DEF IInv, TypeOK, Rows
    <3> QED BY <3>2, <3>3
  <2>4. \A m \in Names, r \in pv : active'[m] # "no" /\ SameVersion(r, m)' => r.epoch <= epoch
    BY <2>1, <2>2, <2>3 DEF EpochInv, IInv, TypeOK
  <2>5. \A m \in Names, r \in pv :
          phase' = "feed" /\ m \in unfed' /\ SameVersion(r, m)' => r \in existing
    BY <2>1, <2>2 DEF EpochInv
  <2> QED BY <2>1, <2>4, <2>5 DEF EpochInv
<1>3. CASE RecordPackageVersion(n) \/ RecordUnread(n)
  <2>a. RecordRow(n)
    BY <1>3 DEF RecordPackageVersion, RecordUnread
  <2>b. PICK next \in {"sending", "no"} : active' = [active EXCEPT ![n] = next]
    BY <1>3 DEF RecordPackageVersion, RecordUnread
  <2>1. /\ UNCHANGED <<epoch, distro, phase, packages, existing, unfed>>
        /\ active[n] # "no" /\ active' = [active EXCEPT ![n] = next]
    BY <2>a, <2>b DEF RecordRow
  <2>2. n \notin unfed
    BY <2>1 DEF IInv, PoolInv
  <2>3. ASSUME NEW s \in pv', NEW m \in Names, SameVersion(s, m)'
        PROVE  \/ m # n /\ s \in pv /\ SameVersion(s, m)
               \/ m = n /\ s.epoch = epoch
    <3>1. SameVersion(s, m)
      BY <2>1, <2>3 DEF SameVersion
    <3> QED BY <2>a, <3>1, RecordedRows DEF SameVersion
  <2>4. epoch \in Nat
    BY DEF IInv, TypeOK
  <2>5. \A m \in Names, s \in pv' :
          phase' = "feed" /\ m \in unfed' /\ SameVersion(s, m)' => s \in existing'
    BY <2>1, <2>2, <2>3 DEF EpochInv
  <2>6. \A m \in Names, s \in pv' : active'[m] # "no" /\ SameVersion(s, m)' => s.epoch <= epoch'
    BY <2>1, <2>3, <2>4 DEF EpochInv, IInv, TypeOK
  <2> QED BY <2>5, <2>6 DEF EpochInv
<1>4. CASE StoreArtifacts(n) \/ SendResult(n) \/ PackageFails(n)
  <2>1. /\ UNCHANGED <<pv, epoch, distro, phase, packages, existing, unfed>>
        /\ \A m \in Names : active'[m] # "no" => active[m] # "no"
    BY <1>4 DEF StoreArtifacts, SendResult, PackageFails, IInv, TypeOK
  <2> QED BY <2>1 DEF EpochInv, SameVersion
<1> QED BY <1>1, <1>2, <1>3, <1>4 DEF PackageStep

LEMMA EpochStep == IInv /\ EpochInv /\ [Next]_vars => EpochInv'
<1> SUFFICES ASSUME IInv, EpochInv, [Next]_vars PROVE EpochInv'
  OBVIOUS
<1>1. ASSUME NEW n \in Names, PackageStep(n), ~ UploadPanics(n) PROVE EpochInv'
  BY <1>1, EpochPackage
<1>2. CASE Resets
  <2>1. phase' # "feed" /\ \A n \in Names : active'[n] = "no"
    BY <1>2, ResetStep DEF Fresh
  <2> QED BY <2>1 DEF EpochInv
<1>3. CASE ListExistingPackages
  <2> SUFFICES ASSUME ~ short' PROVE EpochInv'
    BY DEF EpochInv
  <2>1. /\ UNCHANGED <<pv, epoch, distro, packages, active>> /\ ~ short
        /\ existing' = {r \in pv : r.distro = distro /\ r.version = packages[r.name]}
    BY <1>3 DEF ListExistingPackages
  <2>2. \A n \in Names, r \in pv : SameVersion(r, n)' => r \in existing'
    BY <2>1 DEF SameVersion
  <2>3. \A n \in Names, r \in pv : active'[n] # "no" /\ SameVersion(r, n)' => r.epoch <= epoch'
    BY <2>1 DEF EpochInv, SameVersion
  <2> QED BY <2>1, <2>2, <2>3 DEF EpochInv
<1>4. CASE FetchPackages
  <2>1. active' = active /\ phase = "fetch" /\ phase' # "feed"
    BY <1>4 DEF FetchPackages
  <2>2. \A n \in Names : active[n] = "no"
    BY <2>1 DEF IInv, PoolInv, TypeOK
  <2> QED BY <2>1, <2>2 DEF EpochInv
<1>5. CASE /\ ~ Resets
           /\ \/ \E d \in Distros, n \in Names : MirrorChanges(d, n)
              \/ UNCHANGED vars
              \/ DistroStep /\ ~ FetchPackages /\ ~ ListExistingPackages
  <2>1. /\ UNCHANGED <<pv, epoch, distro, packages, existing, unfed, active>>
        /\ phase' = "feed" => phase = "feed"
    BY <1>5, FindUnseenReads DEF MirrorChanges, vars, Resets, DistroStep, WorkersDone,
       CollectResults, ReplaceBatch, ReplaceDone, DeleteUnseen, ListContents,
       UploadPackageList, ConsolidateFzfIndex, ConsolidateSymbolsIndex, PutMeta, GoOn
  <2>2. short => short'
    BY <1>5, ShortStays
  <2> QED BY <2>1, <2>2, EpochQuiet
<1> QED BY <1>1, <1>2, <1>3, <1>4, <1>5 DEF Next, DistroStep, Resets

(* Only RecordRow writes the table of versions.                              *)
LEMMA RowsWritten ==
  ASSUME [Next]_vars
  PROVE  (\E n \in Names : RecordRow(n)) \/ pv' = pv
<1>1. CASE Resets
  BY <1>1, ResetStep
<1>2. CASE ~ Resets
  BY <1>2, FindUnseenReads DEF Next, vars, Resets, MirrorChanges, PackageStep, SkipPackage,
     FeedPackage, StoreArtifacts, RecordPackageVersion, RecordUnread, SendResult,
     PackageFails, DistroStep, FetchPackages, ListExistingPackages, WorkersDone,
     CollectResults, ReplaceBatch, ReplaceDone, DeleteUnseen, ListContents,
     UploadPackageList, ConsolidateFzfIndex, ConsolidateSymbolsIndex, PutMeta
<1> QED BY <1>1, <1>2

(* A version's recorded epoch never goes down, in whichever order builds     *)
(* with newer and older epochs run: a build feeds a version to its workers   *)
(* only if the list it read shows an older epoch, and while it works no one  *)
(* else writes the row.  A step within a distribution one of whose queries   *)
(* broke off is excepted.                                                    *)
THEOREM EpochsGrow == Spec => EpochNeverDecreases
<1> DEFINE Grow == ~ short' => \A r \in pv : \E s \in pv' : s.id = r.id /\ s.epoch >= r.epoch
<1>1. IInv /\ EpochInv /\ [Next]_vars => [Grow]_vars
  <2> SUFFICES ASSUME IInv, EpochInv, Next, ~ short', NEW r \in pv
               PROVE  \E s \in pv' : s.id = r.id /\ s.epoch >= r.epoch
    BY DEF Grow
  <2>1. r \in Rows /\ r.epoch \in Nat /\ epoch \in Nat
    BY DEF IInv, TypeOK, Rows
  <2>2. CASE pv' = pv
    BY <2>1, <2>2
  <2>3. ASSUME NEW n \in Names, RecordRow(n)
        PROVE  \E s \in pv' : s.id = r.id /\ s.epoch >= r.epoch
    <3>1. CASE ~ SameVersion(r, n)
      <4>1. r \in pv'
        BY <2>3, <3>1 DEF RecordRow
      <4> QED BY <2>1, <4>1
    <3>2. CASE SameVersion(r, n)
      <4>1. [r EXCEPT !.epoch = epoch] \in pv'
        BY <2>3, <3>2 DEF RecordRow
      <4>2. r.epoch <= epoch
        BY <2>3, <3>2 DEF EpochInv, RecordRow
      <4> QED BY <2>1, <4>1, <4>2 DEF Rows
    <3> QED BY <3>1, <3>2
  <2> QED BY <2>2, <2>3, RowsWritten
<1>2. Spec => []EpochInv
  BY EpochInit, EpochStep, Invariance, PTL DEF Spec
<1> QED BY <1>1, <1>2, Invariance, PTL DEF Spec, EpochNeverDecreases

-------------------------------------------------------------------------------
(* What a finished distribution lists.                                       *)

(* The consolidated files, from the step that writes each on.                *)
FilesInv ==
  /\ phase \in {"fzf", "symbols", "done"} => meta[distro].packages = Listed
  /\ phase \in {"symbols", "done"} => meta[distro].fzf = FzfEntries
  /\ phase = "done" => meta[distro].symbols = Listed

(* A row, or the copy of one, that is good enough for the snapshot.          *)
GoodEnough(r) == r.version = packages[r.name] /\ r.epoch >= epoch

(* No package failed, and no SELECT broke off.                               *)
Clean == ~ errored /\ ~ short

(* A copy's row still has its version, and no older epoch.                   *)
RowOf(r) ==
  \E s \in pv : /\ s.id = r.id /\ s.distro = r.distro /\ s.name = r.name
                /\ s.version = r.version
                /\ ~ short => s.epoch >= r.epoch

SnapshotInv ==
  /\ phase \in {"fetch", "existing"} => existing = {}
  /\ \A r \in existing : r.version = packages[r.name]
  /\ phase \in {"feed", "collect", "replace", "find", "delete"} =>
       \A r \in pkgvers \cup results : GoodEnough(r)
  /\ \A r, s \in pv :
       r.distro = s.distro /\ r.name = s.name /\ r.version = s.version => r = s
  /\ \A n \in Names, r \in pv :
       active[n] = "sending" /\ SameVersion(r, n) => r.epoch >= epoch
  /\ \A r \in existing \cup pkgvers \cup results : RowOf(r)

(* No package of the snapshot is forgotten between the steps of a run in     *)
(* which none failed and all that a query selects was read.                  *)
CoverInv ==
  Clean =>
    \A n \in Available :
      /\ phase = "feed" => \/ n \in unfed \/ active[n] # "no"
                           \/ n \in NamesOf(pkgvers \cup results)
      /\ phase = "collect" => n \in NamesOf(pkgvers \cup results)
      /\ phase \in {"replace", "find", "delete"} => n \in NamesOf(pkgvers)
      /\ phase = "list" =>
           \E r \in ListDistroContents(distro) : r.name = n /\ GoodEnough(r)
      /\ phase \in {"packages", "fzf", "symbols", "done"} =>
           \E r \in pkgvers : r.name = n /\ GoodEnough(r)

ReplacedInv ==
  phase \in {"replace", "find", "delete"} =>
    \A r \in pkgvers \ pending :
      \E c \in dc : c.distro = distro /\ c.name = r.name /\ c.current = r.id

(* Nothing that was ever listed is gone, so nothing is deleted.              *)
KeptInv ==
  /\ \A n \in Available : distro \in Distros /\ mirror[distro][n] # NoVersion
  /\ \A c \in dc : mirror[c.distro][c.name] # NoVersion
  /\ phase \notin {"pick", "fetch"} => \A c \in dc : c.distro = distro => c.name \in Available
  /\ phase = "delete" /\ Clean => doomed = {}

DoneInv == SnapshotInv /\ CoverInv /\ ReplacedInv /\ KeptInv /\ FilesInv

LEMMA DoneInit == Init => DoneInv
<1> SUFFICES ASSUME Init PROVE DoneInv
  OBVIOUS
<1>1. /\ pv = {} /\ dc = {} /\ existing = {} /\ pkgvers = {} /\ results = {}
      /\ pending = {} /\ phase = "pick" /\ Available = {}
      /\ \A n \in Names : active[n] = "no"
  BY DEF Init, Available
<1> QED BY <1>1 DEF DoneInv, SnapshotInv, CoverInv, ReplacedInv, KeptInv, FilesInv

-------------------------------------------------------------------------------
(* Rows.                                                                     *)

(* No step forgets a row or lowers its epoch.                                *)
LEMMA RowsStay ==
  ASSUME IInv, EpochInv, [Next]_vars, NEW r \in pv
  PROVE  \E s \in pv' : /\ s.id = r.id /\ s.distro = r.distro /\ s.name = r.name
                        /\ s.version = r.version
                        /\ ~ short' => s.epoch >= r.epoch
<1>1. r \in Rows /\ r.epoch \in Nat /\ epoch \in Nat
  BY DEF IInv, TypeOK, Rows
<1>2. CASE pv' = pv
  BY <1>1, <1>2
<1>3. ASSUME NEW n \in Names, RecordRow(n)
      PROVE  \E s \in pv' : /\ s.id = r.id /\ s.distro = r.distro /\ s.name = r.name
                            /\ s.version = r.version
                            /\ ~ short' => s.epoch >= r.epoch
  <2>1. CASE ~ SameVersion(r, n)
    <3>1. r \in pv'
      BY <1>3, <2>1 DEF RecordRow
    <3> QED BY <1>1, <3>1
  <2>2. CASE SameVersion(r, n)
    <3>1. [r EXCEPT !.epoch = epoch] \in pv'
      BY <1>3, <2>2 DEF RecordRow
    <3>2. ~ short' => r.epoch <= epoch
      BY <1>3, <2>2 DEF EpochInv, RecordRow
    <3> QED BY <1>1, <3>1, <3>2 DEF Rows
  <2> QED BY <2>1, <2>2
<1> QED BY <1>2, <1>3, RowsWritten

LEMMA RowOfStays ==
  ASSUME IInv, EpochInv, [Next]_vars, NEW r \in Rows, RowOf(r), short' = short
  PROVE  RowOf(r)'
<1>1. PICK s \in pv : /\ s.id = r.id /\ s.distro = r.distro /\ s.name = r.name
                      /\ s.version = r.version
                      /\ ~ short => s.epoch >= r.epoch
  BY DEF RowOf
<1>2. PICK t \in pv' : /\ t.id = s.id /\ t.distro = s.distro /\ t.name = s.name
                       /\ t.version = s.version
                       /\ ~ short' => t.epoch >= s.epoch
  BY RowsStay
<1>3. s \in Rows /\ t \in Rows
  <2>1. TypeOK'
    BY InvStep DEF IInv
  <2> QED BY <2>1 DEF IInv, TypeOK
<1>4. r.epoch \in Nat /\ s.epoch \in Nat /\ t.epoch \in Nat
  BY <1>3 DEF Rows
<1>5. ~ short' => t.epoch >= r.epoch
  BY ONLY short' = short, <1>1, <1>2, <1>4
<1> QED BY <1>1, <1>2, <1>5 DEF RowOf

LEMMA OwnRow ==
  ASSUME IInv, NEW r \in pv
  PROVE  RowOf(r)
<1>1. r.epoch \in Nat
  BY DEF IInv, TypeOK, Rows
<1> QED BY <1>1 DEF RowOf

(* What the steps that read no row leave of SnapshotInv.                     *)
LEMMA SnapshotKeeps ==
  ASSUME IInv, EpochInv, SnapshotInv, [Next]_vars,
         UNCHANGED <<pv, epoch, distro, packages, existing>>,
         pkgvers' \cup results' \subseteq pkgvers \cup results,
         phase' \in {"fetch", "existing"} => phase = phase',
         phase' \in {"feed", "collect", "replace", "find", "delete"} =>
           phase \in {"feed", "collect", "replace", "find", "delete"},
         \A n \in Names : active'[n] = "sending" => active[n] = "sending",
         short => short'
  PROVE  SnapshotInv'
<1>1. phase' \in {"fetch", "existing"} => existing' = {}
  BY DEF SnapshotInv
<1>2. \A r \in existing' : r.version = packages'[r.name]
  BY DEF SnapshotInv
<1>3. phase' \in {"feed", "collect", "replace", "find", "delete"} =>
        \A r \in pkgvers' \cup results' : GoodEnough(r)'
  BY DEF SnapshotInv, GoodEnough
<1>4. \A r, s \in pv' :
        r.distro = s.distro /\ r.name = s.name /\ r.version = s.version => r = s
  BY DEF SnapshotInv
<1>5. \A n \in Names, r \in pv' :
        active'[n] = "sending" /\ SameVersion(r, n)' => r.epoch >= epoch'
  BY DEF SnapshotInv, SameVersion
<1>6. \A r \in existing' \cup pkgvers' \cup results' : RowOf(r)'
  BY DEF SnapshotInv, RowOf
<1> QED BY <1>1, <1>2, <1>3, <1>4, <1>5, <1>6 DEF SnapshotInv

LEMMA SnapshotRecord ==
  ASSUME IInv, EpochInv, SnapshotInv, [Next]_vars, NEW n \in Names,
         RecordRow(n), NEW next \in {"sending", "no"},
         active' = [active EXCEPT ![n] = next]
  PROVE  SnapshotInv'
<1>1. /\ UNCHANGED <<dc, epoch, distro, phase, packages, existing, results, pkgvers>>
      /\ short' = short /\ active[n] = "recording"
  BY DEF RecordRow
<1>2. phase = "feed" /\ epoch \in Nat /\ active \in [Names -> {"no", "uploading", "recording", "sending"}]
  BY <1>1 DEF IInv, PoolInv, TypeOK
<1>3. \A r \in existing : r.version = packages'[r.name]
  BY <1>1 DEF SnapshotInv
<1>4. \A r \in pkgvers' \cup results' : GoodEnough(r)'
  BY <1>1, <1>2 DEF SnapshotInv, GoodEnough
<1>5. ASSUME NEW r \in pv', NEW s \in pv', r.distro = s.distro, r.name = s.name,
             r.version = s.version
      PROVE  r = s
  <2>1. CASE r \in pv /\ ~ SameVersion(r, n)
    <3>1. ~ SameVersion(s, n)
      BY <1>5, <2>1 DEF SameVersion
    <3>2. s \in pv
      BY <3>1, RecordedRows
    <3> QED BY <1>5, <2>1, <3>2 DEF SnapshotInv
  <2>2. CASE SameVersion(r, n)
    <3>1. SameVersion(s, n)
      BY <1>5, <2>2 DEF SameVersion
    <3>2. CASE \E q \in pv : SameVersion(q, n)
      <4>1. PICK a \in pv : r = IF SameVersion(a, n) THEN [a EXCEPT !.epoch = epoch] ELSE a
        BY <3>2 DEF RecordRow
      <4>2. PICK b \in pv : s = IF SameVersion(b, n) THEN [b EXCEPT !.epoch = epoch] ELSE b
        BY <3>2 DEF RecordRow
      <4>3. a \in Rows /\ b \in Rows
        BY DEF IInv, TypeOK
      <4>4. SameVersion(a, n) /\ SameVersion(b, n)
        BY <2>2, <3>1, <4>1, <4>2
      <4>5. a = b
        BY <4>4 DEF SnapshotInv, SameVersion
      <4> QED BY <4>1, <4>2, <4>5
    <3>3. CASE ~ \E q \in pv : SameVersion(q, n)
      <4>1. PICK m \in {0} \cup {q.id : q \in pv} :
              pv' = pv \cup {[id |-> m + 1, distro |-> distro, name |-> n,
                              version |-> packages[n], epoch |-> epoch]}
        BY <3>3 DEF RecordRow
      <4> QED BY <2>2, <3>1, <3>3, <4>1
    <3> QED BY <3>2, <3>3
  <2> QED BY <2>1, <2>2, RecordedRows
<1>6. ASSUME NEW m \in Names, NEW r \in pv', active'[m] = "sending", SameVersion(r, m)'
      PROVE  r.epoch >= epoch'
  <2>1. SameVersion(r, m)
    BY <1>1, <1>6 DEF SameVersion
  <2>2. CASE m = n
    BY <1>1, <1>2, <2>1, <2>2, RecordedRows
  <2>3. CASE m # n
    <3>1. r \in pv
      BY <2>1, <2>3, RecordedRows DEF SameVersion
    <3>2. active[m] = "sending"
      BY <1>1, <1>2, <1>6, <2>3
    <3> QED BY <1>1, <2>1, <3>1, <3>2 DEF SnapshotInv
  <2> QED BY <2>2, <2>3
<1>7. ASSUME NEW r \in existing' \cup pkgvers' \cup results' PROVE RowOf(r)'
  <2>1. r \in existing \cup pkgvers \cup results
    BY <1>1
  <2>2. r \in Rows /\ RowOf(r)
    BY <2>1 DEF SnapshotInv, IInv, TypeOK
  <2> QED BY <1>1, <2>2, RowOfStays
<1> QED BY <1>1, <1>2, <1>3, <1>4, <1>5, <1>6, <1>7 DEF SnapshotInv

(* A step that reads rows, into `existing`, pkgvers or the results.          *)
LEMMA SnapshotReads ==
  ASSUME IInv, EpochInv, SnapshotInv, [Next]_vars,
         UNCHANGED <<pv, epoch, distro, packages>>,
         phase' \in {"fetch", "existing"} => existing' = {},
         \A r \in existing' :
           r \in existing \/ (r \in pv /\ r.version = packages[r.name]),
         \A r \in pkgvers' \cup results' : r \in pv \cup existing \cup pkgvers \cup results,
         phase' \in {"feed", "collect", "replace", "find", "delete"} =>
           \A r \in pkgvers' \cup results' : GoodEnough(r),
         \A n \in Names : active'[n] = "sending" => active[n] = "sending",
         short => short'
  PROVE  SnapshotInv'
<1>1. \A r \in existing' : r.version = packages'[r.name]
  BY DEF SnapshotInv
<1>2. phase' \in {"feed", "collect", "replace", "find", "delete"} =>
        \A r \in pkgvers' \cup results' : GoodEnough(r)'
  BY DEF GoodEnough
<1>3. \A r, s \in pv' :
        r.distro = s.distro /\ r.name = s.name /\ r.version = s.version => r = s
  BY DEF SnapshotInv
<1>4. \A n \in Names, r \in pv' :
        active'[n] = "sending" /\ SameVersion(r, n)' => r.epoch >= epoch'
  BY DEF SnapshotInv, SameVersion
<1>5. ASSUME NEW r \in existing' \cup pkgvers' \cup results' PROVE RowOf(r)'
  <2>1. CASE r \in pv
    <3>1. r.epoch \in Nat
      BY <2>1 DEF IInv, TypeOK, Rows
    <3> QED BY <2>1, <3>1 DEF RowOf
  <2>2. CASE r \notin pv
    <3>1. RowOf(r)
      BY <2>2 DEF SnapshotInv
    <3> QED BY <3>1 DEF RowOf
  <2> QED BY <2>1, <2>2
<1> QED BY <1>1, <1>2, <1>3, <1>4, <1>5 DEF SnapshotInv

LEMMA SnapshotStep ==
  ASSUME IInv, EpochInv, SnapshotInv, [Next]_vars
  PROVE  SnapshotInv'
<1>1. ASSUME NEW n \in Names, RecordPackageVersion(n) \/ RecordUnread(n)
      PROVE  SnapshotInv'
  BY <1>1, SnapshotRecord DEF RecordPackageVersion, RecordUnread
<1>2. ASSUME NEW n \in Names, SendResult(n) PROVE SnapshotInv'
  <2>1. PICK r \in pv : SameVersion(r, n) /\ results' = results \cup {r}
    BY <1>2 DEF SendResult
  <2>2. /\ UNCHANGED <<pv, epoch, distro, phase, packages, existing, pkgvers>>
        /\ active[n] = "sending" /\ active' = [active EXCEPT ![n] = "no"]
    BY <1>2 DEF SendResult
  <2>3. phase = "feed" /\ GoodEnough(r)
    BY <2>1, <2>2 DEF IInv, PoolInv, SnapshotInv, GoodEnough, SameVersion
  <2>4. \A q \in pkgvers' \cup results' : GoodEnough(q)
    BY <2>1, <2>2, <2>3 DEF SnapshotInv
  <2>5. \A m \in Names : active'[m] = "sending" => active[m] = "sending"
    BY <2>2 DEF IInv, TypeOK
  <2>6. /\ phase' \in {"fetch", "existing"} => existing' = {}
        /\ \A q \in pkgvers' \cup results' : q \in pv \cup existing \cup pkgvers \cup results
        /\ \A q \in existing' : q \in existing \/ (q \in pv /\ q.version = packages[q.name])
        /\ UNCHANGED <<pv, epoch, distro, packages>> /\ (short => short')
    BY <1>2, <2>1, <2>2, <2>3 DEF SendResult
  <2> QED BY ONLY IInv, EpochInv, SnapshotInv, [Next]_vars, <2>4, <2>5, <2>6, SnapshotReads
<1>3. ASSUME NEW n \in Names, SkipPackage(n) PROVE SnapshotInv'
  <2>1. PICK r \in existing : r.name = n /\ UpToDate(r) /\ pkgvers' = pkgvers \cup {r}
    BY <1>3 DEF SkipPackage
  <2>2. /\ UNCHANGED <<pv, epoch, distro, phase, packages, existing, results, active>>
        /\ phase = "feed"
    BY <1>3 DEF SkipPackage
  <2>3. GoodEnough(r)
    BY <2>1 DEF SnapshotInv, GoodEnough, UpToDate
  <2>4. \A q \in pkgvers' \cup results' : GoodEnough(q)
    BY <2>1, <2>2, <2>3 DEF SnapshotInv
  <2>5. /\ phase' \in {"fetch", "existing"} => existing' = {}
        /\ \A q \in pkgvers' \cup results' : q \in pv \cup existing \cup pkgvers \cup results
        /\ \A q \in existing' : q \in existing \/ (q \in pv /\ q.version = packages[q.name])
        /\ UNCHANGED <<pv, epoch, distro, packages>>
        /\ \A m \in Names : active'[m] = "sending" => active[m] = "sending"
        /\ short => short'
    BY <1>3, <2>1, <2>2 DEF SkipPackage
  <2> QED BY ONLY IInv, EpochInv, SnapshotInv, [Next]_vars, <2>4, <2>5, SnapshotReads
<1>4. CASE ListExistingPackages
  <2>1. /\ UNCHANGED <<pv, epoch, distro, packages, pkgvers, results, active>>
        /\ phase' = "feed" /\ phase = "existing" /\ (short => short')
        /\ existing' \subseteq {r \in pv : r.distro = distro
                                         /\ r.version = packages[r.name]}
    BY <1>4 DEF ListExistingPackages
  <2>2. pkgvers' \cup results' = {}
    BY <2>1 DEF IInv, PoolInv
  <2>3. \A r \in existing' : r \in pv /\ r.version = packages[r.name]
    BY <2>1
  <2> QED BY <2>1, <2>2, <2>3, SnapshotReads
<1>5. CASE ListContents
  <2>1. /\ UNCHANGED <<pv, epoch, distro, packages, existing, results, active>>
        /\ phase' = "packages" /\ phase = "list" /\ pkgvers' \subseteq pv
        /\ short => short'
    BY <1>5 DEF ListContents, ListDistroContents
  <2> QED BY <2>1, SnapshotReads DEF SnapshotInv
<1>6. CASE Resets \/ FetchPackages
  <2>1. /\ pv' = pv /\ existing' = {} /\ pkgvers' = {} /\ results' = {}
        /\ \A n \in Names : active'[n] = "no"
        /\ phase' \in {"pick", "fetch", "existing"}
    <3>1. CASE FetchPackages
      <4>1. /\ UNCHANGED <<pv, existing, pkgvers, results, active>>
            /\ phase = "fetch" /\ phase' = "existing"
        BY <3>1 DEF FetchPackages
      <4>2. \A n \in Names : active[n] = "no"
        BY <4>1 DEF IInv, PoolInv, TypeOK
      <4> QED BY <4>1, <4>2 DEF SnapshotInv, IInv, PoolInv
    <3>2. CASE Resets
      BY <3>2, ResetStep DEF Fresh
    <3> QED BY <1>6, <3>1, <3>2
  <2>2. \A r, s \in pv' :
          r.distro = s.distro /\ r.name = s.name /\ r.version = s.version => r = s
    BY <2>1 DEF SnapshotInv
  <2> QED BY <2>1, <2>2 DEF SnapshotInv
<1>7. CASE /\ ~ Resets
           /\ \/ \E d \in Distros, n \in Names : MirrorChanges(d, n)
              \/ UNCHANGED vars
              \/ \E n \in Names : FeedPackage(n) \/ StoreArtifacts(n) \/ PackageFails(n)
              \/ DistroStep /\ ~ FetchPackages /\ ~ ListExistingPackages
                   /\ ~ ListContents
  <2> USE <1>7, FindUnseenReads DEF MirrorChanges, vars, FeedPackage, StoreArtifacts,
       PackageFails, Resets, DistroStep, WorkersDone, CollectResults, ReplaceBatch,
       ReplaceDone, DeleteUnseen, UploadPackageList, ConsolidateFzfIndex,
       ConsolidateSymbolsIndex, PutMeta, GoOn
  <2>1. /\ UNCHANGED <<pv, epoch, distro, packages, existing>>
        /\ pkgvers' \cup results' \subseteq pkgvers \cup results
    OBVIOUS
  <2>2. /\ phase' \in {"fetch", "existing"} => phase = phase'
        /\ phase' \in {"feed", "collect", "replace", "find", "delete"} =>
             phase \in {"feed", "collect", "replace", "find", "delete"}
    OBVIOUS
  <2>3. \A n \in Names : active'[n] = "sending" => active[n] = "sending"
    BY DEF IInv, TypeOK
  <2>4. short => short'
    BY ONLY <1>7, [Next]_vars, ShortStays
  <2> QED BY ONLY IInv, EpochInv, SnapshotInv, [Next]_vars, <2>1, <2>2, <2>3, <2>4,
                  SnapshotKeeps
<1> QED BY <1>1, <1>2, <1>3, <1>4, <1>5, <1>6, <1>7
        DEF Next, PackageStep, DistroStep, Resets

-------------------------------------------------------------------------------
(* Contents and the mirror.                                                  *)

LEMMA ReplacedStep ==
  ASSUME IInv, ReplacedInv, [Next]_vars
  PROVE  ReplacedInv'
<1>1. CASE ReplaceBatch
  <2>1. PICK batch \in SUBSET pending, m \in {0} \cup {c.id : c \in dc} :
          /\ \E ids \in Bijection(batch, m + 1 .. m + Cardinality(batch)) :
               dc' = ReplaceRows(batch, ids)
          /\ pending' = pending \ batch
    BY <1>1 DEF ReplaceBatch
  <2>2. PICK ids : dc' = ReplaceRows(batch, ids)
    BY <2>1
  <2>3. phase = "replace" /\ UNCHANGED <<distro, pkgvers>> /\ pending \subseteq pkgvers
    BY <1>1 DEF ReplaceBatch, IInv, CopiesInv
  <2>4. ASSUME NEW r \in pkgvers \ (pending \ batch)
        PROVE  \E c \in dc' : c.distro = distro /\ c.name = r.name /\ c.current = r.id
    <3>1. CASE r \in batch
      <4>1. [id |-> ids[r], distro |-> distro, name |-> r.name, current |-> r.id] \in dc'
        BY <2>2, <3>1 DEF ReplaceRows
      <4> QED BY <4>1
    <3>2. CASE r \notin batch
      <4>1. PICK c \in dc : c.distro = distro /\ c.name = r.name /\ c.current = r.id
        BY <2>3, <2>4, <3>2 DEF ReplacedInv
      <4>2. r.name \notin NamesOf(batch)
        BY <2>1, <2>3, <3>2 DEF NamesOf, IInv, PoolInv
      <4>3. c \in dc'
        BY <2>2, <4>1, <4>2 DEF ReplaceRows
      <4> QED BY <4>1, <4>3
    <3> QED BY <3>1, <3>2
  <2> QED BY <2>1, <2>3, <2>4 DEF ReplacedInv
<1>2. CASE CollectResults
  <2>1. phase' = "skipped" \/ pending' = pkgvers'
    BY <1>2 DEF CollectResults
  <2>2. phase' = "skipped" \/ pkgvers' \ pending' = {}
    BY <2>1
  <2> QED BY <2>2 DEF ReplacedInv
<1>3. CASE \/ UNCHANGED <<dc, distro, pkgvers, pending>>
                /\ (phase' = phase \/ phase \in {"replace", "find"})
           \/ phase' \notin {"replace", "find", "delete"}
  BY <1>3 DEF ReplacedInv
<1>4. ASSUME NEW n \in Names, SkipPackage(n) \/ SendResult(n)
      PROVE  ReplacedInv'
  <2>1. phase' = "feed"
    <3>1. CASE SkipPackage(n)
      BY <3>1 DEF SkipPackage
    <3>2. CASE SendResult(n)
      <4>1. active[n] # "no" /\ phase' = phase
        BY <3>2 DEF SendResult
      <4> QED BY <4>1 DEF IInv, PoolInv
    <3> QED BY <1>4, <3>1, <3>2
  <2> QED BY <2>1 DEF ReplacedInv
<1>5. CASE Resets
  BY <1>3, <1>5, ResetStep
<1> QED
  BY <1>1, <1>2, <1>3, <1>4, <1>5 DEF Next, vars, Resets, MirrorChanges, PackageStep,
     FeedPackage, StoreArtifacts, RecordPackageVersion, RecordUnread, RecordRow,
     PackageFails, DistroStep, FetchPackages, ListExistingPackages, WorkersDone,
     ReplaceDone, FindUnseen, DeleteUnseen, ListContents, UploadPackageList,
     ConsolidateFzfIndex, ConsolidateSymbolsIndex, PutMeta, GoOn

(* The rows that a run would delete are none, if the snapshot has every      *)
(* package that was ever listed.                                             *)
LEMMA NothingUnseen ==
  ASSUME IInv, CoverInv, KeptInv, phase = "find", Clean,
         NEW rows \in SUBSET ListDistroContents(distro)
  PROVE  UnseenIds(rows) = {}
<1> SUFFICES ASSUME NEW r \in rows, r.name \notin NamesOf(pkgvers)
             PROVE  FALSE
  BY DEF UnseenIds
<1>1. r \in pv
  BY DEF ListDistroContents
<1>2. PICK c \in dc : c.distro = distro /\ c.current = r.id
  BY DEF ListDistroContents
<1>3. PICK s \in pv : s.id = c.current /\ s.name = c.name
  BY DEF IInv, ContentsSound
<1>4. s = r
  BY <1>1, <1>2, <1>3 DEF IInv, RowsInv
<1>5. c.name \in Available
  BY <1>2 DEF KeptInv
<1> QED BY <1>3, <1>4, <1>5 DEF CoverInv

LEMMA KeptStep ==
  ASSUME Removable = {}, IInv, SnapshotInv, CoverInv, KeptInv, [Next]_vars
  PROVE  KeptInv'
<1>1. ASSUME NEW d \in Distros, NEW n \in Names, MirrorChanges(d, n)
      PROVE  KeptInv'
  <2>1. PICK v \in Versions : mirror' = [mirror EXCEPT ![d][n] = v]
    BY <1>1 DEF MirrorChanges
  <2>2. UNCHANGED <<dc, distro, phase, packages, doomed, errored, short>>
    BY <1>1 DEF MirrorChanges
  <2>3. \A e \in Distros, m \in Names :
          mirror[e][m] # NoVersion => mirror'[e][m] # NoVersion
    BY <2>1 DEF IInv, TypeOK
  <2>4. \A m \in Available' : distro' \in Distros /\ mirror'[distro'][m] # NoVersion
    BY <2>2, <2>3 DEF KeptInv, Available
  <2>5. \A c \in dc' : mirror'[c.distro][c.name] # NoVersion
    BY <2>2, <2>3 DEF KeptInv, IInv, TypeOK, Contents
  <2>6. /\ phase' \notin {"pick", "fetch"} =>
             \A c \in dc' : c.distro = distro' => c.name \in Available'
        /\ phase' = "delete" /\ Clean' => doomed' = {}
    BY <2>2 DEF KeptInv, Available, Clean
  <2> QED BY <2>4, <2>5, <2>6 DEF KeptInv
<1>2. CASE Resets
  <2>1. /\ UNCHANGED <<mirror, dc>> /\ packages' = [n \in Names |-> NoVersion]
        /\ phase' \in {"pick", "fetch"}
    BY <1>2, ResetStep DEF Fresh
  <2>2. Available' = {}
    BY <2>1 DEF Available
  <2> QED BY <2>1, <2>2 DEF KeptInv
<1>3. CASE FetchPackages
  <2>1. /\ UNCHANGED <<mirror, dc, distro>> /\ packages' = mirror[distro]
        /\ phase' = "existing" /\ phase = "fetch"
    BY <1>3 DEF FetchPackages
  <2>2. distro \in Distros
    BY <2>1 DEF IInv, TypeOK
  <2>3. Available' = {n \in Names : mirror[distro][n] # NoVersion}
    BY <2>1 DEF Available
  <2>4. \A c \in dc : c.name \in Names
    BY DEF IInv, TypeOK, Contents
  <2> QED BY <2>1, <2>2, <2>3, <2>4 DEF KeptInv
<1>4. CASE ReplaceBatch
  <2>1. PICK batch \in SUBSET pending, m \in {0} \cup {c.id : c \in dc} :
          \E ids \in Bijection(batch, m + 1 .. m + Cardinality(batch)) :
               dc' = ReplaceRows(batch, ids)
    BY <1>4 DEF ReplaceBatch
  <2>2. PICK ids : dc' = ReplaceRows(batch, ids)
    BY <2>1
  <2>3. /\ phase = "replace" /\ UNCHANGED <<mirror, distro, phase, packages>>
        /\ pending \subseteq pkgvers
    BY <1>4 DEF ReplaceBatch, IInv, CopiesInv
  <2>4. Available' = Available
    BY <2>3 DEF Available
  <2>5. ASSUME NEW r \in batch PROVE r.name \in Available
    <3>1. r \in Rows /\ GoodEnough(r)
      BY <2>1, <2>3 DEF SnapshotInv, IInv, TypeOK
    <3> QED BY <3>1 DEF GoodEnough, Available, Rows
  <2>6. ASSUME NEW c \in dc'
        PROVE  \/ c \in dc
               \/ c.distro = distro /\ c.name \in Available
    <3>1. \/ c \in dc
          \/ \E r \in batch : c = [id |-> ids[r], distro |-> distro, name |-> r.name,
                                   current |-> r.id]
      BY <2>2 DEF ReplaceRows
    <3> QED BY <2>5, <3>1
  <2> QED BY <2>3, <2>4, <2>6 DEF KeptInv
<1>5. CASE FindUnseen
  <2>1. PICK rows \in SUBSET ListDistroContents(distro) :
          /\ UNCHANGED <<mirror, dc, distro, packages, errored>>
          /\ doomed' = UnseenIds(rows)
          /\ phase = "find" /\ (short => short')
    BY <1>5 DEF FindUnseen
  <2>2. Clean' => doomed' = {}
    BY <2>1, NothingUnseen DEF Clean
  <2>3. Available' = Available
    BY <2>1 DEF Available
  <2> QED BY <2>1, <2>2, <2>3 DEF KeptInv
<1>6. CASE /\ UNCHANGED <<mirror, distro, packages>> /\ dc' \subseteq dc
           /\ phase \in {"pick", "fetch"} => phase' \in {"pick", "fetch"}
           /\ phase' = "delete" /\ Clean' =>
                phase = "delete" /\ Clean /\ doomed' = doomed
  <2>1. Available' = Available
    BY <1>6 DEF Available
  <2> QED BY <1>6, <2>1 DEF KeptInv
<1>7. ASSUME NEW n \in Names, PackageStep(n), ~ UploadPanics(n) PROVE KeptInv'
  <2>1. /\ UNCHANGED <<mirror, distro, packages>> /\ dc' \subseteq dc
        /\ phase' = phase /\ doomed' = doomed
        /\ Clean' => Clean
    BY <1>7 DEF PackageStep, SkipPackage, SendResult, FeedPackage, StoreArtifacts,
       RecordPackageVersion, RecordUnread, RecordRow, PackageFails, Clean
  <2> QED BY <1>6, <2>1
<1>8. CASE \/ UNCHANGED vars
           \/ DistroStep /\ ~ FetchPackages /\ ~ ReplaceBatch /\ ~ FindUnseen /\ ~ Resets
  BY <1>6, <1>8 DEF vars, Resets, DistroStep, ListExistingPackages, WorkersDone,
     CollectResults, ReplaceDone, DeleteUnseen, ListContents, UploadPackageList,
     ConsolidateFzfIndex, ConsolidateSymbolsIndex, PutMeta, GoOn, Clean
<1> QED BY <1>1, <1>2, <1>3, <1>4, <1>5, <1>7, <1>8 DEF Next, DistroStep, Resets

-------------------------------------------------------------------------------
(* No package is forgotten.                                                  *)

(* Steps that change nothing CoverInv reads, in phases of which it says      *)
(* nothing or in which it says the same.                                     *)
LEMMA CoverKeeps ==
  ASSUME CoverInv, Clean' => Clean,
         UNCHANGED <<pv, dc, epoch, distro, packages, unfed, active, results, pkgvers>>,
         \/ phase' = phase
         \/ phase' \in {"pick", "fetch", "existing", "skipped"}
         \/ {phase, phase'} \subseteq {"replace", "find", "delete"}
         \/ {phase, phase'} \subseteq {"packages", "fzf", "symbols", "done"}
  PROVE  CoverInv'
<1>1. Available' = Available /\ ListDistroContents(distro)' = ListDistroContents(distro)
  BY DEF Available, ListDistroContents
<1>2. \A r : GoodEnough(r)' = GoodEnough(r)
  BY DEF GoodEnough
<1>3. NamesOf(pkgvers \cup results)' = NamesOf(pkgvers \cup results)
        /\ NamesOf(pkgvers)' = NamesOf(pkgvers)
  BY DEF NamesOf
<1> QED BY <1>1, <1>2, <1>3 DEF CoverInv

(* Steps of the pool: a package leaves it with a result or an error.         *)
LEMMA CoverPackage ==
  ASSUME IInv, CoverInv, NEW n \in Names, PackageStep(n), ~ UploadPanics(n)
  PROVE  CoverInv'
<1>1. CASE PackageFails(n) \/ RecordUnread(n)
  BY <1>1 DEF PackageFails, RecordUnread, CoverInv, Clean
<1>2. CASE SkipPackage(n) \/ FeedPackage(n) \/ StoreArtifacts(n)
             \/ RecordPackageVersion(n) \/ SendResult(n)
  <2>1. phase' = "feed" /\ phase = "feed" /\ UNCHANGED <<packages, errored, short>>
    <3>1. CASE SkipPackage(n) \/ FeedPackage(n)
      BY <3>1 DEF SkipPackage, FeedPackage
    <3>2. CASE StoreArtifacts(n) \/ RecordPackageVersion(n) \/ SendResult(n)
      <4>1. active[n] # "no" /\ UNCHANGED <<phase, packages, errored, short>>
        BY <3>2 DEF StoreArtifacts, RecordPackageVersion, RecordRow, SendResult
      <4> QED BY <4>1 DEF IInv, PoolInv
    <3> QED BY <1>2, <3>1, <3>2
  <2>2. /\ pkgvers \subseteq pkgvers' /\ results \subseteq results'
        /\ unfed \ {n} \subseteq unfed'
        /\ \A m \in Names : m # n => active'[m] = active[m]
        /\ \/ active'[n] # "no"
           \/ n \in NamesOf(pkgvers' \cup results')
    <3>1. CASE SkipPackage(n)
      BY <3>1 DEF SkipPackage, NamesOf
    <3>2. CASE SendResult(n)
      BY <3>2 DEF SendResult, NamesOf, SameVersion, IInv, TypeOK
    <3>3. CASE FeedPackage(n) \/ StoreArtifacts(n) \/ RecordPackageVersion(n)
      BY <3>3 DEF FeedPackage, StoreArtifacts, RecordPackageVersion, RecordRow, IInv, TypeOK
    <3> QED BY <1>2, <3>1, <3>2, <3>3
  <2>3. NamesOf(pkgvers \cup results) \subseteq NamesOf(pkgvers' \cup results')
    BY <2>2 DEF NamesOf
  <2>4. ASSUME Clean', NEW m \in Available'
        PROVE  \/ m \in unfed' \/ active'[m] # "no"
               \/ m \in NamesOf(pkgvers' \cup results')
    <3>1. m \in Available /\ m \in Names
      BY <2>1 DEF Available
    <3>2. m \in unfed \/ active[m] # "no" \/ m \in NamesOf(pkgvers \cup results)
      BY <2>1, <2>4, <3>1 DEF CoverInv, Clean
    <3> QED BY <2>2, <2>3, <3>1, <3>2
  <2>5. NamesOf(pkgvers \cup results)' = NamesOf(pkgvers' \cup results')
    BY DEF NamesOf
  <2> QED BY <2>1, <2>4, <2>5 DEF CoverInv, Clean
<1> QED BY <1>1, <1>2 DEF PackageStep

LEMMA CoverStep ==
  ASSUME IInv, EpochInv, SnapshotInv, CoverInv, ReplacedInv, KeptInv, [Next]_vars
  PROVE  CoverInv'
<1>1. ASSUME NEW n \in Names, PackageStep(n), ~ UploadPanics(n) PROVE CoverInv'
  BY <1>1, CoverPackage
<1>2. CASE ListExistingPackages
  <2>1. /\ packages' = packages /\ unfed' = Available /\ phase' = "feed"
    BY <1>2 DEF ListExistingPackages
  <2>2. Available' = Available
    BY <2>1 DEF Available
  <2> QED BY <2>1, <2>2 DEF CoverInv, Clean
<1>3. CASE WorkersDone
  <2>1. /\ UNCHANGED <<packages, pkgvers, results, errored, short>> /\ phase' = "collect"
        /\ phase = "feed" /\ unfed = {} /\ \A n \in Names : active[n] = "no"
    BY <1>3 DEF WorkersDone
  <2>2. Available' = Available /\ Available \subseteq Names
        /\ NamesOf(pkgvers \cup results)' = NamesOf(pkgvers \cup results)
    BY <2>1 DEF Available, NamesOf
  <2> QED BY <2>1, <2>2 DEF CoverInv, Clean
<1>4. CASE CollectResults
  <2>1. /\ UNCHANGED <<packages, errored, short>> /\ pkgvers' = pkgvers \cup results
        /\ phase = "collect" /\ phase' \in {"skipped", "replace"}
    BY <1>4 DEF CollectResults
  <2>2. Available' = Available /\ NamesOf(pkgvers)' = NamesOf(pkgvers \cup results)
    BY <2>1 DEF Available, NamesOf
  <2> QED BY <2>1, <2>2 DEF CoverInv, Clean
<1>5. CASE ReplaceBatch
  <2>1. /\ UNCHANGED <<packages, pkgvers, errored, short, phase>> /\ phase = "replace"
    BY <1>5 DEF ReplaceBatch
  <2>2. Available' = Available /\ NamesOf(pkgvers)' = NamesOf(pkgvers)
    BY <2>1 DEF Available, NamesOf
  <2> QED BY <2>1, <2>2 DEF CoverInv, Clean
<1>6. CASE DeleteUnseen
  <2>1. /\ UNCHANGED <<pv, epoch, distro, packages, pkgvers, errored, short>>
        /\ phase = "delete" /\ phase' = "list"
        /\ dc' = {c \in dc : c.id \notin doomed}
    BY <1>6 DEF DeleteUnseen
  <2>2. ASSUME Clean, NEW n \in Available
        PROVE  \E r \in ListDistroContents(distro)' : r.name = n /\ GoodEnough(r)'
    <3>1. dc' = dc
      BY <2>1, <2>2 DEF KeptInv
    <3>2. PICK r \in pkgvers : r.name = n
      BY <2>1, <2>2 DEF CoverInv, NamesOf
    <3>3. PICK c \in dc : c.distro = distro /\ c.current = r.id
      <4>1. pending = {}
        BY <2>1 DEF IInv, PoolInv
      <4> QED BY <2>1, <4>1 DEF ReplacedInv
    <3>4. PICK s \in pv : /\ s.id = r.id /\ s.name = r.name /\ s.version = r.version
                          /\ s.epoch >= r.epoch
      BY <2>2 DEF SnapshotInv, RowOf, Clean
    <3>5. s \in ListDistroContents(distro)'
      BY <2>1, <3>1, <3>3, <3>4 DEF ListDistroContents
    <3>6. GoodEnough(r)
      BY <2>1 DEF SnapshotInv
    <3>7. s.epoch \in Nat /\ r.epoch \in Nat /\ epoch \in Nat
      BY DEF IInv, TypeOK, Rows
    <3>8. s.epoch >= epoch
      <4>1. r.epoch >= epoch
        BY <3>6 DEF GoodEnough
      <4> QED BY ONLY <3>4, <3>7, <4>1
    <3>9. GoodEnough(s)'
      BY <2>1, <3>4, <3>6, <3>8 DEF GoodEnough
    <3> QED BY <3>2, <3>4, <3>5, <3>9
  <2>3. Available' = Available
    BY <2>1 DEF Available
  <2> QED BY <2>1, <2>2, <2>3 DEF CoverInv, Clean
<1>7. CASE ListContents
  <2>1. /\ UNCHANGED <<pv, dc, epoch, distro, packages, errored>>
        /\ Clean' => Clean /\ pkgvers' = ListDistroContents(distro)
        /\ phase = "list" /\ phase' = "packages"
    BY <1>7 DEF ListContents, Clean
  <2>2. Available' = Available /\ \A r : GoodEnough(r)' = GoodEnough(r)
    BY <2>1 DEF Available, GoodEnough
  <2> QED BY <2>1, <2>2 DEF CoverInv, Clean
<1>8. CASE Resets \/ FetchPackages
  <2>1. phase' \in {"pick", "fetch", "existing"}
    BY <1>8, ResetStep DEF FetchPackages
  <2> QED BY <2>1 DEF CoverInv
<1>9. CASE /\ ~ Resets
           /\ \/ \E d \in Distros, n \in Names : MirrorChanges(d, n)
              \/ UNCHANGED vars \/ ReplaceDone \/ FindUnseen
              \/ UploadPackageList \/ ConsolidateFzfIndex \/ ConsolidateSymbolsIndex
  <2>1. /\ UNCHANGED <<pv, dc, epoch, distro, packages, unfed, active, results, pkgvers>>
        /\ ~ errored' => ~ errored
    BY <1>9, FindUnseenReads DEF MirrorChanges, vars, ReplaceDone, UploadPackageList,
       ConsolidateFzfIndex, ConsolidateSymbolsIndex, PutMeta, GoOn
  <2>2. \/ phase' = phase
        \/ {phase, phase'} \subseteq {"replace", "find", "delete"}
        \/ {phase, phase'} \subseteq {"packages", "fzf", "symbols", "done"}
    BY <1>9, FindUnseenReads DEF MirrorChanges, vars, ReplaceDone, UploadPackageList,
       ConsolidateFzfIndex, ConsolidateSymbolsIndex, PutMeta, GoOn
  <2>3. Clean' => Clean
    BY <1>9, <2>1, ShortStays DEF Clean
  <2> QED BY <2>1, <2>2, <2>3, CoverKeeps
<1> QED BY <1>1, <1>2, <1>3, <1>4, <1>5, <1>6, <1>7, <1>8, <1>9
        DEF Next, DistroStep, Resets

-------------------------------------------------------------------------------
(* The consolidated files.                                                   *)

LEMMA FilesPut ==
  ASSUME IInv, FilesInv, NEW ph, NEW next, NEW m, PutMeta(ph, m), GoOn(next),
         \/ ph = "packages" /\ next = "fzf" /\ m = WithPackages
         \/ ph = "fzf" /\ next = "symbols" /\ m = WithFzf
         \/ ph = "symbols" /\ next = "done" /\ m = WithSymbols
  PROVE  FilesInv'
<1>1. /\ phase = ph /\ phase' = next /\ UNCHANGED <<distro, pkgvers>>
      /\ meta' = [meta EXCEPT ![distro] = m]
  BY DEF PutMeta, GoOn
<1>2. distro \in Distros
  BY <1>1 DEF IInv, TypeOK
<1>3. PICK old \in [packages : SUBSET Entries, fzf : SUBSET Entries,
                    symbols : SUBSET Entries] : old = meta[distro]
  BY <1>2 DEF IInv, TypeOK
<1>4. meta'[distro'] = m
  BY <1>1, <1>2 DEF IInv, TypeOK
<1>5. Listed' = Listed /\ FzfEntries' = FzfEntries
  BY <1>1 DEF Listed, FzfEntries
<1>6. CASE next = "fzf"
  <2>1. m = [old EXCEPT !.packages = Listed]
    BY <1>3, <1>6 DEF WithPackages
  <2>2. m.packages = Listed
    BY <1>3, <2>1
  <2> QED BY <1>1, <1>4, <1>5, <1>6, <2>2 DEF FilesInv
<1>7. CASE next = "symbols"
  <2>1. m = [old EXCEPT !.fzf = FzfEntries] /\ old.packages = Listed
    BY <1>1, <1>3, <1>7 DEF WithFzf, FilesInv
  <2>2. m.packages = Listed /\ m.fzf = FzfEntries
    BY <1>3, <2>1
  <2> QED BY <1>1, <1>4, <1>5, <1>7, <2>2 DEF FilesInv
<1>8. CASE next = "done"
  <2>1. /\ m = [old EXCEPT !.symbols = Listed]
        /\ old.packages = Listed /\ old.fzf = FzfEntries
    BY <1>1, <1>3, <1>8 DEF WithSymbols, FilesInv
  <2>2. m.packages = Listed /\ m.fzf = FzfEntries /\ m.symbols = Listed
    BY <1>3, <2>1
  <2> QED BY <1>1, <1>4, <1>5, <1>8, <2>2 DEF FilesInv
<1> QED BY <1>6, <1>7, <1>8

LEMMA FilesStep ==
  ASSUME IInv, FilesInv, [Next]_vars
  PROVE  FilesInv'
<1>1. CASE UploadPackageList \/ ConsolidateFzfIndex \/ ConsolidateSymbolsIndex
  BY <1>1, FilesPut DEF UploadPackageList, ConsolidateFzfIndex, ConsolidateSymbolsIndex
<1>2. CASE Resets
  <2>1. phase' \in {"pick", "fetch"}
    BY <1>2, ResetStep
  <2> QED BY <2>1 DEF FilesInv
<1>3. CASE \/ UNCHANGED <<meta, distro, pkgvers, phase>>
           \/ phase' \notin {"fzf", "symbols", "done"}
  <2>1. UNCHANGED <<distro, pkgvers>> => Listed' = Listed /\ FzfEntries' = FzfEntries
    BY DEF Listed, FzfEntries
  <2> QED BY <1>3, <2>1 DEF FilesInv
<1>4. ASSUME NEW n \in Names, SkipPackage(n)
      PROVE  FilesInv'
  BY <1>3, <1>4 DEF SkipPackage
<1> QED
  BY <1>1, <1>2, <1>3, <1>4 DEF Next, vars, Resets, MirrorChanges, PackageStep,
     FeedPackage, StoreArtifacts, RecordPackageVersion, RecordUnread, RecordRow,
     SendResult, PackageFails, DistroStep, FetchPackages, ListExistingPackages,
     WorkersDone, CollectResults, ReplaceBatch, ReplaceDone, FindUnseen, DeleteUnseen,
     ListContents

(* The three files of a distribution are never from different lists once     *)
(* their step is over: packages.json, paths.fzf and symbols.txt all name the *)
(* contents that ListContents read, whichever runs and removals came before. *)
THEOREM FilesAgree == Spec => []FilesInv
<1>1. Init => FilesInv
  BY DoneInit DEF DoneInv
<1>2. IInv /\ FilesInv /\ [Next]_vars => FilesInv'
  BY FilesStep
<1> QED BY <1>1, <1>2, Invariance, PTL DEF Spec

-------------------------------------------------------------------------------
LEMMA DoneFollows ==
  ASSUME IInv, DoneInv
  PROVE  DoneMirrors
<1> SUFFICES ASSUME phase = "done", Clean
             PROVE  /\ \A n \in Available : \E e \in meta[distro].packages :
                         e.name = n /\ e.version = packages[n] /\ e.epoch >= epoch
                    /\ meta[distro].symbols = meta[distro].packages
                    /\ NamesOf(meta[distro].fzf) = NamesOf(meta[distro].packages) \ FzfSkipped
  BY DEF DoneMirrors, Clean
<1>1. /\ meta[distro].packages = Listed /\ meta[distro].symbols = Listed
      /\ meta[distro].fzf = FzfEntries
  BY DEF DoneInv, FilesInv
<1>2. ASSUME NEW n \in Available
      PROVE  \E e \in Listed : e.name = n /\ e.version = packages[n] /\ e.epoch >= epoch
  <2>1. PICK r \in pkgvers : r.name = n /\ GoodEnough(r)
    BY DEF DoneInv, CoverInv
  <2>2. Entry(distro, r) \in Listed
    BY DEF Listed
  <2> QED BY <2>1, <2>2 DEF Entry, GoodEnough
<1>3. NamesOf(FzfEntries) = NamesOf(Listed) \ FzfSkipped
  BY DEF NamesOf, FzfEntries
<1> QED BY <1>1, <1>2, <1>3

(* As long as the mirror removes no package, a distribution that ends        *)
(* without an error, and whose queries delivered all their rows, lists every *)
(* package of the snapshot, in its version and at this build's epoch or a    *)
(* later one, whatever crashed or failed before, and its three files were    *)
(* made from one list.                                                       *)
THEOREM DoneListsAll ==
  ASSUME Removable = {}
  PROVE  Spec => []DoneMirrors
<1>1. Init => DoneInv
  BY DoneInit
<1>2. IInv /\ EpochInv /\ DoneInv /\ [Next]_vars => DoneInv'
  BY SnapshotStep, CoverStep, ReplacedStep, KeptStep, FilesStep DEF DoneInv
<1>3. Spec => []EpochInv
  BY EpochInit, EpochStep, Invariance, PTL DEF Spec
<1>4. IInv /\ DoneInv => DoneMirrors
  BY DoneFollows
<1> QED BY <1>1, <1>2, <1>3, <1>4, Invariance, PTL DEF Spec

===============================================================================
