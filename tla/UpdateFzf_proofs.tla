-------------------------- MODULE UpdateFzf_proofs --------------------------
(* Two components that have nothing in common but this module.               *)
(*                                                                           *)
(* GrepUpdate: what an update is worth, for any number of distributions,     *)
(* packages, versions, files, restarts and changes of the lists: it can      *)
(* fetch what it was told of, and if it exits with 0 it has it, whole and    *)
(* unmixed.                                                                  *)
(*                                                                           *)
(* Fzf: for any packages, queries and size of the heap, the arena holds the  *)
(* trees that were published, and a search finds what matches and shows the  *)
(* best of it.                                                               *)
EXTENDS GrepUpdate, Fzf, WellFoundedInduction, TLAPS

-----------------------------------------------------------------------------
(* GrepUpdate.                                                               *)

(* The index of e is there, and every file of its archive, of that version.  *)
Complete(e) ==
  /\ e \in csi
  /\ \A f \in FilesOf[e] : src[DirOf(e)][f] = e

(* How far the update of e is: what is unpacked stays until it is done.      *)
Progress(e) ==
  LET p == DirOf(e) IN
  \/ task[p] = "csi"
  \/ task[p] = "tar" /\ e \in csi
  \/ /\ task[p] = "unpack" /\ e \in csi
     /\ \A f \in FilesOf[e] \ left[p] : src[p][f] = e
  \/ /\ task[p] = "copy" /\ e \in csi
     /\ \E g \in Files :
          /\ src[p][g] = Cut
          /\ \A f \in FilesOf[e] \ (left[p] \cup {g}) : src[p][f] = e
  \/ task[p] = "done" /\ (errored \/ Complete(e))

(* A list names one object per package of its distribution.                  *)
ListsInv ==
  \A d \in Distros :
    /\ listing[d] \subseteq store
    /\ \A e \in listing[d] : e.distro = d
    /\ \A e, f \in listing[d] : e.name = f.name => e = f

(* No directory belongs to two versions of the snapshot.                     *)
SnapshotInv ==
  /\ snapshot \subseteq store
  /\ \A e, f \in snapshot : DirOf(e) = DirOf(f) => e = f

(* One distribution after the other: those to come are not in the snapshot,  *)
(* and only tasks of the present one run.                                    *)
OrderInv ==
  updater \in {"list", "work"} =>
    /\ distro \notin todo
    /\ \A e \in snapshot : e.distro \notin todo
    /\ updater = "list" => ~ errored /\ \A e \in snapshot : e.distro # distro
    /\ \A p \in Dirs : updater = "list" \/ p[1] # distro => task[p] \in {"idle", "done"}

WorkInv ==
  /\ updater \in {"list", "exit 0"} => \A e \in snapshot : Complete(e)
  /\ updater = "work" =>
       \A e \in snapshot : IF e.distro = distro THEN Progress(e) ELSE Complete(e)

IInv == TypeOK /\ ListsInv /\ SnapshotInv /\ OrderInv /\ WorkInv

-----------------------------------------------------------------------------
(* Only these actions change the variables that the parts are about.         *)

LEMMA InitInv == Init => IInv
<1> SUFFICES ASSUME Init PROVE IInv
  OBVIOUS
<1>1. TypeOK
  <2>1. src \in [Dirs -> [Files -> Contents]]
    BY DEF Init, Contents
  <2>2. /\ task \in [Dirs -> {"idle", "csi", "tar", "unpack", "copy", "done"}]
        /\ left \in [Dirs -> SUBSET Files]
        /\ \A p \in Dirs : task[p] = "idle"
    BY DEF Init, NoTasks, NoFiles
  <2> QED BY <2>1, <2>2 DEF Init, CatalogInit, TypeOK
<1>2. ListsInv
  BY DEF Init, CatalogInit, ListsInv
<1> QED BY <1>1, <1>2 DEF Init, IInv, SnapshotInv, OrderInv, WorkInv

LEMMA TypeStep == ASSUME TypeOK, [Next]_vars PROVE TypeOK'
<1> USE FilesType DEF TypeOK, Contents, disk, proc, catalogVars
<1>1. CASE UNCHANGED vars
  BY <1>1 DEF vars, DirOf
<1>2. ASSUME NEW e \in Entries, PublisherStores(e) PROVE TypeOK'
  BY <1>2 DEF PublisherStores, StoreEntry, DirOf
<1>3. ASSUME NEW d \in Distros, PublisherLists(d) PROVE TypeOK'
  <2>1. PICK list \in SUBSET {e \in store : e.distro = d} :
          listing' = [listing EXCEPT ![d] = list]
    BY <1>3 DEF PublisherLists, PublishList
  <2>2. listing' \in [Distros -> SUBSET Entries]
    BY <2>1
  <2>3. store' = store /\ lists \in Nat /\ lists' = lists + 1
    BY <1>3 DEF PublisherLists, PublishList
  <2>4. lists' \in Nat
    BY ONLY <2>3
  <2>5. /\ UNCHANGED <<csi, tar, src, updater, runs, todo, distro>>
        /\ UNCHANGED <<snapshot, task, left, errored>>
    BY <1>3 DEF PublisherLists
  <2> QED BY <2>2, <2>3, <2>4, <2>5 DEF DirOf
<1>4. CASE StartUpdate
  <2>1. /\ task' \in [Dirs -> {"idle", "csi", "tar", "unpack", "copy", "done"}]
        /\ left' \in [Dirs -> SUBSET Files]
        /\ \A p \in Dirs : task'[p] = "idle"
    BY <1>4 DEF StartUpdate, NoTasks, NoFiles
  <2>2. runs' \in Nat
    <3>1. runs \in Nat /\ runs' = runs + 1
      BY <1>4 DEF StartUpdate
    <3> QED BY ONLY <3>1
  <2>3. todo' \subseteq Distros /\ distro' \in Distros
    BY <1>4 DEF StartUpdate
  <2> QED BY <1>4, <2>1, <2>2, <2>3 DEF StartUpdate
<1>5. CASE ListPackages
  <2>1. snapshot' = snapshot \cup listing[distro] /\ snapshot' \subseteq Entries
    BY <1>5 DEF ListPackages
  <2>2. task' \in [Dirs -> {"idle", "csi", "tar", "unpack", "copy", "done"}]
    BY <1>5 DEF ListPackages
  <2>3. ASSUME NEW p \in Dirs, task'[p] # "idle"
        PROVE  \E e \in snapshot' : DirOf(e) = p
    <3>1. CASE \E e \in listing[distro] : DirOf(e) = p
      BY <3>1, <2>1
    <3>2. CASE ~ \E e \in listing[distro] : DirOf(e) = p
      <4>1. task'[p] = task[p]
        BY <3>2, <1>5 DEF ListPackages
      <4> QED BY <4>1, <2>3, <2>1
    <3> QED BY <3>1, <3>2
  <2> QED BY <1>5, <2>1, <2>2, <2>3 DEF ListPackages, DirOf
<1>6. CASE ListFails
  BY <1>6 DEF ListFails, DirOf
<1>7. CASE UpdateDistroEnds
  BY <1>7 DEF UpdateDistroEnds, DirOf
<1>8. CASE Killed
  BY <1>8 DEF Killed, DirOf
<1>9. ASSUME NEW p \in Dirs, DownloadCsi(p) PROVE TypeOK'
  BY <1>9 DEF DownloadCsi, DirOf
<1>10. ASSUME NEW p \in Dirs, DownloadTar(p) PROVE TypeOK'
  BY <1>10 DEF DownloadTar, DirOf
<1>11. ASSUME NEW p \in Dirs, Unpacked(p) PROVE TypeOK'
  BY <1>11 DEF Unpacked, DirOf
<1>12. ASSUME NEW p \in Dirs, UpdateFails(p) PROVE TypeOK'
  BY <1>12 DEF UpdateFails, DirOf
<1>13. ASSUME NEW p \in Dirs, NEW f \in Files, CreateFile(p, f) PROVE TypeOK'
  BY <1>13 DEF CreateFile, DirOf
<1>14. ASSUME NEW p \in Dirs, NEW f \in Files, CopyFile(p, f) PROVE TypeOK'
  BY <1>14 DEF CopyFile, DirOf
<1> QED
  BY <1>1, <1>2, <1>3, <1>4, <1>5, <1>6, <1>7, <1>8, <1>9, <1>10, <1>11, <1>12,
     <1>13, <1>14 DEF Next, PackageStep

(* The updater changes neither the store nor the lists.                      *)
LEMMA CatalogSteps ==
  ASSUME [Next]_vars
  PROVE  \/ UNCHANGED catalogVars
         \/ \E e \in Entries : PublisherStores(e)
         \/ \E d \in Distros : PublisherLists(d)
  BY DEF Next, vars, PackageStep, StartUpdate, ListPackages, ListFails, UpdateDistroEnds,
     Killed, DownloadCsi, DownloadTar, Unpacked, UpdateFails, CreateFile, CopyFile

LEMMA ListsStep == ASSUME TypeOK, ListsInv, [Next]_vars PROVE ListsInv'
<1>1. CASE UNCHANGED catalogVars
  BY <1>1 DEF ListsInv, catalogVars
<1>2. ASSUME NEW e \in Entries, PublisherStores(e) PROVE ListsInv'
  BY <1>2 DEF ListsInv, PublisherStores, StoreEntry
<1>3. ASSUME NEW d \in Distros, PublisherLists(d) PROVE ListsInv'
  <2>1. PICK list \in SUBSET {e \in store : e.distro = d} :
          /\ \A e, f \in list : e.name = f.name => e = f
          /\ listing' = [listing EXCEPT ![d] = list]
    BY <1>3 DEF PublisherLists, PublishList
  <2>2. store' = store
    BY <1>3 DEF PublisherLists, PublishList
  <2>3. \A c \in Distros : listing'[c] = IF c = d THEN list ELSE listing[c]
    BY <2>1 DEF TypeOK
  <2> QED BY <2>1, <2>2, <2>3 DEF ListsInv
<1> QED BY <1>1, <1>2, <1>3, CatalogSteps

LEMMA StoreGrows == ASSUME [Next]_vars PROVE store \subseteq store'
  BY CatalogSteps DEF catalogVars, PublisherStores, StoreEntry, PublisherLists, PublishList

LEMMA SnapshotSteps ==
  ASSUME [Next]_vars
  PROVE  UNCHANGED snapshot \/ StartUpdate \/ ListPackages
  BY DEF Next, vars, proc, PackageStep, PublisherStores, PublisherLists, ListFails,
     UpdateDistroEnds, Killed, DownloadCsi, DownloadTar, Unpacked, UpdateFails,
     CreateFile, CopyFile

LEMMA SnapshotStep ==
  ASSUME TypeOK, ListsInv, SnapshotInv, OrderInv, [Next]_vars PROVE SnapshotInv'
<1>1. CASE UNCHANGED snapshot
  BY <1>1, StoreGrows DEF SnapshotInv, DirOf
<1>2. CASE StartUpdate
  BY <1>2 DEF StartUpdate, SnapshotInv
<1>3. CASE ListPackages
  <2>1. /\ snapshot' = snapshot \cup listing[distro] /\ store' = store
        /\ updater = "list" /\ distro \in Distros
    BY <1>3 DEF ListPackages, catalogVars, TypeOK
  <2>2. \A e \in snapshot : e.distro # distro
    BY <2>1 DEF OrderInv
  <2>3. \A e \in listing[distro] : e.distro = distro
    BY <2>1 DEF ListsInv
  <2>4. \A e, f \in listing[distro] : e.name = f.name => e = f
    BY <2>1 DEF ListsInv
  <2>5. ASSUME NEW e \in snapshot', NEW f \in snapshot', DirOf(e) = DirOf(f) PROVE e = f
    <3>1. e.distro = f.distro /\ e.name = f.name
      BY <2>5 DEF DirOf
    <3>2. CASE e \in snapshot /\ f \in snapshot
      BY <3>2, <2>5 DEF SnapshotInv
    <3>3. CASE e \in listing[distro] /\ f \in listing[distro]
      BY <3>3, <3>1, <2>4
    <3> QED BY <3>1, <3>2, <3>3, <2>1, <2>2, <2>3
  <2> QED BY <2>1, <2>5 DEF SnapshotInv, ListsInv, DirOf
<1> QED BY <1>1, <1>2, <1>3, SnapshotSteps

LEMMA OrderStep == ASSUME TypeOK, ListsInv, OrderInv, [Next]_vars PROVE OrderInv'
<1> USE DEF OrderInv
<1>1. CASE UNCHANGED proc
  BY <1>1 DEF proc
<1>2. CASE StartUpdate
  <2>1. \A p \in Dirs : task'[p] = "idle"
    BY <1>2 DEF StartUpdate, NoTasks
  <2> QED BY <1>2, <2>1 DEF StartUpdate
<1>3. CASE ListPackages
  <2>1. /\ updater = "list" /\ updater' = "work" /\ distro' = distro /\ todo' = todo
        /\ snapshot' = snapshot \cup listing[distro] /\ distro \in Distros
    BY <1>3 DEF ListPackages, TypeOK
  <2>2. \A e \in listing[distro] : e.distro = distro
    BY <2>1 DEF ListsInv
  <2>3. ASSUME NEW p \in Dirs, p[1] # distro PROVE task'[p] \in {"idle", "done"}
    <3>1. ~ \E e \in listing[distro] : DirOf(e) = p
      BY <2>2, <2>3 DEF DirOf
    <3>2. task'[p] = task[p]
      BY <1>3, <3>1 DEF ListPackages
    <3> QED BY <2>1, <3>2
  <2> QED BY <2>1, <2>2, <2>3
<1>4. CASE ListFails \/ Killed
  BY <1>4 DEF ListFails, Killed
<1>5. CASE UpdateDistroEnds
  BY <1>5 DEF UpdateDistroEnds
<1>6. ASSUME NEW p \in Dirs, PackageStep(p) PROVE OrderInv'
  <2>1. /\ updater = "work" /\ task[p] \notin {"idle", "done"}
        /\ UNCHANGED <<updater, distro, todo, snapshot>>
        /\ \E t \in {"tar", "unpack", "copy", "done"} : task' = [task EXCEPT ![p] = t]
    BY <1>6 DEF PackageStep, DownloadCsi, DownloadTar, Unpacked, UpdateFails,
                CreateFile, CopyFile
  <2>2. p[1] = distro
    BY <2>1
  <2>3. \A q \in Dirs : q # p => task'[q] = task[q]
    BY <2>1 DEF TypeOK
  <2> QED BY <2>1, <2>2, <2>3
<1> QED
  BY <1>1, <1>2, <1>3, <1>4, <1>5, <1>6
  DEF Next, vars, proc, PublisherStores, PublisherLists

-----------------------------------------------------------------------------
(* A step of one package leaves the others where they are.                   *)
LEMMA Untouched ==
  ASSUME NEW e, csi \subseteq csi',
         task'[DirOf(e)] = task[DirOf(e)], left'[DirOf(e)] = left[DirOf(e)],
         src'[DirOf(e)] = src[DirOf(e)], errored => errored'
  PROVE  (Complete(e) => Complete(e)') /\ (Progress(e) => Progress(e)')
<1>1. Complete(e) => Complete(e)'
  BY DEF Complete, DirOf
<1>2. Progress(e) => Progress(e)'
  BY <1>1 DEF Progress, DirOf
<1> QED BY <1>1, <1>2

LEMMA CutIsNoEntry == \A e \in Entries : e # Cut
<1> SUFFICES ASSUME NEW e \in Entries, e = Cut PROVE FALSE
  OBVIOUS
<1>1. "name" \in DOMAIN e
  BY DEF Entries
<1>2. DOMAIN Cut = {"distro"}
  BY DEF Cut
<1> QED BY <1>1, <1>2

(* The task that runs for a directory works on one object of the snapshot.   *)
LEMMA OneJob ==
  ASSUME TypeOK, SnapshotInv, OrderInv, updater = "work",
         NEW p \in Dirs, task[p] \notin {"idle", "done"}
  PROVE  \E e \in snapshot :
           /\ DirOf(e) = p /\ e.distro = distro
           /\ \A g \in snapshot : DirOf(g) = p => g = e
<1>1. PICK e \in snapshot : DirOf(e) = p
  BY DEF TypeOK
<1>2. p[1] = distro
  BY DEF OrderInv
<1>3. e.distro = distro
  BY <1>1, <1>2 DEF DirOf
<1> QED BY <1>1, <1>3 DEF SnapshotInv

LEMMA PackageStepWorks ==
  ASSUME IInv, NEW p \in Dirs, PackageStep(p) PROVE WorkInv'
<1> USE DEF IInv
<1>1. /\ updater = "work" /\ task[p] \notin {"idle", "done"}
      /\ UNCHANGED <<updater, distro, todo, snapshot>>
      /\ csi \subseteq csi' /\ (errored => errored')
      /\ \E t \in {"tar", "unpack", "copy", "done"} : task' = [task EXCEPT ![p] = t]
      /\ left' = left \/ \E fs : left' = [left EXCEPT ![p] = fs]
      /\ src' = src \/ \E fs : src' = [src EXCEPT ![p] = fs]
  BY DEF PackageStep, DownloadCsi, DownloadTar, Unpacked, UpdateFails,
         CreateFile, CopyFile, disk
<1>2. PICK e \in snapshot : /\ DirOf(e) = p /\ e.distro = distro
                            /\ \A g \in snapshot : DirOf(g) = p => g = e
  BY <1>1, OneJob
<1>3. Progress(e)
  BY <1>1, <1>2 DEF WorkInv
<1>4. \A g \in snapshot : g \in Entries /\ DirOf(g) \in Dirs
  BY DEF TypeOK, Entries, DirOf, Dirs
<1>5. \A g : Job(p, g) => g = e
  BY <1>2 DEF Job
<1>6. Progress(e)'
  <2>1. CASE DownloadCsi(p)
    BY <2>1, <1>2, <1>5 DEF DownloadCsi, Progress, TypeOK
  <2>2. CASE DownloadTar(p)
    <3>1. e \in csi
      BY <2>2, <1>2, <1>3 DEF DownloadTar, Progress
    <3>2. task'[p] = "unpack" /\ left'[p] = FilesOf[e] /\ csi' = csi
      BY <2>2, <1>5 DEF DownloadTar, TypeOK
    <3> QED BY <1>2, <3>1, <3>2 DEF Progress
  <2>3. ASSUME NEW f \in Files, CreateFile(p, f) PROVE Progress(e)'
    <3>1. e \in csi /\ \A g \in FilesOf[e] \ left[p] : src[p][g] = e
      BY <2>3, <1>2, <1>3 DEF CreateFile, Progress
    <3>2. /\ task'[p] = "copy" /\ left'[p] = left[p] \ {f} /\ csi' = csi
          /\ src'[p][f] = Cut /\ \A g \in Files \ {f} : src'[p][g] = src[p][g]
      BY <2>3 DEF CreateFile, TypeOK
    <3>3. \A g \in FilesOf[e] \ (left'[p] \cup {f}) : src'[p][g] = e
      BY <3>1, <3>2, <1>4, FilesType
    <3> QED BY <1>2, <3>1, <3>2, <3>3 DEF Progress
  <2>4. ASSUME NEW f \in Files, CopyFile(p, f) PROVE Progress(e)'
    <3>1. PICK g \in Files :
            /\ e \in csi /\ src[p][g] = Cut
            /\ \A h \in FilesOf[e] \ (left[p] \cup {g}) : src[p][h] = e
      BY <2>4, <1>2, <1>3 DEF CopyFile, Progress
    <3>2. /\ f \in FilesOf[e] \ left[p] /\ src[p][f] = Cut
          /\ src' = [src EXCEPT ![p][f] = e]
          /\ task'[p] = "unpack" /\ left' = left /\ csi' = csi
      BY <2>4, <1>5 DEF CopyFile, TypeOK
    <3>3. f = g
      BY <3>1, <3>2, <1>4, CutIsNoEntry
    <3>4. src'[p][f] = e /\ \A h \in Files \ {f} : src'[p][h] = src[p][h]
      BY <3>2 DEF TypeOK
    <3>5. \A h \in FilesOf[e] \ left[p] : src'[p][h] = e
      BY <3>1, <3>3, <3>4, <1>4, FilesType
    <3> QED BY <1>2, <3>1, <3>2, <3>5 DEF Progress
  <2>5. CASE Unpacked(p)
    <3>1. e \in csi /\ \A g \in FilesOf[e] : src[p][g] = e
      BY <2>5, <1>2, <1>3 DEF Unpacked, Progress
    <3>2. task'[p] = "done" /\ csi' = csi /\ src' = src
      BY <2>5 DEF Unpacked, TypeOK, disk
    <3> QED BY <1>2, <3>1, <3>2 DEF Progress, Complete
  <2>6. CASE UpdateFails(p)
    BY <2>6, <1>2 DEF UpdateFails, Progress, TypeOK
  <2> QED BY <2>1, <2>2, <2>3, <2>4, <2>5, <2>6 DEF PackageStep
<1>7. ASSUME NEW g \in snapshot, g # e
      PROVE  IF g.distro = distro THEN Progress(g)' ELSE Complete(g)'
  <2>1. DirOf(g) # p /\ DirOf(g) \in Dirs
    BY <1>2, <1>4, <1>7
  <2>2. /\ task'[DirOf(g)] = task[DirOf(g)] /\ left'[DirOf(g)] = left[DirOf(g)]
        /\ src'[DirOf(g)] = src[DirOf(g)]
    BY <1>1, <2>1 DEF TypeOK
  <2>3. IF g.distro = distro THEN Progress(g) ELSE Complete(g)
    BY <1>1 DEF WorkInv
  <2> QED BY <1>1, <2>2, <2>3, Untouched
<1> QED BY <1>1, <1>2, <1>6, <1>7 DEF WorkInv

LEMMA WorkStep == ASSUME IInv, [Next]_vars PROVE WorkInv'
<1> USE DEF IInv
<1>1. CASE UNCHANGED <<disk, proc>>
  BY <1>1 DEF disk, proc, WorkInv, Progress, Complete, DirOf
<1>2. CASE StartUpdate \/ ListFails \/ Killed
  BY <1>2 DEF StartUpdate, ListFails, Killed, WorkInv
<1>3. CASE ListPackages
  <2>1. /\ updater = "list" /\ updater' = "work" /\ distro' = distro /\ distro \in Distros
        /\ snapshot' = snapshot \cup listing[distro] /\ UNCHANGED <<csi, src>>
    BY <1>3 DEF ListPackages, TypeOK, disk
  <2>2. ASSUME NEW e \in snapshot PROVE e.distro # distro /\ Complete(e)'
    BY <2>1, <2>2 DEF OrderInv, WorkInv, Complete
  <2>3. ASSUME NEW e \in listing[distro] PROVE e.distro = distro /\ Progress(e)'
    <3>1. e.distro = distro /\ e \in Entries
      BY <2>1, <2>3 DEF ListsInv, TypeOK
    <3>2. DirOf(e) \in Dirs
      BY <3>1 DEF Entries, DirOf, Dirs
    <3>3. task'[DirOf(e)] = "csi"
      BY <1>3, <2>3, <3>2 DEF ListPackages
    <3> QED BY <3>1, <3>3 DEF Progress, DirOf
  <2> QED BY <2>1, <2>2, <2>3 DEF WorkInv
<1>4. CASE UpdateDistroEnds
  <2>1. ASSUME NEW e \in snapshot, ~ errored PROVE Complete(e)'
    <3>1. e \in Entries /\ DirOf(e) \in Dirs
      BY <2>1 DEF TypeOK, Entries, DirOf, Dirs
    <3>2. task[DirOf(e)] \in {"idle", "done"} /\ updater = "work"
      BY <1>4, <3>1 DEF UpdateDistroEnds
    <3>3. Complete(e)
      BY <2>1, <3>2 DEF WorkInv, Progress
    <3>4. UNCHANGED <<csi, src>>
      BY <1>4 DEF UpdateDistroEnds, disk
    <3> QED BY <3>3, <3>4 DEF Complete
  <2> QED BY <1>4, <2>1 DEF UpdateDistroEnds, WorkInv
<1>5. ASSUME NEW p \in Dirs, PackageStep(p) PROVE WorkInv'
  BY <1>5, PackageStepWorks
<1> QED
  BY <1>1, <1>2, <1>3, <1>4, <1>5 DEF Next, vars, PublisherStores, PublisherLists

LEMMA InvStep == ASSUME IInv, [Next]_vars PROVE IInv'
  BY TypeStep, ListsStep, SnapshotStep, OrderStep, WorkStep DEF IInv

LEMMA Invariant == Spec => []IInv
  BY InitInv, InvStep, PTL DEF Spec

-----------------------------------------------------------------------------
(* Every variable keeps its type, and a package with a task is one that the  *)
(* updater was told of.                                                      *)
THEOREM TypeCorrect == Spec => []TypeOK
<1>1. IInv => TypeOK
  BY DEF IInv
<1> QED BY <1>1, Invariant, PTL

(* Whatever the publisher lists while the updater works (grep/update.go      *)
(* reads a list once and then downloads for hours), the objects it has still *)
(* to download are there.                                                    *)
THEOREM SnapshotAvailable == Spec => []SnapshotFetchable
<1>1. IInv => SnapshotFetchable
  BY DEF IInv, SnapshotInv, SnapshotFetchable
<1> QED BY <1>1, Invariant, PTL

(* An update that exits with 0 leaves every package it listed whole: however *)
(* often earlier ones were killed, failed, or unpacked another version.      *)
THEOREM UpdateRepairs == Spec => []UpdatedIsSearchable
<1>1. IInv => UpdatedIsSearchable
  BY DEF IInv, WorkInv, Complete, UpdatedIsSearchable
<1> QED BY <1>1, Invariant, PTL

-----------------------------------------------------------------------------
(* Fzf.                                                                      *)

-----------------------------------------------------------------------------
(* Induction, and definitions by recursion, along two numbers: a set is said to *)
(* be inductive, and a function to compute, instead of operators that say so. *)

(* A set of numbers has a least one.                                         *)
LEMMA LeastNumber ==
  ASSUME NEW T, T \subseteq Nat, T # {}
  PROVE  \E x \in T : \A y \in T : x <= y
<1>1. PICK x \in T : \A y \in T : ~ (<<y, x>> \in OpToRel(<, Nat))
  BY NatLessThanWellFounded, WFMin
<1>2. \A y \in T : ~ (y < x)
  BY <1>1 DEF OpToRel
<1>3. \A y \in T : x <= y
  BY <1>2
<1> QED BY <1>3

(* Induction on numbers, as a fact about sets of them.                       *)
LEMMA SetInduction ==
  ASSUME NEW S, 0 \in S, \A n \in Nat : n \in S => n + 1 \in S
  PROVE  Nat \subseteq S
<1> DEFINE T == Nat \ S
<1> SUFFICES ASSUME T # {} PROVE FALSE
  OBVIOUS
<1>1. PICK x \in T : \A y \in T : x <= y
  <2>1. T \subseteq Nat
    OBVIOUS
  <2> HIDE DEF T
  <2> QED BY <2>1, LeastNumber
<1>2. x - 1 \in Nat /\ x - 1 \notin T
  BY <1>1
<1> QED BY <1>2

(* What is below x in S by one number, or, if that is the same, by another.  *)
Below(S, m, k, x) ==
  {y \in S : m[y] < m[x] \/ (m[y] = m[x] /\ k[y] < k[x])}

Measures(S, m, k) == m \in [S -> Nat] /\ k \in [S -> Nat]

Inductive(G, S, m, k) == \A x \in S : Below(S, m, k, x) \subseteq G => x \in G

(* F computes the value for an argument from the values below it.            *)
Computes(F, S, m, k, V) ==
  /\ F \in [[S -> V] -> [S -> V]]
  /\ \A g, h \in [S -> V] : \A x \in S :
       (\A y \in Below(S, m, k, x) : g[y] = h[y]) => F[g][x] = F[h][x]

(* A set has an element with nothing of the set below it.                    *)
LEMMA LeastElement ==
  ASSUME NEW S, NEW m, NEW k, Measures(S, m, k), NEW T, T \subseteq S, T # {}
  PROVE  \E x \in T : \A y \in T : y \notin Below(S, m, k, x)
<1> USE DEF Measures
<1> DEFINE M == {m[y] : y \in T}
<1>1. M # {} /\ M \subseteq Nat
  OBVIOUS
<1>2. PICK a \in M : \A b \in M : a <= b
  <2> HIDE DEF M
  <2> QED BY <1>1, LeastNumber
<1> DEFINE K == {k[y] : y \in {z \in T : m[z] = a}}
<1>3. K # {} /\ K \subseteq Nat
  OBVIOUS
<1>4. PICK b \in K : \A c \in K : b <= c
  <2> HIDE DEF K
  <2> QED BY <1>3, LeastNumber
<1>5. PICK x \in T : m[x] = a /\ k[x] = b
  BY <1>4
<1>6. ASSUME NEW y \in T PROVE y \notin Below(S, m, k, x)
  <2>1. a <= m[y] /\ a \in Nat /\ m[y] \in Nat /\ b \in Nat /\ k[y] \in Nat
    BY <1>2, <1>3
  <2>2. m[y] = a => b <= k[y]
    BY <1>4
  <2> QED BY <1>5, <2>1, <2>2 DEF Below
<1> QED BY <1>5, <1>6

(* Induction along these two numbers.                                        *)
LEMMA InductionBelow ==
  ASSUME NEW S, NEW m, NEW k, Measures(S, m, k), NEW G, Inductive(G, S, m, k)
  PROVE  S \subseteq G
<1> DEFINE T == S \ G
<1> SUFFICES ASSUME T # {} PROVE FALSE
  OBVIOUS
<1>1. PICK x \in T : \A y \in T : y \notin Below(S, m, k, x)
  BY LeastElement
<1>2. Below(S, m, k, x) \subseteq G
  BY <1>1 DEF Below
<1> QED BY <1>2 DEF Inductive

(* A function may be defined by what it is below each argument.  F computes  *)
(* its values from a function that is right below.                           *)
LEMMA RecursionBelow ==
  ASSUME NEW S, NEW m, NEW k, Measures(S, m, k), NEW V, V # {},
         NEW F, Computes(F, S, m, k, V)
  PROVE  \E f \in [S -> V] : f = F[f]
<1> USE DEF Measures, Computes
<1> DEFINE Closed(A) == A \subseteq S /\ \A x \in A : Below(S, m, k, x) \subseteq A
           Right(A, g) == Closed(A) /\ g \in [S -> V] /\ \A x \in A : g[x] = F[g][x]
<1>1. ASSUME NEW x \in S, NEW y \in Below(S, m, k, x) PROVE y \in S /\ y # x
  <2>1. m[x] \in Nat /\ k[x] \in Nat
    OBVIOUS
  <2> QED BY <2>1 DEF Below
<1>2. ASSUME NEW A, NEW B, NEW g, NEW h, Right(A, g), Right(B, h)
      PROVE  \A x \in A \cap B : g[x] = h[x]
  <2> DEFINE D == {x \in A \cap B : g[x] # h[x]}
  <2> SUFFICES ASSUME D # {} PROVE FALSE
    OBVIOUS
  <2>1. PICK x \in D : \A y \in D : y \notin Below(S, m, k, x)
    <3>1. D \subseteq S
      BY <1>2
    <3> QED BY <3>1, LeastElement
  <2>2. \A y \in Below(S, m, k, x) : g[y] = h[y]
    BY <1>2, <2>1
  <2>3. F[g][x] = F[h][x]
    BY <1>2, <2>2
  <2> QED BY <1>2, <2>1, <2>3
<1> DEFINE U == {x \in S : \E A, g : Right(A, g) /\ x \in A}
           Value(x) == CHOOSE v : \E A, g : Right(A, g) /\ x \in A /\ v = g[x]
           f == [x \in S |-> IF x \in U THEN Value(x) ELSE CHOOSE v \in V : TRUE]
<1>3. ASSUME NEW A, NEW g, Right(A, g), NEW x \in A PROVE x \in U /\ f[x] = g[x]
  <2>1. x \in S /\ x \in U
    BY <1>3
  <2>2. \E v : \E B, h : Right(B, h) /\ x \in B /\ v = h[x]
    BY <1>3
  <2>3. PICK B, h : Right(B, h) /\ x \in B /\ f[x] = h[x]
    <3>1. f[x] = Value(x)
      BY <2>1
    <3>2. \E B, h : Right(B, h) /\ x \in B /\ Value(x) = h[x]
      <4> HIDE DEF Right
      <4> QED BY <2>2
    <3> HIDE DEF f, Value, Right
    <3> QED BY <3>1, <3>2
  <2>4. h[x] = g[x]
    <3> HIDE DEF Right
    <3> QED BY <1>2, <1>3, <2>3
  <2> HIDE DEF f, U
  <2> QED BY <2>1, <2>3, <2>4
<1>4. f \in [S -> V]
  <2>1. ASSUME NEW x \in U PROVE Value(x) \in V
    <3>1. PICK A, g : Right(A, g) /\ x \in A
      OBVIOUS
    <3>2. f[x] = Value(x) /\ x \in S /\ g \in [S -> V]
      BY <3>1
    <3>3. f[x] = g[x]
      <4> HIDE DEF f, Right, U
      <4> QED BY <1>3, <3>1
    <3> HIDE DEF f, Value, U
    <3> QED BY <3>2, <3>3
  <2> QED BY <2>1
<1>5. Closed(U)
  <2>1. ASSUME NEW x \in U, NEW y \in Below(S, m, k, x) PROVE y \in U
    <3>1. PICK A, g : Right(A, g) /\ x \in A
      OBVIOUS
    <3> QED BY <1>3, <3>1
  <2> QED BY <2>1
<1> HIDE DEF f
<1>6. ASSUME NEW x \in U PROVE f[x] = F[f][x]
  <2>1. x \in S
    OBVIOUS
  <2>2. PICK A, g : Right(A, g) /\ x \in A
    OBVIOUS
  <2> HIDE DEF U
  <2>3. \A y \in Below(S, m, k, x) : f[y] = g[y]
    BY <1>3, <2>2
  <2>4. F[f][x] = F[g][x]
    BY <1>4, <2>1, <2>2, <2>3
  <2> QED BY <1>3, <2>2, <2>4
<1>7. U = S
  <2> SUFFICES ASSUME S \ U # {} PROVE FALSE
    OBVIOUS
  <2>1. PICK x \in S \ U : \A y \in S \ U : y \notin Below(S, m, k, x)
    <3> HIDE DEF U
    <3>1. S \ U \subseteq S
      OBVIOUS
    <3> QED BY <3>1, LeastElement
  <2> DEFINE g == [f EXCEPT ![x] = F[f][x]]
  <2>2. F[f][x] \in V
    BY <1>4
  <2>3. g \in [S -> V] /\ g[x] = F[f][x] /\ \A y \in S \ {x} : g[y] = f[y]
    BY <1>4, <2>2
  <2> HIDE DEF g, U
  <2>4. Closed(U \cup {x})
    BY <1>1, <1>5, <2>1
  <2>5. ASSUME NEW z \in U \cup {x} PROVE g[z] = F[g][z]
    <3>1. z \in S /\ \A y \in Below(S, m, k, z) : y \in U
      BY <1>1, <1>5, <2>1
    <3>2. \A y \in Below(S, m, k, z) : g[y] = f[y]
      BY <1>1, <2>1, <2>3, <3>1
    <3>3. F[g][z] = F[f][z]
      BY <1>4, <2>3, <3>1, <3>2
    <3> QED BY <1>6, <2>1, <2>3, <3>1, <3>3
  <2>6. Right(U \cup {x}, g)
    BY <2>3, <2>4, <2>5
  <2>7. x \in U
    <3> HIDE DEF Right
    <3> QED BY <1>3, <2>6
  <2> QED BY <2>1, <2>7
<1> HIDE DEF U
<1>8. f = F[f]
  <2>1. F[f] \in [S -> V]
    BY <1>4
  <2> QED BY <1>4, <1>6, <1>7, <2>1
<1> QED BY <1>4, <1>8

-----------------------------------------------------------------------------
(* Sequences.                                                                *)

(* t and what follows it.                                                    *)
LEMMA Joins ==
  ASSUME NEW S, NEW s \in Seq(S), NEW t \in Seq(S)
  PROVE  /\ s \o t \in Seq(S) /\ Len(s \o t) = Len(s) + Len(t)
         /\ \A i \in 1 .. Len(s) : (s \o t)[i] = s[i]
         /\ \A i \in 1 .. Len(t) : (s \o t)[Len(s) + i] = t[i]
OBVIOUS

LEMMA Appends ==
  ASSUME NEW S, NEW s \in Seq(S), NEW x \in S
  PROVE  /\ Append(s, x) \in Seq(S) /\ Len(Append(s, x)) = Len(s) + 1
         /\ \A i \in 1 .. Len(s) : Append(s, x)[i] = s[i]
         /\ Append(s, x)[Len(s) + 1] = x
OBVIOUS

(* A part of a sequence.                                                     *)
LEMMA Slices ==
  ASSUME NEW S, NEW s \in Seq(S), NEW k \in Nat, NEW n \in Nat, k + n <= Len(s)
  PROVE  /\ SubSeq(s, k + 1, k + n) \in Seq(S) /\ Len(SubSeq(s, k + 1, k + n)) = n
         /\ \A i \in 1 .. n : SubSeq(s, k + 1, k + n)[i] = s[k + i]
<1>1. \A i \in k + 1 .. k + n : s[i] \in S
  OBVIOUS
<1>2. SubSeq(s, k + 1, k + n) = [i \in 1 .. n |-> s[k + i]]
  OBVIOUS
<1>3. \A i \in 1 .. n : s[k + i] \in S
  BY <1>1
<1> QED BY <1>2, <1>3

LEMMA ElementsOf ==
  ASSUME NEW S, NEW s \in Seq(S)
  PROVE  Len(s) \in Nat /\ DOMAIN s = 1 .. Len(s) /\ \A i \in 1 .. Len(s) : s[i] \in S
OBVIOUS

LEMMA SameElements ==
  ASSUME NEW S, NEW s \in Seq(S), NEW t \in Seq(S), Len(s) = Len(t),
         \A i \in 1 .. Len(s) : s[i] = t[i]
  PROVE  s = t
OBVIOUS

(* s agrees with t behind the first k elements of t.                         *)
SameFrom(s, t, k) == Len(t) <= Len(s) /\ \A i \in k + 1 .. Len(t) : s[i] = t[i]

(* t begins with s.                                                          *)
Grows(s, t) == Len(s) <= Len(t) /\ \A i \in 1 .. Len(s) : t[i] = s[i]

(* What begins with s may be replaced by what begins with that.              *)
LEMMA GrowsOn ==
  ASSUME NEW S, NEW s \in Seq(S), NEW t \in Seq(S), NEW u \in Seq(S),
         Grows(s, t), Grows(t, u)
  PROVE  Grows(s, u)
BY DEF Grows

(* What s agrees with may lose its end, and s may get another one.           *)
LEMMA SameLonger ==
  ASSUME NEW S, NEW s \in Seq(S), NEW t \in Seq(S), NEW u \in Seq(S), NEW k \in Nat,
         SameFrom(t, s, k), Grows(t, u)
  PROVE  SameFrom(u, s, k)
BY DEF Grows, SameFrom

LEMMA SameShorter ==
  ASSUME NEW S, NEW s \in Seq(S), NEW t \in Seq(S), NEW u \in Seq(S),
         NEW k \in Nat, NEW l \in Nat, k <= l, SameFrom(s, u, k), Grows(t, u)
  PROVE  SameFrom(s, t, l)
BY DEF Grows, SameFrom

-----------------------------------------------------------------------------
(* Characters.                                                               *)

LEMMA LowerType == \A c \in Keys : Lower(c) \in Keys
BY CharsType DEF Lower, Keys

LEMMA CharSetType ==
  ASSUME NEW text \in Seq(Keys) PROVE CharSet(text) \in SUBSET Keys
<1>1. \A c \in ToSet(text) : c \in Keys
  BY DEF ToSet
<1>2. Null \in Keys
  BY DEF Keys
<1> QED BY <1>1, <1>2, LowerType DEF CharSet

LEMMA PCharsIs ==
  ASSUME NEW text \in Texts
  PROVE  /\ PChars(text) \in Seq([byte : Keys, bonus : Nat]) /\ Len(PChars(text)) = Len(text)
         /\ \A i \in 1 .. Len(text) : PChars(text)[i].byte = Byte(text[i])
<1>1. \A i \in 1 .. Len(text) : text[i] \in Chars
  BY DEF Texts
<1>2. \A i \in 1 .. Len(text) : Bonus(text, i) \in Nat
  <2> SUFFICES ASSUME NEW i \in 1 .. Len(text) PROVE Bonus(text, i) \in Nat
    OBVIOUS
  <2> QED BY DEF Bonus
<1>3. \A c \in Chars : Byte(c) \in Keys
  BY DEF Byte, Keys
<1>4. Len(text) \in Nat /\ DOMAIN text = 1 .. Len(text)
  BY DEF Texts
<1> QED BY <1>1, <1>2, <1>3, <1>4 DEF PChars

-----------------------------------------------------------------------------
(* How a name is packed.                                                     *)

LEMMA Quotient ==
  ASSUME NEW j \in Nat, NEW b \in Nat, NEW r \in Nat, r < b
  PROVE  (j * b + r) \div b = j /\ (j * b + r) % b = r
<1>1. PICK n \in Nat : n = j * b + r
  OBVIOUS
<1>2. PICK q \in Int : q = n \div b
  OBVIOUS
<1>3. PICK s \in Int : s = n % b
  OBVIOUS
<1>4. n = b * q + s /\ 0 <= s /\ s < b
  BY <1>2, <1>3
<1>5. q = j
  <2>1. b * q + s = j * b + r
    BY <1>1, <1>4
  <2>2. ~ (q > j)
    <3> SUFFICES ASSUME q >= j + 1 PROVE FALSE
      OBVIOUS
    <3>1. PICK e \in Nat : q = j + 1 + e
      BY ONLY q >= j + 1, q \in Int, j \in Nat
    <3>2. b * q = b * j + b + b * e
      BY <3>1
    <3>3. b * e >= 0 /\ b * e \in Int /\ b * j = j * b /\ b * j \in Int
      OBVIOUS
    <3> QED BY <1>4, <2>1, <3>2, <3>3
  <2>3. ~ (q < j)
    <3> SUFFICES ASSUME q + 1 <= j PROVE FALSE
      OBVIOUS
    <3>1. PICK e \in Nat : j = q + 1 + e
      BY ONLY q + 1 <= j, q \in Int, j \in Nat
    <3>2. j * b = b * q + b + b * e
      BY <3>1
    <3>3. b * e >= 0 /\ b * e \in Int /\ b * q \in Int
      OBVIOUS
    <3> QED BY <1>4, <2>1, <3>2, <3>3
  <2> QED BY <2>2, <2>3
<1>6. s = r
  <2>1. b * q = j * b
    BY <1>5
  <2>2. b * q \in Int
    OBVIOUS
  <2> QED BY <1>1, <1>4, <2>1, <2>2
<1> QED BY <1>1, <1>2, <1>3, <1>5, <1>6

(* Padding ends at a multiple of Align.                                      *)
LEMMA Padded ==
  ASSUME NEW l \in Nat
  PROVE  /\ (-l) % Align \in Nat
         /\ \E j \in Nat : l + ((-l) % Align) = j * Align
<1>1. Align \in Nat /\ Align > 0
  BY LimitsType
<1>2. PICK q \in Int : q = (-l) \div Align
  BY <1>1
<1>3. PICK p \in Int : p = (-l) % Align
  BY <1>1
<1>4. -l = Align * q + p /\ 0 <= p /\ p < Align
  BY <1>1, <1>2, <1>3
<1>5. PICK j \in Int : j = -q
  OBVIOUS
<1>6. l + p = j * Align
  <2>1. Align * q = - (j * Align)
    BY <1>1, <1>5
  <2>2. PICK x \in Int : x = j * Align
    BY <1>1
  <2>3. PICK y \in Int : y = Align * q
    BY <1>1
  <2>4. -l = y + p /\ y = -x
    BY <1>4, <2>1, <2>2, <2>3
  <2>5. l + p = x
    BY ONLY <2>4, l \in Nat, p \in Int, x \in Int, y \in Int
  <2> QED BY <2>2, <2>5
<1>7. j \in Nat
  <2> SUFFICES ASSUME j <= -1 PROVE FALSE
    OBVIOUS
  <2>1. PICK e \in Nat : j = -1 - e
    BY ONLY j \in Int, j <= -1
  <2>2. j * Align = - Align - e * Align
    BY <1>1, <2>1
  <2>3. e * Align \in Nat
    BY <1>1
  <2>4. PICK x \in Nat : x = e * Align
    BY <2>3
  <2> QED BY <1>1, <1>4, <1>6, <2>2, <2>4
<1>8. p \in Nat
  BY <1>4
<1> QED BY <1>3, <1>6, <1>7, <1>8, Zenon

(* Offset and length can be told apart, if the length fits.                  *)
LEMMA Packed ==
  ASSUME NEW j \in Nat, NEW n \in Nat, n < Unit, NEW o \in Nat, o = j * Align
  PROVE  /\ (o * Unit + n) \div Unit = o
         /\ (o * Unit + n) % (Align * Unit) = n
<1>1. Align \in Nat /\ Align > 0 /\ Unit \in Nat /\ Unit > 0
  BY LimitsType
<1>2. (o * Unit + n) \div Unit = o
  BY <1>1, Quotient
<1>3. PICK b \in Nat : b = Align * Unit
  BY <1>1
<1>4. o * Unit = j * b
  <2>1. (j * Align) * Unit = j * (Align * Unit)
    BY <1>1
  <2> QED BY <1>3, <2>1
<1>5. n < b
  <2>1. PICK a \in Nat : Align = a + 1
    BY <1>1
  <2>2. Align * Unit = a * Unit + Unit
    BY <1>1, <2>1
  <2>3. a * Unit \in Nat
    BY <1>1
  <2> QED BY <1>1, <1>3, <2>2, <2>3
<1>6. (j * b + n) % b = n
  BY <1>5, Quotient
<1> QED BY <1>2, <1>3, <1>4, <1>6

-----------------------------------------------------------------------------
(* Names in the arena.                                                       *)

PCharSeqs == Seq([byte : Keys, bonus : Nat])

LEMMA PCharParts ==
  ASSUME NEW s \in PCharSeqs, NEW t \in PCharSeqs
  PROVE  /\ Len(s) \in Nat /\ s \o t \in PCharSeqs /\ Len(s \o t) = Len(s) + Len(t)
         /\ \A i \in 1 .. Len(s) : (s \o t)[i] = s[i]
         /\ \A i \in 1 .. Len(t) : (s \o t)[Len(s) + i] = t[i]
<1>1. PICK R : R = [byte : Keys, bonus : Nat]
  OBVIOUS
<1>2. PCharSeqs = Seq(R)
  BY <1>1 DEF PCharSeqs
<1> QED BY <1>2, Joins

LEMMA PCharSlice ==
  ASSUME NEW s \in PCharSeqs, NEW k \in Nat, NEW n \in Nat, k + n <= Len(s)
  PROVE  /\ SubSeq(s, k + 1, k + n) \in PCharSeqs /\ Len(SubSeq(s, k + 1, k + n)) = n
         /\ \A i \in 1 .. n : SubSeq(s, k + 1, k + n)[i] = s[k + i]
<1>1. PICK R : R = [byte : Keys, bonus : Nat]
  OBVIOUS
<1>2. PCharSeqs = Seq(R)
  BY <1>1 DEF PCharSeqs
<1> QED BY <1>2, Slices

LEMMA PCharsSame ==
  ASSUME NEW s \in PCharSeqs, NEW t \in PCharSeqs, Len(s) = Len(t),
         \A i \in 1 .. Len(s) : s[i] = t[i]
  PROVE  s = t
<1>1. PICK R : R = [byte : Keys, bonus : Nat]
  OBVIOUS
<1>2. s \in Seq(R) /\ t \in Seq(R)
  BY <1>1 DEF PCharSeqs
<1> QED BY <1>2

LEMMA PaddingIs ==
  ASSUME NEW s \in PCharSeqs
  PROVE  /\ Padding(s) \in PCharSeqs /\ s \o Padding(s) \in PCharSeqs
         /\ Len(s) <= Len(s \o Padding(s))
         /\ \A i \in 1 .. Len(s) : (s \o Padding(s))[i] = s[i]
         /\ \E j \in Nat : Len(s \o Padding(s)) = j * Align
<1>1. Len(s) \in Nat
  BY DEF PCharSeqs
<1>2. PICK p \in Nat : p = (-Len(s)) % Align /\ \E j \in Nat : Len(s) + p = j * Align
  BY <1>1, Padded
<1>3. [byte |-> Null, bonus |-> 0] \in [byte : Keys, bonus : Nat]
  BY DEF Keys
<1>4. Padding(s) = [i \in 1 .. p |-> [byte |-> Null, bonus |-> 0]]
  BY <1>2 DEF Padding
<1>5. Padding(s) \in PCharSeqs /\ Len(Padding(s)) = p
  BY <1>3, <1>4 DEF PCharSeqs
<1>6. /\ s \o Padding(s) \in PCharSeqs /\ Len(s \o Padding(s)) = Len(s) + p
      /\ \A i \in 1 .. Len(s) : (s \o Padding(s))[i] = s[i]
  BY <1>5, Joins DEF PCharSeqs
<1> QED BY <1>1, <1>2, <1>5, <1>6

(* Behind s, which is what was there and the padding, p is put.              *)
AddedText(a, text, s, p, u) ==
  /\ AddText(a, text).pchars = u /\ p = PChars(text)
  /\ Grows(a.pchars, s) /\ Grows(s, u) /\ Grows(a.pchars, u)
  /\ Len(p) = Len(text) /\ Len(u) = Len(s) + Len(text)
  /\ \A i \in 1 .. Len(text) : u[Len(s) + i] = p[i] /\ p[i].byte = Byte(text[i])
  /\ PathComponent(a, text).data = Len(s) * Unit + Len(text)
  /\ \E j \in Nat : Len(s) = j * Align

LEMMA AddTextIs ==
  ASSUME NEW a \in Arenas, NEW text \in Texts
  PROVE  \E s, p, u \in PCharSeqs : AddedText(a, text, s, p, u)
<1>1. PICK r \in PCharSeqs : r = a.pchars
  BY DEF Arenas, PCharSeqs
<1>2. PICK s \in PCharSeqs : /\ s = r \o Padding(r) /\ Len(r) <= Len(s)
                             /\ \A i \in 1 .. Len(r) : s[i] = r[i]
                             /\ \E j \in Nat : Len(s) = j * Align
  BY PaddingIs
<1>3. PICK p \in PCharSeqs : /\ p = PChars(text) /\ Len(p) = Len(text)
                             /\ \A i \in 1 .. Len(text) : p[i].byte = Byte(text[i])
  BY PCharsIs DEF PCharSeqs
<1>4. PICK u \in PCharSeqs : /\ u = s \o p /\ Len(u) = Len(s) + Len(p)
                             /\ \A i \in 1 .. Len(s) : u[i] = s[i]
                             /\ \A i \in 1 .. Len(p) : u[Len(s) + i] = p[i]
  BY PCharParts
<1>5. AddText(a, text).pchars = u
  BY <1>1, <1>2, <1>3, <1>4 DEF AddText, Arenas
<1>6. Len(s) \in Nat /\ Len(p) \in Nat /\ Len(r) \in Nat
  BY DEF PCharSeqs
<1>7. Grows(r, s) /\ Grows(s, u) /\ Grows(r, u)
  BY <1>2, <1>4, <1>6 DEF Grows
<1>8. PathComponent(a, text).data = Len(s) * Unit + Len(text)
  BY <1>1, <1>2 DEF PathComponent
<1>9. AddedText(a, text, s, p, u)
  BY <1>1, <1>2, <1>3, <1>4, <1>5, <1>7, <1>8 DEF AddedText
<1> QED BY <1>9

LEMMA AddTextType ==
  ASSUME NEW a \in Arenas, NEW text \in Texts
  PROVE  /\ AddText(a, text) \in Arenas
         /\ AddText(a, text).files = a.files /\ AddText(a, text).dirs = a.dirs
         /\ Grows(a.pchars, AddText(a, text).pchars)
         /\ PathComponent(a, text) \in Components
<1>1. PICK s, p, u \in PCharSeqs : AddedText(a, text, s, p, u)
  BY AddTextIs
<1>2. /\ AddText(a, text).pchars = u /\ Grows(a.pchars, u)
      /\ PathComponent(a, text).data = Len(s) * Unit + Len(text)
  BY <1>1 DEF AddedText
<1>3. AddText(a, text) = [a EXCEPT !.pchars = u]
  BY <1>2 DEF AddText, Arenas
<1>4. AddText(a, text) \in Arenas
  BY <1>3 DEF Arenas, PCharSeqs
<1>5. Len(s) * Unit + Len(text) \in Nat
  <2>1. Len(s) \in Nat /\ Len(text) \in Nat /\ Unit \in Nat
    BY PCharParts, LimitsType DEF Texts
  <2> QED BY <2>1
<1>6. CharSet(text) \cup {Slash} \in SUBSET Keys
  <2>1. text \in Seq(Keys)
    BY DEF Texts, Keys
  <2>2. Slash \in Keys
    BY CharsType DEF Keys
  <2> QED BY <2>1, <2>2, CharSetType
<1>7. PathComponent(a, text) \in Components
  BY <1>2, <1>5, <1>6 DEF PathComponent, Components
<1> QED BY <1>2, <1>3, <1>4, <1>7 DEF Arenas

(* A name can be read as it was written, whatever follows it.                *)
LEMMA TextKept ==
  ASSUME NEW a \in Arenas, NEW text \in Texts, Len(text) < Unit, NEW c \in Arenas,
         SameFrom(c.pchars, AddText(a, text).pchars, Len(a.pchars))
  PROVE  /\ PathIter(c, PathComponent(a, text)) = PChars(text)
         /\ PathText(c, PathComponent(a, text)) = Printed(text)
         /\ InRange(c, PathComponent(a, text))
<1>1. PICK s, p, u \in PCharSeqs : AddedText(a, text, s, p, u)
  BY AddTextIs
<1> USE <1>1 DEF AddedText
<1>2. PICK v \in PCharSeqs : v = c.pchars
  BY DEF Arenas, PCharSeqs
<1>3. PICK n \in Nat : n = Len(text)
  BY DEF Texts
<1>4. PICK o \in Nat : o = Len(s)
  BY PCharParts
<1>5. SameFrom(v, u, Len(a.pchars)) /\ Len(u) = o + n /\ Len(a.pchars) <= o /\ Len(a.pchars) \in Nat
  BY <1>2, <1>3, <1>4 DEF Grows, Arenas
<1>6. \A i \in 1 .. n : v[o + i] = p[i]
  <2>1. \A i \in 1 .. n : v[o + i] = u[o + i]
    <3>1. \A i \in 1 .. n : o + i \in Len(a.pchars) + 1 .. Len(u)
      BY <1>5
    <3> QED BY <1>5, <3>1 DEF SameFrom
  <2> QED BY <1>3, <1>4, <2>1
<1>7. o + n <= Len(v)
  BY <1>5 DEF SameFrom
<1>8. Start(PathComponent(a, text)) = o /\ Length(PathComponent(a, text)) = n
  <2>1. \E j \in Nat : o = j * Align
    BY <1>4
  <2>2. (o * Unit + n) \div Unit = o /\ (o * Unit + n) % (Align * Unit) = n
    BY <1>3, <2>1, Packed
  <2>3. PathComponent(a, text).data = o * Unit + n
    BY <1>3, <1>4
  <2> QED BY <2>2, <2>3, Zenon DEF Start, Length
<1>9. PICK w \in PCharSeqs : /\ w = SubSeq(v, o + 1, o + n) /\ Len(w) = n
                              /\ \A i \in 1 .. n : w[i] = v[o + i]
  BY <1>7, PCharSlice
<1>10. w = p
  <2>1. Len(p) = n /\ \A i \in 1 .. n : w[i] = p[i]
    BY <1>3, <1>6, <1>9
  <2> QED BY <1>9, <2>1, PCharsSame
<1>11. PathIter(c, PathComponent(a, text)) = PChars(text)
  BY <1>2, <1>8, <1>9, <1>10 DEF PathIter
<1>12. PathText(c, PathComponent(a, text)) = Printed(text)
  <2>1. DOMAIN PChars(text) = DOMAIN text /\ DOMAIN text = 1 .. n
    BY <1>3 DEF PChars, Texts
  <2> QED BY <1>3, <1>11, <2>1 DEF PathText, Printed
<1> QED BY <1>2, <1>7, <1>8, <1>11, <1>12 DEF InRange

(* What an arena gets is behind what it has.                                 *)
Extends(a, b) ==
  Grows(a.pchars, b.pchars) /\ Grows(a.files, b.files) /\ Grows(a.dirs, b.dirs)

(* That comp is the name `text` in arena c.                                  *)
Spells(c, comp, text) ==
  /\ comp \in Components
  /\ PathIter(c, comp) = PChars(text) /\ PathText(c, comp) = Printed(text)
  /\ InRange(c, comp) /\ comp.char_set = CharSet(text) \cup {Slash}

LEMMA ArenaParts ==
  ASSUME NEW a \in Arenas
  PROVE  a.pchars \in PCharSeqs /\ a.files \in Seq(Components) /\ a.dirs \in Seq(Directories)
BY DEF Arenas, PCharSeqs

LEMMA ExtendsOn ==
  ASSUME NEW a \in Arenas, NEW b \in Arenas, NEW c \in Arenas, Extends(a, b), Extends(b, c)
  PROVE  Extends(a, c)
BY ArenaParts, GrowsOn DEF Extends, PCharSeqs

LEMMA ExtendsSelf ==
  ASSUME NEW a \in Arenas PROVE Extends(a, a)
BY ArenaParts DEF Extends, Grows, PCharSeqs

LEMMA TextSpelled ==
  ASSUME NEW a \in Arenas, NEW text \in Texts, Len(text) < Unit, NEW c \in Arenas,
         SameFrom(c.pchars, AddText(a, text).pchars, Len(a.pchars))
  PROVE  Spells(c, PathComponent(a, text), text)
<1>1. PathComponent(a, text).char_set = CharSet(text) \cup {Slash}
  BY DEF PathComponent
<1> QED BY <1>1, TextKept, AddTextType DEF Spells

LEMMA AddFileIs ==
  ASSUME NEW a \in Arenas, NEW text \in Texts
  PROVE  /\ AddFile(a, text) \in Arenas /\ Extends(a, AddFile(a, text))
         /\ AddFile(a, text).pchars = AddText(a, text).pchars
         /\ AddFile(a, text).dirs = a.dirs
         /\ Len(AddFile(a, text).files) = Len(a.files) + 1
         /\ AddFile(a, text).files[Len(a.files) + 1] = PathComponent(a, text)
<1>1. PICK b \in Arenas : b = AddText(a, text)
  BY AddTextType
<1>2. b.files = a.files /\ b.dirs = a.dirs /\ Grows(a.pchars, b.pchars)
      /\ PathComponent(a, text) \in Components
  BY <1>1, AddTextType
<1>3. AddFile(a, text) = [b EXCEPT !.files = Append(a.files, PathComponent(a, text))]
  BY <1>1, <1>2 DEF AddFile, Arenas
<1>4. PICK fs : fs = Append(a.files, PathComponent(a, text))
  OBVIOUS
<1>5. /\ fs \in Seq(Components) /\ Len(fs) = Len(a.files) + 1
      /\ \A i \in 1 .. Len(a.files) : fs[i] = a.files[i]
      /\ fs[Len(a.files) + 1] = PathComponent(a, text)
  BY <1>2, <1>4, ArenaParts, Appends
<1>6. Len(a.files) \in Nat /\ Grows(a.dirs, a.dirs)
  BY ArenaParts DEF Grows
<1>7. Grows(a.files, fs)
  BY <1>5, <1>6 DEF Grows
<1>8. AddFile(a, text) \in Arenas
  BY <1>3, <1>4, <1>5 DEF Arenas
<1>9. /\ AddFile(a, text).files = fs /\ AddFile(a, text).pchars = b.pchars
      /\ AddFile(a, text).dirs = a.dirs
  BY <1>2, <1>3, <1>4 DEF Arenas
<1> QED BY <1>1, <1>2, <1>5, <1>6, <1>7, <1>8, <1>9 DEF Extends

(* The arena after each file.                                                *)
LEMMA AddFilesSteps ==
  ASSUME NEW a \in Arenas, NEW texts \in Seq(Texts)
  PROVE  \E added \in [0 .. Len(texts) -> Arenas] :
           /\ added[0] = a /\ added[Len(texts)] = AddFiles(a, texts)
           /\ \A i \in 1 .. Len(texts) : added[i] = AddFile(added[i - 1], texts[i])
<1> DEFINE S == 0 .. Len(texts)
           V == [S -> Arenas]
           Step(g, i) == IF i = 0 THEN a ELSE AddFile(g[i - 1], texts[i])
           Eq(g) == g = [i \in S |-> Step(g, i)]
           F == [g \in V |-> [i \in S |-> Step(g, i)]]
           m == [i \in S |-> i]
<1>1. Len(texts) \in Nat /\ \A i \in 1 .. Len(texts) : texts[i] \in Texts
  OBVIOUS
<1>2. Measures(S, m, m)
  BY <1>1 DEF Measures
<1>3. ASSUME NEW i \in S, i # 0
      PROVE  i - 1 \in S /\ i - 1 \in Below(S, m, m, i) /\ texts[i] \in Texts
  BY <1>1, <1>3 DEF Below
<1>4. ASSUME NEW g \in V, NEW i \in S PROVE Step(g, i) \in Arenas
  <2>1. CASE i = 0
    BY <2>1
  <2>2. CASE i # 0
    <3>1. g[i - 1] \in Arenas /\ texts[i] \in Texts
      BY <1>3, <2>2
    <3> QED BY <2>2, <3>1, AddFileIs
  <2> QED BY <2>1, <2>2
<1>5. F \in [V -> V]
  <2> HIDE DEF Step
  <2> QED BY <1>4
<1>6. ASSUME NEW g \in V, NEW h \in V, NEW i \in S, \A y \in Below(S, m, m, i) : g[y] = h[y]
      PROVE  F[g][i] = F[h][i]
  <2>1. i # 0 => g[i - 1] = h[i - 1]
    <3> HIDE DEF S, V, F, m
    <3> QED BY <1>3, <1>6
  <2>2. Step(g, i) = Step(h, i)
    BY <2>1
  <2> HIDE DEF Step
  <2> QED BY <2>2
<1>7. \E g \in V : g = F[g]
  <2>1. Computes(F, S, m, m, Arenas)
    BY <1>5, <1>6 DEF Computes
  <2>2. Arenas # {}
    OBVIOUS
  <2> HIDE DEF F, S, m
  <2> QED BY <1>2, <2>1, <2>2, RecursionBelow
<1>8. \E g : Eq(g)
  <2> HIDE DEF Step
  <2> QED BY <1>7
<1>9. PICK added : Eq(added) /\ added[Len(texts)] = AddFiles(a, texts)
  BY <1>8, Zenon DEF AddFiles
<1>10. \A i \in 1 .. Len(texts) : added[i] = AddFile(added[i - 1], texts[i])
  BY <1>1, <1>9
<1>11. added[0] = a
  BY <1>1, <1>9
<1>12. \A i \in S : added[i] \in Arenas
  <2> DEFINE P == {i \in Nat : i <= Len(texts) => added[i] \in Arenas}
  <2>1. 0 \in P
    BY <1>11
  <2>2. ASSUME NEW i \in Nat, i \in P PROVE i + 1 \in P
    <3> SUFFICES ASSUME i + 1 <= Len(texts) PROVE added[i + 1] \in Arenas
      OBVIOUS
    <3>1. i + 1 \in 1 .. Len(texts) /\ added[i] \in Arenas
      BY <1>1, <2>2
    <3>2. texts[i + 1] \in Texts /\ added[i + 1] = AddFile(added[i], texts[i + 1])
      BY <1>1, <1>10, <3>1
    <3> QED BY <3>1, <3>2, AddFileIs
  <2>3. Nat \subseteq P
    <3> HIDE DEF P
    <3> QED BY <2>1, <2>2, SetInduction
  <2> QED BY <1>1, <2>3
<1>13. added \in [S -> Arenas]
  <2> HIDE DEF Step
  <2> QED BY <1>9, <1>12
<1> QED BY <1>9, <1>10, <1>11, <1>13

(* What was added up to a file stays as it was when the others are added.    *)
LEMMA AddFilesIs ==
  ASSUME NEW a \in Arenas, NEW texts \in Seq(Texts)
  PROVE  /\ AddFiles(a, texts) \in Arenas /\ Extends(a, AddFiles(a, texts))
         /\ AddFiles(a, texts).dirs = a.dirs
         /\ Len(AddFiles(a, texts).files) = Len(a.files) + Len(texts)
         /\ \A i \in 1 .. Len(texts) : \E b \in Arenas :
              /\ Extends(a, b) /\ Extends(AddFile(b, texts[i]), AddFiles(a, texts))
              /\ AddFiles(a, texts).files[Len(a.files) + i] = PathComponent(b, texts[i])
<1>1. Len(texts) \in Nat /\ \A i \in 1 .. Len(texts) : texts[i] \in Texts
  OBVIOUS
<1>2. PICK added \in [0 .. Len(texts) -> Arenas] :
        /\ added[0] = a /\ added[Len(texts)] = AddFiles(a, texts)
        /\ \A i \in 1 .. Len(texts) : added[i] = AddFile(added[i - 1], texts[i])
  BY AddFilesSteps
<1> DEFINE Ok(n) == /\ Extends(a, added[n]) /\ added[n].dirs = a.dirs
                    /\ Len(added[n].files) = Len(a.files) + n
                    /\ \A i \in 1 .. n :
                         /\ Extends(added[i], added[n])
                         /\ added[n].files[Len(a.files) + i] = PathComponent(added[i - 1], texts[i])
           P == {n \in Nat : n <= Len(texts) => Ok(n)}
<1>3. Len(a.files) \in Nat
  BY ArenaParts
<1>4. 0 \in P
  <2>1. Ok(0)
    BY <1>2, <1>3, ExtendsSelf
  <2> QED BY <2>1
<1>5. ASSUME NEW n \in Nat, n \in P PROVE n + 1 \in P
  <2> SUFFICES ASSUME n + 1 <= Len(texts) PROVE Ok(n + 1)
    <3> HIDE DEF Ok
    <3> QED OBVIOUS
  <2>1. Ok(n)
    <3> HIDE DEF Ok
    <3> QED BY <1>1, <1>5
  <2>2. n + 1 \in 1 .. Len(texts) /\ n \in 0 .. Len(texts)
    BY <1>1
  <2>3. PICK b \in Arenas : b = added[n]
    BY <2>2
  <2>4. PICK c \in Arenas : c = added[n + 1] /\ c = AddFile(b, texts[n + 1])
    BY <1>1, <1>2, <2>2, <2>3
  <2>5. texts[n + 1] \in Texts
    BY <1>1, <2>2
  <2>6. /\ Extends(b, c) /\ c.dirs = b.dirs /\ Len(c.files) = Len(b.files) + 1
        /\ c.files[Len(b.files) + 1] = PathComponent(b, texts[n + 1])
    <3>1. c = AddFile(b, texts[n + 1])
      BY <2>4
    <3> HIDE DEF Ok, P
    <3> QED BY ONLY <2>5, <3>1, b \in Arenas, AddFileIs
  <2>7. Extends(a, c) /\ c.dirs = a.dirs /\ Len(c.files) = Len(a.files) + (n + 1)
    <3>1. Extends(a, b) /\ b.dirs = a.dirs /\ Len(b.files) = Len(a.files) + n
      BY <2>1, <2>3
    <3>2. Extends(a, c)
      BY <2>6, <3>1, ExtendsOn
    <3>3. (Len(a.files) + n) + 1 = Len(a.files) + (n + 1)
      BY <1>3
    <3> HIDE DEF Ok, P
    <3> QED BY <2>6, <3>1, <3>2, <3>3
  <2>8. ASSUME NEW i \in 1 .. n + 1
        PROVE  /\ Extends(added[i], c)
               /\ c.files[Len(a.files) + i] = PathComponent(added[i - 1], texts[i])
    <3>1. CASE i = n + 1
      <4>1. Len(b.files) + 1 = Len(a.files) + i /\ i - 1 = n
        <5>1. PICK k \in Nat : k = Len(a.files)
          BY <1>3
        <5>2. Len(b.files) = k + n
          BY <2>1, <2>3, <5>1
        <5> HIDE DEF Ok, P
        <5>3. k + n + 1 = k + i /\ i - 1 = n
          BY ONLY <3>1, k \in Nat, n \in Nat
        <5> QED BY <5>1, <5>2, <5>3
      <4> QED BY <2>3, <2>4, <2>6, <3>1, <4>1, ExtendsSelf
    <3>2. CASE i # n + 1
      <4>1. i \in 1 .. n /\ i \in 0 .. Len(texts)
        BY <1>1, <2>2, <3>2
      <4>2. Extends(added[i], b)
        BY <2>1, <2>3, <4>1
      <4>3. Extends(added[i], c)
        BY <2>6, <4>1, <4>2, ExtendsOn
      <4>4. Len(a.files) + i \in 1 .. Len(b.files)
        BY <1>3, <2>1, <2>3, <4>1
      <4>5. c.files[Len(a.files) + i] = b.files[Len(a.files) + i]
        BY <2>6, <4>4 DEF Extends, Grows
      <4> QED BY <2>1, <2>3, <4>1, <4>3, <4>5
    <3> QED BY <3>1, <3>2
  <2> QED BY <2>4, <2>7, <2>8
<1>6. Nat \subseteq P
  <2> HIDE DEF P
  <2> QED BY <1>4, <1>5, SetInduction
<1>7. Ok(Len(texts))
  BY <1>1, <1>6
<1>8. added[Len(texts)] \in Arenas
  BY <1>1
<1>9. ASSUME NEW i \in 1 .. Len(texts)
      PROVE  \E b \in Arenas :
               /\ Extends(a, b) /\ Extends(AddFile(b, texts[i]), AddFiles(a, texts))
               /\ AddFiles(a, texts).files[Len(a.files) + i] = PathComponent(b, texts[i])
  <2>1. i - 1 \in 0 .. Len(texts) /\ added[i] = AddFile(added[i - 1], texts[i])
    BY <1>1, <1>2
  <2>2. Extends(a, added[i - 1])
    <3>1. Ok(i - 1)
      <4>1. i - 1 \in P /\ i - 1 <= Len(texts)
        <5> HIDE DEF P
        <5> QED BY <1>1, <1>6, <2>1
      <4> HIDE DEF Ok
      <4> QED BY <4>1
    <3> QED BY <3>1
  <2> WITNESS added[i - 1] \in Arenas
  <2> QED BY <1>2, <1>7, <2>1, <2>2
<1> QED BY <1>2, <1>7, <1>8, <1>9

(* Files are read as they were written.                                      *)
LEMMA FilesKept ==
  ASSUME NEW a \in Arenas, NEW texts \in Seq(Texts), NEW c \in Arenas,
         \A i \in 1 .. Len(texts) : Len(texts[i]) < Unit,
         SameFrom(c.pchars, AddFiles(a, texts).pchars, Len(a.pchars)),
         SameFrom(c.files, AddFiles(a, texts).files, Len(a.files))
  PROVE  /\ Len(a.files) + Len(texts) <= Len(c.files)
         /\ \A i \in 1 .. Len(texts) : Spells(c, c.files[Len(a.files) + i], texts[i])
<1>1. Len(texts) \in Nat /\ Len(a.files) \in Nat /\ Len(a.pchars) \in Nat
      /\ \A i \in 1 .. Len(texts) : texts[i] \in Texts
  <2>1. a.files \in Seq(Components) /\ a.pchars \in PCharSeqs
    BY ArenaParts
  <2> QED BY <2>1, PCharParts
<1>2. PICK b \in Arenas : b = AddFiles(a, texts)
  BY AddFilesIs
<1>3. Len(b.files) = Len(a.files) + Len(texts)
  BY <1>2, AddFilesIs
<1>4. /\ Len(b.files) <= Len(c.files)
      /\ \A i \in 1 .. Len(texts) : c.files[Len(a.files) + i] = b.files[Len(a.files) + i]
  <2>1. \A i \in 1 .. Len(texts) : Len(a.files) + i \in Len(a.files) + 1 .. Len(b.files)
    BY <1>1, <1>3
  <2> QED BY <1>2, <2>1 DEF SameFrom
<1>5. ASSUME NEW i \in 1 .. Len(texts) PROVE Spells(c, c.files[Len(a.files) + i], texts[i])
  <2>1. PICK d \in Arenas : /\ Extends(a, d) /\ Extends(AddFile(d, texts[i]), b)
                            /\ b.files[Len(a.files) + i] = PathComponent(d, texts[i])
    BY <1>2, AddFilesIs
  <2>2. texts[i] \in Texts /\ Len(texts[i]) < Unit
    BY <1>1
  <2>3. PICK e \in Arenas : e = AddFile(d, texts[i]) /\ e.pchars = AddText(d, texts[i]).pchars
    BY <2>2, AddFileIs
  <2>4. /\ a.pchars \in PCharSeqs /\ b.pchars \in PCharSeqs /\ c.pchars \in PCharSeqs
        /\ d.pchars \in PCharSeqs /\ e.pchars \in PCharSeqs /\ Len(d.pchars) \in Nat
    BY ArenaParts, PCharParts
  <2>5. Grows(e.pchars, b.pchars) /\ Len(a.pchars) <= Len(d.pchars)
    BY <2>1, <2>3 DEF Extends, Grows
  <2>6. SameFrom(c.pchars, e.pchars, Len(d.pchars))
    BY <1>1, <1>2, <2>4, <2>5, SameShorter DEF PCharSeqs
  <2>7. Spells(c, PathComponent(d, texts[i]), texts[i])
    BY <2>2, <2>3, <2>6, TextSpelled
  <2> QED BY <1>4, <2>1, <2>7
<1> QED BY <1>3, <1>4, <1>5

(* c has what b has behind what a has.                                       *)
Carries(c, a, b) ==
  SameFrom(c.pchars, b.pchars, Len(a.pchars)) /\ SameFrom(c.files, b.files, Len(a.files))

LEMMA ArenaLengths ==
  ASSUME NEW a \in Arenas
  PROVE  Len(a.pchars) \in Nat /\ Len(a.files) \in Nat /\ Len(a.dirs) \in Nat
BY ArenaParts, PCharParts

LEMMA CarriesLess ==
  ASSUME NEW a \in Arenas, NEW b \in Arenas, NEW c \in Arenas, NEW d \in Arenas, NEW e \in Arenas,
         Carries(c, a, b), Extends(a, d), Extends(e, b)
  PROVE  Carries(c, d, e)
<1>1. /\ a.pchars \in PCharSeqs /\ b.pchars \in PCharSeqs /\ c.pchars \in PCharSeqs
      /\ d.pchars \in PCharSeqs /\ e.pchars \in PCharSeqs
      /\ a.files \in Seq(Components) /\ b.files \in Seq(Components) /\ c.files \in Seq(Components)
      /\ d.files \in Seq(Components) /\ e.files \in Seq(Components)
  BY ArenaParts
<1>2. /\ Len(a.pchars) <= Len(d.pchars) /\ Len(a.files) <= Len(d.files)
      /\ Grows(e.pchars, b.pchars) /\ Grows(e.files, b.files)
  BY DEF Extends, Grows
<1>3. /\ Len(a.pchars) \in Nat /\ Len(a.files) \in Nat /\ Len(d.pchars) \in Nat /\ Len(d.files) \in Nat
  BY ArenaLengths
<1>4. SameFrom(c.pchars, e.pchars, Len(d.pchars))
  BY <1>1, <1>2, <1>3, SameShorter DEF Carries, PCharSeqs
<1>5. SameFrom(c.files, e.files, Len(d.files))
  BY <1>1, <1>2, <1>3, SameShorter DEF Carries
<1> QED BY <1>4, <1>5 DEF Carries

LEMMA CarriesOn ==
  ASSUME NEW a \in Arenas, NEW b \in Arenas, NEW c \in Arenas, NEW d \in Arenas,
         Carries(c, a, b), Extends(c, d)
  PROVE  Carries(d, a, b)
<1>1. /\ b.pchars \in PCharSeqs /\ c.pchars \in PCharSeqs /\ d.pchars \in PCharSeqs
      /\ b.files \in Seq(Components) /\ c.files \in Seq(Components) /\ d.files \in Seq(Components)
  BY ArenaParts
<1>2. Len(a.pchars) \in Nat /\ Len(a.files) \in Nat
  BY ArenaLengths
<1>3. SameFrom(d.pchars, b.pchars, Len(a.pchars))
  BY <1>1, <1>2, SameLonger DEF Carries, Extends, PCharSeqs
<1>4. SameFrom(d.files, b.files, Len(a.files))
  BY <1>1, <1>2, SameLonger DEF Carries, Extends
<1> QED BY <1>3, <1>4 DEF Carries

LEMMA TreeParts ==
  ASSUME NEW tree, IsTree(tree)
  PROVE  /\ Len(tree) \in Nat \ {0} /\ DOMAIN tree = 1 .. Len(tree)
         /\ \A n \in DOMAIN tree :
              /\ tree[n] \in Nodes /\ tree[n].name \in Texts /\ tree[n].files \in Seq(Texts)
              /\ tree[n].dirs \in Seq(Nat) /\ Len(tree[n].dirs) \in Nat
              /\ \A i \in 1 .. Len(tree[n].dirs) :
                   tree[n].dirs[i] \in DOMAIN tree /\ tree[n].dirs[i] > n
<1>1. tree \in Seq(Nodes) /\ tree # <<>>
  BY DEF IsTree
<1>2. Len(tree) \in Nat \ {0} /\ DOMAIN tree = 1 .. Len(tree)
  BY <1>1
<1>3. ASSUME NEW n \in DOMAIN tree
      PROVE  /\ tree[n] \in Nodes /\ tree[n].name \in Texts /\ tree[n].files \in Seq(Texts)
             /\ tree[n].dirs \in Seq(Nat) /\ Len(tree[n].dirs) \in Nat
             /\ \A i \in 1 .. Len(tree[n].dirs) :
                  tree[n].dirs[i] \in DOMAIN tree /\ tree[n].dirs[i] > n
  <2>1. tree[n] \in Nodes
    BY <1>1, <1>2
  <2>2. /\ tree[n].name \in Texts /\ tree[n].files \in Seq(Texts) /\ tree[n].dirs \in Seq(Nat)
    BY <2>1 DEF Nodes
  <2>3. Len(tree[n].dirs) \in Nat /\ DOMAIN tree[n].dirs = 1 .. Len(tree[n].dirs)
    BY <2>2
  <2>4. \A i \in 1 .. Len(tree[n].dirs) : tree[n].dirs[i] \in n + 1 .. Len(tree)
    BY <2>3 DEF IsTree
  <2> QED BY <1>2, <2>1, <2>2, <2>3, <2>4
<1> QED BY <1>2, <1>3

LEMMA HeaderType ==
  ASSUME NEW a \in Arenas, NEW dir \in Nodes PROVE Header(a, dir) \in Directories
<1>1. PathComponent(a, dir.name) \in Components
  BY AddTextType DEF Nodes
<1>2. Len(dir.files) \in Nat /\ Len(dir.dirs) \in Nat
  BY DEF Nodes
<1> QED BY <1>1, <1>2, ArenaLengths DEF Header, Directories

(* What the arena has when the subdirectories are still to come.             *)
LEMMA ReservedIs ==
  ASSUME NEW a \in Arenas, NEW dir \in Nodes
  PROVE  /\ Reserved(a, dir) \in Arenas /\ Extends(a, Reserved(a, dir))
         /\ Len(Reserved(a, dir).dirs) = Len(a.dirs) + Len(dir.dirs)
         /\ Len(Reserved(a, dir).files) = Len(a.files) + Len(dir.files)
         /\ Reserved(a, dir).pchars = Named(a, dir).pchars
         /\ Reserved(a, dir).files = Named(a, dir).files
<1>1. dir.name \in Texts /\ dir.files \in Seq(Texts) /\ dir.dirs \in Seq(Nat)
  BY DEF Nodes
<1>2. PICK b \in Arenas : /\ b = AddText(a, dir.name) /\ b.files = a.files /\ b.dirs = a.dirs
                          /\ Grows(a.pchars, b.pchars)
  BY <1>1, AddTextType
<1>3. Extends(a, b)
  BY <1>2, ExtendsSelf DEF Extends
<1>4. PICK c \in Arenas : /\ c = Named(a, dir) /\ Extends(b, c) /\ c.dirs = b.dirs
                          /\ Len(c.files) = Len(b.files) + Len(dir.files)
  BY <1>1, <1>2, AddFilesIs DEF Named
<1>5. PICK places : places = [i \in DOMAIN dir.dirs |-> Header(a, dir)]
  OBVIOUS
<1>6. places \in Seq(Directories) /\ Len(places) = Len(dir.dirs)
  BY <1>1, <1>5, HeaderType
<1>7. PICK ds : ds = c.dirs \o places
  OBVIOUS
<1>8. /\ ds \in Seq(Directories) /\ Len(ds) = Len(c.dirs) + Len(places)
      /\ \A i \in 1 .. Len(c.dirs) : ds[i] = c.dirs[i]
  <2>1. c.dirs \in Seq(Directories)
    BY ArenaParts
  <2>2. PICK s \in Seq(Directories), t \in Seq(Directories) : s = c.dirs /\ t = places
    BY <1>6, <2>1
  <2> QED BY <1>7, <2>2, Joins
<1>9. Reserved(a, dir) = [c EXCEPT !.dirs = ds]
  BY <1>4, <1>5, <1>7 DEF Reserved, Arenas
<1>10. PICK r \in Arenas : /\ r = Reserved(a, dir) /\ r.pchars = c.pchars /\ r.files = c.files
                          /\ r.dirs = ds
  BY <1>8, <1>9 DEF Arenas
<1>11. Extends(a, c)
  BY <1>3, <1>4, ExtendsOn
<1>12. Grows(c.dirs, ds)
  <2>1. Len(c.dirs) \in Nat /\ Len(places) \in Nat
    BY <1>6, ArenaLengths
  <2> QED BY <1>8, <2>1 DEF Grows
<1>13. Extends(c, r)
  BY <1>10, <1>12, ExtendsSelf DEF Extends
<1>14. Extends(a, r)
  BY <1>11, <1>13, ExtendsOn
<1> QED BY <1>2, <1>4, <1>6, <1>8, <1>10, <1>14

(* Names of a directory and its files are read as they were written.         *)
LEMMA HeaderKept ==
  ASSUME NEW a \in Arenas, NEW dir \in Nodes, NEW c \in Arenas,
         Len(dir.name) < Unit, \A f \in ToSet(dir.files) : Len(f) < Unit,
         Carries(c, a, Reserved(a, dir))
  PROVE  /\ Spells(c, PathComponent(a, dir.name), dir.name)
         /\ Len(a.files) + Len(dir.files) <= Len(c.files)
         /\ \A i \in 1 .. Len(dir.files) : Spells(c, c.files[Len(a.files) + i], dir.files[i])
<1>1. dir.name \in Texts /\ dir.files \in Seq(Texts)
  BY DEF Nodes
<1>2. PICK b \in Arenas : /\ b = AddText(a, dir.name) /\ b.files = a.files /\ b.dirs = a.dirs
                          /\ Grows(a.pchars, b.pchars)
  BY <1>1, AddTextType
<1>3. PICK d \in Arenas : d = Named(a, dir) /\ d = AddFiles(b, dir.files) /\ Extends(b, d)
  BY <1>1, <1>2, AddFilesIs DEF Named
<1>4. PICK r \in Arenas : r = Reserved(a, dir) /\ r.pchars = d.pchars /\ r.files = d.files
  <2>1. PICK r \in Arenas : r = Reserved(a, dir)
    BY ReservedIs
  <2>2. r.pchars = d.pchars /\ r.files = d.files
    <3>1. d = Named(a, dir)
      BY <1>3
    <3>2. Reserved(a, dir).pchars = Named(a, dir).pchars
          /\ Reserved(a, dir).files = Named(a, dir).files
      BY ReservedIs
    <3> QED BY ONLY <2>1, <3>1, <3>2
  <2> QED BY <2>1, <2>2
<1>5. Extends(a, b)
  BY <1>2, ExtendsSelf DEF Extends
<1>6. Carries(c, a, d)
  BY <1>4 DEF Carries
<1>7. Carries(c, b, d) /\ Carries(c, a, b)
  BY <1>3, <1>5, <1>6, CarriesLess, ExtendsSelf
<1>8. Spells(c, PathComponent(a, dir.name), dir.name)
  BY <1>1, <1>2, <1>7, TextSpelled DEF Carries
<1>9. \A i \in 1 .. Len(dir.files) : Len(dir.files[i]) < Unit
  BY <1>1 DEF ToSet
<1>10. /\ Len(b.files) + Len(dir.files) <= Len(c.files)
      /\ \A i \in 1 .. Len(dir.files) : Spells(c, c.files[Len(b.files) + i], dir.files[i])
  BY <1>1, <1>3, <1>7, <1>9, FilesKept DEF Carries
<1> QED BY <1>2, <1>8, <1>10

(* That b has directory dir behind a: with its name and its files, and with  *)
(* places for its subdirectories.                                            *)
Parsed(a, dir, b) ==
  /\ b \in Arenas
  /\ Grows(Reserved(a, dir).pchars, b.pchars) /\ Grows(Reserved(a, dir).files, b.files)
  /\ Grows(a.dirs, b.dirs) /\ Len(a.dirs) + Len(dir.dirs) <= Len(b.dirs)

LEMMA ReservedParsed ==
  ASSUME NEW a \in Arenas, NEW dir \in Nodes
  PROVE  Parsed(a, dir, Reserved(a, dir))
<1>1. PICK r \in Arenas : r = Reserved(a, dir)
  BY ReservedIs
<1>2. Extends(a, r) /\ Extends(r, r) /\ Len(r.dirs) = Len(a.dirs) + Len(dir.dirs)
  BY <1>1, ReservedIs, ExtendsSelf
<1>3. Len(r.dirs) \in Nat
  BY ArenaLengths
<1>4. Len(a.dirs) + Len(dir.dirs) <= Len(r.dirs)
  BY <1>2, <1>3
<1> QED BY <1>1, <1>2, <1>4 DEF Parsed, Extends

LEMMA ParsedExtends ==
  ASSUME NEW a \in Arenas, NEW dir \in Nodes, NEW b, Parsed(a, dir, b)
  PROVE  /\ b \in Arenas /\ Extends(a, b)
         /\ Len(a.files) + Len(dir.files) <= Len(b.files)
         /\ Len(a.dirs) + Len(dir.dirs) <= Len(b.dirs)
<1>1. b \in Arenas
  BY DEF Parsed
<1>2. PICK r \in Arenas : r = Reserved(a, dir)
  BY ReservedIs
<1>3. Extends(a, r) /\ Len(r.files) = Len(a.files) + Len(dir.files)
  BY <1>2, ReservedIs
<1>4. /\ a.pchars \in PCharSeqs /\ b.pchars \in PCharSeqs /\ r.pchars \in PCharSeqs
      /\ a.files \in Seq(Components) /\ b.files \in Seq(Components) /\ r.files \in Seq(Components)
  BY <1>1, ArenaParts
<1>5. Grows(r.pchars, b.pchars) /\ Grows(r.files, b.files) /\ Grows(a.dirs, b.dirs)
  BY <1>2 DEF Parsed
<1>6. Grows(a.pchars, b.pchars) /\ Grows(a.files, b.files)
  BY <1>3, <1>4, <1>5, GrowsOn DEF Extends, PCharSeqs
<1>7. Len(a.files) + Len(dir.files) <= Len(b.files)
  BY <1>3, <1>5 DEF Grows
<1> QED BY <1>1, <1>5, <1>6, <1>7 DEF Extends, Parsed

LEMMA CarriesReserved ==
  ASSUME NEW a \in Arenas, NEW dir \in Nodes, NEW b, Parsed(a, dir, b), NEW c \in Arenas,
         Carries(c, a, b)
  PROVE  Carries(c, a, Reserved(a, dir))
<1>1. b \in Arenas
  BY DEF Parsed
<1>2. PICK r \in Arenas : r = Reserved(a, dir)
  BY ReservedIs
<1>3. /\ c.pchars \in PCharSeqs /\ b.pchars \in PCharSeqs /\ r.pchars \in PCharSeqs
      /\ c.files \in Seq(Components) /\ b.files \in Seq(Components) /\ r.files \in Seq(Components)
  BY <1>1, ArenaParts
<1>4. Grows(r.pchars, b.pchars) /\ Grows(r.files, b.files)
  BY <1>2 DEF Parsed
<1>5. Len(a.pchars) \in Nat /\ Len(a.files) \in Nat
  BY ArenaLengths
<1>6. SameFrom(c.pchars, r.pchars, Len(a.pchars))
  BY <1>3, <1>4, <1>5, SameShorter DEF Carries, PCharSeqs
<1>7. SameFrom(c.files, r.files, Len(a.files))
  BY <1>3, <1>4, <1>5, SameShorter DEF Carries
<1> QED BY <1>2, <1>6, <1>7 DEF Carries

(* A directory is complete when what is below it has been parsed.            *)
LEMMA DirectoryType ==
  ASSUME NEW a \in Arenas, NEW dir \in Nodes, NEW b, Parsed(a, dir, b)
  PROVE  DirectoryOf(b, Header(a, dir)) \in Directories
<1>1. /\ b \in Arenas /\ Len(a.files) + Len(dir.files) <= Len(b.files)
      /\ Len(a.dirs) + Len(dir.dirs) <= Len(b.dirs)
  BY ParsedExtends
<1>2. PICK h \in Directories :
        /\ h = Header(a, dir) /\ h.fileoff = Len(a.files) /\ h.filelen = Len(dir.files)
        /\ h.diroff = Len(a.dirs) /\ h.dirlen = Len(dir.dirs)
  BY HeaderType DEF Header
<1>3. PICK files : files = FilesIter(b, h)
  OBVIOUS
<1>4. PICK dirs : dirs = DirsIter(b, h)
  OBVIOUS
<1>5. files \in Seq(Components) /\ dirs \in Seq(Directories)
  <2>1. h.fileoff \in Nat /\ h.filelen \in Nat /\ h.diroff \in Nat /\ h.dirlen \in Nat
    BY DEF Directories
  <2>2. b.files \in Seq(Components) /\ b.dirs \in Seq(Directories)
    BY <1>1, ArenaParts
  <2> QED BY <1>1, <1>2, <1>3, <1>4, <2>1, <2>2, Slices DEF FilesIter, DirsIter
<1>6. CharSets(files) \subseteq Keys
  <2>1. \A f \in ToSet(files) : f \in Components
    BY <1>5 DEF ToSet
  <2> QED BY <2>1 DEF Components, CharSets
<1>7. CharSets(dirs) \subseteq Keys
  <2>1. \A f \in ToSet(dirs) : f \in Directories
    BY <1>5 DEF ToSet
  <2> QED BY <2>1 DEF Directories, CharSets
<1>8. h.name.char_set \subseteq Keys
  BY DEF Directories, Components
<1>9. PICK keys \in SUBSET Keys : keys = h.name.char_set \cup CharSets(files) \cup CharSets(dirs)
  BY <1>6, <1>7, <1>8
<1>10. DirectoryOf(b, h) = [h EXCEPT !.char_set = keys]
  BY <1>3, <1>4, <1>9 DEF DirectoryOf
<1> QED BY <1>2, <1>10 DEF Directories

(* A directory is put in its place.                                          *)
Placed(a, i, before, child, after) ==
  [after EXCEPT !.dirs[Len(a.dirs) + i] = DirectoryOf(after, Header(before, child))]

LEMMA PlacedIs ==
  ASSUME NEW a \in Arenas, NEW dir \in Nodes, NEW i \in 1 .. Len(dir.dirs), NEW child \in Nodes,
         NEW before, Parsed(a, dir, before), NEW after, Parsed(before, child, after)
  PROVE  LET b == Placed(a, i, before, child, after)
         IN  /\ Parsed(a, dir, b)
             /\ b.pchars = after.pchars /\ b.files = after.files /\ Len(b.dirs) = Len(after.dirs)
             /\ b.dirs[Len(a.dirs) + i] = DirectoryOf(after, Header(before, child))
             /\ \A j \in 1 .. Len(b.dirs) : j # Len(a.dirs) + i => b.dirs[j] = after.dirs[j]
<1> DEFINE b == Placed(a, i, before, child, after)
<1>1. before \in Arenas /\ Extends(a, before) /\ Len(a.dirs) + Len(dir.dirs) <= Len(before.dirs)
  BY ParsedExtends
<1>2. after \in Arenas /\ Extends(before, after)
  BY <1>1, ParsedExtends
<1>3. PICK d \in Directories : d = DirectoryOf(after, Header(before, child))
  BY <1>1, DirectoryType
<1>4. Len(a.dirs) \in Nat /\ Len(before.dirs) \in Nat /\ Len(after.dirs) \in Nat /\ Len(dir.dirs) \in Nat
  BY <1>1, <1>2, ArenaLengths DEF Nodes
<1>5. PICK p \in Nat : p = Len(a.dirs) + i
  BY <1>4
<1>6. p \in 1 .. Len(after.dirs) /\ p > Len(a.dirs) /\ Len(before.dirs) <= Len(after.dirs)
  <2>1. Len(before.dirs) <= Len(after.dirs)
    BY <1>2 DEF Extends, Grows
  <2>2. PICK x, y, z, w \in Nat :
          x = Len(a.dirs) /\ y = Len(before.dirs) /\ z = Len(after.dirs) /\ w = Len(dir.dirs)
    BY <1>4
  <2>3. x + w <= y /\ y <= z /\ i \in 1 .. w /\ p = x + i
    BY <1>1, <1>5, <2>1, <2>2
  <2>4. p \in 1 .. z /\ p > x
    BY ONLY <2>3, x \in Nat, y \in Nat, z \in Nat, w \in Nat
  <2> QED BY <2>1, <2>2, <2>4
<1>7. PICK ds : ds = [after.dirs EXCEPT ![p] = d]
  OBVIOUS
<1>8. /\ ds \in Seq(Directories) /\ Len(ds) = Len(after.dirs) /\ ds[p] = d
      /\ \A j \in 1 .. Len(ds) : j # p => ds[j] = after.dirs[j]
  <2>1. after.dirs \in Seq(Directories)
    BY <1>2, ArenaParts
  <2> QED BY <1>6, <1>7, <2>1
<1>9. b = [after EXCEPT !.dirs = ds]
  BY <1>2, <1>3, <1>5, <1>7 DEF Placed, Arenas
<1>10. b \in Arenas /\ b.pchars = after.pchars /\ b.files = after.files /\ b.dirs = ds
  BY <1>2, <1>8, <1>9 DEF Arenas
<1>11. Grows(a.dirs, ds)
  <2>1. Grows(a.dirs, after.dirs)
    BY <1>1, <1>2, ExtendsOn DEF Extends
  <2> QED BY <1>4, <1>6, <1>8, <2>1 DEF Grows
<1>12. Len(a.dirs) + Len(dir.dirs) <= Len(ds)
  <2>1. PICK x, y, z, w \in Nat :
          x = Len(a.dirs) /\ y = Len(before.dirs) /\ z = Len(after.dirs) /\ w = Len(dir.dirs)
    BY <1>4
  <2>2. x + w <= y /\ y <= z
    BY <1>1, <1>6, <2>1
  <2>3. x + w <= z
    BY ONLY <2>2, x \in Nat, y \in Nat, z \in Nat, w \in Nat
  <2> QED BY <1>8, <2>1, <2>3
<1>13. PICK r \in Arenas : r = Reserved(a, dir)
  BY ReservedIs
<1>14. Grows(r.pchars, b.pchars) /\ Grows(r.files, b.files)
  <2>1. /\ Grows(r.pchars, before.pchars) /\ Grows(r.files, before.files)
    BY <1>13 DEF Parsed
  <2>2. /\ r.pchars \in PCharSeqs /\ before.pchars \in PCharSeqs /\ after.pchars \in PCharSeqs
        /\ r.files \in Seq(Components) /\ before.files \in Seq(Components)
        /\ after.files \in Seq(Components)
    BY <1>1, <1>2, ArenaParts
  <2> QED BY <1>2, <1>10, <2>1, <2>2, GrowsOn DEF Extends, PCharSeqs
<1>15. Parsed(a, dir, b)
  <2> HIDE DEF b
  <2> QED BY <1>10, <1>11, <1>12, <1>13, <1>14 DEF Parsed
<1> HIDE DEF b
<1>16. /\ b.pchars = after.pchars /\ b.files = after.files /\ Len(b.dirs) = Len(after.dirs)
       /\ b.dirs[Len(a.dirs) + i] = DirectoryOf(after, Header(before, child))
       /\ \A j \in 1 .. Len(b.dirs) : j # Len(a.dirs) + i => b.dirs[j] = after.dirs[j]
  BY <1>3, <1>5, <1>8, <1>10
<1> QED BY <1>15, <1>16 DEF b

(* Parsing goes down the tree and, in a directory, from the first to the     *)
(* last subdirectory.                                                        *)
Further(tree) == [s \in Parsings(tree) |-> Len(tree) - s[2]]
Before(tree)  == [s \in Parsings(tree) |-> s[3]]

BelowParsing(tree, s) == Below(Parsings(tree), Further(tree), Before(tree), s)

LEMMA ParsingParts ==
  ASSUME NEW tree, IsTree(tree), NEW s \in Parsings(tree)
  PROVE  \E a \in Arenas, n \in DOMAIN tree, i \in Nat :
           s = <<a, n, i>> /\ i <= Len(tree[n].dirs)
BY DEF Parsings

LEMMA ParsingIn ==
  ASSUME NEW tree, IsTree(tree), NEW a \in Arenas, NEW n \in DOMAIN tree, NEW i \in Nat,
         i <= Len(tree[n].dirs)
  PROVE  <<a, n, i>> \in Parsings(tree)
BY TreeParts DEF Parsings

LEMMA ParsingMeasures ==
  ASSUME NEW tree, IsTree(tree)
  PROVE  Measures(Parsings(tree), Further(tree), Before(tree))
<1>1. ASSUME NEW s \in Parsings(tree) PROVE Len(tree) - s[2] \in Nat /\ s[3] \in Nat
  BY TreeParts DEF Parsings
<1> QED BY <1>1 DEF Measures, Further, Before

LEMMA LowerParsing ==
  ASSUME NEW tree, IsTree(tree), NEW a \in Arenas, NEW n \in DOMAIN tree, NEW i \in Nat,
         i <= Len(tree[n].dirs), i # 0
  PROVE  /\ tree[n].dirs[i] \in DOMAIN tree /\ tree[n].dirs[i] > n
         /\ <<a, n, i - 1>> \in BelowParsing(tree, <<a, n, i>>)
         /\ \A b \in Arenas :
              <<b, tree[n].dirs[i], Len(tree[tree[n].dirs[i]].dirs)>> \in BelowParsing(tree, <<a, n, i>>)
<1>1. Len(tree) \in Nat /\ DOMAIN tree = 1 .. Len(tree) /\ Len(tree[n].dirs) \in Nat
  BY TreeParts
<1>2. i \in 1 .. Len(tree[n].dirs)
  BY <1>1
<1>3. PICK child \in DOMAIN tree : child = tree[n].dirs[i] /\ child > n
  BY <1>2, TreeParts
<1>4. <<a, n, i>> \in Parsings(tree) /\ <<a, n, i - 1>> \in Parsings(tree)
  BY <1>1, <1>2, ParsingIn
<1>5. <<a, n, i - 1>> \in BelowParsing(tree, <<a, n, i>>)
  BY <1>4 DEF BelowParsing, Below, Further, Before
<1>6. ASSUME NEW b \in Arenas
      PROVE  <<b, child, Len(tree[child].dirs)>> \in BelowParsing(tree, <<a, n, i>>)
  <2>1. <<b, child, Len(tree[child].dirs)>> \in Parsings(tree)
    BY TreeParts, ParsingIn
  <2>2. Len(tree) - child < Len(tree) - n
    BY <1>1, <1>3
  <2> QED BY <1>4, <2>1, <2>2 DEF BelowParsing, Below, Further
<1> QED BY <1>3, <1>5, <1>6

(* What parsing gives depends on what is below, and is a directory in its    *)
(* place if what is below is.                                                *)
LEMMA ParseLocal ==
  ASSUME NEW tree, IsTree(tree), NEW g \in [Parsings(tree) -> Arenas], NEW h,
         NEW s \in Parsings(tree), \A y \in BelowParsing(tree, s) : g[y] = h[y]
  PROVE  ParseFrom(tree, g, s[1], s[2], s[3]) = ParseFrom(tree, h, s[1], s[2], s[3])
<1>1. PICK a \in Arenas, n \in DOMAIN tree, i \in Nat : s = <<a, n, i>> /\ i <= Len(tree[n].dirs)
  BY ParsingParts
<1>2. CASE i = 0
  BY <1>1, <1>2 DEF ParseFrom
<1>3. CASE i # 0
  <2>1. PICK child \in DOMAIN tree : child = tree[n].dirs[i]
    BY <1>1, <1>3, LowerParsing
  <2>2. g[<<a, n, i - 1>>] = h[<<a, n, i - 1>>] /\ g[<<a, n, i - 1>>] \in Arenas
    <3>1. <<a, n, i - 1>> \in BelowParsing(tree, s)
      BY <1>1, <1>3, LowerParsing
    <3> QED BY <3>1 DEF BelowParsing, Below
  <2>3. PICK b \in Arenas : b = g[<<a, n, i - 1>>]
    BY <2>2
  <2>4. g[<<b, child, Len(tree[child].dirs)>>] = h[<<b, child, Len(tree[child].dirs)>>]
    BY <1>1, <1>3, <2>1, LowerParsing
  <2> QED BY <1>1, <1>3, <2>1, <2>2, <2>3, <2>4 DEF ParseFrom
<1> QED BY <1>2, <1>3

LEMMA ParseGood ==
  ASSUME NEW tree, IsTree(tree), NEW g, NEW s \in Parsings(tree),
         \A y \in BelowParsing(tree, s) : Parsed(y[1], tree[y[2]], g[y])
  PROVE  Parsed(s[1], tree[s[2]], ParseFrom(tree, g, s[1], s[2], s[3]))
<1>1. PICK a \in Arenas, n \in DOMAIN tree, i \in Nat : s = <<a, n, i>> /\ i <= Len(tree[n].dirs)
  BY ParsingParts
<1>2. tree[n] \in Nodes
  BY TreeParts
<1>3. CASE i = 0
  <2>1. ParseFrom(tree, g, a, n, i) = Reserved(a, tree[n])
    BY <1>3 DEF ParseFrom
  <2> QED BY <1>2, <1>1, <2>1, ReservedParsed
<1>4. CASE i # 0
  <2>1. PICK child \in DOMAIN tree : child = tree[n].dirs[i] /\ tree[child] \in Nodes
    BY <1>1, <1>4, LowerParsing, TreeParts
  <2>2. PICK before : before = g[<<a, n, i - 1>>]
    OBVIOUS
  <2>3. Parsed(a, tree[n], before)
    <3>1. <<a, n, i - 1>> \in BelowParsing(tree, s)
      BY <1>1, <1>4, LowerParsing
    <3> QED BY <2>2, <3>1
  <2>4. before \in Arenas
    BY <2>3 DEF Parsed
  <2>5. PICK after : after = g[<<before, child, Len(tree[child].dirs)>>]
    OBVIOUS
  <2>6. Parsed(before, tree[child], after)
    <3>1. <<before, child, Len(tree[child].dirs)>> \in BelowParsing(tree, s)
      BY <1>1, <1>4, <2>1, <2>4, LowerParsing
    <3> QED BY <2>5, <3>1
  <2>7. ParseFrom(tree, g, a, n, i) = Placed(a, i, before, tree[child], after)
    BY <1>4, <2>1, <2>2, <2>5 DEF ParseFrom, Placed
  <2>8. i \in 1 .. Len(tree[n].dirs)
    BY <1>1, <1>4, TreeParts
  <2> QED BY <1>2, <1>1, <2>1, <2>3, <2>4, <2>6, <2>7, <2>8, PlacedIs
<1> QED BY <1>3, <1>4

LEMMA ParseAll ==
  ASSUME NEW tree, IsTree(tree), NEW g,
         \A s \in Parsings(tree) :
           ParseFrom(tree, g, s[1], s[2], s[3]) \in Arenas => g[s] = ParseFrom(tree, g, s[1], s[2], s[3])
  PROVE  \A s \in Parsings(tree) : Parsed(s[1], tree[s[2]], g[s])
<1> DEFINE G == {s \in Parsings(tree) : Parsed(s[1], tree[s[2]], g[s])}
<1>1. ASSUME NEW s \in Parsings(tree), BelowParsing(tree, s) \subseteq G PROVE s \in G
  <2>1. Parsed(s[1], tree[s[2]], ParseFrom(tree, g, s[1], s[2], s[3]))
    BY <1>1, ParseGood
  <2>2. ParseFrom(tree, g, s[1], s[2], s[3]) \in Arenas
    BY <2>1 DEF Parsed
  <2> QED BY <2>1, <2>2
<1>2. Inductive(G, Parsings(tree), Further(tree), Before(tree))
  <2> HIDE DEF G
  <2> QED BY <1>1 DEF Inductive, BelowParsing
<1>3. Parsings(tree) \subseteq G
  <2> HIDE DEF G
  <2> QED BY <1>2, ParsingMeasures, InductionBelow
<1> QED BY <1>3

(* The parser is what its equation says.                                     *)
LEMMA ParserIs ==
  ASSUME NEW tree, IsTree(tree)
  PROVE  \A s \in Parsings(tree) :
           /\ Parser(tree)[s] = ParseFrom(tree, Parser(tree), s[1], s[2], s[3])
           /\ Parsed(s[1], tree[s[2]], Parser(tree)[s])
<1> DEFINE S == Parsings(tree)
           V == [S -> Arenas]
           Step(g, s) == ParseFrom(tree, g, s[1], s[2], s[3])
           Eq(g) == g = [s \in S |-> Step(g, s)]
           Safe(v) == IF v \in Arenas THEN v ELSE EmptyArena
           F == [g \in V |-> [s \in S |-> Safe(Step(g, s))]]
<1>1. EmptyArena \in Arenas
  BY DEF EmptyArena, Arenas
<1>2. F \in [V -> V]
  <2>1. \A v : Safe(v) \in Arenas
    BY <1>1
  <2> HIDE DEF Safe, Step
  <2> QED BY <2>1
<1>3. ASSUME NEW g \in V, NEW h \in V, NEW s \in S,
             \A y \in Below(S, Further(tree), Before(tree), s) : g[y] = h[y]
      PROVE  F[g][s] = F[h][s]
  <2>1. Step(g, s) = Step(h, s)
    BY <1>3, ParseLocal DEF BelowParsing
  <2>2. F[g][s] = Safe(Step(g, s)) /\ F[h][s] = Safe(Step(h, s))
    <3> HIDE DEF Safe, Step
    <3> QED OBVIOUS
  <2> QED BY <2>1, <2>2
<1>4. PICK f \in V : f = F[f]
  <2>1. Computes(F, S, Further(tree), Before(tree), Arenas)
    <3> HIDE DEF F
    <3> QED BY <1>2, <1>3 DEF Computes
  <2> HIDE DEF F
  <2> QED BY <1>1, <2>1, ParsingMeasures, RecursionBelow
<1>5. \A s \in S : f[s] = Safe(Step(f, s))
  <2> HIDE DEF Safe, Step
  <2> QED BY <1>4
<1>6. \A s \in S : Parsed(s[1], tree[s[2]], f[s])
  BY <1>5, ParseAll
<1>7. ASSUME NEW s \in S PROVE Step(f, s) \in Arenas
  <2>1. Parsed(s[1], tree[s[2]], Step(f, s))
    <3>1. \A y \in BelowParsing(tree, s) : Parsed(y[1], tree[y[2]], f[y])
      BY <1>6 DEF BelowParsing, Below
    <3> QED BY <3>1, ParseGood
  <2> QED BY <2>1 DEF Parsed
<1>8. Eq(f)
  <2>1. \A s \in S : f[s] = Step(f, s)
    <3> HIDE DEF Step
    <3> QED BY <1>5, <1>7
  <2> HIDE DEF Step
  <2> QED BY <1>4, <2>1
<1>9. Eq(Parser(tree))
  <2>1. \E g : Eq(g)
    BY <1>8
  <2> QED BY <2>1, Zenon DEF Parser
<1>10. \A s \in S : Parser(tree)[s] = Step(Parser(tree), s)
  <2> HIDE DEF Step
  <2> QED BY <1>9, Zenon
<1>11. \A s \in S : Parsed(s[1], tree[s[2]], Parser(tree)[s])
  BY <1>10, ParseAll
<1> QED BY <1>10, <1>11

(* That the arena holds a tree is said from the leaves up.                   *)
Holdings(tree) == Directories \X (DOMAIN tree)
Height(tree)   == [s \in Holdings(tree) |-> Len(tree) - s[2]]

LEMMA HoldingMeasures ==
  ASSUME NEW tree, IsTree(tree)
  PROVE  Measures(Holdings(tree), Height(tree), Height(tree))
<1>1. ASSUME NEW s \in Holdings(tree) PROVE Len(tree) - s[2] \in Nat
  BY TreeParts DEF Holdings
<1> QED BY <1>1 DEF Measures, Height

LEMMA HoldsLocal ==
  ASSUME NEW tree, IsTree(tree), NEW c \in Arenas, NEW d \in Directories, NEW n \in DOMAIN tree,
         NEW g, NEW h, HoldsFrom(c, tree, g, d, n),
         \A y \in Below(Holdings(tree), Height(tree), Height(tree), <<d, n>>) : g[y] = h[y]
  PROVE  HoldsFrom(c, tree, h, d, n)
<1>1. /\ d.diroff + d.dirlen <= Len(c.dirs) /\ DOMAIN DirsIter(c, d) = DOMAIN tree[n].dirs
      /\ \A i \in DOMAIN DirsIter(c, d) : g[<<DirsIter(c, d)[i], tree[n].dirs[i]>>]
  BY DEF HoldsFrom
<1>2. d.diroff \in Nat /\ d.dirlen \in Nat
  BY DEF Directories
<1>3. PICK dirs \in Seq(Directories) : dirs = DirsIter(c, d)
  BY <1>1, <1>2, ArenaParts, Slices DEF DirsIter
<1>4. ASSUME NEW i \in DOMAIN dirs PROVE h[<<dirs[i], tree[n].dirs[i]>>]
  <2>1. dirs[i] \in Directories
    OBVIOUS
  <2>2. i \in 1 .. Len(tree[n].dirs)
    BY <1>1, <1>3, TreeParts
  <2>3. tree[n].dirs[i] \in DOMAIN tree /\ tree[n].dirs[i] > n
    BY <2>2, TreeParts
  <2>4. <<dirs[i], tree[n].dirs[i]>> \in Holdings(tree) /\ <<d, n>> \in Holdings(tree)
    BY <2>1, <2>3 DEF Holdings
  <2>5. Len(tree) - tree[n].dirs[i] < Len(tree) - n
    BY <2>3, TreeParts
  <2>6. <<dirs[i], tree[n].dirs[i]>> \in Below(Holdings(tree), Height(tree), Height(tree), <<d, n>>)
    BY <2>4, <2>5 DEF Below, Height
  <2> QED BY <1>1, <1>3, <2>6
<1> QED BY <1>3, <1>4 DEF HoldsFrom

LEMMA HolderIs ==
  ASSUME NEW tree, IsTree(tree), NEW c \in Arenas
  PROVE  \A d \in Directories, n \in DOMAIN tree :
           Holder(c, tree)[<<d, n>>] = HoldsFrom(c, tree, Holder(c, tree), d, n)
<1> DEFINE S == Holdings(tree)
           V == [S -> BOOLEAN]
           Step(g, s) == HoldsFrom(c, tree, g, s[1], s[2])
           Eq(g) == g = [s \in S |-> Step(g, s)]
           F == [g \in V |-> [s \in S |-> Step(g, s)]]
<1>1. F \in [V -> V]
  <2>1. \A g, s : Step(g, s) \in BOOLEAN
    BY DEF HoldsFrom
  <2> HIDE DEF Step
  <2> QED BY <2>1
<1>2. ASSUME NEW g \in V, NEW h \in V, NEW s \in S,
             \A y \in Below(S, Height(tree), Height(tree), s) : g[y] = h[y]
      PROVE  F[g][s] = F[h][s]
  <2>1. s = <<s[1], s[2]>> /\ s[1] \in Directories /\ s[2] \in DOMAIN tree
    BY DEF Holdings
  <2>2. Step(g, s) => Step(h, s)
    BY <1>2, <2>1, HoldsLocal
  <2>3. Step(h, s) => Step(g, s)
    BY <1>2, <2>1, HoldsLocal
  <2>4. Step(g, s) \in BOOLEAN /\ Step(h, s) \in BOOLEAN
    BY DEF HoldsFrom
  <2>5. F[g][s] = Step(g, s) /\ F[h][s] = Step(h, s)
    <3> HIDE DEF Step
    <3> QED OBVIOUS
  <2> HIDE DEF Step, F
  <2> QED BY <2>2, <2>3, <2>4, <2>5
<1>3. \E f \in V : f = F[f]
  <2>1. Computes(F, S, Height(tree), Height(tree), BOOLEAN)
    <3> HIDE DEF F
    <3> QED BY <1>1, <1>2 DEF Computes
  <2>2. BOOLEAN # {}
    OBVIOUS
  <2> HIDE DEF F
  <2> QED BY <2>1, <2>2, HoldingMeasures, RecursionBelow
<1>4. \E f : Eq(f)
  <2> HIDE DEF Step
  <2> QED BY <1>3
<1>5. Eq(Holder(c, tree))
  BY <1>4, Zenon DEF Holder, Holdings
<1>6. ASSUME NEW d \in Directories, NEW n \in DOMAIN tree
      PROVE  Holder(c, tree)[<<d, n>>] = Step(Holder(c, tree), <<d, n>>)
  <2>1. <<d, n>> \in S
    BY DEF Holdings
  <2> HIDE DEF Step
  <2> QED BY <1>5, <2>1, Zenon
<1> QED BY <1>6

(* c has what b has behind a, but maybe not the subdirectories behind the    *)
(* i-th of the directory that was parsed.                                    *)
CarriesUpTo(c, a, dir, i, b) ==
  /\ Carries(c, a, b) /\ Len(b.dirs) <= Len(c.dirs)
  /\ \A j \in Len(a.dirs) + 1 .. Len(b.dirs) :
       j <= Len(a.dirs) + i \/ j > Len(a.dirs) + Len(dir.dirs) => c.dirs[j] = b.dirs[j]

LEMMA DirectoryFields ==
  ASSUME NEW a \in Arenas, NEW dir \in Nodes, NEW b, Parsed(a, dir, b)
  PROVE  LET d == DirectoryOf(b, Header(a, dir))
         IN  /\ d \in Directories /\ d.name = PathComponent(a, dir.name)
             /\ d.fileoff = Len(a.files) /\ d.filelen = Len(dir.files)
             /\ d.diroff = Len(a.dirs) /\ d.dirlen = Len(dir.dirs)
<1>1. PICK h \in Directories :
        /\ h = Header(a, dir) /\ h.fileoff = Len(a.files) /\ h.filelen = Len(dir.files)
        /\ h.diroff = Len(a.dirs) /\ h.dirlen = Len(dir.dirs) /\ h.name = PathComponent(a, dir.name)
  BY HeaderType DEF Header
<1>2. PICK keys : DirectoryOf(b, h) = [h EXCEPT !.char_set = keys]
  BY DEF DirectoryOf
<1>3. DirectoryOf(b, h) \in Directories
  BY <1>1, DirectoryType
<1> QED BY <1>1, <1>2, <1>3 DEF Directories

(* That d is directory n of the tree in c: it was parsed, and c has what     *)
(* parsing it gave.                                                          *)
Carried(c, tree, d, n) ==
  \E a \in Arenas :
    LET b == Parser(tree)[<<a, n, Len(tree[n].dirs)>>]
    IN  d = DirectoryOf(b, Header(a, tree[n])) /\ CarriesUpTo(c, a, tree[n], Len(tree[n].dirs), b)

(* So are the subdirectories that have been parsed.                          *)
LEMMA SubdirectoriesCarried ==
  ASSUME NEW tree, IsTree(tree)
  PROVE  \A s \in Parsings(tree) : \A c \in Arenas :
           CarriesUpTo(c, s[1], tree[s[2]], s[3], Parser(tree)[s]) =>
             \A k \in 1 .. s[3] :
               Carried(c, tree, c.dirs[Len(s[1].dirs) + k], tree[s[2]].dirs[k])
<1> DEFINE parse == Parser(tree)
           Held(s) == \A c \in Arenas :
             CarriesUpTo(c, s[1], tree[s[2]], s[3], parse[s]) =>
               \A k \in 1 .. s[3] :
                 Carried(c, tree, c.dirs[Len(s[1].dirs) + k], tree[s[2]].dirs[k])
           G == {s \in Parsings(tree) : Held(s)}
<1>1. ASSUME NEW s \in Parsings(tree), BelowParsing(tree, s) \subseteq G PROVE Held(s)
  <2>1. PICK a \in Arenas, n \in DOMAIN tree, i \in Nat : s = <<a, n, i>> /\ i <= Len(tree[n].dirs)
    BY ParsingParts
  <2> DEFINE dir == tree[n]
  <2>2. dir \in Nodes /\ Len(dir.dirs) \in Nat
    BY TreeParts
  <2> SUFFICES ASSUME NEW c \in Arenas, CarriesUpTo(c, a, dir, i, parse[s]), NEW k \in 1 .. i
               PROVE  Carried(c, tree, c.dirs[Len(a.dirs) + k], dir.dirs[k])
    <3> HIDE DEF parse
    <3> QED BY <2>1
  <2>3. i # 0
    OBVIOUS
  <2>4. PICK child \in DOMAIN tree : child = dir.dirs[i] /\ tree[child] \in Nodes
    BY <2>1, <2>3, LowerParsing, TreeParts
  <2>5. PICK before : before = parse[<<a, n, i - 1>>]
    OBVIOUS
  <2>6. <<a, n, i - 1>> \in BelowParsing(tree, s)
    BY <2>1, <2>3, LowerParsing
  <2>7. Parsed(a, dir, before)
    BY <2>5, <2>6, ParserIs DEF BelowParsing, Below
  <2>8. before \in Arenas /\ Extends(a, before) /\ Len(a.dirs) + Len(dir.dirs) <= Len(before.dirs)
    BY <2>2, <2>7, ParsedExtends
  <2>9. PICK after : after = parse[<<before, child, Len(tree[child].dirs)>>]
    OBVIOUS
  <2>10. <<before, child, Len(tree[child].dirs)>> \in BelowParsing(tree, s)
    BY <2>1, <2>3, <2>4, <2>8, LowerParsing
  <2>11. Parsed(before, tree[child], after)
    BY <2>9, <2>10, ParserIs DEF BelowParsing, Below
  <2>12. after \in Arenas /\ Extends(before, after)
    BY <2>4, <2>8, <2>11, ParsedExtends
  <2>13. PICK b : b = parse[s]
    OBVIOUS
  <2>14. b = Placed(a, i, before, tree[child], after)
    <3>1. parse[s] = ParseFrom(tree, parse, a, n, i)
      BY <2>1, ParserIs
    <3> HIDE DEF parse
    <3> QED BY <2>3, <2>4, <2>5, <2>9, <2>13, <3>1 DEF ParseFrom, Placed
  <2> HIDE DEF dir
  <2>15. i \in 1 .. Len(dir.dirs)
    BY <2>1, <2>2, <2>3 DEF dir
  <2>16. /\ Parsed(a, dir, b)
         /\ b.pchars = after.pchars /\ b.files = after.files /\ Len(b.dirs) = Len(after.dirs)
         /\ b.dirs[Len(a.dirs) + i] = DirectoryOf(after, Header(before, tree[child]))
         /\ \A j \in 1 .. Len(b.dirs) : j # Len(a.dirs) + i => b.dirs[j] = after.dirs[j]
    BY <2>2, <2>4, <2>7, <2>11, <2>14, <2>15, PlacedIs
  <2>17. CarriesUpTo(c, a, dir, i, b)
    BY <2>13
  <2>18. Carries(c, a, after)
    BY <2>16, <2>17 DEF CarriesUpTo, Carries
  <2>19. Carries(c, a, before) /\ Carries(c, before, after)
    BY <2>8, <2>12, <2>18, CarriesLess, ExtendsSelf
  <2>20. /\ Len(a.dirs) \in Nat /\ Len(before.dirs) \in Nat /\ Len(after.dirs) \in Nat
         /\ Len(c.dirs) \in Nat /\ Len(a.dirs) <= Len(before.dirs)
         /\ Len(before.dirs) <= Len(after.dirs) /\ Len(after.dirs) <= Len(c.dirs)
    <3>1. Len(a.dirs) <= Len(before.dirs) /\ Len(before.dirs) <= Len(after.dirs)
      BY <2>8, <2>12 DEF Extends, Grows
    <3>2. Len(after.dirs) <= Len(c.dirs)
      BY <2>16, <2>17 DEF CarriesUpTo
    <3> QED BY <2>8, <2>12, <3>1, <3>2, ArenaLengths
  <2>21. PICK x, y, z, w \in Nat :
          x = Len(a.dirs) /\ y = Len(before.dirs) /\ z = Len(after.dirs) /\ w = Len(dir.dirs)
    BY <2>2, <2>20 DEF dir
  <2>22. x + w <= y /\ y <= z /\ i \in 1 .. w
    BY <2>8, <2>15, <2>20, <2>21 DEF dir
  <2>23. ASSUME NEW j \in Len(a.dirs) + 1 .. Len(after.dirs), j # Len(a.dirs) + i,
                j <= Len(a.dirs) + i \/ j > Len(a.dirs) + Len(dir.dirs)
         PROVE  c.dirs[j] = after.dirs[j]
    <3>1. j \in Len(a.dirs) + 1 .. Len(b.dirs) /\ j \in 1 .. Len(b.dirs)
      BY <2>16, <2>20
    <3>2. c.dirs[j] = b.dirs[j]
      BY <2>17, <2>23, <3>1 DEF CarriesUpTo
    <3> QED BY <2>16, <2>23, <3>1, <3>2
  <2>24. CarriesUpTo(c, a, dir, i - 1, before)
    <3>1. ASSUME NEW j \in Len(a.dirs) + 1 .. Len(before.dirs),
                 j <= Len(a.dirs) + (i - 1) \/ j > Len(a.dirs) + Len(dir.dirs)
          PROVE  c.dirs[j] = before.dirs[j]
      <4>1. /\ j \in Len(a.dirs) + 1 .. Len(after.dirs) /\ j # Len(a.dirs) + i
            /\ j <= Len(a.dirs) + i \/ j > Len(a.dirs) + Len(dir.dirs)
            /\ j \in 1 .. Len(before.dirs)
        <5>1. /\ j \in x + 1 .. z /\ j # x + i /\ (j <= x + i \/ j > x + w) /\ j \in 1 .. y
          <6>1. j \in x + 1 .. y /\ (j <= x + (i - 1) \/ j > x + w)
            BY <2>21, <3>1
          <6> QED BY ONLY <2>22, <6>1, x \in Nat, y \in Nat, z \in Nat, w \in Nat
        <5> QED BY <2>21, <5>1
      <4>2. after.dirs[j] = before.dirs[j]
        BY <2>12, <4>1 DEF Extends, Grows
      <4> QED BY <2>23, <4>1, <4>2
    <3>2. Len(before.dirs) <= Len(c.dirs)
      BY <2>20
    <3> QED BY <2>19, <3>1, <3>2 DEF CarriesUpTo
  <2>25. CarriesUpTo(c, before, tree[child], Len(tree[child].dirs), after)
    <3>1. ASSUME NEW j \in Len(before.dirs) + 1 .. Len(after.dirs)
          PROVE  c.dirs[j] = after.dirs[j]
      <4>1. /\ j \in Len(a.dirs) + 1 .. Len(after.dirs)
            /\ j > Len(a.dirs) + Len(dir.dirs) /\ j # Len(a.dirs) + i
        <5>1. j \in x + 1 .. z /\ j > x + w /\ j # x + i
          <6>1. j \in y + 1 .. z
            BY <2>21
          <6> QED BY ONLY <2>22, <6>1, x \in Nat, y \in Nat, z \in Nat, w \in Nat
        <5> QED BY <2>21, <5>1
      <4> QED BY <2>23, <4>1
    <3> QED BY <2>19, <2>20, <3>1 DEF CarriesUpTo
  <2>26. CASE k = i
    <3>1. Carried(c, tree, DirectoryOf(after, Header(before, tree[child])), child)
      BY <2>8, <2>9, <2>25 DEF Carried
    <3>2. c.dirs[Len(a.dirs) + i] = b.dirs[Len(a.dirs) + i]
      <4>1. Len(a.dirs) + i \in Len(a.dirs) + 1 .. Len(b.dirs) /\ Len(a.dirs) + i <= Len(a.dirs) + i
        <5>1. x + i \in x + 1 .. z /\ x + i <= x + i
          BY ONLY <2>22, x \in Nat, y \in Nat, z \in Nat, w \in Nat
        <5> QED BY <2>16, <2>21, <5>1
      <4> QED BY <2>17, <4>1 DEF CarriesUpTo
    <3> QED BY <2>4, <2>16, <2>26, <3>1, <3>2
  <2>27. CASE k # i
    <3>1. k \in 1 .. i - 1
      BY <2>27
    <3>2. Held(<<a, n, i - 1>>)
      BY <1>1, <2>6
    <3> QED BY <2>5, <2>24, <3>1, <3>2 DEF dir
  <2> QED BY <2>26, <2>27
<1>2. Inductive(G, Parsings(tree), Further(tree), Before(tree))
  <2> HIDE DEF Held
  <2> QED BY <1>1 DEF Inductive, BelowParsing
<1>3. Parsings(tree) \subseteq G
  <2> HIDE DEF G
  <2> QED BY <1>2, ParsingMeasures, InductionBelow
<1> QED BY <1>3

(* What such a directory is.                                                 *)
LEMMA CarriedParts ==
  ASSUME NEW tree, IsTree(tree), Fits(tree), NEW c \in Arenas, NEW n \in DOMAIN tree, NEW d,
         Carried(c, tree, d, n)
  PROVE  /\ d \in Directories /\ Spells(c, d.name, tree[n].name)
         /\ d.fileoff + d.filelen <= Len(c.files) /\ d.diroff + d.dirlen <= Len(c.dirs)
         /\ FilesIter(c, d) \in Seq(Components) /\ Len(FilesIter(c, d)) = Len(tree[n].files)
         /\ \A i \in 1 .. Len(tree[n].files) : Spells(c, FilesIter(c, d)[i], tree[n].files[i])
         /\ DirsIter(c, d) \in Seq(Directories) /\ Len(DirsIter(c, d)) = Len(tree[n].dirs)
         /\ \A i \in 1 .. Len(tree[n].dirs) : Carried(c, tree, DirsIter(c, d)[i], tree[n].dirs[i])
         /\ d.char_set = d.name.char_set \cup CharSets(FilesIter(c, d)) \cup CharSets(DirsIter(c, d))
<1>1. PICK a \in Arenas :
        /\ d = DirectoryOf(Parser(tree)[<<a, n, Len(tree[n].dirs)>>], Header(a, tree[n]))
        /\ CarriesUpTo(c, a, tree[n], Len(tree[n].dirs), Parser(tree)[<<a, n, Len(tree[n].dirs)>>])
  BY DEF Carried
<1>2. PICK b : b = Parser(tree)[<<a, n, Len(tree[n].dirs)>>]
  OBVIOUS
<1>3. /\ b = Parser(tree)[<<a, n, Len(tree[n].dirs)>>]
      /\ d = DirectoryOf(b, Header(a, tree[n]))
      /\ CarriesUpTo(c, a, tree[n], Len(tree[n].dirs), b)
  BY <1>1, <1>2
<1> DEFINE dir == tree[n]
<1>4. dir \in Nodes /\ dir.files \in Seq(Texts) /\ dir.dirs \in Seq(Nat) /\ Len(dir.dirs) \in Nat
  BY TreeParts
<1>5. PICK s \in Parsings(tree) : s = <<a, n, Len(dir.dirs)>>
  <2>1. Len(tree[n].dirs) \in Nat
    BY <1>4
  <2>2. <<a, n, Len(tree[n].dirs)>> \in Parsings(tree)
    BY <2>1, ParsingIn
  <2> QED BY <2>2
<1>6. Parsed(a, dir, b)
  BY <1>3, <1>5, ParserIs
<1>7. b \in Arenas /\ Extends(a, b) /\ Len(a.dirs) + Len(dir.dirs) <= Len(b.dirs)
  BY <1>4, <1>6, ParsedExtends
<1>8. /\ d \in Directories /\ d.name = PathComponent(a, dir.name)
      /\ d.fileoff = Len(a.files) /\ d.filelen = Len(dir.files)
      /\ d.diroff = Len(a.dirs) /\ d.dirlen = Len(dir.dirs)
  BY <1>4, <1>3, <1>6, DirectoryFields
<1>9. Len(dir.name) < Unit /\ \A f \in ToSet(dir.files) : Len(f) < Unit
  BY DEF Fits
<1>10. /\ Spells(c, PathComponent(a, dir.name), dir.name)
      /\ Len(a.files) + Len(dir.files) <= Len(c.files)
      /\ \A i \in 1 .. Len(dir.files) : Spells(c, c.files[Len(a.files) + i], dir.files[i])
  <2>1. Carries(c, a, Reserved(a, dir))
    BY <1>4, <1>3, <1>6, CarriesReserved DEF CarriesUpTo
  <2> QED BY <1>4, <1>9, <2>1, HeaderKept
<1>11. Len(a.files) \in Nat /\ Len(a.dirs) \in Nat /\ Len(dir.files) \in Nat
      /\ DOMAIN dir.files = 1 .. Len(dir.files) /\ DOMAIN dir.dirs = 1 .. Len(dir.dirs)
  BY <1>4, ArenaLengths
<1>12. Len(a.dirs) + Len(dir.dirs) <= Len(c.dirs)
  <2>1. Len(b.dirs) \in Nat /\ Len(c.dirs) \in Nat /\ Len(b.dirs) <= Len(c.dirs)
    BY <1>7, <1>3, ArenaLengths DEF CarriesUpTo
  <2>2. PICK x, y, z, w \in Nat :
          x = Len(a.dirs) /\ y = Len(dir.dirs) /\ z = Len(b.dirs) /\ w = Len(c.dirs)
    BY <1>4, <1>11, <2>1
  <2>3. x + y <= z /\ z <= w
    BY <1>7, <2>1, <2>2
  <2>4. x + y <= w
    BY ONLY <2>3, x \in Nat, y \in Nat, z \in Nat, w \in Nat
  <2> QED BY <2>2, <2>4
<1> HIDE DEF dir
<1>13. PICK files \in Seq(Components) :
        /\ files = FilesIter(c, d) /\ Len(files) = Len(dir.files)
        /\ \A i \in 1 .. Len(dir.files) : files[i] = c.files[Len(a.files) + i]
  <2>1. PICK fs \in Seq(Components), k, m \in Nat :
          fs = c.files /\ k = Len(a.files) /\ m = Len(dir.files) /\ k + m <= Len(fs)
    BY <1>10, <1>11, ArenaParts
  <2>2. PICK files : files = SubSeq(fs, k + 1, k + m)
    OBVIOUS
  <2>3. files \in Seq(Components) /\ Len(files) = m /\ \A i \in 1 .. m : files[i] = fs[k + i]
    <3>1. k + m <= Len(fs)
      BY <2>1
    <3> QED BY ONLY <2>2, <3>1, fs \in Seq(Components), k \in Nat, m \in Nat, Slices
  <2>4. FilesIter(c, d) = files
    BY <1>8, <2>1, <2>2 DEF FilesIter
  <2> QED BY <2>1, <2>4, <2>3
<1>14. PICK dirs \in Seq(Directories) :
        /\ dirs = DirsIter(c, d) /\ Len(dirs) = Len(dir.dirs)
        /\ \A i \in 1 .. Len(dir.dirs) : dirs[i] = c.dirs[Len(a.dirs) + i]
  <2>1. PICK ds \in Seq(Directories), k, m \in Nat :
          ds = c.dirs /\ k = Len(a.dirs) /\ m = Len(dir.dirs) /\ k + m <= Len(ds)
    BY <1>4, <1>11, <1>12, ArenaParts
  <2>2. PICK dirs : dirs = SubSeq(ds, k + 1, k + m)
    OBVIOUS
  <2>3. dirs \in Seq(Directories) /\ Len(dirs) = m /\ \A i \in 1 .. m : dirs[i] = ds[k + i]
    <3>1. k + m <= Len(ds)
      BY <2>1
    <3> QED BY ONLY <2>2, <3>1, ds \in Seq(Directories), k \in Nat, m \in Nat, Slices
  <2>4. DirsIter(c, d) = dirs
    BY <1>8, <2>1, <2>2 DEF DirsIter
  <2> QED BY <2>1, <2>4, <2>3
<1>15. \A i \in 1 .. Len(dir.files) : Spells(c, files[i], dir.files[i])
  BY <1>10, <1>13
<1>16. \A k \in 1 .. Len(dir.dirs) : Carried(c, tree, dirs[k], dir.dirs[k])
  <2>1. \A k \in 1 .. s[3] : Carried(c, tree, c.dirs[Len(s[1].dirs) + k], tree[s[2]].dirs[k])
    <3>1. CarriesUpTo(c, s[1], tree[s[2]], s[3], Parser(tree)[s])
      BY <1>3, <1>5 DEF dir
    <3> QED BY <3>1, SubdirectoriesCarried
  <2> QED BY <1>14, <1>5, <2>1 DEF dir
<1>17. /\ a.files \in Seq(Components) /\ b.files \in Seq(Components) /\ c.files \in Seq(Components)
       /\ b.dirs \in Seq(Directories) /\ Len(a.files) + Len(dir.files) <= Len(b.files)
  BY <1>4, <1>7, <1>6, ArenaParts, ParsedExtends
<1>18. FilesIter(b, d) = files
  <2>1. PICK fs \in Seq(Components), k, m \in Nat :
          fs = b.files /\ k = Len(a.files) /\ m = Len(dir.files) /\ k + m <= Len(fs)
    BY <1>11, <1>17
  <2>2. PICK old : old = SubSeq(fs, k + 1, k + m)
    OBVIOUS
  <2>3. old \in Seq(Components) /\ Len(old) = m /\ \A i \in 1 .. m : old[i] = fs[k + i]
    <3>1. k + m <= Len(fs)
      BY <2>1
    <3> QED BY ONLY <2>2, <3>1, fs \in Seq(Components), k \in Nat, m \in Nat, Slices
  <2>4. FilesIter(b, d) = old
    BY <1>8, <2>1, <2>2 DEF FilesIter
  <2>5. \A i \in 1 .. m : fs[k + i] = c.files[k + i]
    <3>1. \A i \in 1 .. m : k + i \in k + 1 .. Len(fs)
      <4>1. Len(fs) \in Nat
        BY ONLY fs \in Seq(Components)
      <4>2. k + m <= Len(fs)
        BY <2>1
      <4>3. PICK l \in Nat : l = Len(fs) /\ k + m <= l
        BY ONLY <4>1, <4>2
      <4> QED BY ONLY <4>3, k \in Nat, m \in Nat, l \in Nat
    <3> QED BY <1>3, <2>1, <3>1 DEF CarriesUpTo, Carries, SameFrom
  <2>6. \A i \in 1 .. m : old[i] = files[i]
    BY <1>13, <2>1, <2>3, <2>5
  <2> QED BY <1>13, <2>1, <2>3, <2>4, <2>6, SameElements
<1>19. DirsIter(b, d) = dirs
  <2>1. PICK ds \in Seq(Directories), k, m \in Nat :
          ds = b.dirs /\ k = Len(a.dirs) /\ m = Len(dir.dirs) /\ k + m <= Len(ds)
    BY <1>4, <1>7, <1>11, <1>17
  <2>2. PICK old : old = SubSeq(ds, k + 1, k + m)
    OBVIOUS
  <2>3. old \in Seq(Directories) /\ Len(old) = m /\ \A i \in 1 .. m : old[i] = ds[k + i]
    <3>1. k + m <= Len(ds)
      BY <2>1
    <3> QED BY ONLY <2>2, <3>1, ds \in Seq(Directories), k \in Nat, m \in Nat, Slices
  <2>4. DirsIter(b, d) = old
    BY <1>8, <2>1, <2>2 DEF DirsIter
  <2>5. \A i \in 1 .. m : ds[k + i] = c.dirs[k + i]
    <3>1. \A i \in 1 .. m : k + i \in k + 1 .. Len(ds) /\ k + i <= k + m
      <4>1. Len(ds) \in Nat
        BY ONLY ds \in Seq(Directories)
      <4>2. k + m <= Len(ds)
        BY <2>1
      <4>3. PICK l \in Nat : l = Len(ds) /\ k + m <= l
        BY ONLY <4>1, <4>2
      <4> QED BY ONLY <4>3, k \in Nat, m \in Nat, l \in Nat
    <3> QED BY <1>3, <2>1, <3>1 DEF CarriesUpTo, dir
  <2>6. \A i \in 1 .. m : old[i] = dirs[i]
    BY <1>14, <2>1, <2>3, <2>5
  <2> QED BY <1>14, <2>1, <2>3, <2>4, <2>6, SameElements
<1>20. d.char_set = d.name.char_set \cup CharSets(files) \cup CharSets(dirs)
  <2>1. PICK h \in Directories :
          /\ h = Header(a, dir) /\ h.fileoff = Len(a.files) /\ h.filelen = Len(dir.files)
          /\ h.diroff = Len(a.dirs) /\ h.dirlen = Len(dir.dirs) /\ h.name = PathComponent(a, dir.name)
    BY <1>4, HeaderType DEF Header
  <2>2. FilesIter(b, h) = files /\ DirsIter(b, h) = dirs
    BY <1>8, <1>18, <1>19, <2>1 DEF FilesIter, DirsIter
  <2>3. d = [h EXCEPT !.char_set = h.name.char_set \cup CharSets(files) \cup CharSets(dirs)]
    BY <1>3, <2>1, <2>2 DEF DirectoryOf, dir
  <2>4. d.char_set = h.name.char_set \cup CharSets(files) \cup CharSets(dirs)
    BY <2>3 DEF Directories
  <2> QED BY <1>8, <2>1, <2>4
<1>21. d.fileoff + d.filelen <= Len(c.files) /\ d.diroff + d.dirlen <= Len(c.dirs)
  BY <1>8, <1>10, <1>12
<1>22. Spells(c, d.name, dir.name)
  BY <1>8, <1>10
<1> QED BY <1>8, <1>13, <1>14, <1>15, <1>16, <1>20, <1>21, <1>22 DEF dir

(* A directory that was parsed is held.                                      *)
LEMMA CarriedHeld ==
  ASSUME NEW tree, IsTree(tree), Fits(tree), NEW c \in Arenas
  PROVE  \A n \in DOMAIN tree : \A d \in Directories :
           Carried(c, tree, d, n) => Holder(c, tree)[<<d, n>>]
<1> DEFINE G == {s \in Holdings(tree) : Carried(c, tree, s[1], s[2]) => Holder(c, tree)[s]}
<1>1. ASSUME NEW s \in Holdings(tree), Carried(c, tree, s[1], s[2]),
             Below(Holdings(tree), Height(tree), Height(tree), s) \subseteq G
      PROVE  Holder(c, tree)[s]
  <2>1. PICK d \in Directories, n \in DOMAIN tree : s = <<d, n>>
    BY DEF Holdings
  <2>2. PICK files, dirs : files = FilesIter(c, d) /\ dirs = DirsIter(c, d)
    OBVIOUS
  <2>3. /\ Spells(c, d.name, tree[n].name)
        /\ d.fileoff + d.filelen <= Len(c.files) /\ d.diroff + d.dirlen <= Len(c.dirs)
        /\ files \in Seq(Components) /\ Len(files) = Len(tree[n].files)
        /\ \A i \in 1 .. Len(tree[n].files) : Spells(c, files[i], tree[n].files[i])
        /\ dirs \in Seq(Directories) /\ Len(dirs) = Len(tree[n].dirs)
        /\ \A i \in 1 .. Len(tree[n].dirs) : Carried(c, tree, dirs[i], tree[n].dirs[i])
    BY <1>1, <2>1, <2>2, CarriedParts
  <2>4. /\ tree[n].files \in Seq(Texts) /\ tree[n].dirs \in Seq(Nat)
        /\ \A i \in 1 .. Len(tree[n].dirs) : tree[n].dirs[i] \in DOMAIN tree /\ tree[n].dirs[i] > n
    BY TreeParts
  <2>5. DOMAIN files = DOMAIN tree[n].files /\ DOMAIN files = 1 .. Len(tree[n].files)
    BY <2>3, <2>4
  <2>6. [i \in DOMAIN files |-> PathText(c, files[i])]
          = [i \in DOMAIN tree[n].files |-> Printed(tree[n].files[i])]
    BY <2>3, <2>5 DEF Spells
  <2>7. DOMAIN dirs = DOMAIN tree[n].dirs /\ DOMAIN dirs = 1 .. Len(tree[n].dirs)
    BY <2>3, <2>4
  <2>8. ASSUME NEW i \in DOMAIN dirs PROVE Holder(c, tree)[<<dirs[i], tree[n].dirs[i]>>]
    <3>1. dirs[i] \in Directories /\ tree[n].dirs[i] \in DOMAIN tree /\ tree[n].dirs[i] > n
      BY <2>3, <2>4, <2>7
    <3>2. <<dirs[i], tree[n].dirs[i]>> \in Holdings(tree) /\ <<d, n>> \in Holdings(tree)
      BY <3>1 DEF Holdings
    <3>3. Len(tree) - tree[n].dirs[i] < Len(tree) - n
      BY <3>1, TreeParts
    <3>4. <<dirs[i], tree[n].dirs[i]>> \in Below(Holdings(tree), Height(tree), Height(tree), s)
      BY <2>1, <3>2, <3>3 DEF Below, Height
    <3>5. Carried(c, tree, dirs[i], tree[n].dirs[i])
      BY <2>3, <2>7
    <3> QED BY <1>1, <3>4, <3>5
  <2>9. PathText(c, d.name) = Printed(tree[n].name)
    BY <2>3 DEF Spells
  <2>10. HoldsFrom(c, tree, Holder(c, tree), d, n)
    BY <2>2, <2>3, <2>6, <2>7, <2>8, <2>9 DEF HoldsFrom
  <2> QED BY <2>1, <2>10, HolderIs
<1>2. Inductive(G, Holdings(tree), Height(tree), Height(tree))
  BY <1>1 DEF Inductive
<1>3. Holdings(tree) \subseteq G
  <2> HIDE DEF G
  <2> QED BY <1>2, HoldingMeasures, InductionBelow
<1>4. ASSUME NEW n \in DOMAIN tree, NEW d \in Directories, Carried(c, tree, d, n)
      PROVE  Holder(c, tree)[<<d, n>>]
  <2>1. <<d, n>> \in G
    BY <1>3 DEF Holdings
  <2> QED BY <1>4, <2>1
<1> QED BY <1>4

LEMMA CarriesUpToOn ==
  ASSUME NEW a \in Arenas, NEW dir \in Nodes, NEW i, NEW b \in Arenas, NEW c \in Arenas,
         NEW e \in Arenas, CarriesUpTo(c, a, dir, i, b), Extends(c, e)
  PROVE  CarriesUpTo(e, a, dir, i, b)
<1>1. Carries(e, a, b)
  BY CarriesOn DEF CarriesUpTo
<1>2. PICK x, y, z, w \in Nat :
        x = Len(a.dirs) /\ y = Len(b.dirs) /\ z = Len(c.dirs) /\ w = Len(e.dirs)
  BY ArenaLengths
<1>3. y <= z /\ z <= w
  BY <1>2 DEF CarriesUpTo, Extends, Grows
<1>4. ASSUME NEW j \in Len(a.dirs) + 1 .. Len(b.dirs),
             j <= Len(a.dirs) + i \/ j > Len(a.dirs) + Len(dir.dirs)
      PROVE  e.dirs[j] = b.dirs[j]
  <2>1. c.dirs[j] = b.dirs[j]
    BY <1>4 DEF CarriesUpTo
  <2>2. j \in 1 .. Len(c.dirs)
    <3>1. j \in x + 1 .. y
      BY <1>2
    <3>2. j \in 1 .. z
      BY ONLY <1>3, <3>1, x \in Nat, y \in Nat, z \in Nat, w \in Nat
    <3> QED BY <1>2, <3>2
  <2> QED BY <2>1, <2>2 DEF Extends, Grows
<1>5. Len(b.dirs) <= Len(e.dirs)
  BY <1>2, <1>3
<1> QED BY <1>1, <1>4, <1>5 DEF CarriesUpTo

LEMMA RootParsing ==
  ASSUME NEW tree, IsTree(tree), NEW a \in Arenas, NEW n \in DOMAIN tree
  PROVE  /\ tree[n] \in Nodes
         /\ Parsed(a, tree[n], Parser(tree)[<<a, n, Len(tree[n].dirs)>>])
<1>1. tree[n] \in Nodes /\ Len(tree[n].dirs) \in Nat
  BY TreeParts
<1>2. <<a, n, Len(tree[n].dirs)>> \in Parsings(tree)
  BY <1>1, ParsingIn
<1> QED BY <1>1, <1>2, ParserIs

LEMMA CarriedOn ==
  ASSUME NEW tree, IsTree(tree), NEW n \in DOMAIN tree, NEW c \in Arenas, NEW e \in Arenas,
         NEW d, Carried(c, tree, d, n), Extends(c, e)
  PROVE  Carried(e, tree, d, n)
<1>1. PICK a \in Arenas :
        /\ d = DirectoryOf(Parser(tree)[<<a, n, Len(tree[n].dirs)>>], Header(a, tree[n]))
        /\ CarriesUpTo(c, a, tree[n], Len(tree[n].dirs), Parser(tree)[<<a, n, Len(tree[n].dirs)>>])
  BY DEF Carried
<1>2. PICK b : b = Parser(tree)[<<a, n, Len(tree[n].dirs)>>]
  OBVIOUS
<1>3. /\ b = Parser(tree)[<<a, n, Len(tree[n].dirs)>>]
      /\ d = DirectoryOf(b, Header(a, tree[n]))
      /\ CarriesUpTo(c, a, tree[n], Len(tree[n].dirs), b)
  BY <1>1, <1>2
<1>4. b \in Arenas /\ tree[n] \in Nodes
  BY <1>3, RootParsing, ParsedExtends
<1>5. CarriesUpTo(e, a, tree[n], Len(tree[n].dirs), b)
  BY <1>3, <1>4, CarriesUpToOn
<1> QED BY <1>3, <1>5 DEF Carried

(* Loading a package.                                                        *)
LEMMA ParseDirectoryIs ==
  ASSUME NEW tree, IsTree(tree), NEW a \in Arenas
  PROVE  LET p == ParseDirectory(a, tree)
         IN  /\ p.arena \in Arenas /\ Extends(a, p.arena) /\ p.dir \in Directories
             /\ Carried(p.arena, tree, p.dir, 1)
<1>1. PICK b : b = Parser(tree)[<<a, 1, Len(tree[1].dirs)>>]
  OBVIOUS
<1>2. Parsed(a, tree[1], b) /\ tree[1] \in Nodes
  BY <1>1, TreeParts, RootParsing
<1>3. b \in Arenas /\ Extends(a, b)
  BY <1>2, ParsedExtends
<1>4. PICK d \in Directories : d = DirectoryOf(b, Header(a, tree[1]))
  BY <1>2, DirectoryType
<1>5. ParseDirectory(a, tree) = [arena |-> b, dir |-> d]
  BY <1>1, <1>4 DEF ParseDirectory
<1>6. CarriesUpTo(b, a, tree[1], Len(tree[1].dirs), b)
  <2>1. Len(b.pchars) \in Nat /\ Len(b.files) \in Nat /\ Len(b.dirs) \in Nat
    BY <1>3, ArenaLengths
  <2> QED BY <2>1 DEF CarriesUpTo, Carries, SameFrom
<1>7. Carried(b, tree, d, 1)
  BY <1>1, <1>4, <1>6 DEF Carried
<1> QED BY <1>3, <1>5, <1>7

(* Each package was loaded behind what there was, and nothing has touched it. *)
ArenaInv ==
  /\ packages \in Inputs /\ arena \in Arenas
  /\ roots \in Seq(Directories) /\ Len(roots) <= Len(packages)
  /\ \A i \in DOMAIN roots : Carried(arena, packages[i], roots[i], 1)

LEMMA PackageTrees ==
  ASSUME packages \in Inputs
  PROVE  packages \in Seq(Seq(Nodes)) /\ \A i \in 1 .. Len(packages) : IsTree(packages[i])
<1>1. packages \in Seq(Seq(Nodes)) /\ \A i \in DOMAIN packages : IsTree(packages[i])
  BY InputsType
<1> QED BY <1>1

LEMMA ArenaInvInit == FzfInit => ArenaInv
<1> SUFFICES ASSUME FzfInit PROVE ArenaInv
  OBVIOUS
<1>1. EmptyArena \in Arenas
  BY DEF EmptyArena, Arenas
<1>2. packages \in Inputs /\ arena = EmptyArena /\ roots = <<>>
  BY DEF FzfInit
<1>3. Len(packages) \in Nat
  BY <1>2, PackageTrees
<1> QED BY <1>1, <1>2, <1>3 DEF ArenaInv

LEMMA ArenaInvLoad ==
  ASSUME ArenaInv, Load PROVE ArenaInv'
<1>1. /\ packages \in Inputs /\ arena \in Arenas /\ roots \in Seq(Directories)
      /\ Len(roots) < Len(packages) /\ packages' = packages
  BY DEF ArenaInv, Load
<1>2. Len(roots) \in Nat /\ Len(packages) \in Nat
  BY <1>1, PackageTrees
<1>3. PICK tree : tree = packages[Len(roots) + 1] /\ IsTree(tree)
  <2>1. Len(roots) + 1 \in 1 .. Len(packages)
    BY <1>1, <1>2
  <2> QED BY <1>1, <2>1, PackageTrees
<1>4. PICK b, d : /\ b \in Arenas /\ Extends(arena, b) /\ d \in Directories
                  /\ Carried(b, tree, d, 1) /\ arena' = b /\ roots' = Append(roots, d)
  <2>1. LET p == ParseDirectory(arena, tree)
        IN  arena' = p.arena /\ roots' = Append(roots, p.dir)
    BY <1>3 DEF Load
  <2> QED BY <1>1, <1>3, <2>1, ParseDirectoryIs
<1>5. /\ roots' \in Seq(Directories) /\ Len(roots') = Len(roots) + 1
      /\ \A i \in 1 .. Len(roots) : roots'[i] = roots[i]
      /\ roots'[Len(roots) + 1] = d
  BY <1>1, <1>4, Appends
<1>6. ASSUME NEW i \in 1 .. Len(roots) + 1
      PROVE  Carried(b, packages[i], roots'[i], 1)
  <2>1. CASE i = Len(roots) + 1
    BY <1>1, <1>3, <1>4, <1>5, <2>1
  <2>2. CASE i # Len(roots) + 1
    <3>1. i \in DOMAIN roots /\ i \in 1 .. Len(packages) /\ roots'[i] = roots[i]
      BY <1>1, <1>2, <1>5, <2>2
    <3>2. Carried(arena, packages[i], roots[i], 1)
      BY <3>1 DEF ArenaInv
    <3>3. IsTree(packages[i]) /\ 1 \in DOMAIN packages[i]
      BY <1>1, <3>1, PackageTrees, TreeParts
    <3> QED BY <1>1, <1>4, <3>1, <3>2, <3>3, CarriedOn
  <2> QED BY <2>1, <2>2
<1>7. DOMAIN roots' = 1 .. Len(roots) + 1
  BY <1>5
<1>8. Len(roots') <= Len(packages)
  BY <1>1, <1>2, <1>5
<1> QED BY <1>1, <1>4, <1>5, <1>6, <1>7, <1>8 DEF ArenaInv

LEMMA ArenaInvNext ==
  ASSUME ArenaInv, [FzfNext]_fzfVars PROVE ArenaInv'
<1>1. CASE Load
  BY <1>1, ArenaInvLoad
<1>2. CASE UNCHANGED <<packages, arena, roots>>
  BY <1>2 DEF ArenaInv
<1>3. LoadPanics \/ Walk \/ Respond \/ (\E q \in Queries : Request(q))
        => UNCHANGED <<packages, arena, roots>>
  BY DEF LoadPanics, Walk, StartWalk, VisitFile, VisitDirectory, LeaveDirectory, Panic, Respond, Request
<1>4. UNCHANGED fzfVars => UNCHANGED <<packages, arena, roots>>
  BY DEF fzfVars
<1> QED BY <1>1, <1>2, <1>3, <1>4 DEF FzfNext

(* Whatever packages Arena::load has read, from the first to the last, every *)
(* directory in the flat vectors holds its own files and subdirectories, in  *)
(* their order, as long as no name is so long that its length reaches into the*)
(* offset.                                                                   *)
THEOREM ArenaHolds == FzfSpec => []ArenaHoldsTrees
<1>1. FzfInit => ArenaInv
  BY ArenaInvInit
<1>2. ArenaInv /\ [FzfNext]_fzfVars => ArenaInv'
  BY ArenaInvNext
<1>3. ArenaInv => ArenaHoldsTrees
  <2> SUFFICES ASSUME ArenaInv, NamesFit, NEW i \in DOMAIN roots
               PROVE  Holder(arena, packages[i])[<<roots[i], 1>>]
    BY DEF ArenaHoldsTrees
  <2>1. packages \in Inputs /\ arena \in Arenas /\ i \in 1 .. Len(packages)
    BY PackageTrees DEF ArenaInv
  <2>2. packages[i] \in ToSet(packages) /\ IsTree(packages[i])
    BY <2>1, PackageTrees DEF ToSet
  <2>3. Fits(packages[i])
    BY <2>2 DEF NamesFit
  <2>4. Carried(arena, packages[i], roots[i], 1) /\ roots[i] \in Directories
    BY DEF ArenaInv
  <2>5. 1 \in DOMAIN packages[i]
    BY <2>2, TreeParts
  <2> QED BY <2>1, <2>2, <2>3, <2>4, <2>5, CarriedHeld
<1> QED BY <1>1, <1>2, <1>3, PTL DEF FzfSpec

-----------------------------------------------------------------------------
(* The matcher.                                                              *)

(* The queries that are not refused.                                         *)
Askable == Seq(Chars \ NonAscii) \ {<<>>}

States == {s \in [score : Nat, start : Nat, end : Nat] : s.start <= s.end}

Matchers(q) == [states : [DOMAIN q -> States], char_set : SUBSET Keys, length : Nat]

(* The bit of a character.                                                   *)
KeyOf(c) == IF c \in Untold THEN Null ELSE Lower(c)

LEMMA CharSetIs == \A text : CharSet(text) = {KeyOf(c) : c \in ToSet(text)}
BY DEF CharSet, KeyOf

LEMMA CharSetOne == \A c : CharSet(<<c>>) = {KeyOf(c)}
<1>1. \A c : ToSet(<<c>>) = {c}
  BY DEF ToSet
<1> QED BY <1>1, CharSetIs

LEMMA LowerIs ==
  ASSUME NEW c
  PROVE  /\ c \notin Letters => Lower(c) = c
         /\ Lower(c) # c => Lower(c) \in DOMAIN Upper /\ Lower(c) \in Letters
         /\ c \in Chars => Lower(c) \in Chars
<1>1. CASE \E l \in DOMAIN Upper : Upper[l] = c
  <2>1. PICK l \in DOMAIN Upper : Lower(c) = l /\ Upper[l] = c
    BY <1>1 DEF Lower
  <2> QED BY <2>1, CharsType DEF Letters
<1>2. CASE ~ \E l \in DOMAIN Upper : Upper[l] = c
  BY <1>2 DEF Lower
<1> QED BY <1>1, <1>2

(* Characters that match have the same bit; so have a character and its byte.*)
LEMMA KeysAgree ==
  /\ \A c \in Chars \ NonAscii, b \in Keys : Lower(c) = Lower(b) => KeyOf(c) = KeyOf(b)
  /\ \A c \in Chars : KeyOf(Byte(c)) = KeyOf(c) /\ Byte(c) \in Keys
  /\ KeyOf(Slash) = Slash /\ Slash \in Keys
  /\ \A c \in Keys : KeyOf(c) \in Keys
<1>1. Null \notin Letters /\ Lower(Null) = Null
  <2>1. Null \notin Letters
    BY CharsType DEF Letters
  <2> QED BY <2>1, LowerIs
<1>2. ASSUME NEW c \in Chars \ NonAscii, NEW b \in Keys, Lower(c) = Lower(b)
      PROVE  KeyOf(c) = KeyOf(b)
  <2>1. CASE b = Null
    <3>1. Lower(c) \in Chars
      BY LowerIs
    <3> QED BY <1>1, <1>2, <2>1, <3>1, CharsType
  <2>2. CASE b \in Untold
    <3>1. b \notin Letters /\ Lower(b) = b
      BY <2>2, LowerIs, CharsType
    <3>2. c = b
      BY <1>2, <3>1, LowerIs
    <3> QED BY <3>2
  <2>3. CASE c \in Untold
    <3>1. c \notin Letters /\ Lower(c) = c
      BY <2>3, LowerIs, CharsType
    <3>2. c = b
      BY <1>2, <3>1, LowerIs
    <3> QED BY <3>2
  <2>4. CASE b \notin Untold /\ c \notin Untold
    BY <1>2, <2>4 DEF KeyOf
  <2> QED BY <2>1, <2>2, <2>3, <2>4
<1>3. ASSUME NEW c \in Chars PROVE KeyOf(Byte(c)) = KeyOf(c) /\ Byte(c) \in Keys
  <2>1. CASE c \in NonAscii
    BY <1>1, <2>1 DEF Byte, KeyOf, Untold, Keys
  <2>2. CASE c \notin NonAscii
    BY <2>2 DEF Byte, Keys
  <2> QED BY <2>1, <2>2
<1>4. KeyOf(Slash) = Slash /\ Slash \in Keys
  BY CharsType, LowerIs DEF KeyOf, Keys
<1>5. \A c \in Keys : KeyOf(c) \in Keys
  BY LowerType DEF KeyOf, Keys
<1> QED BY <1>2, <1>3, <1>4, <1>5

LEMMA PointsAre ==
  ASSUME NEW q, NEW k, NEW b
  PROVE  Points(q, k, b) \in Nat /\ (Points(q, k, b) > 0 <=> Lower(q[k]) = Lower(b))
BY DEF Points

(* What a character does to the matcher.                                     *)
Fed(q, m, b, r) ==
  /\ r \in Matchers(q) /\ r.length = m.length
  /\ m.char_set \subseteq r.char_set /\ r.char_set \subseteq m.char_set \cup {KeyOf(b)}
  /\ \A k \in DOMAIN q :
       /\ r.states[k].score > 0 <=>
            \/ m.states[k].score > 0
            \/ Lower(q[k]) = Lower(b) /\ (k = 1 \/ m.states[k - 1].score > 0)
       /\ r.states[k].score > 0 /\ m.states[k].score = 0 => KeyOf(q[k]) \in r.char_set

LEMMA NextStateType ==
  ASSUME NEW q, NEW k \in Nat, NEW prev \in States, NEW b, NEW bonus \in Nat, NEW i \in Nat,
         NEW initial \in BOOLEAN
  PROVE  /\ NextState(q, k, prev, b, bonus, i, initial) \in States
         /\ Points(q, k, b) > 0 => NextState(q, k, prev, b, bonus, i, initial).score > 0
<1>1. PICK p \in Nat : p = Points(q, k, b)
  BY PointsAre
<1>2. PICK s, e, x \in Nat : s = prev.start /\ e = prev.end /\ x = prev.score /\ s <= e
  BY DEF States
<1>3. PICK run \in BOOLEAN : run = (k > 1 /\ e = i)
  OBVIOUS
<1>4. PICK head \in Nat : head = IF k = 1 THEN IF initial THEN 3 ELSE 0 ELSE x
  OBVIOUS
<1>5. PICK more \in Nat : more = IF run THEN 5 * (e - s) ELSE 0
  <2>1. e - s \in Nat
    BY <1>2
  <2>2. 5 * (e - s) \in Nat
    BY <2>1
  <2> QED BY <2>2
<1>6. NextState(q, k, prev, b, bonus, i, initial)
        = [score |-> p + bonus + head + more, start |-> IF run THEN s ELSE i, end |-> i + 1]
  BY <1>1, <1>2, <1>3, <1>4, <1>5 DEF NextState
<1>7. p + bonus + head + more \in Nat /\ (p > 0 => p + bonus + head + more > 0)
  OBVIOUS
<1>8. (IF run THEN s ELSE i) \in Nat /\ (IF run THEN s ELSE i) <= i + 1
  <2>1. CASE run
    <3>1. e = i
      BY <1>3, <2>1
    <3> QED BY <1>2, <2>1, <3>1
  <2>2. CASE ~ run
    BY <2>2
  <2> QED BY <2>1, <2>2
<1> QED BY <1>1, <1>6, <1>7, <1>8 DEF States

LEMMA ScoreCharFed ==
  ASSUME NEW q \in Askable, NEW m \in Matchers(q), NEW b \in Keys, NEW bonus \in Nat,
         NEW i \in Nat, NEW initial \in BOOLEAN
  PROVE  Fed(q, m, b, ScoreChar(q, m, b, bonus, i, initial))
<1> DEFINE prev(k) == IF k = 1 THEN m.states[1] ELSE m.states[k - 1]
           nxt(k)  == NextState(q, k, prev(k), b, bonus, i, initial)
           better  == {k \in DOMAIN q : /\ Points(q, k, b) > 0
                                        /\ k = 1 \/ prev(k).score > 0
                                        /\ nxt(k).score > m.states[k].score}
           states  == [k \in DOMAIN q |-> IF k \in better THEN nxt(k) ELSE m.states[k]]
           set     == IF better = {} THEN m.char_set ELSE m.char_set \cup {KeyOf(b)}
           r       == ScoreChar(q, m, b, bonus, i, initial)
<1>1. DOMAIN q = 1 .. Len(q) /\ Len(q) \in Nat /\ Len(q) >= 1
      /\ \A k \in DOMAIN q : q[k] \in Chars \ NonAscii
  BY DEF Askable
<1>2. /\ m.states \in [DOMAIN q -> States] /\ m.char_set \in SUBSET Keys /\ m.length \in Nat
  BY DEF Matchers
<1>3. \A k \in DOMAIN q : prev(k) \in States
  BY <1>1, <1>2
<1>4. \A k \in DOMAIN q : nxt(k) \in States /\ (Points(q, k, b) > 0 => nxt(k).score > 0)
  <2> HIDE DEF prev
  <2> QED BY <1>1, <1>3, NextStateType
<1> HIDE DEF nxt
<1>5. r = [states |-> states, char_set |-> set, length |-> m.length]
  <2>1. m = [states |-> m.states, char_set |-> m.char_set, length |-> m.length]
    BY DEF Matchers
  <2>2. r = [m EXCEPT !.states = [k \in DOMAIN q |-> IF k \in better THEN nxt(k) ELSE @[k]],
                      !.char_set = IF better = {} THEN @ ELSE @ \cup CharSet(<<b>>)]
    BY Zenon DEF ScoreChar, nxt
  <2> HIDE DEF better, r
  <2> QED BY <1>2, <2>1, <2>2, CharSetOne
<1>6. states \in [DOMAIN q -> States]
  BY <1>2, <1>4
<1>7. set \in SUBSET Keys
  BY <1>2, KeysAgree
<1>8. r \in Matchers(q)
  <2> HIDE DEF states, set, r
  <2> QED BY <1>2, <1>5, <1>6, <1>7 DEF Matchers
<1>9. m.char_set \subseteq set /\ set \subseteq m.char_set \cup {KeyOf(b)}
  OBVIOUS
<1>10. ASSUME NEW k \in DOMAIN q
      PROVE  /\ states[k].score > 0 <=>
                  \/ m.states[k].score > 0
                  \/ Lower(q[k]) = Lower(b) /\ (k = 1 \/ m.states[k - 1].score > 0)
             /\ states[k].score > 0 /\ m.states[k].score = 0 => KeyOf(q[k]) \in set
  <2>1. m.states[k].score \in Nat /\ nxt(k).score \in Nat
    BY <1>2, <1>4 DEF States
  <2>2. Points(q, k, b) > 0 <=> Lower(q[k]) = Lower(b)
    BY PointsAre
  <2>3. CASE k \in better
    <3>1. states[k] = nxt(k) /\ nxt(k).score > 0 /\ Lower(q[k]) = Lower(b)
      BY <1>4, <2>2, <2>3
    <3>2. k = 1 \/ m.states[k - 1].score > 0
      BY <2>3
    <3>3. KeyOf(q[k]) = KeyOf(b) /\ set = m.char_set \cup {KeyOf(b)}
      BY <1>1, <2>3, <3>1, KeysAgree
    <3> HIDE DEF states, set, better
    <3> QED BY <3>1, <3>2, <3>3
  <2>4. CASE k \notin better
    <3>1. states[k] = m.states[k]
      BY <2>4
    <3>2. ASSUME m.states[k].score = 0, Lower(q[k]) = Lower(b), k = 1 \/ m.states[k - 1].score > 0
          PROVE  FALSE
      <4>1. nxt(k).score > m.states[k].score
        BY <1>4, <2>1, <2>2, <3>2
      <4>2. k = 1 \/ prev(k).score > 0
        BY <3>2
      <4> QED BY <2>2, <2>4, <3>2, <4>1, <4>2
    <3> HIDE DEF states, set, better
    <3> QED BY <2>1, <3>1, <3>2
  <2> QED BY <2>3, <2>4
<1>11. r.states = states /\ r.char_set = set /\ r.length = m.length
  BY <1>5
<1> HIDE DEF r, states, set
<1>12. Fed(q, m, b, r)
  BY <1>8, <1>9, <1>10, <1>11 DEF Fed
<1> QED BY <1>12 DEF r

(* The first k characters of the query are found in the text, in order.      *)
FoundAt(w, q, k, at) ==
  /\ at \in [1 .. k -> DOMAIN w]
  /\ \A j \in 1 .. k : Lower(w[at[j]]) = Lower(q[j])
  /\ \A j, l \in 1 .. k : j < l => at[j] < at[l]

Found(w, q, k) == \E at : FoundAt(w, q, k, at)

LEMMA FoundMore ==
  ASSUME NEW q \in Askable, NEW w \in Seq(Keys), NEW b \in Keys, NEW k \in DOMAIN q
  PROVE  Found(Append(w, b), q, k) <=>
           \/ Found(w, q, k)
           \/ Lower(q[k]) = Lower(b) /\ (k = 1 \/ Found(w, q, k - 1))
<1>1. PICK n \in Nat : n = Len(w) /\ DOMAIN w = 1 .. n
  OBVIOUS
<1>2. PICK v \in Seq(Keys) :
        /\ v = Append(w, b) /\ DOMAIN v = 1 .. n + 1 /\ v[n + 1] = b
        /\ \A i \in 1 .. n : v[i] = w[i]
  <2>1. PICK v : v = Append(w, b)
    OBVIOUS
  <2>2. /\ v \in Seq(Keys) /\ Len(v) = Len(w) + 1 /\ v[Len(w) + 1] = b
        /\ \A i \in 1 .. Len(w) : v[i] = w[i]
    BY <2>1, Appends
  <2>3. DOMAIN v = 1 .. n + 1
    BY <1>1, <2>2
  <2> QED BY <1>1, <2>1, <2>2, <2>3
<1>3. k \in Nat /\ k >= 1
  BY DEF Askable
<1>4. ASSUME Found(v, q, k)
      PROVE  Found(w, q, k) \/ (Lower(q[k]) = Lower(b) /\ (k = 1 \/ Found(w, q, k - 1)))
  <2>1. PICK at : FoundAt(v, q, k, at)
    BY <1>4 DEF Found
  <2>2. at[k] \in 1 .. n + 1 /\ k \in 1 .. k
    BY <1>2, <1>3, <2>1 DEF FoundAt
  <2>3. CASE at[k] = n + 1
    <3>1. Lower(q[k]) = Lower(b)
      BY <1>2, <2>1, <2>2, <2>3 DEF FoundAt
    <3>2. ASSUME k # 1 PROVE Found(w, q, k - 1)
      <4> DEFINE to == [j \in 1 .. k - 1 |-> at[j]]
      <4>1. \A j \in 1 .. k - 1 : j \in 1 .. k /\ at[j] \in 1 .. n
        <5> SUFFICES ASSUME NEW j \in 1 .. k - 1 PROVE j \in 1 .. k /\ at[j] \in 1 .. n
          OBVIOUS
        <5>1. j \in 1 .. k /\ j < k
          BY <1>3
        <5>2. at[j] < at[k] /\ at[j] \in 1 .. n + 1
          BY <1>2, <2>1, <2>2, <5>1 DEF FoundAt
        <5> QED BY <2>3, <5>1, <5>2
      <4>2. FoundAt(w, q, k - 1, to)
        BY <1>1, <1>2, <2>1, <4>1 DEF FoundAt
      <4> QED BY <4>2 DEF Found
    <3> QED BY <3>1, <3>2
  <2>4. CASE at[k] # n + 1
    <3>1. \A j \in 1 .. k : at[j] \in 1 .. n
      <4> SUFFICES ASSUME NEW j \in 1 .. k PROVE at[j] \in 1 .. n
        OBVIOUS
      <4>1. at[j] <= at[k] /\ at[j] \in 1 .. n + 1
        BY <1>2, <1>3, <2>1, <2>2 DEF FoundAt
      <4> QED BY <2>2, <2>4, <4>1
    <3>2. FoundAt(w, q, k, at)
      BY <1>1, <1>2, <2>1, <3>1 DEF FoundAt
    <3> QED BY <3>2 DEF Found
  <2> QED BY <2>3, <2>4
<1>5. ASSUME Found(w, q, k) PROVE Found(v, q, k)
  <2>1. PICK at : FoundAt(w, q, k, at)
    BY <1>5 DEF Found
  <2>2. FoundAt(v, q, k, at)
    BY <1>1, <1>2, <2>1 DEF FoundAt
  <2> QED BY <2>2 DEF Found
<1>6. ASSUME Lower(q[k]) = Lower(b), k = 1 \/ Found(w, q, k - 1) PROVE Found(v, q, k)
  <2>1. PICK at : k # 1 => FoundAt(w, q, k - 1, at)
    BY <1>6 DEF Found
  <2> DEFINE to == [j \in 1 .. k |-> IF j = k THEN n + 1 ELSE at[j]]
  <2>2. \A j \in 1 .. k : j # k => j \in 1 .. k - 1 /\ k # 1
    BY <1>3
  <2>3. \A j \in 1 .. k : j # k => to[j] \in 1 .. n /\ Lower(v[to[j]]) = Lower(q[j])
    BY <1>1, <1>2, <2>1, <2>2 DEF FoundAt
  <2>4. k \in 1 .. k /\ to[k] = n + 1
    BY <1>3
  <2>5. \A j, l \in 1 .. k : j < l => to[j] < to[l]
    <3> SUFFICES ASSUME NEW j \in 1 .. k, NEW l \in 1 .. k, j < l PROVE to[j] < to[l]
      OBVIOUS
    <3>1. CASE l = k
      BY <2>3, <2>4, <3>1
    <3>2. CASE l # k
      <4>1. j # k
        BY <1>3
      <4>2. at[j] < at[l]
        BY <2>1, <2>2, <3>2, <4>1 DEF FoundAt
      <4> QED BY <3>2, <4>1, <4>2
    <3> QED BY <3>1, <3>2
  <2>6. to \in [1 .. k -> DOMAIN v]
    <3>1. \A j \in 1 .. k : to[j] \in 1 .. n + 1
      BY <2>3, <2>4
    <3> QED BY <1>2, <3>1
  <2>7. \A j \in 1 .. k : Lower(v[to[j]]) = Lower(q[j])
    BY <1>2, <1>6, <2>3, <2>4
  <2> HIDE DEF to
  <2>8. FoundAt(v, q, k, to)
    BY <2>5, <2>6, <2>7 DEF FoundAt
  <2> QED BY <2>8 DEF Found
<1> QED BY <1>2, <1>4, <1>5, <1>6

LEMMA FoundAll ==
  ASSUME NEW q \in Askable, NEW w
  PROVE  Found(w, q, Len(q)) <=> Matches(w, q)
<1>1. DOMAIN q = 1 .. Len(q)
  BY DEF Askable
<1> QED BY <1>1 DEF Found, FoundAt, Matches

-----------------------------------------------------------------------------
(* A matcher that has read w.                                                *)
Reads(q, m, w) ==
  /\ m \in Matchers(q)
  /\ \A k \in DOMAIN q :
       /\ m.states[k].score > 0 => KeyOf(q[k]) \in m.char_set
       /\ m.states[k].score > 0 => k = 1 \/ m.states[k - 1].score > 0
       /\ m.states[k].score > 0 <=> Found(w, q, k)

LEMMA FedReads ==
  ASSUME NEW q \in Askable, NEW w \in Seq(Keys), NEW m, Reads(q, m, w), NEW b \in Keys,
         NEW r, Fed(q, m, b, r)
  PROVE  Reads(q, r, Append(w, b))
<1>1. r \in Matchers(q) /\ m \in Matchers(q) /\ m.char_set \subseteq r.char_set
  BY DEF Fed, Reads
<1>2. ASSUME NEW k \in DOMAIN q
      PROVE  /\ r.states[k].score > 0 => KeyOf(q[k]) \in r.char_set
             /\ r.states[k].score > 0 => k = 1 \/ r.states[k - 1].score > 0
             /\ r.states[k].score > 0 <=> Found(Append(w, b), q, k)
  <2>1. k = 1 \/ k - 1 \in DOMAIN q
    BY DEF Askable
  <2>2. m.states[k].score \in Nat
    BY <1>1 DEF Matchers, States
  <2>3. r.states[k].score > 0 => KeyOf(q[k]) \in r.char_set
    BY <1>1, <2>2 DEF Fed, Reads
  <2>4. r.states[k].score > 0 => k = 1 \/ r.states[k - 1].score > 0
    BY <2>1 DEF Fed, Reads
  <2>5. r.states[k].score > 0 <=> Found(Append(w, b), q, k)
    BY <2>1, FoundMore DEF Fed, Reads
  <2> QED BY <2>3, <2>4, <2>5
<1> QED BY <1>1, <1>2 DEF Reads

LEMMA NewReads ==
  ASSUME NEW q \in Askable PROVE Reads(q, NewMatcher(q), <<>>)
<1>1. [score |-> 0, start |-> 0, end |-> 0] \in States
  BY DEF States
<1>2. NewMatcher(q) \in Matchers(q)
  BY <1>1 DEF NewMatcher, Matchers
<1>3. ASSUME NEW k \in DOMAIN q PROVE ~ Found(<<>>, q, k)
  <2>1. k \in 1 .. k
    BY DEF Askable
  <2>2. DOMAIN <<>> = {}
    OBVIOUS
  <2> QED BY <2>1, <2>2 DEF Found, FoundAt
<1>4. \A k \in DOMAIN q : ~ (NewMatcher(q).states[k].score > 0)
  BY DEF NewMatcher
<1> QED BY <1>2, <1>3, <1>4 DEF Reads

(* fed is the matcher after each character of a name.                        *)
Feeds(q, m, chars, initial, fed, first) ==
  /\ fed \in [0 .. Len(chars) -> Matchers(q)] /\ first \in Nat
  /\ fed[0] = IF initial THEN m ELSE ScoreChar(q, m, Slash, 0, m.length, initial)
  /\ \A j \in 1 .. Len(chars) :
       /\ first + j - 1 \in Nat
       /\ fed[j] = ScoreChar(q, fed[j - 1], chars[j].byte, chars[j].bonus, first + j - 1, initial)
  /\ Advance(q, m, chars, initial) = [fed[Len(chars)] EXCEPT !.length = @ + Len(chars)]

LEMMA AdvanceSteps ==
  ASSUME NEW q \in Askable, NEW m \in Matchers(q), NEW chars \in PCharSeqs, NEW initial \in BOOLEAN
  PROVE  \E fed, first : Feeds(q, m, chars, initial, fed, first)
<1> DEFINE slashed == IF initial THEN m ELSE ScoreChar(q, m, Slash, 0, m.length, initial)
           first   == IF initial THEN m.length + 1 ELSE m.length
           S == 0 .. Len(chars)
           W == Matchers(q)
           V == [S -> W]
           Step(g, j) ==
             IF j = 0 THEN slashed
             ELSE ScoreChar(q, g[j - 1], chars[j].byte, chars[j].bonus, first + j - 1, initial)
           Eq(g) == g = [j \in S |-> Step(g, j)]
           F == [g \in V |-> [j \in S |-> Step(g, j)]]
           meas == [j \in S |-> j]
<1>1. /\ Len(chars) \in Nat /\ m.length \in Nat
      /\ \A j \in 1 .. Len(chars) : chars[j].byte \in Keys /\ chars[j].bonus \in Nat
  <2>1. Len(chars) \in Nat /\ \A j \in 1 .. Len(chars) : chars[j] \in [byte : Keys, bonus : Nat]
    <3>1. PICK R : R = [byte : Keys, bonus : Nat]
      OBVIOUS
    <3>2. chars \in Seq(R)
      BY <3>1 DEF PCharSeqs
    <3>3. Len(chars) \in Nat /\ \A j \in 1 .. Len(chars) : chars[j] \in R
      BY <3>2, ElementsOf
    <3> QED BY ONLY <3>1, <3>3
  <2>2. m.length \in Nat
    BY DEF Matchers
  <2> QED BY <2>1, <2>2
<1>2. Measures(S, meas, meas)
  BY <1>1 DEF Measures
<1>3. ASSUME NEW j \in S, j # 0
      PROVE  /\ j - 1 \in S /\ j - 1 \in Below(S, meas, meas, j) /\ j \in 1 .. Len(chars)
             /\ chars[j].byte \in Keys /\ chars[j].bonus \in Nat /\ first + j - 1 \in Nat
  BY <1>1, <1>3 DEF Below
<1>4. slashed \in W
  BY <1>1, ScoreCharFed, KeysAgree DEF Fed
<1>5. ASSUME NEW v \in W, NEW j \in S, j # 0
      PROVE  ScoreChar(q, v, chars[j].byte, chars[j].bonus, first + j - 1, initial) \in W
  <2> HIDE DEF first, S
  <2> QED BY <1>3, <1>5, ScoreCharFed DEF Fed
<1> HIDE DEF slashed, first
<1>6. ASSUME NEW g \in V, NEW j \in S PROVE Step(g, j) \in W
  <2>1. CASE j = 0
    BY <1>4, <2>1
  <2>2. CASE j # 0
    <3>1. g[j - 1] \in W
      BY <1>3, <2>2
    <3> QED BY <1>5, <2>2, <3>1
  <2> QED BY <2>1, <2>2
<1>7. F \in [V -> V]
  <2> HIDE DEF Step, W
  <2> QED BY <1>6
<1>8. ASSUME NEW g \in V, NEW h \in V, NEW j \in S, \A y \in Below(S, meas, meas, j) : g[y] = h[y]
      PROVE  F[g][j] = F[h][j]
  <2>1. j # 0 => g[j - 1] = h[j - 1]
    <3> HIDE DEF S, V, F, meas
    <3> QED BY <1>3, <1>8
  <2>2. Step(g, j) = Step(h, j)
    BY <2>1
  <2> HIDE DEF Step, W
  <2> QED BY <2>2
<1>9. \E g \in V : g = F[g]
  <2>1. Computes(F, S, meas, meas, W)
    <3> HIDE DEF F, W
    <3> QED BY <1>7, <1>8 DEF Computes
  <2> HIDE DEF F, S, meas, W
  <2> QED BY <1>2, <1>4, <2>1, RecursionBelow
<1>10. \E g : Eq(g)
  <2> HIDE DEF Step, W
  <2> QED BY <1>9
<1>11. PICK fed : /\ Eq(fed)
                  /\ Advance(q, m, chars, initial) = [fed[Len(chars)] EXCEPT !.length = @ + Len(chars)]
  BY <1>10, Zenon DEF Advance, slashed, first
<1>12. \A j \in 1 .. Len(chars) :
         fed[j] = ScoreChar(q, fed[j - 1], chars[j].byte, chars[j].bonus, first + j - 1, initial)
  <2> SUFFICES ASSUME NEW j \in 1 .. Len(chars)
               PROVE  fed[j] = ScoreChar(q, fed[j - 1], chars[j].byte, chars[j].bonus,
                                         first + j - 1, initial)
    OBVIOUS
  <2>1. j \in S /\ j # 0
    BY <1>1
  <2>2. fed[j] = Step(fed, j)
    <3> HIDE DEF Step
    <3> QED BY <1>11, <2>1
  <2> QED BY <2>1, <2>2
<1>13. fed[0] = slashed
  BY <1>1, <1>11
<1>14. \A j \in S : fed[j] \in W
  <2> DEFINE P == {j \in Nat : j <= Len(chars) => fed[j] \in W}
  <2>1. 0 \in P
    BY <1>4, <1>13
  <2>2. ASSUME NEW j \in Nat, j \in P PROVE j + 1 \in P
    <3> SUFFICES ASSUME j + 1 <= Len(chars) PROVE fed[j + 1] \in W
      OBVIOUS
    <3>1. j + 1 \in 1 .. Len(chars) /\ j + 1 \in S /\ j + 1 # 0 /\ fed[j] \in W /\ (j + 1) - 1 = j
      BY <1>1, <2>2
    <3>2. fed[j + 1] = ScoreChar(q, fed[j], chars[j + 1].byte, chars[j + 1].bonus,
                                 first + (j + 1) - 1, initial)
      BY <1>12, <3>1
    <3> HIDE DEF S, W
    <3> QED BY <1>5, <3>1, <3>2
  <2>3. Nat \subseteq P
    <3> HIDE DEF P
    <3> QED BY <2>1, <2>2, SetInduction
  <2> QED BY <1>1, <2>3
<1>15. fed \in [S -> W]
  <2> HIDE DEF Step, W
  <2> QED BY <1>11, <1>14
<1>16. first \in Nat /\ \A j \in 1 .. Len(chars) : first + j - 1 \in Nat
  BY <1>1 DEF first
<1>17. Feeds(q, m, chars, initial, fed, first)
  BY <1>11, <1>12, <1>13, <1>15, <1>16 DEF slashed, Feeds
<1> QED BY <1>17

LEMMA AppendJoins ==
  ASSUME NEW S, NEW s \in Seq(S), NEW t \in Seq(S), NEW x \in S
  PROVE  s \o <<>> = s /\ s \o <<x>> = Append(s, x) /\ s \o Append(t, x) = Append(s \o t, x)
OBVIOUS

LEMMA PrintedIs ==
  ASSUME NEW text \in Texts
  PROVE  Printed(text) \in Seq(Keys) /\ Len(Printed(text)) = Len(text)
<1>1. Len(text) \in Nat /\ DOMAIN text = 1 .. Len(text) /\ \A i \in 1 .. Len(text) : text[i] \in Chars
  BY ElementsOf DEF Texts
<1>2. \A i \in 1 .. Len(text) : Byte(text[i]) \in Keys
  BY <1>1, KeysAgree
<1> QED BY <1>1, <1>2 DEF Printed

LEMMA LongerMatcher ==
  ASSUME NEW q, NEW last \in Matchers(q), NEW n \in Nat
  PROVE  LET r == [last EXCEPT !.length = @ + n]
         IN  r \in Matchers(q) /\ r.states = last.states /\ r.char_set = last.char_set
<1>1. PICK S, C : Matchers(q) = [states : S, char_set : C, length : Nat]
  BY DEF Matchers
<1>2. PICK x \in Nat : last.length = x
  BY <1>1
<1>3. x + n \in Nat
  OBVIOUS
<1>4. last = [states |-> last.states, char_set |-> last.char_set, length |-> x]
      /\ last.states \in S /\ last.char_set \in C
  BY <1>1, <1>2
<1>5. [last EXCEPT !.length = @ + n]
        = [states |-> last.states, char_set |-> last.char_set, length |-> x + n]
  BY <1>4
<1> QED BY <1>1, <1>3, <1>4, <1>5

LEMMA AdvanceType ==
  ASSUME NEW q \in Askable, NEW m \in Matchers(q), NEW text \in Texts, NEW initial \in BOOLEAN
  PROVE  Advance(q, m, PChars(text), initial) \in Matchers(q)
<1>1. PICK chars \in PCharSeqs : chars = PChars(text)
  BY PCharsIs DEF PCharSeqs
<1>2. PICK fed, first : Feeds(q, m, chars, initial, fed, first)
  BY AdvanceSteps
<1>3. PICK n \in Nat : n = Len(chars)
  BY PCharParts
<1>4. PICK last \in Matchers(q) : last = fed[n]
  BY <1>2, <1>3 DEF Feeds
<1>5. Advance(q, m, chars, initial) = [last EXCEPT !.length = @ + n]
  BY <1>2, <1>3, <1>4 DEF Feeds
<1>6. [last EXCEPT !.length = @ + n] \in Matchers(q)
  BY ONLY LongerMatcher, n \in Nat, last \in Matchers(q)
<1> QED BY <1>1, <1>5, <1>6

(* A matcher that has read w reads a name, after a slash if w is not empty.  *)
LEMMA AdvanceReads ==
  ASSUME NEW q \in Askable, NEW w \in Seq(Keys), NEW m, Reads(q, m, w), NEW text \in Texts,
         NEW initial \in BOOLEAN
  PROVE  LET r == Advance(q, m, PChars(text), initial)
         IN  /\ Reads(q, r, (IF initial THEN w ELSE w \o <<Slash>>) \o Printed(text))
             /\ r.char_set \subseteq m.char_set \cup CharSet(text) \cup {Slash}
<1>1. m \in Matchers(q)
  BY DEF Reads
<1>2. PICK chars \in PCharSeqs :
        /\ chars = PChars(text) /\ Len(chars) = Len(text)
        /\ \A i \in 1 .. Len(text) : chars[i].byte = Byte(text[i]) /\ chars[i].bonus \in Nat
  <2>1. PICK R : R = [byte : Keys, bonus : Nat]
    OBVIOUS
  <2>2. PICK chars \in Seq(R) : /\ chars = PChars(text) /\ Len(chars) = Len(text)
                                /\ \A i \in 1 .. Len(text) : chars[i].byte = Byte(text[i])
    BY <2>1, PCharsIs
  <2>3. \A i \in 1 .. Len(text) : chars[i] \in R
    BY <2>2, ElementsOf
  <2>4. \A x \in R : x.bonus \in Nat
    BY <2>1
  <2>5. chars \in PCharSeqs
    BY <2>1 DEF PCharSeqs
  <2> QED BY <2>2, <2>3, <2>4, <2>5
<1>3. PICK fed, first : Feeds(q, m, chars, initial, fed, first)
  BY <1>1, AdvanceSteps
<1>4. /\ fed \in [0 .. Len(chars) -> Matchers(q)] /\ first \in Nat
      /\ fed[0] = IF initial THEN m ELSE ScoreChar(q, m, Slash, 0, m.length, initial)
      /\ \A j \in 1 .. Len(chars) :
           /\ first + j - 1 \in Nat
           /\ fed[j] = ScoreChar(q, fed[j - 1], chars[j].byte, chars[j].bonus, first + j - 1, initial)
      /\ Advance(q, m, chars, initial) = [fed[Len(chars)] EXCEPT !.length = @ + Len(chars)]
  BY <1>3 DEF Feeds
<1>5. PICK n \in Nat : n = Len(text) /\ n = Len(chars)
  BY <1>2, PrintedIs, ElementsOf DEF Texts
<1>6. PICK v \in Seq(Keys) : v = IF initial THEN w ELSE w \o <<Slash>>
  <2>1. w \o <<Slash>> \in Seq(Keys)
    BY KeysAgree, AppendJoins, Appends
  <2> QED BY <2>1
<1>7. PICK keys : keys = m.char_set \cup CharSet(text) \cup {Slash}
  OBVIOUS
<1>8. ASSUME NEW i \in 1 .. n
      PROVE  text[i] \in Chars /\ Byte(text[i]) \in Keys /\ KeyOf(Byte(text[i])) \in keys
  <2>1. text[i] \in Chars /\ text[i] \in ToSet(text)
    BY <1>5, ElementsOf DEF Texts, ToSet
  <2>2. KeyOf(text[i]) \in CharSet(text)
    BY <2>1, CharSetIs
  <2> QED BY <1>7, <2>1, <2>2, KeysAgree
<1> DEFINE Pre(j) == [i \in 1 .. j |-> Byte(text[i])]
           Ok(j) == Reads(q, fed[j], v \o Pre(j)) /\ fed[j].char_set \subseteq keys
           P == {j \in Nat : j <= n => Ok(j)}
<1>9. Ok(0)
  <2>1. Reads(q, fed[0], v) /\ fed[0].char_set \subseteq keys
    <3>1. CASE initial
      BY <1>4, <1>6, <1>7, <3>1
    <3>2. CASE ~ initial
      <4>1. m.length \in Nat /\ Slash \in Keys /\ KeyOf(Slash) = Slash
        BY <1>1, KeysAgree DEF Matchers
      <4>2. PICK r : r = ScoreChar(q, m, Slash, 0, m.length, initial)
        OBVIOUS
      <4>3. Fed(q, m, Slash, r)
        BY <1>1, <4>1, <4>2, ScoreCharFed
      <4>4. Reads(q, r, Append(w, Slash))
        BY <4>1, <4>3, FedReads
      <4>5. v = Append(w, Slash) /\ fed[0] = r
        BY <1>4, <1>6, <3>2, <4>1, <4>2, AppendJoins
      <4>6. r.char_set \subseteq keys
        BY <1>7, <4>1, <4>3 DEF Fed
      <4> QED BY <4>4, <4>5, <4>6
    <3> QED BY <3>1, <3>2
  <2>2. v \o Pre(0) = v
    <3>1. Pre(0) = <<>>
      OBVIOUS
    <3> QED BY <3>1, AppendJoins
  <2> HIDE DEF Pre
  <2> QED BY <2>1, <2>2
<1>10. ASSUME NEW j \in Nat, j \in P PROVE j + 1 \in P
  <2> SUFFICES ASSUME j + 1 <= n PROVE Ok(j + 1)
    <3> HIDE DEF Ok
    <3> QED OBVIOUS
  <2>1. Ok(j)
    <3> HIDE DEF Ok
    <3> QED BY <1>10
  <2>2. j + 1 \in 1 .. n /\ j \in 0 .. n /\ (j + 1) - 1 = j
    OBVIOUS
  <2>3. PICK b \in Keys : b = Byte(text[j + 1]) /\ KeyOf(b) \in keys
    BY <1>8, <2>2
  <2>4. PICK r : r = fed[j + 1]
    OBVIOUS
  <2>5. r = ScoreChar(q, fed[j], b, chars[j + 1].bonus, first + (j + 1) - 1, initial)
    BY <1>2, <1>4, <1>5, <2>2, <2>3, <2>4
  <2>6. fed[j] \in Matchers(q) /\ chars[j + 1].bonus \in Nat /\ first + (j + 1) - 1 \in Nat
    BY <1>2, <1>4, <1>5, <2>2
  <2>7. Fed(q, fed[j], b, r)
    BY <2>5, <2>6, ScoreCharFed
  <2>8. Pre(j) \in Seq(Keys) /\ Pre(j + 1) = Append(Pre(j), b)
    <3>1. \A i \in 1 .. j : Byte(text[i]) \in Keys
      BY <1>8, <2>2
    <3>2. Pre(j) \in Seq(Keys) /\ Len(Pre(j)) = j
      BY <3>1
    <3>3. Pre(j + 1) = Append(Pre(j), b)
      BY <2>3, <3>2
    <3> QED BY <3>2, <3>3
  <2> HIDE DEF Pre
  <2>9. Reads(q, r, Append(v \o Pre(j), b))
    <3>1. v \o Pre(j) \in Seq(Keys)
      BY <2>8, Joins
    <3> QED BY <2>1, <2>7, <3>1, FedReads
  <2>10. Append(v \o Pre(j), b) = v \o Pre(j + 1)
    <3>1. PICK p \in Seq(Keys) : p = Pre(j) /\ Pre(j + 1) = Append(p, b)
      BY <2>8
    <3>2. v \o Append(p, b) = Append(v \o p, b)
      BY AppendJoins
    <3> QED BY <3>1, <3>2
  <2>11. r.char_set \subseteq keys
    BY <2>1, <2>3, <2>7 DEF Fed
  <2> QED BY <2>4, <2>9, <2>10, <2>11
<1>11. Nat \subseteq P
  <2> HIDE DEF P
  <2>1. 0 \in P
    BY <1>9 DEF P
  <2> QED BY <1>10, <2>1, SetInduction
<1>12. Ok(n)
  <2> HIDE DEF Ok
  <2> QED BY <1>11
<1>13. Pre(n) = Printed(text)
  <2>1. DOMAIN text = 1 .. n
    BY <1>5, ElementsOf DEF Texts
  <2> QED BY <2>1 DEF Printed
<1> HIDE DEF Pre
<1>14. PICK last \in Matchers(q) :
         /\ last = fed[n] /\ Reads(q, last, v \o Printed(text)) /\ last.char_set \subseteq keys
  BY <1>4, <1>5, <1>12, <1>13
<1>15. PICK r : r = [last EXCEPT !.length = @ + n]
  OBVIOUS
<1>16. /\ r \in Matchers(q) /\ r.states = last.states /\ r.char_set = last.char_set
  BY ONLY LongerMatcher, n \in Nat, last \in Matchers(q), <1>15
<1>17. Reads(q, r, v \o Printed(text))
  BY <1>14, <1>16 DEF Reads
<1>18. Advance(q, m, PChars(text), initial) = r
  BY <1>2, <1>4, <1>5, <1>14, <1>15
<1> QED BY <1>6, <1>7, <1>14, <1>16, <1>17, <1>18

-----------------------------------------------------------------------------
(* Paths.                                                                    *)

PathLengths == [names \in Paths |-> Len(names)]

BelowPath(names) == Below(Paths, PathLengths, PathLengths, names)

LEMMA PathMeasures == Measures(Paths, PathLengths, PathLengths)
BY DEF Measures, PathLengths, Paths

LEMMA FrontIs ==
  ASSUME NEW names \in Paths
  PROVE  /\ Len(names) = 1 => names[1] \in Texts
         /\ Len(names) # 1 => Front(names) \in BelowPath(names) /\ Front(names) \in Paths
                              /\ Last(names) \in Texts
<1>1. names \in Seq(Texts) /\ Len(names) \in Nat /\ Len(names) # 0
  BY DEF Paths
<1>2. ASSUME Len(names) # 1 PROVE Front(names) \in BelowPath(names) /\ Front(names) \in Paths
  <2>1. Front(names) = SubSeq(names, 1, Len(names) - 1)
    BY DEF Front
  <2>2. Front(names) \in Seq(Texts) /\ Len(Front(names)) = Len(names) - 1
    <3>1. PICK n \in Nat : n = Len(names) - 1
      BY <1>1, <1>2
    <3>2. 0 + n <= Len(names) /\ 0 + 1 = 1 /\ 0 + n = n
      BY <1>1, <3>1
    <3>3. SubSeq(names, 0 + 1, 0 + n) \in Seq(Texts) /\ Len(SubSeq(names, 0 + 1, 0 + n)) = n
      BY <1>1, <3>2, Slices
    <3> QED BY <2>1, <3>1, <3>2, <3>3
  <2>3. Front(names) \in Paths
    BY <1>1, <1>2, <2>2 DEF Paths
  <2> QED BY <1>1, <2>2, <2>3 DEF BelowPath, Below, PathLengths
<1>3. Last(names) \in Texts
  BY <1>1 DEF Last
<1> QED BY <1>1, <1>2, <1>3

LEMMA FrontAppend ==
  ASSUME NEW names \in Paths, NEW f \in Texts
  PROVE  /\ Append(names, f) \in Paths /\ Len(Append(names, f)) # 1
         /\ Front(Append(names, f)) = names /\ Last(Append(names, f)) = f
<1>1. names \in Seq(Texts) /\ Len(names) \in Nat /\ Len(names) # 0
  BY DEF Paths
<1>2. Append(names, f) \in Seq(Texts) /\ Len(Append(names, f)) = Len(names) + 1
  BY <1>1
<1>3. Front(Append(names, f)) = names
  BY <1>1 DEF Front
<1>4. Last(Append(names, f)) = f
  BY <1>1 DEF Last
<1> QED BY <1>1, <1>2, <1>3, <1>4 DEF Paths

LEMMA OnePath ==
  ASSUME NEW name \in Texts
  PROVE  <<name>> \in Paths /\ Len(<<name>>) = 1 /\ <<name>>[1] = name
BY DEF Paths

LEMMA OnlyName ==
  ASSUME NEW names \in Paths, Len(names) = 1 PROVE names = <<names[1]>>
<1>1. names \in Seq(Texts)
  BY DEF Paths
<1> QED BY <1>1

LEMMA FrontLast ==
  ASSUME NEW names \in Paths, Len(names) # 1 PROVE names = Append(Front(names), Last(names))
<1>1. names \in Seq(Texts) /\ Len(names) \in Nat /\ Len(names) # 0
  BY DEF Paths
<1> QED BY <1>1 DEF Front, Last

(* The path as it is printed.                                                *)
LEMMA JoinedIs ==
  /\ \A name \in Texts : Joined[<<name>>] = Printed(name)
  /\ \A names \in Paths : Joined[names] \in Seq(Keys)
  /\ \A names \in Paths, f \in Texts :
       Joined[Append(names, f)] = Joined[names] \o <<Slash>> \o Printed(f)
<1> DEFINE S == Paths
           W == Seq(Keys)
           V == [S -> W]
           Step(g, names) ==
             IF Len(names) = 1 THEN Printed(names[1])
             ELSE g[Front(names)] \o <<Slash>> \o Printed(Last(names))
           Eq(g) == g = [names \in S |-> Step(g, names)]
           F == [g \in V |-> [names \in S |-> Step(g, names)]]
<1>1. ASSUME NEW g \in V, NEW names \in S PROVE Step(g, names) \in W
  <2>1. CASE Len(names) = 1
    BY <2>1, FrontIs, PrintedIs
  <2>2. CASE Len(names) # 1
    <3>1. g[Front(names)] \in Seq(Keys) /\ Printed(Last(names)) \in Seq(Keys)
      BY <2>2, FrontIs, PrintedIs
    <3>2. <<Slash>> \in Seq(Keys)
      BY KeysAgree
    <3> QED BY <2>2, <3>1, <3>2
  <2> QED BY <2>1, <2>2
<1>2. F \in [V -> V]
  <2> HIDE DEF Step, W, S
  <2> QED BY <1>1
<1>3. ASSUME NEW g \in V, NEW h \in V, NEW names \in S,
             \A y \in BelowPath(names) : g[y] = h[y]
      PROVE  F[g][names] = F[h][names]
  <2>1. Step(g, names) = Step(h, names)
    BY <1>3, FrontIs
  <2> HIDE DEF Step, W, S
  <2> QED BY <2>1
<1>4. \E g \in V : g = F[g]
  <2>1. Computes(F, S, PathLengths, PathLengths, W)
    <3> HIDE DEF F, W, S
    <3> QED BY <1>2, <1>3 DEF Computes, BelowPath, S
  <2>2. W # {}
    <3>1. <<>> \in Seq(Keys)
      OBVIOUS
    <3> QED BY <3>1
  <2> HIDE DEF F, W
  <2> QED BY <2>1, <2>2, PathMeasures, RecursionBelow
<1>5. \E g \in V : Eq(g)
  <2> HIDE DEF Step, W, S
  <2> QED BY <1>4
<1>6. Eq(Joined)
  <2>1. \E g : Eq(g)
    BY <1>5
  <2> QED BY <2>1, Zenon DEF Joined
<1> HIDE DEF S
<1>7. \A names \in S : Joined[names] = Step(Joined, names)
  <2> HIDE DEF Step
  <2> QED BY <1>6
<1>8. ASSUME NEW name \in Texts PROVE Joined[<<name>>] = Printed(name)
  BY <1>7, OnePath DEF S
<1>9. ASSUME NEW names \in Paths, NEW f \in Texts
      PROVE  Joined[Append(names, f)] = Joined[names] \o <<Slash>> \o Printed(f)
  BY <1>7, FrontAppend DEF S
<1>10. \A names \in Paths : Joined[names] \in Seq(Keys)
  <2> DEFINE G == {names \in Paths : Joined[names] \in Seq(Keys)}
  <2>1. ASSUME NEW names \in Paths, BelowPath(names) \subseteq G PROVE Joined[names] \in Seq(Keys)
    <3>1. CASE Len(names) = 1
      BY <1>7, <3>1, FrontIs, PrintedIs DEF S
    <3>2. CASE Len(names) # 1
      <4>1. Joined[Front(names)] \in Seq(Keys) /\ Printed(Last(names)) \in Seq(Keys)
        BY <2>1, <3>2, FrontIs, PrintedIs
      <4>2. <<Slash>> \in Seq(Keys)
        BY KeysAgree
      <4>3. Joined[names] = Joined[Front(names)] \o <<Slash>> \o Printed(Last(names))
        BY <1>7, <3>2 DEF S
      <4> QED BY <4>1, <4>2, <4>3
    <3> QED BY <3>1, <3>2
  <2>2. Inductive(G, Paths, PathLengths, PathLengths)
    BY <2>1 DEF Inductive, BelowPath
  <2>3. Paths \subseteq G
    <3> HIDE DEF G
    <3> QED BY <2>2, PathMeasures, InductionBelow
  <2> QED BY <2>3
<1> QED BY <1>8, <1>9, <1>10

(* A matcher that is given a path by itself reads that path.                 *)
LEMMA AfterIs ==
  ASSUME NEW q \in Askable
  PROVE  /\ \A name \in Texts :
              MatcherAfter(q)[<<name>>] = Advance(q, NewMatcher(q), PChars(name), TRUE)
         /\ \A names \in Paths, f \in Texts :
              MatcherAfter(q)[Append(names, f)]
                = Advance(q, MatcherAfter(q)[names], PChars(f), FALSE)
         /\ \A names \in Paths : Reads(q, MatcherAfter(q)[names], Joined[names])
<1> DEFINE S == Paths
           W == Matchers(q)
           V == [S -> W]
           Step(g, names) ==
             IF Len(names) = 1 THEN Advance(q, NewMatcher(q), PChars(names[1]), TRUE)
             ELSE Advance(q, g[Front(names)], PChars(Last(names)), FALSE)
           Eq(g) == g = [names \in S |-> Step(g, names)]
           F == [g \in V |-> [names \in S |-> Step(g, names)]]
<1>1. ASSUME NEW m \in W, NEW text \in Texts, NEW initial \in BOOLEAN
      PROVE  Advance(q, m, PChars(text), initial) \in W
  BY AdvanceType
<1>2. ASSUME NEW g \in V, NEW names \in S PROVE Step(g, names) \in W
  <2>1. NewMatcher(q) \in W
    BY NewReads DEF Reads
  <2>2. CASE Len(names) = 1
    BY <1>1, <2>1, <2>2, FrontIs
  <2>3. CASE Len(names) # 1
    <3>1. g[Front(names)] \in W /\ Last(names) \in Texts
      BY <2>3, FrontIs
    <3> HIDE DEF W
    <3> QED BY <1>1, <2>3, <3>1
  <2> QED BY <2>2, <2>3
<1>3. F \in [V -> V]
  <2> HIDE DEF Step, W, S
  <2> QED BY <1>2
<1>4. ASSUME NEW g \in V, NEW h \in V, NEW names \in S,
             \A y \in BelowPath(names) : g[y] = h[y]
      PROVE  F[g][names] = F[h][names]
  <2>1. Step(g, names) = Step(h, names)
    BY <1>4, FrontIs
  <2> HIDE DEF Step, W, S
  <2> QED BY <2>1
<1>5. \E g \in V : g = F[g]
  <2>1. Computes(F, S, PathLengths, PathLengths, W)
    <3> HIDE DEF F, W, S
    <3> QED BY <1>3, <1>4 DEF Computes, BelowPath, S
  <2>2. W # {}
    BY NewReads DEF Reads
  <2> HIDE DEF F, W
  <2> QED BY <2>1, <2>2, PathMeasures, RecursionBelow
<1>6. \E g \in V : Eq(g)
  <2> HIDE DEF Step, W, S
  <2> QED BY <1>5
<1>7. Eq(MatcherAfter(q))
  <2>1. \E g : Eq(g)
    BY <1>6
  <2> QED BY <2>1, Zenon DEF MatcherAfter
<1> HIDE DEF S
<1>8. \A names \in S : MatcherAfter(q)[names] = Step(MatcherAfter(q), names)
  <2> HIDE DEF Step
  <2> QED BY <1>7
<1>9. ASSUME NEW name \in Texts
      PROVE  MatcherAfter(q)[<<name>>] = Advance(q, NewMatcher(q), PChars(name), TRUE)
  BY <1>8, OnePath DEF S
<1>10. ASSUME NEW names \in Paths, NEW f \in Texts
      PROVE  MatcherAfter(q)[Append(names, f)]
               = Advance(q, MatcherAfter(q)[names], PChars(f), FALSE)
  BY <1>8, FrontAppend DEF S
<1>11. ASSUME NEW names \in Paths PROVE Reads(q, MatcherAfter(q)[names], Joined[names])
  <2> DEFINE G == {p \in Paths : Reads(q, MatcherAfter(q)[p], Joined[p])}
  <2>1. ASSUME NEW p \in Paths, BelowPath(p) \subseteq G
        PROVE  Reads(q, MatcherAfter(q)[p], Joined[p])
    <3>1. CASE Len(p) = 1
      <4>1. PICK name \in Texts : p = <<name>>
        BY <3>1, FrontIs, OnlyName
      <4>2. Reads(q, NewMatcher(q), <<>>) /\ <<>> \in Seq(Keys)
        BY NewReads
      <4>3. <<>> \o Printed(name) = Printed(name)
        BY PrintedIs
      <4>4. Reads(q, Advance(q, NewMatcher(q), PChars(name), TRUE), Printed(name))
        BY <4>2, <4>3, AdvanceReads
      <4> QED BY <1>9, <4>1, <4>4, JoinedIs
    <3>2. CASE Len(p) # 1
      <4>1. PICK front \in Paths, f \in Texts : p = Append(front, f) /\ front = Front(p)
        BY <3>2, FrontIs, FrontLast
      <4>2. Reads(q, MatcherAfter(q)[front], Joined[front]) /\ Joined[front] \in Seq(Keys)
        BY <2>1, <3>2, <4>1, FrontIs, JoinedIs
      <4>3. Reads(q, Advance(q, MatcherAfter(q)[front], PChars(f), FALSE),
                  Joined[front] \o <<Slash>> \o Printed(f))
        BY <4>2, AdvanceReads
      <4> QED BY <1>10, <4>1, <4>3, JoinedIs
    <3> QED BY <3>1, <3>2
  <2>2. Inductive(G, Paths, PathLengths, PathLengths)
    BY <2>1 DEF Inductive, BelowPath
  <2>3. Paths \subseteq G
    <3> HIDE DEF G
    <3> QED BY <2>2, PathMeasures, InductionBelow
  <2> QED BY <2>3
<1> QED BY <1>9, <1>10, <1>11

(* A score says that the query is in what was read, and if it is, then all   *)
(* its characters are in the set.                                            *)
LEMMA ScoreIs ==
  ASSUME NEW q \in Askable, NEW w, NEW m, Reads(q, m, w)
  PROVE  /\ Score(m) \in Nat /\ (Score(m) > 0 <=> Matches(w, q))
         /\ Score(m) > 0 => CharSet(q) \subseteq m.char_set
<1>1. PICK n \in Nat \ {0} : n = Len(q) /\ DOMAIN q = 1 .. n
  BY DEF Askable
<1>2. m.states \in [1 .. n -> States] /\ m \in Matchers(q)
  BY <1>1 DEF Reads, Matchers
<1>3. \A k \in 1 .. n : m.states[k].score \in Nat
  BY <1>2 DEF States
<1>4. Len(m.states) = n
  <2>1. PICK S : S = States
    OBVIOUS
  <2>2. m.states \in [1 .. n -> S]
    BY <1>2, <2>1
  <2> QED BY ONLY <2>2, n \in Nat
<1>5. Score(m) = m.states[n].score /\ n \in 1 .. n
  BY <1>4 DEF Score, Last
<1>6. Score(m) > 0 <=> Matches(w, q)
  BY <1>1, <1>5, FoundAll DEF Reads
<1>7. ASSUME Score(m) > 0 PROVE \A k \in 1 .. n : m.states[k].score > 0
  <2> DEFINE P == {k \in Nat : k < n => m.states[n - k].score > 0}
  <2>1. 0 \in P
    BY <1>5, <1>7
  <2>2. ASSUME NEW k \in Nat, k \in P PROVE k + 1 \in P
    <3> SUFFICES ASSUME k + 1 < n PROVE m.states[n - (k + 1)].score > 0
      OBVIOUS
    <3>1. n - k \in 1 .. n /\ n - k # 1 /\ (n - k) - 1 = n - (k + 1) /\ m.states[n - k].score > 0
      BY <2>2
    <3>2. n - k = 1 \/ m.states[(n - k) - 1].score > 0
      BY <1>1, <3>1 DEF Reads
    <3> QED BY <3>1, <3>2
  <2>3. Nat \subseteq P
    <3> HIDE DEF P
    <3> QED BY <2>1, <2>2, SetInduction
  <2>4. ASSUME NEW k \in 1 .. n PROVE m.states[k].score > 0
    <3>1. n - k \in Nat /\ n - k < n /\ n - (n - k) = k
      OBVIOUS
    <3> QED BY <2>3, <3>1
  <2> QED BY <2>4
<1>8. ASSUME Score(m) > 0 PROVE CharSet(q) \subseteq m.char_set
  <2>1. \A k \in 1 .. n : KeyOf(q[k]) \in m.char_set
    BY <1>1, <1>7, <1>8 DEF Reads
  <2>2. \A c \in ToSet(q) : KeyOf(c) \in m.char_set
    BY <1>1, <2>1 DEF ToSet
  <2> QED BY <2>2, CharSetIs
<1> QED BY <1>3, <1>5, <1>6, <1>8

LEMMA ScoreOfIs ==
  ASSUME NEW q \in Askable, NEW names \in Paths
  PROVE  /\ ScoreOf(names, q) \in Nat /\ (ScoreOf(names, q) > 0 <=> Matches(Joined[names], q))
         /\ ScoreOf(names, q) > 0 => CharSet(q) \subseteq MatcherAfter(q)[names].char_set
BY AfterIs, ScoreIs DEF ScoreOf

-----------------------------------------------------------------------------
(* The files of a tree.                                                      *)

Heights(tree) == [n \in DOMAIN tree |-> Len(tree) - n]

BelowNode(tree, n) == Below(DOMAIN tree, Heights(tree), Heights(tree), n)

LEMMA NodeMeasures ==
  ASSUME NEW tree, IsTree(tree)
  PROVE  /\ Measures(DOMAIN tree, Heights(tree), Heights(tree))
         /\ \A n \in DOMAIN tree : \A m \in ToSet(tree[n].dirs) :
              m \in DOMAIN tree /\ m \in BelowNode(tree, n)
<1>1. \A n \in DOMAIN tree : Len(tree) - n \in Nat
  BY TreeParts
<1>2. ASSUME NEW n \in DOMAIN tree, NEW m \in ToSet(tree[n].dirs)
      PROVE  m \in DOMAIN tree /\ m \in BelowNode(tree, n)
  <2>1. m \in DOMAIN tree /\ m > n
    <3>1. PICK i \in DOMAIN tree[n].dirs : m = tree[n].dirs[i]
      BY DEF ToSet
    <3>2. i \in 1 .. Len(tree[n].dirs)
      BY TreeParts
    <3> QED BY <3>1, <3>2, TreeParts
  <2>2. Len(tree) - m < Len(tree) - n
    BY <2>1, TreeParts
  <2> QED BY <2>1, <2>2 DEF BelowNode, Below, Heights
<1> QED BY <1>1, <1>2 DEF Measures, Heights

(* The files of directory n, given those of its subdirectories.              *)
FilesFrom(tree, below, n) ==
  {<<tree[n].name, f>> : f \in ToSet(tree[n].files)}
  \cup {<<tree[n].name>> \o p : p \in UNION {below[m] : m \in ToSet(tree[n].dirs)}}

LEMMA FilesBelowIs ==
  ASSUME NEW tree, IsTree(tree)
  PROVE  \A n \in DOMAIN tree :
           /\ FilesBelow(tree)[n] = FilesFrom(tree, FilesBelow(tree), n)
           /\ FilesBelow(tree)[n] \in SUBSET Paths
<1> DEFINE S == DOMAIN tree
           W == SUBSET Paths
           V == [S -> W]
           Step(g, n) ==
             {<<tree[n].name, f>> : f \in ToSet(tree[n].files)}
             \cup {<<tree[n].name>> \o p : p \in UNION {g[m] : m \in ToSet(tree[n].dirs)}}
           Eq(g) == g = [n \in S |-> Step(g, n)]
           F == [g \in V |-> [n \in S |-> Step(g, n)]]
<1>1. ASSUME NEW n \in S
      PROVE  /\ \A f \in ToSet(tree[n].files) : <<tree[n].name, f>> \in Paths
             /\ \A p \in Paths : <<tree[n].name>> \o p \in Paths
  <2>1. tree[n].name \in Texts /\ \A f \in ToSet(tree[n].files) : f \in Texts
    BY TreeParts DEF ToSet
  <2>2. \A p \in Paths : <<tree[n].name>> \o p \in Paths
    <3> SUFFICES ASSUME NEW p \in Paths PROVE <<tree[n].name>> \o p \in Paths
      OBVIOUS
    <3>1. p \in Seq(Texts) /\ <<tree[n].name>> \in Seq(Texts) /\ Len(<<tree[n].name>>) = 1
      BY <2>1 DEF Paths
    <3>2. /\ <<tree[n].name>> \o p \in Seq(Texts) /\ Len(<<tree[n].name>> \o p) = 1 + Len(p)
          /\ Len(p) \in Nat
      BY <3>1, Joins
    <3> QED BY <3>2 DEF Paths
  <2> QED BY <2>1, <2>2 DEF Paths
<1>2. ASSUME NEW g \in V, NEW n \in S PROVE Step(g, n) \in W
  <2>1. \A m \in ToSet(tree[n].dirs) : g[m] \in SUBSET Paths
    BY NodeMeasures
  <2> QED BY <1>1, <2>1
<1>3. F \in [V -> V]
  <2> HIDE DEF Step, W, S
  <2> QED BY <1>2
<1>4. ASSUME NEW g \in V, NEW h \in V, NEW n \in S, \A y \in BelowNode(tree, n) : g[y] = h[y]
      PROVE  F[g][n] = F[h][n]
  <2>1. \A m \in ToSet(tree[n].dirs) : g[m] = h[m]
    BY <1>4, NodeMeasures
  <2>2. Step(g, n) = Step(h, n)
    BY <2>1
  <2> HIDE DEF Step, W, S
  <2> QED BY <2>2
<1>5. \E g \in V : g = F[g]
  <2>1. Computes(F, S, Heights(tree), Heights(tree), W)
    <3> HIDE DEF F, W, S
    <3> QED BY <1>3, <1>4 DEF Computes, BelowNode, S
  <2>2. W # {}
    OBVIOUS
  <2> HIDE DEF F, W
  <2> QED BY <2>1, <2>2, NodeMeasures, RecursionBelow
<1>6. \E g \in V : Eq(g)
  <2> HIDE DEF Step, W, S
  <2> QED BY <1>5
<1>7. Eq(FilesBelow(tree))
  <2>1. \E g : Eq(g)
    BY <1>6
  <2> QED BY <2>1, Zenon DEF FilesBelow
<1>8. \A n \in S : FilesBelow(tree)[n] = Step(FilesBelow(tree), n)
  <2> HIDE DEF Step, S
  <2> QED BY <1>7
<1>9. \A n \in S : FilesBelow(tree)[n] = FilesFrom(tree, FilesBelow(tree), n)
  BY <1>8 DEF FilesFrom
<1>10. \A n \in S : FilesBelow(tree)[n] \in W
  <2> DEFINE G == {n \in S : FilesBelow(tree)[n] \in W}
  <2>1. ASSUME NEW n \in S, BelowNode(tree, n) \subseteq G PROVE FilesBelow(tree)[n] \in W
    <3>1. \A m \in ToSet(tree[n].dirs) : FilesBelow(tree)[m] \in SUBSET Paths
      BY <2>1, NodeMeasures
    <3>2. Step(FilesBelow(tree), n) \in W
      BY <1>1, <3>1
    <3> QED BY <1>8, <3>2
  <2>2. Inductive(G, S, Heights(tree), Heights(tree))
    BY <2>1 DEF Inductive, BelowNode
  <2>3. S \subseteq G
    <3> HIDE DEF G
    <3> QED BY <2>2, NodeMeasures, InductionBelow
  <2> QED BY <2>3
<1> QED BY <1>10, <1>9

(* Those in and below directory n, which is in the directory `up`.           *)
Under(tree, up, n) == {up \o p : p \in FilesBelow(tree)[n]}

(* They are in directory n itself, or under one of its subdirectories.       *)
Parted(tree, up, names, n) ==
  \A f : f \in Under(tree, up, n) <=>
           \/ \E g \in ToSet(tree[n].files) : f = Append(names, g)
           \/ \E m \in ToSet(tree[n].dirs) : f \in Under(tree, names, m)

LEMMA UnderIs ==
  ASSUME NEW tree, IsTree(tree), NEW n \in DOMAIN tree, NEW up \in Seq(Texts),
         NEW names, names = Append(up, tree[n].name)
  PROVE  names \in Paths /\ Parted(tree, up, names, n) /\ Under(tree, up, n) \subseteq Paths
<1>1. PICK name \in Texts : name = tree[n].name
  BY TreeParts
<1>2. names \in Paths /\ names = Append(up, name)
  <2>1. Append(up, name) \in Seq(Texts) /\ Len(Append(up, name)) = Len(up) + 1 /\ Len(up) \in Nat
    BY Appends
  <2>2. Append(up, name) # <<>>
    BY <2>1
  <2> QED BY <1>1, <2>1, <2>2 DEF Paths
<1>3. \A f \in ToSet(tree[n].files) : f \in Texts
  BY TreeParts DEF ToSet
<1>4. \A f \in Texts : up \o <<name, f>> = Append(names, f)
  BY <1>2
<1>5. \A p \in Paths : up \o (<<name>> \o p) = names \o p
  BY <1>2 DEF Paths
<1>6. \A m \in ToSet(tree[n].dirs) : m \in DOMAIN tree /\ FilesBelow(tree)[m] \subseteq Paths
  BY NodeMeasures, FilesBelowIs
<1>7. PICK below : below = UNION {FilesBelow(tree)[m] : m \in ToSet(tree[n].dirs)}
  OBVIOUS
<1>8. PICK files : files = {<<name, f>> : f \in ToSet(tree[n].files)}
  OBVIOUS
<1>9. FilesBelow(tree)[n] = files \cup {<<name>> \o p : p \in below}
  <2>1. FilesBelow(tree)[n] =
          {<<tree[n].name, f>> : f \in ToSet(tree[n].files)}
          \cup {<<tree[n].name>> \o p : p \in UNION {FilesBelow(tree)[m] : m \in ToSet(tree[n].dirs)}}
    <3>1. FilesBelow(tree)[n] = FilesFrom(tree, FilesBelow(tree), n)
      BY FilesBelowIs
    <3> QED BY <3>1, Zenon DEF FilesFrom
  <2>2. \A p : <<tree[n].name>> \o p = <<name>> \o p
    BY <1>1
  <2>3. \A f : <<tree[n].name, f>> = <<name, f>>
    BY <1>1
  <2>4. {<<tree[n].name, f>> : f \in ToSet(tree[n].files)} = files
    BY <1>8, <2>3
  <2>5. {<<tree[n].name>> \o p : p \in UNION {FilesBelow(tree)[m] : m \in ToSet(tree[n].dirs)}}
          = {<<name>> \o p : p \in below}
    BY <1>7, <2>2
  <2> QED BY <2>1, <2>4, <2>5
<1>10. {up \o p : p \in files} = {Append(names, f) : f \in ToSet(tree[n].files)}
  BY <1>3, <1>4, <1>8
<1>11. {up \o p : p \in {<<name>> \o p : p \in below}}
        = UNION {Under(tree, names, m) : m \in ToSet(tree[n].dirs)}
  <2>1. below \subseteq Paths
    BY <1>6, <1>7
  <2>2. {up \o p : p \in {<<name>> \o p : p \in below}} = {up \o (<<name>> \o p) : p \in below}
    OBVIOUS
  <2>3. {up \o (<<name>> \o p) : p \in below} = {names \o p : p \in below}
    BY <1>5, <2>1
  <2>4. {names \o p : p \in below} = UNION {Under(tree, names, m) : m \in ToSet(tree[n].dirs)}
    <3>1. \A m : Under(tree, names, m) = {names \o p : p \in FilesBelow(tree)[m]}
      BY DEF Under
    <3>2. PICK D, deeper, under :
            /\ D = ToSet(tree[n].dirs)
            /\ deeper = [m \in D |-> FilesBelow(tree)[m]]
            /\ under = [m \in D |-> Under(tree, names, m)]
      OBVIOUS
    <3>3. \A m \in D : under[m] = {names \o p : p \in deeper[m]}
      BY <3>1, <3>2
    <3>4. {names \o p : p \in UNION {deeper[m] : m \in D}} = UNION {under[m] : m \in D}
      <4>1. \A x : x \in {names \o p : p \in UNION {deeper[m] : m \in D}}
                    <=> \E m \in D : \E p \in deeper[m] : x = names \o p
        BY Zenon
      <4>2. \A x : x \in UNION {under[m] : m \in D} <=> \E m \in D : x \in under[m]
        BY Zenon
      <4>3. \A m \in D : \A x : x \in under[m] <=> \E p \in deeper[m] : x = names \o p
        BY <3>3, Zenon
      <4>4. \A x : x \in {names \o p : p \in UNION {deeper[m] : m \in D}}
                    <=> x \in UNION {under[m] : m \in D}
        <5> SUFFICES ASSUME NEW x
                     PROVE  x \in {names \o p : p \in UNION {deeper[m] : m \in D}}
                              <=> x \in UNION {under[m] : m \in D}
          OBVIOUS
        <5>1. (\E m \in D : \E p \in deeper[m] : x = names \o p) <=> \E m \in D : x \in under[m]
          BY <4>3, Zenon
        <5>2. x \in {names \o p : p \in UNION {deeper[m] : m \in D}}
                <=> \E m \in D : \E p \in deeper[m] : x = names \o p
          BY ONLY <4>1, Zenon
        <5>3. x \in UNION {under[m] : m \in D} <=> \E m \in D : x \in under[m]
          BY ONLY <4>2, Zenon
        <5> QED BY <5>1, <5>2, <5>3, Zenon
      <4> QED BY <4>4, Zenon
    <3>5. /\ UNION {deeper[m] : m \in D} = below
          /\ UNION {under[m] : m \in D} = UNION {Under(tree, names, m) : m \in D}
      BY <1>7, <3>2
    <3> QED BY <3>2, <3>4, <3>5
  <2> QED BY <2>2, <2>3, <2>4
<1>12. Under(tree, up, n) = {up \o p : p \in files} \cup {up \o p : p \in {<<name>> \o p : p \in below}}
  BY <1>9 DEF Under
<1>13. ASSUME NEW p \in Paths PROVE up \o p \in Paths
  <2>1. p \in Seq(Texts) /\ Len(p) \in Nat \ {0}
    BY DEF Paths
  <2>2. up \o p \in Seq(Texts) /\ Len(up \o p) = Len(up) + Len(p) /\ Len(up) \in Nat
    BY <2>1, Joins
  <2> QED BY <2>1, <2>2 DEF Paths
<1>14. Under(tree, up, n) \subseteq Paths
  BY <1>13, FilesBelowIs DEF Under
<1>15. \A f : f \in Under(tree, up, n) <=>
                \/ \E g \in ToSet(tree[n].files) : f = Append(names, g)
                \/ \E m \in ToSet(tree[n].dirs) : f \in Under(tree, names, m)
  BY <1>10, <1>11, <1>12
<1> QED BY <1>1, <1>2, <1>14, <1>15 DEF Parted

(* A path has no characters but those above, and those of the name.          *)
LEMMA NameCovers ==
  ASSUME NEW q \in Askable, NEW names \in Paths, NEW text \in Texts
  PROVE  MatcherAfter(q)[Append(names, text)].char_set
           \subseteq MatcherAfter(q)[names].char_set \cup CharSet(text) \cup {Slash}
<1>1. PICK m : m = MatcherAfter(q)[names] /\ Reads(q, m, Joined[names])
  BY AfterIs
<1>2. Joined[names] \in Seq(Keys)
  BY JoinedIs
<1>3. Advance(q, m, PChars(text), FALSE).char_set \subseteq m.char_set \cup CharSet(text) \cup {Slash}
  BY <1>1, <1>2, AdvanceReads
<1> QED BY <1>1, <1>3, AfterIs

(* The set of a directory covers all that is below.                          *)
LEMMA DirectoryCovers ==
  ASSUME NEW tree, IsTree(tree), Fits(tree), NEW c \in Arenas, NEW q \in Askable
  PROVE  \A n \in DOMAIN tree : \A d : Carried(c, tree, d, n) =>
           \A up \in Paths : \A f \in Under(tree, up, n) :
             MatcherAfter(q)[f].char_set \subseteq MatcherAfter(q)[up].char_set \cup d.char_set
<1> DEFINE Covers(n) ==
             \A d : Carried(c, tree, d, n) => \A up \in Paths : \A f \in Under(tree, up, n) :
               MatcherAfter(q)[f].char_set \subseteq MatcherAfter(q)[up].char_set \cup d.char_set
           G == {n \in DOMAIN tree : Covers(n)}
<1>1. ASSUME NEW n \in DOMAIN tree, BelowNode(tree, n) \subseteq G,
             NEW d, Carried(c, tree, d, n), NEW up \in Paths, NEW f \in Under(tree, up, n)
      PROVE  MatcherAfter(q)[f].char_set \subseteq MatcherAfter(q)[up].char_set \cup d.char_set
  <2>1. PICK files, dirs : files = FilesIter(c, d) /\ dirs = DirsIter(c, d)
    OBVIOUS
  <2>2. /\ Spells(c, d.name, tree[n].name)
        /\ files \in Seq(Components) /\ Len(files) = Len(tree[n].files)
        /\ \A i \in 1 .. Len(tree[n].files) : Spells(c, files[i], tree[n].files[i])
        /\ dirs \in Seq(Directories) /\ Len(dirs) = Len(tree[n].dirs)
        /\ \A i \in 1 .. Len(tree[n].dirs) : Carried(c, tree, dirs[i], tree[n].dirs[i])
        /\ d.char_set = d.name.char_set \cup CharSets(files) \cup CharSets(dirs)
    BY <1>1, <2>1, CarriedParts
  <2>3. PICK names \in Paths :
          /\ names = Append(up, tree[n].name)
          /\ \A g : g \in Under(tree, up, n) <=>
                      \/ \E h \in ToSet(tree[n].files) : g = Append(names, h)
                      \/ \E m \in ToSet(tree[n].dirs) : g \in Under(tree, names, m)
    <3>1. up \in Seq(Texts)
      BY DEF Paths
    <3>2. PICK names : names = Append(up, tree[n].name)
      OBVIOUS
    <3>3. names \in Paths
      BY <3>1, <3>2, UnderIs
    <3>4. Parted(tree, up, names, n)
      BY <3>1, <3>2, UnderIs
    <3>5. \A g : g \in Under(tree, up, n) <=>
                   \/ \E h \in ToSet(tree[n].files) : g = Append(names, h)
                   \/ \E m \in ToSet(tree[n].dirs) : g \in Under(tree, names, m)
      BY <3>4 DEF Parted
    <3> QED BY <3>2, <3>3, <3>5
  <2>4. MatcherAfter(q)[names].char_set \subseteq MatcherAfter(q)[up].char_set \cup d.char_set
        /\ Slash \in d.char_set
    <3>1. tree[n].name \in Texts
      BY TreeParts
    <3>2. d.name.char_set = CharSet(tree[n].name) \cup {Slash}
      BY <2>2 DEF Spells
    <3> QED BY <2>2, <2>3, <3>1, <3>2, NameCovers
  <2>5. CASE \E h \in ToSet(tree[n].files) : f = Append(names, h)
    <3>1. PICK i \in 1 .. Len(tree[n].files) : f = Append(names, tree[n].files[i])
      <4>1. PICK g \in ToSet(tree[n].files) : f = Append(names, g)
        BY <2>5
      <4>2. PICK i \in DOMAIN tree[n].files : g = tree[n].files[i]
        BY DEF ToSet
      <4>3. i \in 1 .. Len(tree[n].files)
        BY TreeParts
      <4> QED BY <4>1, <4>2, <4>3
    <3>2. tree[n].files[i] \in Texts
      BY <3>1, TreeParts, ElementsOf
    <3>3. files[i].char_set = CharSet(tree[n].files[i]) \cup {Slash}
      BY <2>2 DEF Spells
    <3>4. files[i].char_set \subseteq d.char_set
      <4>1. i \in DOMAIN files
        BY <2>2
      <4> QED BY <2>2, <4>1 DEF CharSets, ToSet
    <3>5. MatcherAfter(q)[f].char_set
            \subseteq MatcherAfter(q)[names].char_set \cup CharSet(tree[n].files[i]) \cup {Slash}
      BY <3>1, <3>2, NameCovers
    <3> QED BY <2>4, <3>3, <3>4, <3>5
  <2>6. CASE \E m \in ToSet(tree[n].dirs) : f \in Under(tree, names, m)
    <3>1. PICK i \in 1 .. Len(tree[n].dirs) : f \in Under(tree, names, tree[n].dirs[i])
      <4>1. PICK m \in ToSet(tree[n].dirs) : f \in Under(tree, names, m)
        BY <2>6
      <4>2. PICK i \in DOMAIN tree[n].dirs : m = tree[n].dirs[i]
        BY DEF ToSet
      <4>3. i \in 1 .. Len(tree[n].dirs)
        BY TreeParts
      <4> QED BY <4>1, <4>2, <4>3
    <3>2. PICK m : m = tree[n].dirs[i] /\ m \in BelowNode(tree, n)
      <4>1. tree[n].dirs[i] \in ToSet(tree[n].dirs)
        BY <3>1, TreeParts DEF ToSet
      <4> QED BY <4>1, NodeMeasures
    <3>3. Covers(m) /\ Carried(c, tree, dirs[i], m)
      BY <1>1, <2>2, <3>1, <3>2
    <3>4. MatcherAfter(q)[f].char_set
            \subseteq MatcherAfter(q)[names].char_set \cup dirs[i].char_set
      BY <3>1, <3>2, <3>3
    <3>5. dirs[i].char_set \subseteq d.char_set
      <4>1. i \in DOMAIN dirs
        BY <2>2
      <4> QED BY <2>2, <4>1 DEF CharSets, ToSet
    <3> QED BY <2>4, <3>4, <3>5
  <2>7. \/ \E h \in ToSet(tree[n].files) : f = Append(names, h)
        \/ \E m \in ToSet(tree[n].dirs) : f \in Under(tree, names, m)
    BY <1>1, <2>3
  <2> QED BY <2>5, <2>6, <2>7
<1>2. Inductive(G, DOMAIN tree, Heights(tree), Heights(tree))
  BY <1>1 DEF Inductive, BelowNode
<1>3. DOMAIN tree \subseteq G
  <2> HIDE DEF G
  <2> QED BY <1>2, NodeMeasures, InductionBelow
<1> QED BY <1>3

(* What is skipped has no score.                                             *)
LEMMA SkippedBelow ==
  ASSUME NEW tree, IsTree(tree), Fits(tree), NEW c \in Arenas, NEW q \in Askable,
         NEW n \in DOMAIN tree, NEW d, Carried(c, tree, d, n), NEW up \in Paths,
         ~ CoveredBy(q, MatcherAfter(q)[up], d.char_set)
  PROVE  \A f \in Under(tree, up, n) : ScoreOf(f, q) = 0
<1> SUFFICES ASSUME NEW f \in Under(tree, up, n), ScoreOf(f, q) # 0 PROVE FALSE
  OBVIOUS
<1>1. f \in Paths
  <2>1. up \in Seq(Texts)
    BY DEF Paths
  <2>2. PICK names : names = Append(up, tree[n].name)
    OBVIOUS
  <2>3. Under(tree, up, n) \subseteq Paths
    BY <2>1, <2>2, UnderIs
  <2> QED BY <2>3
<1>2. CharSet(q) \subseteq MatcherAfter(q)[f].char_set
  BY <1>1, ScoreOfIs
<1>3. MatcherAfter(q)[f].char_set \subseteq MatcherAfter(q)[up].char_set \cup d.char_set
  BY DirectoryCovers
<1> QED BY <1>2, <1>3 DEF CoveredBy

LEMMA SkippedFile ==
  ASSUME NEW q \in Askable, NEW names \in Paths, NEW text \in Texts,
         ~ CoveredBy(q, MatcherAfter(q)[names], CharSet(text) \cup {Slash})
  PROVE  ScoreOf(Append(names, text), q) = 0
<1> SUFFICES ASSUME ScoreOf(Append(names, text), q) # 0 PROVE FALSE
  OBVIOUS
<1>1. CharSet(q) \subseteq MatcherAfter(q)[Append(names, text)].char_set
  BY FrontAppend, ScoreOfIs
<1> QED BY <1>1, NameCovers DEF CoveredBy

-----------------------------------------------------------------------------
(* The walk.                                                                 *)

Frames(q) == [path : Seq(Keys), m : Matchers(q), files : Seq(Components), dirs : Seq(Directories)]

(* What a call of walk() still has to visit, in terms of the tree: the files *)
(* and subdirectories left of the directory that `names` leads to.           *)
IsPlan(p) ==
  /\ IsTree(p.tree) /\ Fits(p.tree) /\ p.names \in Paths
  /\ p.files \in Seq(Texts) /\ p.dirs \in Seq(DOMAIN p.tree)

Awaits(p, f) ==
  \/ \E g \in ToSet(p.files) : f = Append(p.names, g)
  \/ \E n \in ToSet(p.dirs) : f \in Under(p.tree, p.names, n)

(* That the call does that, with a matcher that has read `names`.            *)
Follows(fr, p, q, c) ==
  /\ fr \in Frames(q) /\ IsPlan(p)
  /\ fr.path = Joined[p.names] /\ fr.m = MatcherAfter(q)[p.names]
  /\ Len(fr.files) = Len(p.files)
  /\ \A i \in 1 .. Len(p.files) : Spells(c, fr.files[i], p.files[i])
  /\ Len(fr.dirs) = Len(p.dirs)
  /\ \A i \in 1 .. Len(p.dirs) : Carried(c, p.tree, fr.dirs[i], p.dirs[i])

NewPlan(tree, up, n) ==
  [tree |-> tree, names |-> Append(up, tree[n].name), files |-> tree[n].files, dirs |-> tree[n].dirs]

LEMMA HeadTail ==
  ASSUME NEW S, NEW s \in Seq(S), s # <<>>
  PROVE  /\ Head(s) \in S /\ Head(s) = s[1] /\ Tail(s) \in Seq(S) /\ Len(Tail(s)) = Len(s) - 1
         /\ Len(s) \in Nat \ {0} /\ \A i \in 1 .. Len(s) - 1 : Tail(s)[i] = s[i + 1]
         /\ \A x : x \in ToSet(s) <=> x = Head(s) \/ x \in ToSet(Tail(s))
<1>1. /\ Head(s) \in S /\ Head(s) = s[1] /\ Tail(s) \in Seq(S) /\ Len(Tail(s)) = Len(s) - 1
      /\ Len(s) \in Nat \ {0} /\ \A i \in 1 .. Len(s) - 1 : Tail(s)[i] = s[i + 1]
  OBVIOUS
<1>2. \A x : x \in ToSet(s) <=> \E i \in 1 .. Len(s) : x = s[i]
  BY <1>1 DEF ToSet
<1>3. \A x : x \in ToSet(Tail(s)) <=> \E i \in 1 .. Len(s) - 1 : x = s[i + 1]
  <2>1. DOMAIN Tail(s) = 1 .. Len(s) - 1
    BY <1>1
  <2> QED BY <1>1, <2>1 DEF ToSet
<1>4. \A x : (\E i \in 1 .. Len(s) : x = s[i]) <=> x = s[1] \/ \E i \in 1 .. Len(s) - 1 : x = s[i + 1]
  <2> SUFFICES ASSUME NEW x
               PROVE  (\E i \in 1 .. Len(s) : x = s[i])
                        <=> x = s[1] \/ \E i \in 1 .. Len(s) - 1 : x = s[i + 1]
    OBVIOUS
  <2>1. PICK n \in Nat \ {0} : n = Len(s)
    BY <1>1
  <2>2. ASSUME NEW i \in 1 .. n, x = s[i] PROVE x = s[1] \/ \E j \in 1 .. n - 1 : x = s[j + 1]
    <3>1. CASE i = 1
      BY <2>2, <3>1
    <3>2. CASE i # 1
      <4>1. i - 1 \in 1 .. n - 1 /\ (i - 1) + 1 = i
        BY <3>2
      <4> QED BY <2>2, <4>1
    <3> QED BY <3>1, <3>2
  <2>3. ASSUME NEW j \in 1 .. n - 1, x = s[j + 1] PROVE \E i \in 1 .. n : x = s[i]
    <3>1. j + 1 \in 1 .. n
      OBVIOUS
    <3> QED BY <2>3, <3>1
  <2>4. x = s[1] => \E i \in 1 .. n : x = s[i]
    <3>1. 1 \in 1 .. n
      OBVIOUS
    <3> QED BY <3>1
  <2> QED BY <2>1, <2>2, <2>3, <2>4
<1> QED BY <1>1, <1>2, <1>3, <1>4

LEMMA FrameParts ==
  ASSUME NEW q, NEW fr \in Frames(q)
  PROVE  fr.files \in Seq(Components) /\ fr.dirs \in Seq(Directories)
BY DEF Frames

LEMMA Narrowed ==
  ASSUME NEW S, NEW T, NEW s \in Seq(S), \A i \in 1 .. Len(s) : s[i] \in T
  PROVE  s \in Seq(T)
OBVIOUS

(* A file less.                                                              *)
LEMMA FileVisited ==
  ASSUME NEW q, NEW c, NEW fr, NEW p, Follows(fr, p, q, c), fr.files # <<>>, NEW r \in Frames(q),
         r.path = fr.path, r.m = fr.m, r.files = Tail(fr.files), r.dirs = fr.dirs
  PROVE  \E rest : \E text \in Texts :
           /\ Follows(r, rest, q, c) /\ Spells(c, Head(fr.files), text)
           /\ \A f : Awaits(p, f) <=> f = Append(p.names, text) \/ Awaits(rest, f)
<1>1. fr \in Frames(q) /\ fr.files \in Seq(Components) /\ p.files \in Seq(Texts) /\ IsPlan(p)
  <2>1. fr \in Frames(q) /\ IsPlan(p)
    BY DEF Follows
  <2> QED BY <2>1, FrameParts DEF IsPlan
<1>2. PICK files \in Seq(Components) : files = fr.files /\ files # <<>>
  BY <1>1
<1>3. PICK texts \in Seq(Texts) : texts = p.files /\ Len(texts) = Len(files) /\ texts # <<>>
  <2>1. Len(p.files) = Len(fr.files)
    BY DEF Follows
  <2>2. Len(files) # 0
    BY <1>2, HeadTail
  <2>3. p.files # <<>>
    BY <1>2, <2>1, <2>2
  <2> QED BY <1>1, <1>2, <2>1, <2>3
<1>4. /\ Tail(files) \in Seq(Components) /\ Len(Tail(files)) = Len(texts) - 1 /\ Head(files) = files[1]
      /\ \A i \in 1 .. Len(texts) - 1 : Tail(files)[i] = files[i + 1]
  BY <1>2, <1>3, HeadTail
<1>5. /\ Tail(texts) \in Seq(Texts) /\ Len(Tail(texts)) = Len(texts) - 1 /\ Head(texts) = texts[1]
      /\ Len(texts) \in Nat \ {0} /\ Head(texts) \in Texts
      /\ \A i \in 1 .. Len(texts) - 1 : Tail(texts)[i] = texts[i + 1]
      /\ \A x : x \in ToSet(texts) <=> x = Head(texts) \/ x \in ToSet(Tail(texts))
  BY <1>3, HeadTail
<1>6. r \in Frames(q) /\ r.path = fr.path /\ r.m = fr.m /\ r.files = Tail(files) /\ r.dirs = fr.dirs
  BY <1>2
<1>7. PICK rest : rest = [tree |-> p.tree, names |-> p.names, files |-> Tail(texts), dirs |-> p.dirs]
  OBVIOUS
<1>8. /\ rest.tree = p.tree /\ rest.names = p.names /\ rest.files = Tail(texts)
      /\ rest.dirs = p.dirs
  BY <1>7
<1>9. \A i \in 1 .. Len(texts) : Spells(c, files[i], texts[i])
  BY <1>2, <1>3 DEF Follows
<1>10. \A i \in 1 .. Len(Tail(texts)) : Spells(c, Tail(files)[i], Tail(texts)[i])
  <2> SUFFICES ASSUME NEW i \in 1 .. Len(Tail(texts)) PROVE Spells(c, Tail(files)[i], Tail(texts)[i])
    OBVIOUS
  <2>1. i \in 1 .. Len(texts) - 1 /\ i + 1 \in 1 .. Len(texts)
    BY <1>5
  <2> QED BY <1>4, <1>5, <1>9, <2>1
<1>11. Follows(r, rest, q, c)
  <2>1. IsPlan(rest)
    BY <1>1, <1>5, <1>8 DEF IsPlan
  <2> QED BY <1>4, <1>5, <1>6, <1>8, <1>10, <2>1 DEF Follows
<1>12. Spells(c, Head(files), Head(texts))
  <2>1. 1 \in 1 .. Len(texts)
    BY <1>5
  <2> QED BY <1>4, <1>5, <1>9, <2>1
<1>13. \A f : Awaits(p, f) <=> f = Append(p.names, Head(texts)) \/ Awaits(rest, f)
  BY <1>3, <1>5, <1>8 DEF Awaits
<1> QED BY <1>2, <1>5, <1>11, <1>12, <1>13

(* A subdirectory less.                                                      *)
LEMMA DirectoryVisited ==
  ASSUME NEW q, NEW c, NEW fr, NEW p, Follows(fr, p, q, c), fr.dirs # <<>>, NEW r \in Frames(q),
         r.path = fr.path, r.m = fr.m, r.files = fr.files, r.dirs = Tail(fr.dirs)
  PROVE  \E rest : \E n \in DOMAIN p.tree :
           /\ Follows(r, rest, q, c) /\ Carried(c, p.tree, Head(fr.dirs), n)
           /\ \A f : Awaits(p, f) <=> f \in Under(p.tree, p.names, n) \/ Awaits(rest, f)
<1>1. fr \in Frames(q) /\ fr.dirs \in Seq(Directories) /\ p.dirs \in Seq(DOMAIN p.tree) /\ IsPlan(p)
  <2>1. fr \in Frames(q) /\ IsPlan(p)
    BY DEF Follows
  <2> QED BY <2>1, FrameParts DEF IsPlan
<1>2. PICK dirs \in Seq(Directories) : dirs = fr.dirs /\ dirs # <<>>
  BY <1>1
<1>3. PICK nodes \in Seq(DOMAIN p.tree) : nodes = p.dirs /\ Len(nodes) = Len(dirs) /\ nodes # <<>>
  <2>1. Len(p.dirs) = Len(fr.dirs)
    BY DEF Follows
  <2>2. Len(dirs) # 0
    BY <1>2, HeadTail
  <2>3. p.dirs # <<>>
    BY <1>2, <2>1, <2>2
  <2> QED BY <1>1, <1>2, <2>1, <2>3
<1>4. /\ Tail(dirs) \in Seq(Directories) /\ Len(Tail(dirs)) = Len(nodes) - 1 /\ Head(dirs) = dirs[1]
      /\ \A i \in 1 .. Len(nodes) - 1 : Tail(dirs)[i] = dirs[i + 1]
  BY <1>2, <1>3, HeadTail
<1>5. /\ Tail(nodes) \in Seq(DOMAIN p.tree) /\ Len(Tail(nodes)) = Len(nodes) - 1
      /\ Head(nodes) = nodes[1] /\ Len(nodes) \in Nat \ {0} /\ Head(nodes) \in DOMAIN p.tree
      /\ \A i \in 1 .. Len(nodes) - 1 : Tail(nodes)[i] = nodes[i + 1]
      /\ \A x : x \in ToSet(nodes) <=> x = Head(nodes) \/ x \in ToSet(Tail(nodes))
  BY <1>3, HeadTail
<1>6. r \in Frames(q) /\ r.path = fr.path /\ r.m = fr.m /\ r.files = fr.files /\ r.dirs = Tail(dirs)
  BY <1>2
<1>7. PICK rest : rest = [tree |-> p.tree, names |-> p.names, files |-> p.files, dirs |-> Tail(nodes)]
  OBVIOUS
<1>8. /\ rest.tree = p.tree /\ rest.names = p.names /\ rest.files = p.files
      /\ rest.dirs = Tail(nodes)
  BY <1>7
<1>9. \A i \in 1 .. Len(nodes) : Carried(c, p.tree, dirs[i], nodes[i])
  BY <1>2, <1>3 DEF Follows
<1>10. \A i \in 1 .. Len(Tail(nodes)) : Carried(c, p.tree, Tail(dirs)[i], Tail(nodes)[i])
  <2> SUFFICES ASSUME NEW i \in 1 .. Len(Tail(nodes))
               PROVE  Carried(c, p.tree, Tail(dirs)[i], Tail(nodes)[i])
    OBVIOUS
  <2>1. i \in 1 .. Len(nodes) - 1 /\ i + 1 \in 1 .. Len(nodes)
    BY <1>5
  <2> QED BY <1>4, <1>5, <1>9, <2>1
<1>11. Follows(r, rest, q, c)
  <2>1. IsPlan(rest)
    BY <1>1, <1>5, <1>8 DEF IsPlan
  <2> QED BY <1>4, <1>5, <1>6, <1>8, <1>10, <2>1 DEF Follows
<1>12. Carried(c, p.tree, Head(dirs), Head(nodes))
  <2>1. 1 \in 1 .. Len(nodes)
    BY <1>5
  <2> QED BY <1>4, <1>5, <1>9, <2>1
<1>13. \A f : Awaits(p, f) <=> f \in Under(p.tree, p.names, Head(nodes)) \/ Awaits(rest, f)
  BY <1>3, <1>5, <1>8 DEF Awaits
<1> QED BY <1>2, <1>5, <1>11, <1>12, <1>13

(* A new call, for a package or a subdirectory.                              *)
LEMMA CallFollows ==
  ASSUME NEW tree, IsTree(tree), Fits(tree), arena \in Arenas, query \in Askable,
         NEW n \in DOMAIN tree, NEW d, Carried(arena, tree, d, n),
         NEW up \in Seq(Texts), NEW path, NEW m, NEW initial \in BOOLEAN,
         initial => up = <<>> /\ m = NewMatcher(query),
         ~ initial => up \in Paths /\ path = Joined[up] /\ m = MatcherAfter(query)[up]
  PROVE  /\ Follows(Call(d, path, m, initial), NewPlan(tree, up, n), query, arena)
         /\ \A f : Awaits(NewPlan(tree, up, n), f) <=> f \in Under(tree, up, n)
<1>1. PICK names \in Paths, name \in Texts :
        /\ name = tree[n].name /\ names = Append(up, name)
        /\ \A g : g \in Under(tree, up, n) <=>
                    \/ \E h \in ToSet(tree[n].files) : g = Append(names, h)
                    \/ \E k \in ToSet(tree[n].dirs) : g \in Under(tree, names, k)
  <2>1. PICK name \in Texts : name = tree[n].name
    BY TreeParts
  <2>2. PICK names : names = Append(up, tree[n].name)
    OBVIOUS
  <2>3. names \in Paths
    BY <2>2, UnderIs
  <2>4. Parted(tree, up, names, n)
    BY <2>2, UnderIs
  <2>5. \A g : g \in Under(tree, up, n) <=>
                 \/ \E h \in ToSet(tree[n].files) : g = Append(names, h)
                 \/ \E k \in ToSet(tree[n].dirs) : g \in Under(tree, names, k)
    BY <2>4 DEF Parted
  <2> QED BY <2>1, <2>2, <2>3, <2>5
<1>2. PICK p : p = NewPlan(tree, up, n)
  OBVIOUS
<1>3. /\ p.tree = tree /\ p.names = names
      /\ p.files = tree[n].files /\ p.dirs = tree[n].dirs
  BY <1>1, <1>2 DEF NewPlan
<1>4. PICK fr : fr = Call(d, path, m, initial)
  OBVIOUS
<1>5.           /\ fr = [path |-> fr.path, m |-> fr.m, files |-> fr.files, dirs |-> fr.dirs]
                /\ fr.path = IF initial THEN PathText(arena, d.name)
                             ELSE path \o <<Slash>> \o PathText(arena, d.name)
                /\ fr.m = Advance(query, m, PathIter(arena, d.name), initial)
                /\ fr.files = FilesIter(arena, d) /\ fr.dirs = DirsIter(arena, d)
  BY <1>4 DEF Call
<1>6. /\ Spells(arena, d.name, name)
      /\ fr.files \in Seq(Components) /\ Len(fr.files) = Len(p.files)
      /\ \A i \in 1 .. Len(p.files) : Spells(arena, fr.files[i], p.files[i])
      /\ fr.dirs \in Seq(Directories) /\ Len(fr.dirs) = Len(p.dirs)
      /\ \A i \in 1 .. Len(p.dirs) : Carried(arena, p.tree, fr.dirs[i], p.dirs[i])
  BY <1>1, <1>3, <1>5, CarriedParts
<1>7. PathText(arena, d.name) = Printed(name) /\ PathIter(arena, d.name) = PChars(name)
  BY <1>6 DEF Spells
<1>8. fr.path = Joined[names] /\ fr.m = MatcherAfter(query)[names]
  <2>1. CASE initial
    <3>1. names = <<name>>
      BY <1>1, <2>1
    <3> QED BY <1>5, <1>7, <2>1, <3>1, JoinedIs, AfterIs
  <2>2. CASE ~ initial
    BY <1>1, <1>5, <1>7, <2>2, JoinedIs, AfterIs
  <2> QED BY <2>1, <2>2
<1>9. fr \in Frames(query)
  <2>1. fr.path \in Seq(Keys) /\ fr.m \in Matchers(query)
    BY <1>8, JoinedIs, AfterIs DEF Reads
  <2> QED BY <1>5, <1>6, <2>1 DEF Frames
<1>10. IsPlan(p)
  <2>1. /\ tree[n].files \in Seq(Texts) /\ tree[n].dirs \in Seq(Nat) /\ Len(tree[n].dirs) \in Nat
        /\ \A i \in 1 .. Len(tree[n].dirs) : tree[n].dirs[i] \in DOMAIN tree
    BY TreeParts
  <2>2. tree[n].dirs \in Seq(DOMAIN tree)
    BY <2>1, Narrowed
  <2> QED BY <1>1, <1>3, <2>1, <2>2 DEF IsPlan
<1>11. Follows(fr, p, query, arena)
  BY <1>6, <1>8, <1>3, <1>9, <1>10 DEF Follows
<1>12. \A f : Awaits(p, f) <=> f \in Under(tree, up, n)
  BY <1>1, <1>3 DEF Awaits
<1> QED BY <1>2, <1>4, <1>11, <1>12

-----------------------------------------------------------------------------
(* The heap.                                                                 *)

Matched == [score : Nat, path : Seq(Keys)]

(* What a file is listed as.                                                 *)
ResultOf(f, q) == [score |-> ScoreOf(f, q), path |-> Joined[f]]

(* Only files that match were offered.                                       *)
Offered(h, q, files) ==
  /\ h \in Seq(Matched) /\ Len(h) <= MaxResults
  /\ \A i \in 1 .. Len(h) : \E f \in files : ScoreOf(f, q) > 0 /\ h[i] = ResultOf(f, q)

(* f is in the heap, or has no place in it.                                  *)
Considered(h, q, f) ==
  \/ ScoreOf(f, q) = 0
  \/ \E i \in 1 .. Len(h) : h[i] = ResultOf(f, q)
  \/ Len(h) = MaxResults /\ \A i \in 1 .. Len(h) : ScoreOf(f, q) <= h[i].score

LEMMA ResultType ==
  ASSUME NEW q \in Askable, NEW f \in Paths
  PROVE  ResultOf(f, q) \in Matched /\ ResultOf(f, q).score = ScoreOf(f, q)
         /\ ResultOf(f, q).path = Joined[f]
BY ScoreOfIs, JoinedIs DEF ResultOf, Matched

(* A heap with room for one more takes it.                                   *)
LEMMA HeapFilled ==
  ASSUME NEW q \in Askable, NEW files, files \subseteq Paths, NEW h, Offered(h, q, files),
         NEW f \in files, ScoreOf(f, q) > 0, NEW r, r = ResultOf(f, q), Len(h) < MaxResults
  PROVE  /\ Offered(Append(h, r), q, files) /\ Considered(Append(h, r), q, f)
         /\ \A g \in files : Considered(h, q, g) => Considered(Append(h, r), q, g)
<1>1. r \in Matched /\ r.score = ScoreOf(f, q) /\ r.path = Joined[f]
  BY ResultType
<1>2. PICK n \in Nat : n = Len(h) /\ DOMAIN h = 1 .. n /\ n <= MaxResults
  BY DEF Offered
<1>3. h \in Seq(Matched) /\ \A i \in 1 .. n : h[i] \in Matched /\ h[i].score \in Nat
  <2>1. h \in Seq(Matched)
    BY DEF Offered
  <2>2. \A i \in 1 .. n : h[i] \in Matched
    BY <1>2, <2>1, ElementsOf
  <2>3. \A x \in Matched : x.score \in Nat
    BY DEF Matched
  <2> QED BY <2>1, <2>2, <2>3
<1>4. \A i \in 1 .. n : \E g \in files : ScoreOf(g, q) > 0 /\ h[i] = ResultOf(g, q)
  BY <1>2 DEF Offered
<1>5. MaxResults \in Nat \ {0} /\ \A g \in files : ScoreOf(g, q) \in Nat
  BY LimitsType, ScoreOfIs
<1>6. n < MaxResults
  BY <1>2
<1> DEFINE k == Append(h, r)
<1>7. /\ k \in Seq(Matched) /\ Len(k) = n + 1 /\ k[n + 1] = r
      /\ \A i \in 1 .. n : k[i] = h[i]
  BY <1>1, <1>2, <1>3, Appends
<1>8. \A i \in 1 .. n + 1 : i = n + 1 \/ i \in 1 .. n
  OBVIOUS
<1>9. Offered(k, q, files)
  <2>1. \A i \in 1 .. n + 1 : \E g \in files : ScoreOf(g, q) > 0 /\ k[i] = ResultOf(g, q)
    BY <1>4, <1>7, <1>8
  <2>2. n + 1 <= MaxResults
    BY <1>5, <1>6
  <2> QED BY <1>7, <2>1, <2>2 DEF Offered
<1>10. Considered(k, q, f)
  <2>1. n + 1 \in 1 .. Len(k)
    BY <1>7
  <2> QED BY <1>7, <2>1 DEF Considered
<1>11. ASSUME NEW g \in files, Considered(h, q, g) PROVE Considered(k, q, g)
  <2>1. n # MaxResults
    BY <1>5, <1>6
  <2>2. \A i \in 1 .. n : i \in 1 .. Len(k)
    BY <1>7
  <2> QED BY <1>2, <1>7, <1>11, <2>1, <2>2 DEF Considered
<1> QED BY <1>9, <1>10, <1>11

(* A heap that is full refuses what is not better than its least.            *)
LEMMA HeapRefused ==
  ASSUME NEW q \in Askable, NEW files, files \subseteq Paths, NEW h, Offered(h, q, files),
         NEW f \in files, NEW r, r = ResultOf(f, q), Len(h) >= MaxResults,
         NEW least \in 1 .. Len(h), \A j \in 1 .. Len(h) : h[least].score <= h[j].score,
         ~ (r.score > h[least].score)
  PROVE  Considered(h, q, f)
<1>1. r \in Matched /\ r.score = ScoreOf(f, q) /\ r.path = Joined[f]
  BY ResultType
<1>2. PICK n \in Nat : n = Len(h) /\ DOMAIN h = 1 .. n /\ n <= MaxResults
  BY DEF Offered
<1>3. h \in Seq(Matched) /\ \A i \in 1 .. n : h[i] \in Matched /\ h[i].score \in Nat
  <2>1. h \in Seq(Matched)
    BY DEF Offered
  <2>2. \A i \in 1 .. n : h[i] \in Matched
    BY <1>2, <2>1, ElementsOf
  <2>3. \A x \in Matched : x.score \in Nat
    BY DEF Matched
  <2> QED BY <2>1, <2>2, <2>3
<1>4. MaxResults \in Nat \ {0} /\ \A g \in files : ScoreOf(g, q) \in Nat
  BY LimitsType, ScoreOfIs
<1>5. n = MaxResults
  BY <1>2, <1>4
<1>6. \A j \in 1 .. n : ScoreOf(f, q) <= h[j].score
  <2> SUFFICES ASSUME NEW j \in 1 .. n PROVE ScoreOf(f, q) <= h[j].score
    OBVIOUS
  <2>1. /\ h[least].score \in Nat /\ h[j].score \in Nat /\ r.score \in Nat
        /\ h[least].score <= h[j].score
    BY <1>1, <1>2, <1>3, <1>4
  <2>2. r.score <= h[j].score
    BY <2>1
  <2> QED BY <1>1, <2>2
<1> QED BY <1>2, <1>5, <1>6 DEF Considered

(* Or gives up its least, which stays considered: what is kept is no worse.  *)
LEMMA HeapReplaced ==
  ASSUME NEW q \in Askable, NEW files, files \subseteq Paths, NEW h, Offered(h, q, files),
         NEW f \in files, ScoreOf(f, q) > 0, NEW r, r = ResultOf(f, q), Len(h) >= MaxResults,
         NEW least \in 1 .. Len(h), \A j \in 1 .. Len(h) : h[least].score <= h[j].score,
         r.score > h[least].score, NEW k \in Seq(Matched), Len(k) = Len(h), k[least] = r,
         \A i \in 1 .. Len(h) : i # least => k[i] = h[i]
  PROVE  /\ Offered(k, q, files) /\ Considered(k, q, f)
         /\ \A g \in files : Considered(h, q, g) => Considered(k, q, g)
<1>1. r \in Matched /\ r.score = ScoreOf(f, q) /\ r.path = Joined[f]
  BY ResultType
<1>2. PICK n \in Nat : n = Len(h) /\ DOMAIN h = 1 .. n /\ n <= MaxResults
  BY DEF Offered
<1>3. h \in Seq(Matched) /\ \A i \in 1 .. n : h[i] \in Matched /\ h[i].score \in Nat
  <2>1. h \in Seq(Matched)
    BY DEF Offered
  <2>2. \A i \in 1 .. n : h[i] \in Matched
    BY <1>2, <2>1, ElementsOf
  <2>3. \A x \in Matched : x.score \in Nat
    BY DEF Matched
  <2> QED BY <2>1, <2>2, <2>3
<1>4. \A i \in 1 .. n : \E g \in files : ScoreOf(g, q) > 0 /\ h[i] = ResultOf(g, q)
  BY <1>2 DEF Offered
<1>5. MaxResults \in Nat \ {0} /\ \A g \in files : ScoreOf(g, q) \in Nat
  BY LimitsType, ScoreOfIs
<1>6. /\ n = MaxResults /\ least \in 1 .. n
      /\ \A j \in 1 .. n : h[least].score <= h[j].score
      /\ r.score > h[least].score
  BY <1>2, <1>5
<1>7. /\ k \in Seq(Matched) /\ Len(k) = n /\ k[least] = r
       /\ \A i \in 1 .. n : i # least => k[i] = h[i]
  BY <1>1, <1>2, <1>3, <1>6
<1>8. Offered(k, q, files)
  <2>1. \A i \in 1 .. n : \E g \in files : ScoreOf(g, q) > 0 /\ k[i] = ResultOf(g, q)
    BY <1>4, <1>7
  <2> QED BY <1>2, <1>7, <2>1 DEF Offered
<1>9. Considered(k, q, f)
  BY <1>7 DEF Considered
<1>10. \A i \in 1 .. n : h[least].score <= k[i].score
  <2> SUFFICES ASSUME NEW i \in 1 .. n PROVE h[least].score <= k[i].score
    OBVIOUS
  <2>1. CASE i = least
    <3>1. h[least].score \in Nat /\ r.score \in Nat
      BY <1>1, <1>3, <1>5, <1>6
    <3> QED BY <1>6, <1>7, <2>1, <3>1
  <2>2. CASE i # least
    BY <1>6, <1>7, <2>2
  <2> QED BY <2>1, <2>2
<1>11. ASSUME NEW g \in files, Considered(h, q, g) PROVE Considered(k, q, g)
  <2>1. CASE ScoreOf(g, q) = 0
    BY <2>1 DEF Considered
  <2>2. CASE \E i \in 1 .. n : h[i] = ResultOf(g, q)
    <3>1. PICK i \in 1 .. n : h[i] = ResultOf(g, q)
      BY <2>2
    <3>2. CASE i = least
      <4>1. ScoreOf(g, q) = h[least].score
        BY <3>1, <3>2, ResultType
      <4> QED BY <1>6, <1>7, <1>10, <4>1 DEF Considered
    <3>3. CASE i # least
      BY <1>7, <3>1, <3>3 DEF Considered
    <3> QED BY <3>2, <3>3
  <2>3. CASE \A i \in 1 .. n : ScoreOf(g, q) <= h[i].score
    <3>1. \A i \in 1 .. n : ScoreOf(g, q) <= k[i].score
      <4> SUFFICES ASSUME NEW i \in 1 .. n PROVE ScoreOf(g, q) <= k[i].score
        OBVIOUS
      <4>1. /\ ScoreOf(g, q) <= h[least].score /\ h[least].score <= k[i].score
            /\ ScoreOf(g, q) \in Nat /\ h[least].score \in Nat /\ k[i].score \in Nat
        <5>1. k[i].score \in Nat
          <6>1. k[i] \in Matched
            BY <1>7, ElementsOf
          <6> QED BY <6>1 DEF Matched
        <5> QED BY <1>3, <1>5, <1>6, <1>10, <2>3, <5>1
      <4> QED BY <4>1
    <3> QED BY <1>6, <1>7, <3>1 DEF Considered
  <2> QED BY <1>2, <1>11, <2>1, <2>2, <2>3 DEF Considered
<1> QED BY <1>8, <1>9, <1>11

-----------------------------------------------------------------------------
(* While a request is answered, every file is in the heap or has no place in *)
(* it, or is still to be visited by a call or with a package.                *)

(* plans[i] is what the i-th call of walk() has to visit.                    *)
Walks(plans) ==
  /\ stack \in Seq(Frames(query))
  /\ \A i \in 1 .. Len(stack) :
       Follows(stack[i], plans[i], query, arena) /\ \A f : Awaits(plans[i], f) => f \in AllFiles
  /\ \A f \in AllFiles :
       \/ Considered(heap, query, f)
       \/ \E i \in 1 .. Len(stack) : Awaits(plans[i], f)
       \/ \E j \in next .. Len(packages) : f \in Under(packages[j], <<>>, 1)

WalkInv ==
  /\ query \in Askable /\ Len(roots) = Len(packages) /\ next \in 1 .. Len(packages) + 1
  /\ Offered(heap, query, AllFiles)
  /\ \E plans : Walks(plans)

SearchInv ==
  /\ ArenaInv
  /\ query = <<>> => stack = <<>>
  /\ FindsSubsequences /\ BestFirst
  /\ NamesFit /\ query # <<>> => WalkInv

(* All files are those below the roots of the packages.                      *)
LEMMA AllFilesIs ==
  ASSUME packages \in Inputs
  PROVE  /\ AllFiles \subseteq Paths
         /\ \A f : f \in AllFiles <=> \E j \in 1 .. Len(packages) : f \in Under(packages[j], <<>>, 1)
<1>1. \A j \in 1 .. Len(packages) : FilesBelow(packages[j])[1] \subseteq Paths
  BY PackageTrees, TreeParts, FilesBelowIs
<1>2. \A p \in Paths : <<>> \o p = p
  BY DEF Paths
<1>3. \A j \in 1 .. Len(packages) : Under(packages[j], <<>>, 1) = FilesBelow(packages[j])[1]
  BY <1>1, <1>2 DEF Under
<1>4. \A f : f \in AllFiles <=> \E j \in 1 .. Len(packages) : f \in FilesBelow(packages[j])[1]
  <2>1. DOMAIN packages = 1 .. Len(packages)
    BY PackageTrees
  <2> QED BY <2>1 DEF AllFiles, ToSet
<1> QED BY <1>1, <1>3, <1>4

(* The call on top of the stack, and its plan.                               *)
LEMMA TopIs ==
  ASSUME query \in Askable, stack # <<>>, NEW plans, Walks(plans)
  PROVE  /\ Len(stack) \in Nat /\ Len(stack) \in 1 .. Len(stack)
         /\ Top = stack[Len(stack)] /\ Top \in Frames(query)
         /\ Follows(Top, plans[Len(stack)], query, arena)
         /\ plans[Len(stack)].names \in Paths /\ IsTree(plans[Len(stack)].tree)
         /\ Fits(plans[Len(stack)].tree)
         /\ Top.path = Joined[plans[Len(stack)].names]
         /\ Top.m = MatcherAfter(query)[plans[Len(stack)].names]
<1>1. stack \in Seq(Frames(query))
  BY DEF Walks
<1>2. Len(stack) \in Nat /\ Len(stack) \in 1 .. Len(stack)
  BY <1>1
<1>3. Top = stack[Len(stack)]
  BY DEF Top, Last
<1>4. Follows(Top, plans[Len(stack)], query, arena)
  BY <1>2, <1>3 DEF Walks
<1> QED BY <1>2, <1>3, <1>4 DEF Follows, IsPlan

(* The file that is visited is considered.                                   *)
LEMMA FileConsidered ==
  ASSUME query \in Askable, NEW names \in Paths, NEW text \in Texts, NEW file,
         Spells(arena, file, text), AllFiles \subseteq Paths, Append(names, text) \in AllFiles,
         Offered(heap, query, AllFiles), NEW path, NEW m,
         path = Joined[names], m = MatcherAfter(query)[names],
         LET score == Score(Advance(query, m, PathIter(arena, file), FALSE))
         IN  IF CoveredBy(query, m, file.char_set)
             THEN IF score > 0
                  THEN Offer([score |-> score, path |-> path \o <<Slash>> \o PathText(arena, file)])
                  ELSE heap' = heap
             ELSE heap' = heap
  PROVE  /\ Offered(heap', query, AllFiles) /\ Considered(heap', query, Append(names, text))
         /\ \A g \in AllFiles : Considered(heap, query, g) => Considered(heap', query, g)
<1>1. PICK f \in AllFiles : f = Append(names, text)
  OBVIOUS
<1>2. f \in Paths /\ ScoreOf(f, query) \in Nat
  BY <1>1, ScoreOfIs
<1>3. /\ PathIter(arena, file) = PChars(text) /\ PathText(arena, file) = Printed(text)
      /\ file.char_set = CharSet(text) \cup {Slash}
  BY DEF Spells
<1>4. Score(Advance(query, m, PathIter(arena, file), FALSE)) = ScoreOf(f, query)
  BY <1>1, <1>3, AfterIs DEF ScoreOf
<1>5. path \o <<Slash>> \o PathText(arena, file) = Joined[f]
  BY <1>1, <1>3, JoinedIs
<1>6. CASE heap' = heap /\ ScoreOf(f, query) = 0
  BY <1>1, <1>6 DEF Considered
<1>7. CASE ScoreOf(f, query) > 0 /\ Offer(ResultOf(f, query))
  <2>1. PICK r \in Matched : r = ResultOf(f, query) /\ r.score = ScoreOf(f, query)
    BY <1>2, ResultType
  <2>2. heap \in Seq(Matched) /\ DOMAIN heap = 1 .. Len(heap)
    BY DEF Offered
  <2>3. CASE Len(heap) < MaxResults /\ heap' = Append(heap, r)
    BY <1>1, <1>7, <2>1, <2>3, HeapFilled
  <2>4. CASE Len(heap) >= MaxResults /\ \E least \in Minimum :
               heap' = IF r.score > heap[least].score THEN [heap EXCEPT ![least] = r] ELSE heap
    <3>1. PICK least \in 1 .. Len(heap) :
            /\ \A j \in 1 .. Len(heap) : heap[least].score <= heap[j].score
            /\ heap' = IF r.score > heap[least].score THEN [heap EXCEPT ![least] = r] ELSE heap
      BY <2>2, <2>4 DEF Minimum
    <3>2. PICK h, k : h = heap /\ k = heap'
      OBVIOUS
    <3>3. \A j \in 1 .. Len(h) : h[least].score <= h[j].score
      BY <3>1, <3>2
    <3>4. CASE ~ (r.score > h[least].score)
      <4>1. Considered(h, query, f)
        BY <2>1, <2>4, <3>2, <3>3, <3>4, HeapRefused
      <4> QED BY <1>1, <3>1, <3>2, <3>4, <4>1
    <3>5. CASE r.score > h[least].score
      <4>1. /\ k \in Seq(Matched) /\ Len(k) = Len(h) /\ k[least] = r
            /\ \A i \in 1 .. Len(h) : i # least => k[i] = h[i]
        BY <2>2, <3>1, <3>2, <3>5
      <4>2. /\ Offered(k, query, AllFiles) /\ Considered(k, query, f)
            /\ \A g \in AllFiles : Considered(h, query, g) => Considered(k, query, g)
        <5>1. /\ query \in Askable /\ AllFiles \subseteq Paths /\ Offered(h, query, AllFiles)
              /\ f \in AllFiles /\ ScoreOf(f, query) > 0 /\ r = ResultOf(f, query)
              /\ Len(h) >= MaxResults /\ least \in 1 .. Len(h)
          BY <1>7, <2>1, <2>4, <3>1, <3>2
        <5> HIDE DEF AllFiles
        <5> QED BY ONLY <3>3, <3>5, <4>1, <5>1, HeapReplaced
      <4> QED BY <1>1, <3>2, <4>2
    <3> QED BY <3>4, <3>5
  <2>5. Offer(r)
    BY <1>7, <2>1
  <2>6. \/ Len(heap) < MaxResults /\ heap' = Append(heap, r)
        \/ Len(heap) >= MaxResults /\ \E least \in Minimum :
             heap' = IF r.score > heap[least].score THEN [heap EXCEPT ![least] = r] ELSE heap
    BY <2>5, Zenon DEF Offer
  <2> QED BY <2>3, <2>4, <2>6, Zenon
<1>8. CASE ~ CoveredBy(query, m, file.char_set)
  <2>1. ScoreOf(f, query) = 0
    BY <1>1, <1>3, <1>8, SkippedFile
  <2> QED BY <1>6, <1>8, <2>1
<1>9. CASE CoveredBy(query, m, file.char_set)
  <2>1. CASE ScoreOf(f, query) > 0
    <3>1. Offer([score |-> ScoreOf(f, query), path |-> Joined[f]])
      BY <1>4, <1>5, <1>9, <2>1
    <3> QED BY <1>7, <2>1, <3>1 DEF ResultOf
  <2>2. CASE ScoreOf(f, query) = 0
    <3>1. PICK s : s = Score(Advance(query, m, PathIter(arena, file), FALSE))
      OBVIOUS
    <3>2. s = 0
      BY <1>4, <2>2, <3>1, Zenon
    <3>3. ~ (s > 0)
      BY ONLY <3>2
    <3>4. ~ (Score(Advance(query, m, PathIter(arena, file), FALSE)) > 0)
      BY <3>1, <3>3, Zenon
    <3>5. heap' = heap
      BY <1>9, <3>4, Zenon
    <3> QED BY <1>6, <2>2, <3>5
  <2> QED BY <1>2, <2>1, <2>2
<1> QED BY <1>8, <1>9

(* A file is no longer awaited when it is considered.                        *)
LEMMA VisitFileWalks ==
  ASSUME SearchInv, NamesFit, VisitFile PROVE WalkInv'
<1>1. /\ stack # <<>> /\ Top.files # <<>> /\ query # <<>>
      /\ stack' = [stack EXCEPT ![Len(stack)].files = Tail(@)]
      /\ UNCHANGED <<packages, arena, roots, query, next>>
  BY DEF VisitFile, Walking
<1>2. /\ query \in Askable /\ Len(roots) = Len(packages) /\ next \in 1 .. Len(packages) + 1
      /\ Offered(heap, query, AllFiles) /\ packages \in Inputs
  BY <1>1 DEF SearchInv, WalkInv, ArenaInv
<1>3. PICK plans : Walks(plans)
  BY <1>1 DEF SearchInv, WalkInv
<1>4. AllFiles' = AllFiles /\ AllFiles \subseteq Paths
  BY <1>1, <1>2, AllFilesIs DEF AllFiles
<1>5. PICK p : p = plans[Len(stack)]
  OBVIOUS
<1>6. PICK n \in Nat : n = Len(stack) /\ n \in 1 .. n /\ p = plans[n]
  BY <1>1, <1>2, <1>3, TopIs, <1>5
<1>7. /\ Top = stack[n] /\ Top \in Frames(query) /\ Follows(Top, p, query, arena)
      /\ p.names \in Paths /\ Top.path = Joined[p.names] /\ Top.m = MatcherAfter(query)[p.names]
  BY <1>1, <1>2, <1>3, <1>6, TopIs
<1>8. PICK r : r = [Top EXCEPT !.files = Tail(@)]
  OBVIOUS
<1>9. PICK file : file = Head(Top.files)
  OBVIOUS
<1>10. /\ r \in Frames(query) /\ r.path = Top.path /\ r.m = Top.m /\ r.files = Tail(Top.files)
       /\ r.dirs = Top.dirs
  <2>1. PICK t \in Seq(Components) : t = Tail(Top.files)
    BY <1>1, <1>7, FrameParts, HeadTail
  <2>2. r = [Top EXCEPT !.files = t]
    BY <1>8, <2>1
  <2>3. Top \in Frames(query)
    BY <1>7
  <2>4. PICK P, M, F, D : Frames(query) = [path : P, m : M, files : F, dirs : D] /\ F = Seq(Components)
    BY DEF Frames
  <2>5. /\ Top = [path |-> Top.path, m |-> Top.m, files |-> Top.files, dirs |-> Top.dirs]
        /\ Top.path \in P /\ Top.m \in M /\ Top.dirs \in D
    BY ONLY <2>3, <2>4
  <2>6. r = [path |-> Top.path, m |-> Top.m, files |-> t, dirs |-> Top.dirs]
    BY ONLY <2>2, <2>5
  <2>7. r \in Frames(query) /\ r.path = Top.path /\ r.m = Top.m /\ r.files = t /\ r.dirs = Top.dirs
    BY ONLY t \in Seq(Components), <2>4, <2>5, <2>6
  <2> QED BY <2>1, <2>7
<1>11. PICK rest : \E text \in Texts :
        /\ Follows(r, rest, query, arena) /\ Spells(arena, file, text)
        /\ \A f : Awaits(p, f) <=> f = Append(p.names, text) \/ Awaits(rest, f)
  BY <1>1, <1>7, <1>9, <1>10, FileVisited
<1>12. PICK text \in Texts :
        /\ Follows(r, rest, query, arena) /\ Spells(arena, file, text)
        /\ \A f : Awaits(p, f) <=> f = Append(p.names, text) \/ Awaits(rest, f)
  BY <1>11
<1>13. Append(p.names, text) \in AllFiles
  BY <1>3, <1>6, <1>12 DEF Walks
<1>14. /\ Offered(heap', query, AllFiles) /\ Considered(heap', query, Append(p.names, text))
       /\ \A g \in AllFiles : Considered(heap, query, g) => Considered(heap', query, g)
  <2>1. PICK path, m : path = Top.path /\ m = Top.m
    OBVIOUS
  <2>2. LET score == Score(Advance(query, m, PathIter(arena, file), FALSE))
        IN  IF CoveredBy(query, m, file.char_set)
            THEN IF score > 0
                 THEN Offer([score |-> score, path |-> path \o <<Slash>> \o PathText(arena, file)])
                 ELSE heap' = heap
            ELSE heap' = heap
    BY <1>9, <2>1 DEF VisitFile
  <2> QED BY <1>2, <1>4, <1>7, <1>12, <1>13, <2>1, <2>2, FileConsidered
<1>15. PICK new : new = [i \in 1 .. n |-> IF i = n THEN rest ELSE plans[i]]
  OBVIOUS
<1>16. /\ stack' \in Seq(Frames(query)) /\ Len(stack') = n /\ stack'[n] = r
       /\ \A i \in 1 .. n : i # n => stack'[i] = stack[i]
  <2>1. stack \in Seq(Frames(query))
    BY <1>3 DEF Walks
  <2>2. stack' = [stack EXCEPT ![n] = r]
    BY <1>1, <1>6, <1>7, <1>8
  <2>3. r \in Frames(query)
    BY <1>12 DEF Follows
  <2>4. PICK S : S = Frames(query)
    OBVIOUS
  <2>5. PICK s \in Seq(S) : s = stack /\ n = Len(s)
    BY <1>6, <2>1, <2>4
  <2>6. PICK t : t = [s EXCEPT ![n] = r]
    OBVIOUS
  <2>7. r \in S
    BY <2>3, <2>4
  <2>8. t \in Seq(S) /\ Len(t) = n /\ t[n] = r /\ \A i \in 1 .. n : i # n => t[i] = s[i]
    BY ONLY <1>6, <2>5, <2>6, s \in Seq(S), <2>7
  <2> QED BY <2>2, <2>5, <2>6, <2>8, <2>4
<1>17. ASSUME NEW i \in 1 .. n
       PROVE  /\ Follows(stack'[i], new[i], query, arena)
              /\ \A f : Awaits(new[i], f) => f \in AllFiles
              /\ i # n => new[i] = plans[i]
  <2>1. CASE i = n
    BY <1>3, <1>6, <1>12, <1>15, <1>16, <2>1 DEF Walks
  <2>2. CASE i # n
    BY <1>3, <1>6, <1>15, <1>16, <2>2 DEF Walks
  <2> QED BY <2>1, <2>2
<1>18. ASSUME NEW f \in AllFiles
       PROVE  \/ Considered(heap', query, f)
              \/ \E i \in 1 .. n : Awaits(new[i], f)
              \/ \E j \in next .. Len(packages) : f \in Under(packages[j], <<>>, 1)
  <2>1. ASSUME NEW i \in 1 .. n, Awaits(plans[i], f)
        PROVE  Considered(heap', query, f) \/ \E k \in 1 .. n : Awaits(new[k], f)
    <3>1. CASE i = n
      <4>1. f = Append(p.names, text) \/ Awaits(rest, f)
        BY <1>6, <1>12, <2>1, <3>1
      <4>2. new[n] = rest
        BY <1>6, <1>15
      <4> QED BY <1>6, <1>14, <4>1, <4>2
    <3>2. CASE i # n
      BY <1>17, <2>1, <3>2
    <3> QED BY <3>1, <3>2
  <2>2. \/ Considered(heap, query, f)
        \/ \E i \in 1 .. n : Awaits(plans[i], f)
        \/ \E j \in next .. Len(packages) : f \in Under(packages[j], <<>>, 1)
    BY <1>3, <1>6 DEF Walks
  <2> QED BY <1>14, <2>1, <2>2
<1>19. Walks(new)'
  BY <1>1, <1>4, <1>16, <1>17, <1>18 DEF Walks
<1> QED BY <1>1, <1>2, <1>4, <1>14, <1>19 DEF WalkInv

(* A subdirectory is entered, and a new call awaits its files, or left out,  *)
(* because no file below it matches.                                         *)
LEMMA VisitDirectoryWalks ==
  ASSUME SearchInv, NamesFit, VisitDirectory PROVE WalkInv'
<1>1. /\ stack # <<>> /\ Top.dirs # <<>> /\ query # <<>>
      /\ UNCHANGED <<packages, arena, roots, query, next, heap>>
  BY DEF VisitDirectory, Walking
<1>2. /\ query \in Askable /\ Len(roots) = Len(packages) /\ next \in 1 .. Len(packages) + 1
      /\ Offered(heap, query, AllFiles) /\ packages \in Inputs /\ arena \in Arenas
  BY <1>1 DEF SearchInv, WalkInv, ArenaInv
<1>3. PICK plans : Walks(plans)
  BY <1>1 DEF SearchInv, WalkInv
<1>4. AllFiles' = AllFiles /\ AllFiles \subseteq Paths
  BY <1>1, <1>2, AllFilesIs DEF AllFiles
<1>5. PICK p : p = plans[Len(stack)]
  OBVIOUS
<1>6. PICK n \in Nat : n = Len(stack) /\ n \in 1 .. n /\ p = plans[n]
  BY <1>1, <1>2, <1>3, TopIs, <1>5
<1>7. /\ Top = stack[n] /\ Top \in Frames(query) /\ Follows(Top, p, query, arena)
      /\ p.names \in Paths /\ Top.path = Joined[p.names] /\ Top.m = MatcherAfter(query)[p.names]
      /\ IsTree(p.tree) /\ Fits(p.tree)
  BY <1>1, <1>2, <1>3, <1>6, TopIs
<1>8. PICK r : r = [Top EXCEPT !.dirs = Tail(@)]
  OBVIOUS
<1>9. PICK child : child = Head(Top.dirs)
  OBVIOUS
<1>10. PICK t : t = [stack EXCEPT ![Len(stack)].dirs = Tail(@)]
  OBVIOUS
<1>11. /\ r \in Frames(query) /\ r.path = Top.path /\ r.m = Top.m /\ r.files = Top.files
       /\ r.dirs = Tail(Top.dirs)
  <2>1. PICK u \in Seq(Directories) : u = Tail(Top.dirs)
    BY <1>1, <1>7, FrameParts, HeadTail
  <2>2. r = [Top EXCEPT !.dirs = u]
    BY <1>8, <2>1
  <2>3. Top \in Frames(query)
    BY <1>7
  <2>4. PICK P, M, F, D : Frames(query) = [path : P, m : M, files : F, dirs : D] /\ D = Seq(Directories)
    BY DEF Frames
  <2>5. /\ Top = [path |-> Top.path, m |-> Top.m, files |-> Top.files, dirs |-> Top.dirs]
        /\ Top.path \in P /\ Top.m \in M /\ Top.files \in F
    BY ONLY <2>3, <2>4
  <2>6. r = [path |-> Top.path, m |-> Top.m, files |-> Top.files, dirs |-> u]
    BY ONLY <2>2, <2>5
  <2>7. r \in Frames(query) /\ r.path = Top.path /\ r.m = Top.m /\ r.files = Top.files /\ r.dirs = u
    BY ONLY u \in Seq(Directories), <2>4, <2>5, <2>6
  <2> QED BY <2>1, <2>7
<1>12. \E rest : \E k \in DOMAIN p.tree :
        /\ Follows(r, rest, query, arena) /\ Carried(arena, p.tree, Head(Top.dirs), k)
        /\ \A f : Awaits(p, f) <=> f \in Under(p.tree, p.names, k) \/ Awaits(rest, f)
  <2>1. /\ Follows(Top, p, query, arena) /\ Top.dirs # <<>> /\ r \in Frames(query)
        /\ r.path = Top.path /\ r.m = Top.m /\ r.files = Top.files /\ r.dirs = Tail(Top.dirs)
    BY <1>1, <1>7, <1>11
  <2> QED BY ONLY <2>1, DirectoryVisited
<1>13. PICK rest : \E k \in DOMAIN p.tree :
        /\ Follows(r, rest, query, arena) /\ Carried(arena, p.tree, child, k)
        /\ \A f : Awaits(p, f) <=> f \in Under(p.tree, p.names, k) \/ Awaits(rest, f)
  BY <1>9, <1>12
<1>14. PICK k \in DOMAIN p.tree :
         /\ Follows(r, rest, query, arena) /\ Carried(arena, p.tree, child, k)
         /\ \A f : Awaits(p, f) <=> f \in Under(p.tree, p.names, k) \/ Awaits(rest, f)
  BY <1>13
<1>15. /\ t \in Seq(Frames(query)) /\ Len(t) = n /\ t[n] = r
       /\ \A i \in 1 .. n : i # n => t[i] = stack[i]
  <2>1. stack \in Seq(Frames(query))
    BY <1>3 DEF Walks
  <2>2. t = [stack EXCEPT ![n] = r]
    BY <1>6, <1>7, <1>8, <1>10
  <2>3. PICK S, s : S = Frames(query) /\ s = stack
    OBVIOUS
  <2>4. s \in Seq(S) /\ n = Len(s) /\ r \in S /\ t = [s EXCEPT ![n] = r]
    BY <1>6, <1>11, <2>1, <2>2, <2>3
  <2>5. t \in Seq(S) /\ Len(t) = n /\ t[n] = r /\ \A i \in 1 .. n : i # n => t[i] = s[i]
    BY ONLY <1>6, <2>4
  <2> QED BY <2>3, <2>5
<1>16. PICK new : new = [i \in 1 .. n |-> IF i = n THEN rest ELSE plans[i]]
  OBVIOUS
<1>17. ASSUME NEW i \in 1 .. n
       PROVE  /\ Follows(t[i], new[i], query, arena)
              /\ \A f : Awaits(new[i], f) => f \in AllFiles
              /\ i # n => new[i] = plans[i]
  <2>1. CASE i = n
    BY <1>3, <1>6, <1>14, <1>15, <1>16, <2>1 DEF Walks
  <2>2. CASE i # n
    BY <1>3, <1>6, <1>15, <1>16, <2>2 DEF Walks
  <2> QED BY <2>1, <2>2
<1>18. \A f \in Under(p.tree, p.names, k) : f \in AllFiles
  BY <1>3, <1>6, <1>14 DEF Walks
<1>19. ASSUME NEW f \in AllFiles
       PROVE  \/ Considered(heap, query, f)
              \/ f \in Under(p.tree, p.names, k)
              \/ \E i \in 1 .. n : Awaits(new[i], f)
              \/ \E j \in next .. Len(packages) : f \in Under(packages[j], <<>>, 1)
  <2>1. ASSUME NEW i \in 1 .. n, Awaits(plans[i], f)
        PROVE  f \in Under(p.tree, p.names, k) \/ \E l \in 1 .. n : Awaits(new[l], f)
    <3>1. CASE i = n
      <4>1. f \in Under(p.tree, p.names, k) \/ Awaits(rest, f)
        BY <1>6, <1>14, <2>1, <3>1
      <4>2. new[n] = rest
        BY <1>6, <1>16
      <4> QED BY <1>6, <4>1, <4>2
    <3>2. CASE i # n
      BY <1>17, <2>1, <3>2
    <3> QED BY <3>1, <3>2
  <2>2. \/ Considered(heap, query, f)
        \/ \E i \in 1 .. n : Awaits(plans[i], f)
        \/ \E j \in next .. Len(packages) : f \in Under(packages[j], <<>>, 1)
    BY <1>3, <1>6 DEF Walks
  <2> QED BY <2>1, <2>2
<1>20. CASE ~ CoveredBy(query, Top.m, child.char_set)
  <2>1. stack' = t
    BY <1>9, <1>10, <1>20 DEF VisitDirectory
  <2>2. ASSUME NEW f \in Under(p.tree, p.names, k) PROVE Considered(heap, query, f)
    <3>1. ~ CoveredBy(query, MatcherAfter(query)[p.names], child.char_set)
      BY <1>7, <1>20
    <3>2. ScoreOf(f, query) = 0
      BY <1>2, <1>7, <1>14, <3>1, SkippedBelow
    <3> QED BY <3>2 DEF Considered
  <2>3. ASSUME NEW f \in AllFiles
        PROVE  \/ Considered(heap, query, f)
               \/ \E i \in 1 .. n : Awaits(new[i], f)
               \/ \E j \in next .. Len(packages) : f \in Under(packages[j], <<>>, 1)
    BY <1>19, <2>2
  <2>4. Walks(new)'
    BY <1>1, <1>4, <1>15, <1>17, <2>1, <2>3 DEF Walks
  <2> QED BY <1>1, <1>2, <1>4, <2>4 DEF WalkInv
<1>21. CASE CoveredBy(query, Top.m, child.char_set)
  <2>1. PICK c : c = Call(child, Top.path, Top.m, FALSE)
    OBVIOUS
  <2>2. stack' = Append(t, c)
    BY <1>9, <1>10, <1>21, <2>1 DEF VisitDirectory
  <2>3. PICK fresh : fresh = NewPlan(p.tree, p.names, k)
    OBVIOUS
  <2>4. /\ Follows(c, fresh, query, arena)
        /\ \A f : Awaits(fresh, f) <=> f \in Under(p.tree, p.names, k)
    <3>1. PICK path, m : path = Top.path /\ m = Top.m
      OBVIOUS
    <3>2. /\ path = Joined[p.names] /\ m = MatcherAfter(query)[p.names] /\ p.names \in Seq(Texts)
          /\ p.names \in Paths /\ IsTree(p.tree) /\ Fits(p.tree)
      BY <1>7, <3>1 DEF Paths
    <3>3. /\ Follows(Call(child, path, m, FALSE), NewPlan(p.tree, p.names, k), query, arena)
          /\ \A f : Awaits(NewPlan(p.tree, p.names, k), f) <=> f \in Under(p.tree, p.names, k)
      BY <1>2, <1>14, <3>2, CallFollows
    <3> QED BY <2>1, <2>3, <3>1, <3>3
  <2>5. PICK all : all = [i \in 1 .. n + 1 |-> IF i = n + 1 THEN fresh ELSE new[i]]
    OBVIOUS
  <2>6. /\ stack' \in Seq(Frames(query)) /\ Len(stack') = n + 1 /\ stack'[n + 1] = c
        /\ \A i \in 1 .. n : stack'[i] = t[i]
    <3>1. c \in Frames(query)
      BY <2>4 DEF Follows
    <3>2. PICK S : S = Frames(query)
      OBVIOUS
    <3>3. t \in Seq(S) /\ c \in S /\ Len(t) = n
      BY <1>15, <3>1, <3>2
    <3>4. /\ Append(t, c) \in Seq(S) /\ Len(Append(t, c)) = n + 1 /\ Append(t, c)[n + 1] = c
          /\ \A i \in 1 .. n : Append(t, c)[i] = t[i]
      BY ONLY <3>3, Appends
    <3> QED BY <2>2, <3>2, <3>4
  <2>7. all[n + 1] = fresh /\ \A i \in 1 .. n : all[i] = new[i]
    BY <1>6, <2>5
  <2>8. ASSUME NEW i \in 1 .. n + 1
        PROVE  Follows(stack'[i], all[i], query, arena) /\ \A f : Awaits(all[i], f) => f \in AllFiles
    <3>1. CASE i = n + 1
      BY <1>18, <2>4, <2>6, <2>7, <3>1
    <3>2. CASE i # n + 1
      <4>1. i \in 1 .. n
        BY <1>6, <3>2
      <4>2. stack'[i] = t[i] /\ all[i] = new[i]
        BY <2>6, <2>7, <4>1
      <4> QED BY <1>17, <4>1, <4>2
    <3> QED BY <3>1, <3>2
  <2>9. ASSUME NEW f \in AllFiles
        PROVE  \/ Considered(heap, query, f)
               \/ \E i \in 1 .. n + 1 : Awaits(all[i], f)
               \/ \E j \in next .. Len(packages) : f \in Under(packages[j], <<>>, 1)
    <3>1. n + 1 \in 1 .. n + 1 /\ \A i \in 1 .. n : i \in 1 .. n + 1
      BY <1>6
    <3> QED BY <1>19, <2>4, <2>7, <3>1
  <2>10. Walks(all)'
    BY <1>1, <1>4, <2>6, <2>8, <2>9 DEF Walks
  <2> QED BY <1>1, <1>2, <1>4, <2>10 DEF WalkInv
<1> QED BY <1>20, <1>21

(* A call that returns had nothing left to visit.                            *)
LEMMA LeaveDirectoryWalks ==
  ASSUME SearchInv, NamesFit, LeaveDirectory PROVE WalkInv'
<1>1. /\ stack # <<>> /\ Top.files = <<>> /\ Top.dirs = <<>> /\ query # <<>> /\ stack' = Front(stack)
      /\ UNCHANGED <<packages, arena, roots, query, next, heap>>
  BY DEF LeaveDirectory, Walking
<1>2. /\ query \in Askable /\ Len(roots) = Len(packages) /\ next \in 1 .. Len(packages) + 1
      /\ Offered(heap, query, AllFiles)
  BY <1>1 DEF SearchInv, WalkInv
<1>3. PICK plans : Walks(plans)
  BY <1>1 DEF SearchInv, WalkInv
<1>4. AllFiles' = AllFiles
  BY <1>1 DEF AllFiles
<1>5. PICK p : p = plans[Len(stack)]
  OBVIOUS
<1>6. PICK n \in Nat : n = Len(stack) /\ n \in 1 .. n /\ p = plans[n]
  BY <1>1, <1>2, <1>3, TopIs, <1>5
<1>7. Follows(Top, p, query, arena)
  BY <1>1, <1>2, <1>3, <1>6, TopIs
<1>8. \A f : ~ Awaits(p, f)
  <2>1. Len(p.files) = 0 /\ Len(p.dirs) = 0 /\ p.files \in Seq(Texts) /\ p.dirs \in Seq(DOMAIN p.tree)
    BY <1>1, <1>7 DEF Follows, IsPlan
  <2>2. ToSet(p.files) = {} /\ ToSet(p.dirs) = {}
    BY <2>1 DEF ToSet
  <2> QED BY <2>2 DEF Awaits
<1>9. /\ stack' \in Seq(Frames(query)) /\ Len(stack') = n - 1
      /\ \A i \in 1 .. n - 1 : stack'[i] = stack[i]
  <2>1. PICK S : S = Frames(query)
    OBVIOUS
  <2>2. stack \in Seq(S)
    BY <1>3, <2>1 DEF Walks
  <2>3. stack' = SubSeq(stack, 1, n - 1)
    BY <1>1, <1>6 DEF Front
  <2>4. stack' \in Seq(S) /\ Len(stack') = n - 1 /\ \A i \in 1 .. n - 1 : stack'[i] = stack[i]
    BY ONLY <1>6, <2>2, <2>3
  <2> QED BY <2>1, <2>4
<1>10. \A i \in 1 .. n : i = n \/ i \in 1 .. n - 1
  BY <1>6
<1>11. \A i \in 1 .. n - 1 : i \in 1 .. n
  BY <1>6
<1>12. Walks(plans)'
  BY <1>1, <1>3, <1>4, <1>6, <1>8, <1>9, <1>10, <1>11 DEF Walks
<1> QED BY <1>1, <1>2, <1>4, <1>12 DEF WalkInv

(* The first call for a package awaits the files of the package.             *)
LEMMA StartWalkWalks ==
  ASSUME SearchInv, NamesFit, StartWalk PROVE WalkInv'
<1>1. /\ stack = <<>> /\ next <= Len(roots) /\ query # <<>> /\ next' = next + 1
      /\ UNCHANGED <<packages, arena, roots, query, heap>>
  BY DEF StartWalk, Walking
<1>2. /\ query \in Askable /\ Len(roots) = Len(packages) /\ next \in 1 .. Len(packages) + 1
      /\ Offered(heap, query, AllFiles) /\ packages \in Inputs /\ arena \in Arenas
  BY <1>1 DEF SearchInv, WalkInv, ArenaInv
<1>3. PICK plans : Walks(plans)
  BY <1>1 DEF SearchInv, WalkInv
<1>4. AllFiles' = AllFiles
  BY <1>1 DEF AllFiles
<1>5. PICK tree, d : tree = packages[next] /\ d = roots[next]
  OBVIOUS
<1>6. PICK l \in Nat : l = Len(packages) /\ next \in 1 .. l
  BY <1>1, <1>2, PackageTrees
<1>7. /\ IsTree(tree) /\ Fits(tree) /\ 1 \in DOMAIN tree /\ Carried(arena, tree, d, 1)
  <2>1. IsTree(tree) /\ tree \in ToSet(packages)
    <3>1. DOMAIN packages = 1 .. Len(packages) /\ \A i \in 1 .. Len(packages) : IsTree(packages[i])
      BY <1>2, PackageTrees
    <3>2. next \in 1 .. Len(packages)
      BY <1>6
    <3>3. tree \in ToSet(packages)
      BY <1>5, <3>1, <3>2 DEF ToSet
    <3> QED BY <1>5, <3>1, <3>2, <3>3
  <2>2. Fits(tree)
    BY <2>1 DEF NamesFit
  <2>3. 1 \in DOMAIN tree
    BY <2>1, TreeParts
  <2>4. roots \in Seq(Directories) /\ \A i \in DOMAIN roots : Carried(arena, packages[i], roots[i], 1)
    BY DEF SearchInv, ArenaInv
  <2>5. next \in DOMAIN roots
    BY <1>2, <1>6, <2>4
  <2> QED BY <1>5, <2>1, <2>2, <2>3, <2>4, <2>5
<1>8. PICK c : c = Call(d, <<>>, NewMatcher(query), TRUE)
  OBVIOUS
<1>9. stack' = <<c>>
  BY <1>5, <1>8 DEF StartWalk
<1>10. PICK fresh : fresh = NewPlan(tree, <<>>, 1)
  OBVIOUS
<1>11. /\ Follows(c, fresh, query, arena)
       /\ \A f : Awaits(fresh, f) <=> f \in Under(tree, <<>>, 1)
  <2>1. <<>> \in Seq(Texts)
    OBVIOUS
  <2>2. PICK up \in Seq(Texts) : up = <<>>
    BY <2>1, Zenon
  <2>3. PICK m : m = NewMatcher(query)
    OBVIOUS
  <2>4. /\ Follows(Call(d, up, m, TRUE), NewPlan(tree, up, 1), query, arena)
        /\ \A f : Awaits(NewPlan(tree, up, 1), f) <=> f \in Under(tree, up, 1)
    BY <1>2, <1>7, <2>2, <2>3, CallFollows
  <2> QED BY <1>8, <1>10, <2>2, <2>3, <2>4
<1>12. PICK new : new = <<fresh>>
  OBVIOUS
<1>13. /\ stack' \in Seq(Frames(query)) /\ Len(stack') = 1 /\ stack'[1] = c /\ new[1] = fresh
  <2>1. PICK S : S = Frames(query)
    OBVIOUS
  <2>2. c \in S
    BY <1>11, <2>1 DEF Follows
  <2>3. <<c>> \in Seq(S) /\ Len(<<c>>) = 1 /\ <<c>>[1] = c
    BY ONLY <2>2
  <2> QED BY <1>9, <1>12, <2>1, <2>3
<1>14. ASSUME NEW f, Awaits(fresh, f) PROVE f \in AllFiles
  BY <1>2, <1>5, <1>6, <1>11, <1>14, AllFilesIs
<1>15. ASSUME NEW f \in AllFiles
       PROVE  \/ Considered(heap, query, f) \/ Awaits(fresh, f)
              \/ \E j \in next + 1 .. Len(packages) : f \in Under(packages[j], <<>>, 1)
  <2>1. \/ Considered(heap, query, f)
        \/ \E j \in next .. Len(packages) : f \in Under(packages[j], <<>>, 1)
    <3>1. Len(stack) = 0
      BY <1>1
    <3>2. ~ \E i \in 1 .. Len(stack) : Awaits(plans[i], f)
      BY <3>1
    <3> QED BY <1>3, <3>2 DEF Walks
  <2>2. ASSUME NEW j \in next .. l, f \in Under(packages[j], <<>>, 1)
        PROVE  Awaits(fresh, f) \/ \E i \in next + 1 .. l : f \in Under(packages[i], <<>>, 1)
    <3>1. CASE j = next
      BY <1>5, <1>11, <2>2, <3>1
    <3>2. CASE j # next
      <4>1. j \in next + 1 .. l
        BY <1>6, <3>2
      <4> QED BY <2>2, <4>1
    <3> QED BY <3>1, <3>2
  <2> QED BY <1>6, <2>1, <2>2
<1>16. Walks(new)'
  <2>1. \A i \in 1 .. 1 : i = 1
    OBVIOUS
  <2>2. 1 \in 1 .. 1
    OBVIOUS
  <2>3. \A i \in 1 .. Len(stack') :
          Follows(stack'[i], new[i], query, arena) /\ \A f : Awaits(new[i], f) => f \in AllFiles
    BY <1>11, <1>13, <1>14, <2>1
  <2>4. \A f \in AllFiles :
          \/ Considered(heap, query, f) \/ \E i \in 1 .. Len(stack') : Awaits(new[i], f)
          \/ \E j \in next' .. Len(packages) : f \in Under(packages[j], <<>>, 1)
    BY <1>1, <1>13, <1>15, <2>2
  <2> QED BY <1>1, <1>4, <1>13, <2>3, <2>4 DEF Walks
<1>17. next' \in 1 .. Len(packages) + 1
  BY <1>1, <1>6
<1> QED BY <1>1, <1>2, <1>4, <1>16, <1>17 DEF WalkInv

(* A request that is accepted finds every file still to be visited.          *)
LEMMA RequestWalks ==
  ASSUME SearchInv, NEW q \in Queries, Request(q), query' # <<>> PROVE WalkInv'
<1>1. /\ query = <<>> /\ heap' = <<>> /\ next' = 1 /\ Len(roots) = Len(packages) /\ query' = q
      /\ ToSet(q) \cap (NonAscii \cup {Null}) = {} /\ q # <<>>
      /\ UNCHANGED <<packages, arena, roots, stack>>
  BY DEF Request
<1>2. q \in Askable
  <2>1. q \in Seq(Chars \cup {Null})
    BY InputsType
  <2>2. \A i \in 1 .. Len(q) : q[i] \in Chars \ NonAscii
    <3>1. \A i \in 1 .. Len(q) : q[i] \in ToSet(q) /\ q[i] \in Chars \cup {Null}
      BY <2>1 DEF ToSet
    <3> QED BY <1>1, <3>1
  <2> QED BY <1>1, <2>1, <2>2, Narrowed DEF Askable
<1>3. packages \in Inputs /\ stack = <<>>
  BY <1>1 DEF SearchInv, ArenaInv
<1>4. AllFiles' = AllFiles
  BY <1>1 DEF AllFiles
<1>5. PICK l \in Nat : l = Len(packages)
  BY <1>3, PackageTrees
<1>6. Offered(<<>>, q, AllFiles)
  <2>1. <<>> \in Seq(Matched) /\ Len(<<>>) = 0
    OBVIOUS
  <2> QED BY <2>1, LimitsType DEF Offered
<1>7. Walks(<<>>)'
  <2>1. stack' \in Seq(Frames(q)) /\ Len(stack') = 0
    BY <1>1, <1>3
  <2>2. \A f \in AllFiles : \E j \in 1 .. Len(packages) : f \in Under(packages[j], <<>>, 1)
    BY <1>3, AllFilesIs
  <2> QED BY <1>1, <1>4, <2>1, <2>2 DEF Walks
<1>8. 1 \in 1 .. Len(packages) + 1
  BY <1>5
<1> QED BY <1>1, <1>2, <1>4, <1>6, <1>7, <1>8 DEF WalkInv

(* That l is h in another order, the best first.                             *)
Sorts(h, order, l) ==
  /\ order \in [DOMAIN h -> DOMAIN h] /\ \A i \in DOMAIN h : \E j \in DOMAIN h : order[j] = i
  /\ l \in [DOMAIN h -> Matched] /\ \A i \in DOMAIN h : l[i] = h[order[i]]
  /\ \A i, j \in DOMAIN h : i < j => h[order[i]].score >= h[order[j]].score

(* That l lists what h holds, the best first.                                *)
Lists(h, l) ==
  /\ l \in Seq(Matched) /\ Len(l) = Len(h)
  /\ \A i \in DOMAIN l \ {1} : l[i].score <= l[i - 1].score
  /\ \A i \in 1 .. Len(h) : \E j \in 1 .. Len(l) : l[j] = h[i]
  /\ \A i \in 1 .. Len(l) : \E j \in 1 .. Len(h) : l[i] = h[j]

(* What the best of the heap are listed as, in any order of equal ones.      *)
LEMMA Ordered ==
  ASSUME NEW h \in Seq(Matched), NEW order, NEW l, Sorts(h, order, l)
  PROVE  Lists(h, l)
<1>1. PICK n \in Nat : n = Len(h) /\ DOMAIN h = 1 .. n /\ h \in Seq(Matched)
  OBVIOUS
<1>2. /\ order \in [1 .. n -> 1 .. n] /\ \A i \in 1 .. n : \E j \in 1 .. n : order[j] = i
  BY <1>1 DEF Sorts
<1>3. \A i \in 1 .. n : h[i] \in Matched /\ h[i].score \in Nat
  <2>1. \A i \in 1 .. n : h[i] \in Matched
    BY <1>1
  <2>2. \A x \in Matched : x.score \in Nat
    BY DEF Matched
  <2> QED BY <2>1, <2>2
<1>4. \A i \in 1 .. n : l[i] = h[order[i]] /\ order[i] \in 1 .. n
  BY <1>1, <1>2 DEF Sorts
<1>5. l \in [1 .. n -> Matched]
  BY <1>1 DEF Sorts
<1>6. l \in Seq(Matched) /\ Len(l) = n /\ DOMAIN l = 1 .. n
  BY <1>5
<1>7. \A i, j \in 1 .. n : i < j => l[i].score >= l[j].score
  <2>1. \A i, j \in 1 .. n : i < j => h[order[i]].score >= h[order[j]].score
    BY <1>1 DEF Sorts
  <2> QED BY <1>4, <2>1
<1>8. \A i \in 1 .. n : l[i].score \in Nat
  BY <1>3, <1>4
<1>9. \A i \in DOMAIN l \ {1} : l[i].score <= l[i - 1].score
  <2> SUFFICES ASSUME NEW i \in DOMAIN l \ {1} PROVE l[i].score <= l[i - 1].score
    OBVIOUS
  <2>1. i \in 1 .. n /\ i - 1 \in 1 .. n /\ i - 1 < i
    BY <1>6
  <2> QED BY <1>7, <1>8, <2>1
<1> QED BY <1>1, <1>2, <1>4, <1>6, <1>9 DEF Lists

(* A list of all that was considered.                                        *)
LEMMA Listed ==
  ASSUME NEW q \in Askable, NEW files, files \subseteq Paths, NEW h, Offered(h, q, files),
         NEW l, Lists(h, l), NEW f \in files, Considered(h, q, f)
  PROVE  \/ ResultOf(f, q) \in ToSet(l)
         \/ ScoreOf(f, q) = 0
         \/ Len(l) = MaxResults /\ Len(h) >= MaxResults /\ ScoreOf(f, q) <= Last(l).score
<1>1. PICK n \in Nat : n = Len(h) /\ n = Len(l) /\ h \in Seq(Matched) /\ l \in Seq(Matched)
  BY DEF Offered, Lists
<1>2. CASE \E i \in 1 .. Len(h) : h[i] = ResultOf(f, q)
  <2>1. PICK j \in 1 .. Len(l) : l[j] = ResultOf(f, q)
    BY <1>2 DEF Lists
  <2>2. DOMAIN l = 1 .. Len(l)
    BY <1>1
  <2> QED BY <2>1, <2>2 DEF ToSet
<1>3. CASE Len(h) = MaxResults /\ \A i \in 1 .. Len(h) : ScoreOf(f, q) <= h[i].score
  <2>1. \A i \in 1 .. n : ScoreOf(f, q) <= l[i].score
    BY <1>1, <1>3 DEF Lists
  <2>2. n = MaxResults /\ n \in 1 .. n /\ n >= MaxResults
    <3>1. n \in Nat /\ n = Len(h) /\ Len(h) = MaxResults
      BY <1>1, <1>3
    <3> QED BY ONLY <3>1, LimitsType
  <2>3. Last(l) = l[n]
    BY <1>1 DEF Last
  <2> QED BY <1>1, <2>1, <2>2, <2>3
<1> QED BY <1>2, <1>3, LimitsType DEF Considered

(* When the last package was walked, nothing is left to visit, so every file *)
(* was considered.                                                           *)
LEMMA RespondFinds ==
  ASSUME SearchInv, NamesFit, Respond PROVE (FindsSubsequences /\ BestFirst)'
<1>1. /\ stack = <<>> /\ next > Len(roots) /\ query # <<>>
      /\ UNCHANGED <<packages, arena, roots, stack>>
  BY DEF Respond, Walking
<1>2. /\ query \in Askable /\ Len(roots) = Len(packages) /\ next \in 1 .. Len(packages) + 1
      /\ Offered(heap, query, AllFiles) /\ packages \in Inputs
  BY <1>1 DEF SearchInv, WalkInv, ArenaInv
<1>3. PICK plans : Walks(plans)
  BY <1>1 DEF SearchInv, WalkInv
<1>4. AllFiles' = AllFiles /\ AllFiles \subseteq Paths
  BY <1>1, <1>2, AllFilesIs DEF AllFiles
<1>5. \A f \in AllFiles : Considered(heap, query, f)
  <2>1. PICK n \in Nat : n = Len(packages)
    BY <1>2, PackageTrees
  <2>2. next .. Len(packages) = {} /\ 1 .. Len(stack) = {}
    BY <1>1, <1>2, <2>1
  <2> QED BY <1>3, <2>2 DEF Walks
<1>6. PICK order \in Orders :
        reply' = [status |-> 200, query |-> query, results |-> [i \in DOMAIN heap |-> heap[order[i]]],
                  truncated |-> Len(heap) >= MaxResults]
  BY DEF Respond
<1>7. PICK l : l = [i \in DOMAIN heap |-> heap[order[i]]]
  OBVIOUS
<1>8. /\ reply'.status = 200 /\ reply'.query = query /\ reply'.results = l
      /\ reply'.truncated = (Len(heap) >= MaxResults)
  BY <1>6, <1>7
<1>9. /\ order \in Bijection(DOMAIN heap, DOMAIN heap)
      /\ \A i, j \in DOMAIN heap : i < j => heap[order[i]].score >= heap[order[j]].score
  BY <1>6 DEF Orders
<1>10. PICK files : files = AllFiles
  OBVIOUS
<1>11. PICK h : h = heap
  OBVIOUS
<1>12. /\ files \subseteq Paths /\ Offered(h, query, files)
       /\ \A f \in files : Considered(h, query, f)
  BY <1>2, <1>4, <1>5, <1>10, <1>11
<1>13. Offered(l, query, files) /\ Lists(h, l)
  <2>1. PICK D : D = DOMAIN h
    OBVIOUS
  <2>2. order \in [D -> D] /\ \A i \in D : h[i] \in Matched
    <3>1. h \in Seq(Matched)
      BY <1>12 DEF Offered
    <3>2. \A i \in D : h[i] \in Matched
      BY <2>1, <3>1
    <3> QED BY <1>9, <1>11, <2>1, <3>2 DEF Bijection, Injection
  <2>3. l = [i \in D |-> h[order[i]]]
    BY <1>7, <1>11, <2>1
  <2>4. l \in [D -> Matched] /\ \A i \in D : l[i] = h[order[i]]
    BY <2>2, <2>3
  <2>5. \A i \in D : \E j \in D : order[j] = i
    BY <1>9, <1>11, <2>1 DEF Bijection, Surjection
  <2>6. \A i, j \in D : i < j => h[order[i]].score >= h[order[j]].score
    BY <1>9, <1>11, <2>1
  <2>7. Sorts(h, order, l)
    BY <2>1, <2>2, <2>4, <2>5, <2>6 DEF Sorts
  <2>8. h \in Seq(Matched)
    BY <1>12 DEF Offered
  <2>9. Lists(h, l)
    BY ONLY <2>7, <2>8, Ordered, Zenon
  <2> QED BY <1>12, <2>9 DEF Offered, Lists
<1>14. \A f \in files :
         \/ ResultOf(f, query) \in ToSet(l)
         \/ ScoreOf(f, query) = 0
         \/ Len(l) = MaxResults /\ Len(h) >= MaxResults /\ ScoreOf(f, query) <= Last(l).score
  BY <1>2, <1>12, <1>13, Listed
<1>15. \A f \in files : /\ ScoreOf(f, query) \in Nat
                        /\ ScoreOf(f, query) > 0 <=> Matches(Joined[f], query)
                        /\ ResultOf(f, query).path = Joined[f]
  BY <1>2, <1>12, ScoreOfIs, ResultType
<1>16. \A r \in ToSet(l) : \E f \in files : Matches(Joined[f], query) /\ r.path = Joined[f]
  <2>1. DOMAIN l = 1 .. Len(l)
    BY <1>13 DEF Offered
  <2>2. \A r \in ToSet(l) : \E i \in 1 .. Len(l) : r = l[i]
    BY <2>1 DEF ToSet
  <2>3. \A i \in 1 .. Len(l) : \E f \in files : ScoreOf(f, query) > 0 /\ l[i] = ResultOf(f, query)
    BY <1>13 DEF Offered
  <2> QED BY <1>15, <2>2, <2>3
<1>17. ASSUME ~ (Len(h) >= MaxResults), NEW f \in files, Matches(Joined[f], query)
       PROVE  \E r \in ToSet(l) : r.path = Joined[f]
  <2>1. ~ (ScoreOf(f, query) = 0)
    BY <1>15, <1>17
  <2> QED BY <1>14, <1>15, <1>17, <2>1
<1>18. Results' = ToSet(l)
  BY <1>8 DEF Results
<1>19. FindsSubsequences'
  <2>1. PICK matching, found :
          /\ matching = {Joined[f] : f \in {g \in files : Matches(Joined[g], query)}}
          /\ found = {r.path : r \in ToSet(l)}
    OBVIOUS
  <2>2. found \subseteq matching
    BY <1>16, <2>1
  <2>3. ~ (Len(h) >= MaxResults) => found = matching
    BY <1>17, <2>1, <2>2
  <2> QED BY <1>4, <1>8, <1>10, <1>11, <1>18, <2>1, <2>2, <2>3 DEF FindsSubsequences
<1>20. BestFirst'
  <2>1. \A f \in AllFiles' :
          \/ [score |-> ScoreOf(f, query), path |-> Joined[f]] \in ToSet(l)
          \/ ScoreOf(f, query) = 0
          \/ Len(l) = MaxResults /\ ScoreOf(f, query) <= Last(l).score
    BY <1>4, <1>10, <1>14 DEF ResultOf
  <2> QED BY <1>8, <1>13, <1>18, <2>1 DEF BestFirst, Lists
<1> QED BY <1>19, <1>20

(* What the replies hold stays while they are read.                          *)
LEMMA RepliesKept ==
  ASSUME FindsSubsequences, BestFirst, UNCHANGED <<packages, reply>>
  PROVE  (FindsSubsequences /\ BestFirst)'
BY DEF FindsSubsequences, BestFirst, NamesFit, AllFiles, Results

LEMMA Unanswered ==
  ASSUME reply.status # 200 PROVE FindsSubsequences /\ BestFirst
BY DEF FindsSubsequences, BestFirst

(* The invariant of the search is inductive.                                 *)
LEMMA SearchInvInit == FzfInit => SearchInv
<1> SUFFICES ASSUME FzfInit PROVE SearchInv
  OBVIOUS
<1>1. ArenaInv
  BY ArenaInvInit
<1>2. query = <<>> /\ stack = <<>> /\ reply.status # 200
  BY DEF FzfInit, NoReply
<1> QED BY <1>1, <1>2, Unanswered DEF SearchInv

LEMMA SearchInvNext ==
  ASSUME SearchInv, [FzfNext]_fzfVars PROVE SearchInv'
<1>1. ArenaInv'
  BY ArenaInvNext DEF SearchInv
<1>2. packages' = packages /\ NamesFit' = NamesFit
  BY DEF FzfNext, fzfVars, NamesFit, Load, LoadPanics, Walk, StartWalk, VisitFile, VisitDirectory, LeaveDirectory,
         Panic, Respond, Request
<1>3. CASE Load
  <2>1. UNCHANGED <<packages, query, next, stack, heap, reply>> /\ Len(roots) < Len(packages)
    BY <1>3 DEF Load
  <2>2. query = <<>> \/ ~ NamesFit
    <3>1. ~ (Len(roots) = Len(packages))
      <4>1. roots \in Seq(Directories) /\ packages \in Inputs
        BY DEF SearchInv, ArenaInv
      <4>2. Len(roots) \in Nat /\ Len(packages) \in Nat
        BY <4>1, PackageTrees
      <4> QED BY <2>1, <4>2
    <3> QED BY <3>1 DEF SearchInv, WalkInv
  <2>3. (FindsSubsequences /\ BestFirst)'
    BY <2>1, RepliesKept DEF SearchInv
  <2> QED BY <1>1, <1>2, <2>1, <2>2, <2>3 DEF SearchInv
<1>4. CASE StartWalk \/ VisitFile \/ VisitDirectory \/ LeaveDirectory
  <2>1. UNCHANGED <<packages, reply, query>> /\ query # <<>>
    BY <1>4 DEF StartWalk, VisitFile, VisitDirectory, LeaveDirectory, Walking
  <2>2. (FindsSubsequences /\ BestFirst)'
    BY <2>1, RepliesKept DEF SearchInv
  <2>3. NamesFit => WalkInv'
    BY <1>4, StartWalkWalks, VisitFileWalks, VisitDirectoryWalks, LeaveDirectoryWalks
  <2> QED BY <1>1, <1>2, <2>1, <2>2, <2>3 DEF SearchInv
<1>5. CASE UNCHANGED <<packages, arena, roots, query, next, stack, heap, reply>>
  <2>1. (FindsSubsequences /\ BestFirst)'
    BY <1>5, RepliesKept DEF SearchInv
  <2>2. WalkInv' <=> WalkInv
    BY <1>5 DEF WalkInv, Walks, AllFiles
  <2> QED BY <1>1, <1>2, <1>5, <2>1, <2>2 DEF SearchInv
<1>6. Panic \/ LoadPanics \/ UNCHANGED fzfVars
        => UNCHANGED <<packages, arena, roots, query, next, stack, heap, reply>>
  BY DEF Panic, LoadPanics, fzfVars
<1>7. CASE Respond
  <2>1. query' = <<>> /\ stack' = <<>>
    BY <1>7 DEF Respond
  <2>2. (FindsSubsequences /\ BestFirst)'
    <3>1. CASE NamesFit
      BY <1>7, <3>1, RespondFinds
    <3>2. CASE ~ NamesFit
      BY <1>2, <3>2 DEF FindsSubsequences, BestFirst
    <3> QED BY <3>1, <3>2
  <2> QED BY <1>1, <2>1, <2>2 DEF SearchInv
<1>8. CASE \E q \in Queries : Request(q)
  <2>1. PICK q \in Queries : Request(q)
    BY <1>8
  <2>2. query = <<>> /\ stack' = stack /\ reply'.status # 200
    BY <2>1 DEF Request, NoReply
  <2>3. stack' = <<>>
    BY <2>2 DEF SearchInv
  <2>4. (FindsSubsequences /\ BestFirst)'
    BY <2>2 DEF FindsSubsequences, BestFirst
  <2>5. query' # <<>> => WalkInv'
    BY <2>1, RequestWalks
  <2> QED BY <1>1, <2>3, <2>4, <2>5 DEF SearchInv
<1> QED BY <1>3, <1>4, <1>5, <1>6, <1>7, <1>8 DEF FzfNext, Walk

(* What a reply lists contains the query, and a reply that is not truncated  *)
(* lists every file that does: the directories that walk() leaves out by     *)
(* their characters, and the matcher it restores after each file and         *)
(* subdirectory, cost nothing.                                               *)
THEOREM FindsMatches == FzfSpec => []FindsSubsequences
<1>1. SearchInv => FindsSubsequences
  BY DEF SearchInv
<1> QED BY <1>1, SearchInvInit, SearchInvNext, PTL DEF FzfSpec

(* A reply is ordered by score, each path has the score that a matcher of its*)
(* own gives to its components, fed one after the other, and no path that    *)
(* the heap had no room for has a better one.  (Fed the path in one piece,   *)
(* the matcher can give it another score: ScoredAsWhole is not true.)        *)
THEOREM FindsBest == FzfSpec => []BestFirst
<1>1. SearchInv => BestFirst
  BY DEF SearchInv
<1> QED BY <1>1, SearchInvInit, SearchInvNext, PTL DEF FzfSpec

=============================================================================
