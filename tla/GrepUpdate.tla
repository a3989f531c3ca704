----------------------------- MODULE GrepUpdate -----------------------------
(* `grep update` (grep/update.go), which a hook of zerokube runs: it reads    *)
(* packages.json of each distribution and, for every package in it, on       *)
(* a pool of download goroutines, fetches the .csi index and the .tar.zst of *)
(* its sources unless it has them, and unpacks the archive, over the files   *)
(* that are there.  The directory of a package is shared by its versions.    *)
(*                                                                           *)
(* The publisher is module Catalog: it stores objects and replaces lists     *)
(* while the updater works from the list that it read.                       *)
(*                                                                           *)
(* One updater runs at a time.  Nothing in the code sees to it: /hook starts *)
(* a container whenever it is asked to and neither zerokube nor the updater  *)
(* takes a lock, so that a hook sent before the last update ended lets two   *)
(* of them unpack over each other in one directory, which is not modelled.   *)
EXTENDS Catalog, Naturals

CONSTANTS
  Files,         \* paths inside a package
  FilesOf,       \* the regular files of an index object's archive
  MaxRuns, MaxLists   \* bounds: starts of the updater; changes of a list

ASSUME FilesType  == FilesOf \in [Entries -> SUBSET Files]
ASSUME BoundsType == MaxRuns \in Nat /\ MaxLists \in Nat

VARIABLES
  lists,         \* how often a list changed
  csi, tar,      \* local .csi and .tar.zst files, each whole
  src,           \* distro, name -> file -> the object it was unpacked from
  updater, runs, \* "off", "list", "work", "exit 0" or "exit 1"
  todo, distro,  \* distributions left, and the one being updated
  snapshot,      \* what listPackages returned, for all distributions
  task,          \* distro, name -> what Update does
  left,          \* distro, name -> the files it has still to unpack
  errored

disk == <<csi, tar, src>>
proc == <<updater, runs, todo, distro, snapshot, task, left, errored>>
vars == <<catalogVars, lists, disk, proc>>

Dirs == Distros \X Names

NoEntry == [distro |-> "none"]   \* the file does not exist
Cut     == [distro |-> "cut"]    \* created, and not written to the end

NoTasks == [p \in Dirs |-> "idle"]
NoFiles == [p \in Dirs |-> {}]

DirOf(e) == <<e.distro, e.name>>

(* the job of a package of the distribution being updated *)
Job(p, e) == e \in snapshot /\ DirOf(e) = p /\ e.distro = distro

Init ==
  /\ CatalogInit /\ lists = 0
  /\ csi = {} /\ tar = {}
  /\ src = [p \in Dirs |-> [f \in Files |-> NoEntry]]
  /\ updater = "off" /\ runs = 0
  /\ todo = {} /\ distro \in Distros /\ snapshot = {}
  /\ task = NoTasks /\ left = NoFiles /\ errored = FALSE

-----------------------------------------------------------------------------
PublisherStores(e) ==
  /\ e \notin store
  /\ StoreEntry(e)
  /\ UNCHANGED <<lists, disk, proc>>

PublisherLists(d) ==
  /\ lists < MaxLists
  /\ PublishList(d)
  /\ listing' # listing
  /\ lists' = lists + 1
  /\ UNCHANGED <<disk, proc>>

-----------------------------------------------------------------------------
StartUpdate ==          \* the hook runs, after the last update ended
  /\ updater \in {"off", "exit 0", "exit 1"} /\ runs < MaxRuns
  /\ updater' = "list" /\ runs' = runs + 1
  /\ \E d \in Distros : distro' = d /\ todo' = Distros \ {d}
  /\ snapshot' = {} /\ task' = NoTasks /\ left' = NoFiles /\ errored' = FALSE
  /\ UNCHANGED <<catalogVars, lists, disk>>

(* mutant: a job for every package there ever was *)
ListAllPackages ==
  /\ updater = "list"
  /\ snapshot' = snapshot \cup listing[distro]
  /\ task' = [p \in Dirs |-> "csi"]
  /\ updater' = "work"
  /\ UNCHANGED <<catalogVars, lists, disk, runs, todo, distro, left, errored>>

ListPackages ==
  /\ updater = "list"
  /\ snapshot' = snapshot \cup listing[distro]
  /\ task' = [p \in Dirs |-> IF \E e \in listing[distro] : DirOf(e) = p
                             THEN "csi" ELSE task[p]]
  /\ updater' = "work"
  /\ UNCHANGED <<catalogVars, lists, disk, runs, todo, distro, left, errored>>

ListFails ==            \* not recovered
  /\ updater = "list"
  /\ updater' = "exit 1"
  /\ UNCHANGED <<catalogVars, lists, disk, runs, todo, distro, snapshot, task,
                 left, errored>>

(* A download goes to a temporary file that is renamed at the end: a local   *)
(* file is whole, and is taken for what it is if it exists.                  *)
SaveFile(e) == e \in store

Download(e, local) == e \in local \/ SaveFile(e)

DownloadCsi(p) ==
  /\ updater = "work" /\ task[p] = "csi"
  /\ \E e \in snapshot : /\ Job(p, e) /\ Download(e, csi)
                         /\ csi' = csi \cup {e}
  /\ task' = [task EXCEPT ![p] = "tar"]
  /\ UNCHANGED <<catalogVars, lists, tar, src, updater, runs, todo, distro,
                 snapshot, left, errored>>

(* mutant: an archive that is already there has been unpacked *)
DownloadTarOnce(p) ==
  /\ updater = "work" /\ task[p] = "tar"
  /\ \E e \in snapshot : /\ Job(p, e) /\ Download(e, tar)
                         /\ tar' = tar \cup {e}
                         /\ left' = [left EXCEPT ![p] =
                                       IF e \in tar THEN {} ELSE FilesOf[e]]
  /\ task' = [task EXCEPT ![p] = "unpack"]
  /\ UNCHANGED <<catalogVars, lists, csi, src, updater, runs, todo, distro,
                 snapshot, errored>>

DownloadTar(p) ==       \* and open the archive
  /\ updater = "work" /\ task[p] = "tar"
  /\ \E e \in snapshot : /\ Job(p, e) /\ Download(e, tar)
                         /\ tar' = tar \cup {e}
                         /\ left' = [left EXCEPT ![p] = FilesOf[e]]
  /\ task' = [task EXCEPT ![p] = "unpack"]
  /\ UNCHANGED <<catalogVars, lists, csi, src, updater, runs, todo, distro,
                 snapshot, errored>>

CreateFile(p, f) ==     \* os.Create truncates what is there
  /\ updater = "work" /\ task[p] = "unpack" /\ f \in left[p]
  /\ src' = [src EXCEPT ![p][f] = Cut]
  /\ task' = [task EXCEPT ![p] = "copy"]
  /\ left' = [left EXCEPT ![p] = @ \ {f}]
  /\ UNCHANGED <<catalogVars, lists, csi, tar, updater, runs, todo, distro,
                 snapshot, errored>>

CopyFile(p, f) ==
  /\ updater = "work" /\ task[p] = "copy" /\ src[p][f] = Cut
  /\ \E e \in snapshot : Job(p, e) /\ f \in FilesOf[e] \ left[p]
                         /\ src' = [src EXCEPT ![p][f] = e]
  /\ task' = [task EXCEPT ![p] = "unpack"]
  /\ UNCHANGED <<catalogVars, lists, csi, tar, updater, runs, todo, distro,
                 snapshot, left, errored>>

Unpacked(p) ==          \* ar.Next() reports io.EOF
  /\ updater = "work" /\ task[p] = "unpack" /\ left[p] = {}
  /\ task' = [task EXCEPT ![p] = "done"]
  /\ UNCHANGED <<catalogVars, lists, disk, updater, runs, todo, distro,
                 snapshot, left, errored>>

(* mutant: the recovered panic of a package is not reported *)
UpdateFailsSilently(p) ==
  /\ updater = "work" /\ task[p] \in {"csi", "tar", "unpack", "copy"}
  /\ task' = [task EXCEPT ![p] = "done"]
  /\ UNCHANGED <<catalogVars, lists, disk, updater, runs, todo, distro,
                 snapshot, left, errored>>

UpdateFails(p) ==       \* a panic, recovered by Update
  /\ updater = "work" /\ task[p] \in {"csi", "tar", "unpack", "copy"}
  /\ task' = [task EXCEPT ![p] = "done"]
  /\ errored' = TRUE
  /\ UNCHANGED <<catalogVars, lists, disk, updater, runs, todo, distro,
                 snapshot, left>>

(* wg.Wait() returned: exit, or the next distribution *)
UpdateDistroEnds ==
  /\ updater = "work" /\ \A p \in Dirs : task[p] \in {"idle", "done"}
  /\ \/ errored /\ updater' = "exit 1" /\ UNCHANGED <<todo, distro>>
     \/ ~ errored /\ todo = {} /\ updater' = "exit 0" /\ UNCHANGED <<todo, distro>>
     \/ /\ ~ errored
        /\ \E d \in todo : distro' = d /\ todo' = todo \ {d}
        /\ updater' = "list"
  /\ UNCHANGED <<catalogVars, lists, disk, runs, snapshot, task, left, errored>>

Killed ==
  /\ updater \in {"list", "work"}
  /\ updater' = "off"
  /\ UNCHANGED <<catalogVars, lists, disk, runs, todo, distro, snapshot, task,
                 left, errored>>

-----------------------------------------------------------------------------
PackageStep(p) ==
  \/ DownloadCsi(p) \/ DownloadTar(p) \/ Unpacked(p) \/ UpdateFails(p)
  \/ \E f \in Files : CreateFile(p, f) \/ CopyFile(p, f)

Next ==
  \/ \E e \in Entries : PublisherStores(e)
  \/ \E d \in Distros : PublisherLists(d)
  \/ StartUpdate \/ ListPackages \/ ListFails \/ UpdateDistroEnds \/ Killed
  \/ \E p \in Dirs : PackageStep(p)

Spec == Init /\ [][Next]_vars

-----------------------------------------------------------------------------
Contents == Entries \cup {NoEntry, Cut}

TypeOK ==
  /\ store \subseteq Entries /\ listing \in [Distros -> SUBSET Entries]
  /\ lists \in Nat /\ runs \in Nat
  /\ csi \subseteq Entries /\ tar \subseteq Entries
  /\ src \in [Dirs -> [Files -> Contents]]
  /\ updater \in {"off", "list", "work", "exit 0", "exit 1"}
  /\ todo \subseteq Distros /\ distro \in Distros
  /\ snapshot \subseteq Entries
  /\ task \in [Dirs -> {"idle", "csi", "tar", "unpack", "copy", "done"}]
  /\ left \in [Dirs -> SUBSET Files]
  /\ \A p \in Dirs : task[p] # "idle" => \E e \in snapshot : DirOf(e) = p
  /\ errored \in BOOLEAN

(* An update that exits with 0 repairs whatever earlier ones left half done: *)
(* every package it listed has its index and, for every file of the index,   *)
(* the contents of that version, so a server started now finds them all.     *)
UpdatedIsSearchable ==
  updater = "exit 0" =>
    \A e \in snapshot :
      /\ e \in csi
      /\ \A f \in FilesOf[e] : src[DirOf(e)][f] = e

(* However long the updater takes, and whatever the publisher lists in the   *)
(* meantime, the objects it was told of are there to download.               *)
SnapshotFetchable == snapshot \subseteq store

=============================================================================
