------------------------------- MODULE Mirror -------------------------------
(* How processDistro (publisher/cmd/main.go) gathers the packages of a       *)
(* distribution from its mirror: FetchSources (apt/source.go) reads the      *)
(* Release file of each area, which names the index of each component by the *)
(* hash of its content; FetchPackages (apt/package.go) then downloads these  *)
(* indexes; and the first stanza of a name wins.  The mirror publishes new   *)
(* releases meanwhile, and may or may not keep the indexes of the old ones.  *)
(*                                                                           *)
(* A Release file is a sequence of entries [name, hash], where a name is     *)
(* that of a component or of something the publisher does not look for.      *)
EXTENDS Naturals, Sequences, SequencesExt, Functions

CONSTANTS
  Areas, Components,  \* sequences, in order of priority
  Hashes, NoHash,
  ZeroLength,         \* the hashes of files of no bytes
  Content,            \* hash -> the index: a sequence of stanzas [name, version]
  Releases,           \* possible Release files
  MaxChanges          \* bound: releases while the publisher is at work

ASSUME NoHashType == NoHash \notin Hashes
ASSUME ChangesType == MaxChanges \in Nat
ASSUME ZeroType == ZeroLength \subseteq Hashes
ASSUME ListsType == /\ Areas \in Seq(ToSet(Areas)) /\ Areas # <<>>
                    /\ Components \in Seq(ToSet(Components))

(* What a Release file lists twice, it lists with one hash.  *)
ASSUME ReleasesType ==
  \A files \in Releases :
    /\ files \in Seq([name : {files[i].name : i \in DOMAIN files}, hash : Hashes])
    /\ \A i, j \in DOMAIN files :
         files[i].name = files[j].name => files[i].hash = files[j].hash

VARIABLES
  release,   \* mirror: area -> its Release file
  pool,      \* mirror: area -> indexes that are there, by hash
  changes,
  at,        \* "sources", "packages", "done" or "failed"
  sources,   \* []Source, as FetchSources has built it
  fetched,   \* number of sources whose packages are in the map
  packages,  \* map[string]apt.Package: name -> stanza
  seen       \* history: the Release files, whole, in the order they were read

mirror == <<release, pool, changes>>
vars   == <<mirror, at, sources, fetched, packages, seen>>

HashesOf(files) == {files[i].hash : i \in DOMAIN files}

Init ==
  /\ release \in [ToSet(Areas) -> Releases]
  /\ pool = [a \in ToSet(Areas) |-> HashesOf(release[a])]
  /\ changes = 0
  /\ at = "sources" /\ sources = <<>> /\ fetched = 0
  /\ packages = <<>> /\ seen = <<>>

(* The mirror publishes a release, and removes old indexes or keeps them. *)
PublishRelease(a) ==
  /\ changes < MaxChanges /\ changes' = changes + 1
  /\ \E files \in Releases, kept \in {{}, pool[a]} :
       /\ release' = [release EXCEPT ![a] = files]
       /\ pool' = [pool EXCEPT ![a] = kept \cup HashesOf(files)]
  /\ UNCHANGED <<at, sources, fetched, packages, seen>>

-----------------------------------------------------------------------------
(* A panic ends the distribution, before anything was written. *)
Panic ==
  /\ at' = "failed"
  /\ UNCHANGED <<mirror, sources, fetched, packages, seen>>

Occurrences(files, component) == {i \in DOMAIN files : files[i].name = component}

(* mutant: what is not found has length zero *)
FindFileOrZero(files, component) ==
  IF Occurrences(files, component) = {} THEN CHOOSE h \in ZeroLength : TRUE
  ELSE files[CHOOSE i \in Occurrences(files, component) : TRUE].hash

(* NoHash is a panic: no file of that name, or more than one. *)
FindFileInList(files, component) ==
  IF \E i \in DOMAIN files : Occurrences(files, component) = {i}
  THEN files[CHOOSE i \in DOMAIN files : files[i].name = component].hash
  ELSE NoHash

(* The loop over the components of an area ends at an index of length zero,  *)
(* or with a panic.                                                          *)
EndsAt(files) ==
  LET ends(c) == LET h == FindFileInList(files, c) IN h = NoHash \/ h \in ZeroLength
  IN  SelectInSeq(Components, ends)

Panics(files) ==
  EndsAt(files) # 0 /\ FindFileInList(files, Components[EndsAt(files)]) = NoHash

SourcesOf(a, files) ==
  [i \in 1 .. (IF EndsAt(files) = 0 THEN Len(Components) ELSE EndsAt(files) - 1) |->
     [area |-> a, component |-> Components[i],
      hash |-> FindFileInList(files, Components[i])]]

(* One area.  DownloadFile does not notice that a response was cut: what it  *)
(* returns may be any first part of the file.                                *)
FetchSources ==
  /\ at = "sources"
  /\ LET a == Areas[Len(seen) + 1] IN
     \E n \in 0 .. Len(release[a]) :
       LET files == SubSeq(release[a], 1, n) IN
       IF Panics(files) THEN Panic
       ELSE /\ seen' = Append(seen, release[a])
            /\ sources' = sources \o SourcesOf(a, files)
            /\ at' = IF Len(seen') = Len(Areas) THEN "packages" ELSE "sources"
            /\ UNCHANGED <<mirror, fetched, packages>>

(* mutant: the last stanza wins *)
MergeLast(map, index) ==
  LET named(n) == {i \in DOMAIN index : index[i].name = n}
  IN  [n \in DOMAIN map \cup {index[i].name : i \in DOMAIN index} |->
         IF named(n) = {} THEN map[n]
         ELSE index[CHOOSE i \in named(n) : \A j \in named(n) : i >= j]]

(* "Sources are processed in order of priority" *)
Merge(map, index) ==
  LET named(n) == {i \in DOMAIN index : index[i].name = n}
  IN  [n \in DOMAIN map \cup {index[i].name : i \in DOMAIN index} |->
         IF n \in DOMAIN map THEN map[n]
         ELSE index[CHOOSE i \in named(n) : \A j \in named(n) : i <= j]]

(* mutant: the index is downloaded by its name *)
FetchPackagesByName ==
  /\ at = "packages" /\ fetched < Len(sources)
  /\ LET s == sources[fetched + 1]
         h == FindFileInList(release[s.area], s.component)
     IN  h # NoHash /\ packages' = Merge(packages, Content[h])
  /\ fetched' = fetched + 1
  /\ UNCHANGED <<mirror, at, sources, seen>>

(* One index, by its hash.  It may be gone; and if it is cut, xz notices.    *)
FetchPackages ==
  /\ at = "packages" /\ fetched < Len(sources)
  /\ LET s == sources[fetched + 1]
     IN  s.hash \in pool[s.area] /\ packages' = Merge(packages, Content[s.hash])
  /\ fetched' = fetched + 1
  /\ UNCHANGED <<mirror, at, sources, seen>>

Gathered ==
  /\ at = "packages" /\ fetched = Len(sources)
  /\ at' = "done"
  /\ UNCHANGED <<mirror, sources, fetched, packages, seen>>

(* A download fails: the network, or an index that is gone.  *)
DownloadFails ==
  /\ at = "sources" \/ (at = "packages" /\ fetched < Len(sources))
  /\ Panic

Next ==
  \/ \E a \in ToSet(Areas) : PublishRelease(a)
  \/ FetchSources \/ FetchPackages \/ Gathered \/ DownloadFails

Spec == Init /\ [][Next]_vars

-----------------------------------------------------------------------------
(* The index of a component in the release of an area that was read. *)
HashAt(k, i) ==
  CHOOSE h \in HashesOf(seen[k]) : [name |-> Components[i], hash |-> h] \in ToSet(seen[k])

IndexAt(k, i) == Content[HashAt(k, i)]

IsNamed(k, i) == \E h \in Hashes : [name |-> Components[i], hash |-> h] \in ToSet(seen[k])

(* No component of the area, up to this one, has an index of length zero.    *)
(* One that has ends the loop, and hides the components behind it, although  *)
(* the message says that it alone is skipped.                                *)
Reached(k, i) == \A j \in 1 .. i : IsNamed(k, j) /\ HashAt(k, j) \notin ZeroLength

(* A snapshot is never partial: what the releases list is in it, although    *)
(* any download may fail or be cut and the mirror replaces them meanwhile.   *)
(* A package that is missing would look like one that was removed.           *)
NothingMissing ==
  at = "done" =>
    /\ Len(seen) = Len(Areas)
    /\ \A k \in DOMAIN seen, i \in DOMAIN Components :
         Reached(k, i) =>
           \A s \in DOMAIN IndexAt(k, i) : IndexAt(k, i)[s].name \in DOMAIN packages

(* The version of a package is the one of the first area and component that  *)
(* list it, and of the release that was read: later releases do not mix in.  *)
FirstWins ==
  at = "done" =>
    \A n \in DOMAIN packages :
      \E k \in DOMAIN seen, i \in DOMAIN Components :
        /\ Reached(k, i)
        /\ LET named == {s \in DOMAIN IndexAt(k, i) : IndexAt(k, i)[s].name = n}
           IN  named # {} /\ packages[n] = IndexAt(k, i)[CHOOSE s \in named :
                                                           \A t \in named : s <= t]
        /\ \A j \in DOMAIN seen, m \in DOMAIN Components :
             (j < k \/ (j = k /\ m < i)) /\ Reached(j, m) =>
               \A s \in DOMAIN IndexAt(j, m) : IndexAt(j, m)[s].name # n
=============================================================================
