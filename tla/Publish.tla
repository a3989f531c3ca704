------------------------------- MODULE Publish -------------------------------
(* The publisher's main loop (publisher/cmd/main.go, processDistro) with the *)
(* database it keeps (publisher/database/package.go) and the meta files it   *)
(* uploads (publisher/upload/upload.go).  A run takes each distribution in   *)
(* turn: snapshot the mirror, skip the versions already in the database,     *)
(* process the others on a pool of package workers, and, if any succeeded,   *)
(* rewrite the table of contents and the three consolidated files.           *)
(*                                                                           *)
(* Processing one package is module Upload; here it is three steps, between  *)
(* which a crash can fall: all its artifacts are stored, its row is written, *)
(* its result is sent.  The mirror changes under the publisher's feet.       *)
(*                                                                           *)
(* No query looks at rows.Err(), so a SELECT that breaks off on the way is   *)
(* taken for a shorter list: `short` remembers that one did, unnoticed.      *)
EXTENDS Naturals, FiniteSets, Functions

CONSTANTS
  Distros, Names, Versions,
  Epochs,        \* values of publisher.Epoch over the life of the deployment
  NoVersion,     \* the mirror does not have the package
  NoDistro,      \* no distribution is being processed
  Removable,     \* packages that the mirror may drop
  FzfSkipped,    \* linux-* and llvm-toolchain-* packages
  PkgThreads,    \* pkgThreads
  BatchSize,     \* dbBatchSize
  MaxRuns, MaxChanges   \* bounds: starts of the process, changes of the mirror

ASSUME EpochsType == Epochs \subseteq Nat
ASSUME NoneType   == NoVersion \notin Versions /\ NoDistro \notin Distros
ASSUME BoundsType == /\ PkgThreads \in Nat \ {0} /\ BatchSize \in Nat \ {0}
                     /\ MaxRuns \in Nat /\ MaxChanges \in Nat

VARIABLES
  mirror, changes,        \* distro -> name -> version; how often it changed
  pv, dc,                 \* tables package_versions, distribution_contents
  ls,                     \* versions whose six artifacts are all in `ls`
  meta,                   \* distro -> packages.json, paths.fzf, symbols.txt
  process, runs, epoch,   \* the process and the publisher.Epoch it was built with
  todo, distro, phase,    \* progress of main and of processDistro
  packages, existing,     \* what the mirror lists; rows of earlier runs
  short,                  \* history: a SELECT for this distribution broke off
  unfed, active, results, \* main's loop over packages, the workers, the channel
  pkgvers, pending,       \* versions to publish; rows still to REPLACE
  doomed,                 \* toDelete
  errored                 \* a package failed

store    == <<pv, dc, ls, meta>>
env      == <<mirror, changes>>
proc     == <<process, runs, epoch, todo>>
fetched  == <<packages, existing, short>>
pool     == <<unfed, active, results, errored>>
contents == <<pkgvers, pending, doomed>>
vars     == <<env, store, proc, distro, phase, fetched, pool, contents>>

Phases == {"pick", "fetch", "existing", "feed", "collect", "replace", "find",
           "delete", "list", "packages", "fzf", "symbols", "skipped", "done"}

Rows     == [id : Nat, distro : Distros, name : Names, version : Versions,
             epoch : Epochs]
Contents == [id : Nat, distro : Distros, name : Names, current : Nat]
Entries  == [distro : Distros, name : Names, version : Versions, epoch : Epochs]

(* mutant: publisher.Epoch instead of the epoch of the row *)
EntryOfThisBuild(d, r) == [distro |-> d, name |-> r.name, version |-> r.version,
                           epoch |-> epoch]

(* the objects of version r under the directory of distribution d *)
Entry(d, r) == [distro |-> d, name |-> r.name, version |-> r.version,
                epoch |-> r.epoch]

EmptyMeta == [packages |-> {}, fzf |-> {}, symbols |-> {}]

NamesOf(rows) == {r.name : r \in rows}

(* SQLite gives a new row the largest id of the table plus one *)
LastId(rows, m) == /\ m \in {0} \cup {r.id : r \in rows}
                   /\ \A r \in rows : r.id <= m

Available == {n \in Names : packages[n] # NoVersion}

(* mutant: no WHERE clause *)
ListAllContents(d) == {r \in pv : \E c \in dc : c.current = r.id}

ListDistroContents(d) ==
  {r \in pv : \E c \in dc : c.distro = d /\ c.current = r.id}

Init ==
  /\ mirror \in [Distros -> [Names -> Versions \cup {NoVersion}]]
  /\ changes = 0
  /\ pv = {} /\ dc = {} /\ ls = {}
  /\ meta = [d \in Distros |-> EmptyMeta]
  /\ process = "exited" /\ runs = 0 /\ epoch \in Epochs
  /\ todo = {} /\ distro = NoDistro /\ phase = "pick"
  /\ packages = [n \in Names |-> NoVersion] /\ existing = {} /\ short = FALSE
  /\ unfed = {} /\ active = [n \in Names |-> "no"] /\ results = {}
  /\ pkgvers = {} /\ pending = {} /\ doomed = {}
  /\ errored = FALSE

At(ph) == process = "running" /\ phase = ph

Fresh ==                \* the variables of a processDistro that begins
  /\ packages' = [n \in Names |-> NoVersion] /\ existing' = {} /\ short' = FALSE
  /\ unfed' = {} /\ active' = [n \in Names |-> "no"] /\ results' = {}
  /\ pkgvers' = {} /\ pending' = {} /\ doomed' = {} /\ errored' = FALSE

DistroEnds == distro' = NoDistro /\ phase' = "pick" /\ Fresh

ProcessEnds(how) ==     \* its memory is gone, the database and the CDN stay
  /\ process' = how /\ todo' = {}
  /\ DistroEnds
  /\ UNCHANGED <<env, store, runs, epoch>>

-----------------------------------------------------------------------------
(* The environment and the life of the process.  MaxRuns bounds what may     *)
(* come after the last run, too: only a change of the mirror that it can     *)
(* still fetch, and no kill, as nothing would follow it.                     *)

MirrorChanges(d, n) ==
  /\ changes < MaxChanges
  /\ runs = MaxRuns => process = "running" /\ phase \in {"pick", "fetch"}
  /\ \E v \in Versions \cup {NoVersion} :
       /\ v # mirror[d][n]
       /\ v = NoVersion => n \in Removable
       /\ mirror' = [mirror EXCEPT ![d][n] = v]
  /\ changes' = changes + 1
  /\ UNCHANGED <<store, proc, distro, phase, fetched, pool, contents>>

StartRun(e) ==          \* possibly a build with another epoch
  /\ process # "running" /\ runs < MaxRuns
  /\ process' = "running" /\ runs' = runs + 1 /\ epoch' = e
  /\ todo' = Distros
  /\ DistroEnds
  /\ UNCHANGED <<env, store>>

Killed ==
  /\ process = "running" /\ runs < MaxRuns
  /\ ProcessEnds("killed")

Exit ==
  /\ At("pick") /\ todo = {}
  /\ ProcessEnds("exited")

PickDistro(d) ==        \* map iteration order is random
  /\ At("pick") /\ d \in todo
  /\ todo' = todo \ {d} /\ distro' = d /\ phase' = "fetch"
  /\ Fresh
  /\ UNCHANGED <<env, store, process, runs, epoch>>

-----------------------------------------------------------------------------
(* processDistro, up to the end of the package workers.                      *)

FetchPackages ==
  /\ At("fetch")
  /\ packages' = mirror[distro]
  /\ phase' = "existing"
  /\ UNCHANGED <<env, store, proc, distro, existing, short, pool, contents>>

Existing == {r \in pv : r.distro = distro /\ r.version = packages[r.name]}

(* A query for the rows `all` delivers `rows` of them.                       *)
Reads(rows, all) == rows \in SUBSET all /\ short' = (short \/ rows # all)

ListExistingPackages ==
  /\ At("existing")
  /\ Reads(existing', Existing)
  /\ unfed' = Available
  /\ phase' = "feed"
  /\ UNCHANGED <<env, store, proc, distro, packages, active, results, errored,
                 contents>>

(* mutant: = for >= *)
SameEpoch(r) == r.epoch = epoch

UpToDate(r) == r.epoch >= epoch

SkipPackage(n) ==       \* processed on a previous run
  /\ At("feed") /\ n \in unfed
  /\ \E r \in existing : /\ r.name = n /\ UpToDate(r)
                         /\ pkgvers' = pkgvers \cup {r}
  /\ unfed' = unfed \ {n}
  /\ UNCHANGED <<env, store, proc, distro, phase, fetched, active, results,
                 errored, pending, doomed>>

FeedPackage(n) ==       \* jobs <- pkg: an idle worker takes it
  /\ At("feed") /\ n \in unfed
  /\ ~ \E r \in existing : r.name = n /\ UpToDate(r)
  /\ Cardinality({m \in Names : active[m] # "no"}) < PkgThreads
  /\ unfed' = unfed \ {n}
  /\ active' = [active EXCEPT ![n] = "uploading"]
  /\ UNCHANGED <<env, store, proc, distro, phase, fetched, results, errored,
                 contents>>

StoreArtifacts(n) ==
  /\ process = "running" /\ active[n] = "uploading"
  /\ ls' = ls \cup {[distro |-> distro, name |-> n, version |-> packages[n],
                     epoch |-> epoch]}
  /\ active' = [active EXCEPT ![n] = "recording"]
  /\ UNCHANGED <<env, pv, dc, meta, proc, distro, phase, fetched, unfed,
                 results, errored, contents>>

SameVersion(r, n) == r.distro = distro /\ r.name = n /\ r.version = packages[n]

RecordRow(n) ==         \* INSERT ... ON CONFLICT DO UPDATE SET sc_epoch
  /\ process = "running" /\ active[n] = "recording"
  /\ \/ /\ \E r \in pv : SameVersion(r, n)
        /\ pv' = {IF SameVersion(r, n) THEN [r EXCEPT !.epoch = epoch] ELSE r : r \in pv}
     \/ /\ ~ \E r \in pv : SameVersion(r, n)
        /\ \E m \in {0} \cup {r.id : r \in pv} :
             /\ LastId(pv, m)
             /\ pv' = pv \cup {[id |-> m + 1, distro |-> distro, name |-> n,
                                version |-> packages[n], epoch |-> epoch]}
  /\ UNCHANGED <<env, dc, ls, meta, proc, distro, phase, fetched, unfed,
                 results, contents>>

RecordPackageVersion(n) ==
  /\ RecordRow(n)
  /\ active' = [active EXCEPT ![n] = "sending"]
  /\ UNCHANGED errored

RecordUnread(n) ==      \* the row is there, the SELECT of its id panics
  /\ RecordRow(n)
  /\ active' = [active EXCEPT ![n] = "no"]
  /\ errored' = TRUE

(* mutant: an unbuffered channel *)
Unbuffered == 0

ResultsCapacity == Cardinality(Available)   \* the channel's buffer

SendResult(n) ==
  /\ process = "running" /\ active[n] = "sending"
  /\ Cardinality(results) < ResultsCapacity
  /\ \E r \in pv : SameVersion(r, n) /\ results' = results \cup {r}
  /\ active' = [active EXCEPT ![n] = "no"]
  /\ UNCHANGED <<env, store, proc, distro, phase, fetched, unfed, errored,
                 contents>>

PackageFails(n) ==      \* a recovered panic in processPackage
  /\ process = "running" /\ active[n] \in {"uploading", "recording"}
  /\ active' = [active EXCEPT ![n] = "no"]
  /\ errored' = TRUE
  /\ UNCHANGED <<env, store, proc, distro, phase, fetched, unfed, results,
                 contents>>

UploadPanics(n) ==      \* a panic in an upload worker: see module Upload
  /\ process = "running" /\ active[n] = "uploading"
  /\ ProcessEnds("panicked")

WorkersDone ==          \* close(jobs); wg.Wait(); close(results)
  /\ At("feed") /\ unfed = {} /\ \A n \in Names : active[n] = "no"
  /\ phase' = "collect"
  /\ UNCHANGED <<env, store, proc, distro, fetched, pool, contents>>

(* mutant: only the new versions are published *)
CollectOnlyNew ==
  /\ At("collect")
  /\ pkgvers' = results
  /\ results' = {}
  /\ \/ results = {} /\ phase' = "skipped" /\ UNCHANGED pending
     \/ results # {} /\ phase' = "replace" /\ pending' = pkgvers'
  /\ UNCHANGED <<env, store, proc, distro, fetched, unfed, active, errored, doomed>>

CollectResults ==
  /\ At("collect")
  /\ pkgvers' = pkgvers \cup results
  /\ results' = {}
  /\ \/ results = {} /\ phase' = "skipped" /\ UNCHANGED pending
     \/ results # {} /\ phase' = "replace" /\ pending' = pkgvers'
  /\ UNCHANGED <<env, store, proc, distro, fetched, unfed, active, errored, doomed>>

-----------------------------------------------------------------------------
(* UpdateDistroContents.  Each statement is atomic, their sequence is not.   *)

(* mutant: INSERT, without the unique index *)
InsertRows(batch, ids) ==
  dc \cup {[id |-> ids[r], distro |-> distro, name |-> r.name, current |-> r.id] :
             r \in batch}

(* REPLACE INTO for the rows of one batch, which get the ids after m in some *)
(* order.                                                                    *)
ReplaceRows(batch, ids) ==
  {c \in dc : ~ (c.distro = distro /\ c.name \in NamesOf(batch))}
    \cup {[id |-> ids[r], distro |-> distro, name |-> r.name, current |-> r.id] :
            r \in batch}

ReplaceBatch ==
  /\ At("replace") /\ pending # {}
  /\ \E batch \in SUBSET pending, m \in {0} \cup {c.id : c \in dc} :
       /\ batch # {}
       /\ \/ Cardinality(batch) = BatchSize
          \/ batch = pending /\ Cardinality(batch) < BatchSize
       /\ LastId(dc, m)
       /\ \E ids \in Bijection(batch, m + 1 .. m + Cardinality(batch)) :
            dc' = ReplaceRows(batch, ids)
       /\ pending' = pending \ batch
  /\ UNCHANGED <<env, pv, ls, meta, proc, distro, phase, fetched, pool, pkgvers,
                 doomed>>

ReplaceDone ==
  /\ At("replace") /\ pending = {}
  /\ phase' = "find"
  /\ UNCHANGED <<env, store, proc, distro, fetched, pool, contents>>

(* mutant: the names instead of the ids *)
UnseenNames(rows) ==
  {q.name : q \in {r \in rows : r.name \notin NamesOf(pkgvers)}}

(* q.ID is the id of the package_versions row *)
UnseenIds(rows) == {q.id : q \in {r \in rows : r.name \notin NamesOf(pkgvers)}}

FindUnseen ==           \* the mutex is released around ListDistroContents
  /\ At("find")
  /\ \E rows \in SUBSET ListDistroContents(distro) :
       /\ Reads(rows, ListDistroContents(distro))
       /\ doomed' = UnseenIds(rows)
  /\ phase' = "delete"
  /\ UNCHANGED <<env, store, proc, distro, packages, existing, pool, pkgvers,
                 pending>>

FindUnseenPanics ==     \* the deferred Unlock then hits an unlocked mutex
  /\ At("find")
  /\ ProcessEnds("panicked")

DeleteUnseen ==         \* DELETE FROM distribution_contents WHERE ID IN (...)
  /\ At("delete")
  /\ dc' = {c \in dc : c.id \notin doomed}
  /\ phase' = "list"
  /\ UNCHANGED <<env, pv, ls, meta, proc, distro, fetched, pool, contents>>

-----------------------------------------------------------------------------
(* The three consolidated files, each written by one PUT.                    *)

ListContents ==
  /\ At("list")
  /\ Reads(pkgvers', ListDistroContents(distro))
  /\ phase' = "packages"
  /\ UNCHANGED <<env, store, proc, distro, packages, existing, pool, pending,
                 doomed>>

Listed     == {Entry(distro, r) : r \in pkgvers}
FzfEntries == {e \in Listed : e.name \notin FzfSkipped}

(* Phase `ph` leaves the files as m says; the phase after it.                *)
PutMeta(ph, m) ==
  /\ At(ph)
  /\ ph # "packages" => Listed \subseteq ls  \* the downloads it is made of
  /\ meta' = [meta EXCEPT ![distro] = m]
  /\ UNCHANGED <<env, pv, dc, ls, proc>>

GoOn(next) == phase' = next /\ UNCHANGED <<distro, fetched, pool, contents>>

WithPackages == [meta[distro] EXCEPT !.packages = Listed]
WithFzf      == [meta[distro] EXCEPT !.fzf = FzfEntries]
WithSymbols  == [meta[distro] EXCEPT !.symbols = Listed]

UploadPackageList       == PutMeta("packages", WithPackages) /\ GoOn("fzf")
ConsolidateFzfIndex     == PutMeta("fzf", WithFzf) /\ GoOn("symbols")
ConsolidateSymbolsIndex == PutMeta("symbols", WithSymbols) /\ GoOn("done")

(* A recovered panic of processDistro.  A PUT that fails may have stored.    *)
DistroFails ==
  /\ DistroEnds
  /\ \/ /\ process = "running"
        /\ \/ phase \in {"fetch", "existing", "list"}
           \/ phase = "replace" /\ pending # {}
           \/ phase = "delete" /\ doomed # {}
        /\ UNCHANGED <<env, store, proc>>
     \/ PutMeta("packages", meta[distro]) \/ PutMeta("packages", WithPackages)
     \/ PutMeta("fzf", meta[distro])      \/ PutMeta("fzf", WithFzf)
     \/ PutMeta("symbols", meta[distro])  \/ PutMeta("symbols", WithSymbols)

DownloadPanics ==       \* in a download goroutine: not recovered
  /\ process = "running" /\ phase \in {"fzf", "symbols"} /\ pkgvers # {}
  /\ ProcessEnds("panicked")

DistroReturns ==
  /\ process = "running" /\ phase \in {"skipped", "done"}
  /\ DistroEnds
  /\ UNCHANGED <<env, store, proc>>

-----------------------------------------------------------------------------
PackageStep(n) ==
  \/ SkipPackage(n) \/ FeedPackage(n) \/ StoreArtifacts(n)
  \/ RecordPackageVersion(n) \/ RecordUnread(n) \/ SendResult(n)
  \/ PackageFails(n) \/ UploadPanics(n)

DistroStep ==
  \/ Exit \/ (\E d \in Distros : PickDistro(d))
  \/ FetchPackages \/ ListExistingPackages \/ WorkersDone \/ CollectResults
  \/ ReplaceBatch \/ ReplaceDone \/ FindUnseen \/ FindUnseenPanics \/ DeleteUnseen
  \/ ListContents \/ UploadPackageList \/ ConsolidateFzfIndex
  \/ ConsolidateSymbolsIndex \/ DistroFails \/ DownloadPanics \/ DistroReturns

Next ==
  \/ \E d \in Distros, n \in Names : MirrorChanges(d, n)
  \/ \E e \in Epochs : StartRun(e)
  \/ Killed
  \/ \E n \in Names : PackageStep(n)
  \/ DistroStep

Spec == Init /\ [][Next]_vars

(* The process's goroutines run as long as it does: as long as any of them   *)
(* can take a step, one does.  Which, and with what outcome, is left open.   *)
FairSpec == Spec /\ WF_vars(DistroStep \/ \E n \in Names : PackageStep(n))

-----------------------------------------------------------------------------
TypeOK ==
  /\ mirror \in [Distros -> [Names -> Versions \cup {NoVersion}]]
  /\ changes \in Nat
  /\ pv \subseteq Rows /\ dc \subseteq Contents /\ ls \subseteq Entries
  /\ meta \in [Distros -> [packages : SUBSET Entries, fzf : SUBSET Entries,
                           symbols : SUBSET Entries]]
  /\ process \in {"exited", "running", "killed", "panicked"}
  /\ runs \in Nat /\ epoch \in Epochs
  /\ todo \subseteq Distros /\ distro \in Distros \cup {NoDistro}
  /\ phase \in Phases /\ (phase # "pick" => distro \in Distros)
  /\ packages \in [Names -> Versions \cup {NoVersion}]
  /\ existing \subseteq Rows /\ short \in BOOLEAN
  /\ unfed \subseteq Names
  /\ active \in [Names -> {"no", "uploading", "recording", "sending"}]
  /\ results \subseteq Rows
  /\ pkgvers \subseteq Rows /\ pending \subseteq Rows
  /\ doomed \subseteq Nat
  /\ errored \in BOOLEAN

(* Whatever fails or crashes, and whichever epoch wrote it, every version    *)
(* that packages.json, paths.fzf or symbols.txt names has its artifacts in   *)
(* `ls`: the extension never follows a listing to a 404.                     *)
PublishedFetchable ==
  \A d \in Distros :
    meta[d].packages \cup meta[d].fzf \cup meta[d].symbols \subseteq ls

(* distribution_contents.current, which no foreign key guards, names a row   *)
(* of package_versions of the same package, and each package has one row.    *)
ContentsSound ==
  /\ \A c \in dc : \E r \in pv :
       r.id = c.current /\ r.distro = c.distro /\ r.name = c.name
  /\ \A c, k \in dc : c.distro = k.distro /\ c.name = k.name => c = k

(* After a run that logged "Done!" for a distribution, in which no package   *)
(* failed and every SELECT delivered all its rows, packages.json lists every *)
(* package of the snapshot, in the snapshot's version, at this build's epoch *)
(* or a later one, and the other two files were made from the same list.  (A *)
(* SELECT that breaks off in ListDistroContents leaves packages out of all   *)
(* three, and the run still logs "Done!".)                                   *)
DoneMirrors ==
  At("done") /\ ~ errored /\ ~ short =>
    /\ \A n \in Available : \E e \in meta[distro].packages :
         e.name = n /\ e.version = packages[n] /\ e.epoch >= epoch
    /\ meta[distro].symbols = meta[distro].packages
    /\ NamesOf(meta[distro].fzf) = NamesOf(meta[distro].packages) \ FzfSkipped

(* An epoch bump reprocesses a version and a rollback to an older build does *)
(* not undo it: the recorded epoch of a version never goes down, unless      *)
(* ListExistingPackages broke off before its row, when the older build       *)
(* processes it again and records its own epoch.                             *)
EpochNeverDecreases ==
  [][~ short' => \A r \in pv : \E s \in pv' : s.id = r.id /\ s.epoch >= r.epoch]_vars

(* A run always ends: neither the package workers, nor main feeding them,    *)
(* nor the results channel, which nobody reads until they finish, blocks.    *)
RunEnds == process = "running" ~> process # "running"

(* The abstract catalog, seen through packages.json.                         *)
Promise == INSTANCE Catalog WITH
             store <- ls, listing <- [d \in Distros |-> meta[d].packages]
ImplementsCatalog == Promise!CatalogSpec

(* "Find any packages not seen in this run and remove them from              *)
(* distribution_contents": a package gone from the mirror is not listed.     *)
RemovedAreDropped ==
  At("done") /\ ~ errored /\ ~ short =>
    NamesOf(meta[distro].packages) \subseteq Available

=============================================================================
