# Specifications of src.codes

src.codes mirrors the source packages of Debian-like distributions to a CDN and
lets a browser-based VS Code browse, search and navigate them. This directory
holds TLA+ specifications of its programs, the TLC models that check them and the
TLAPS proofs about those that the others rely on.

Check a model with `tlc -config X.cfg M` (the pairs are in the table of runs), and
the proofs about a module `M` with `tlapm M_proofs.tla`; there are proofs about
`Upload`, `Publish`, `Mirror`, `Browser`, `Zerokube`, `GrepUpdate`, `GrepSearch` and
`GrepClient`.

## 1. The system

    mirror ──> publisher ──> CDN (cat, ls, meta) ──> extension (packages, files)
                  │  SQLite      │
                  v              └──> grep update ──> disk ──> grep serve ──> extension (search)
               database                    ^                      ^
                                           └──── zerokube (deploys, routes, hooks)
                                                      └──> fzf ──> extension (file names)

| Component | State it keeps | Operations | What is hard |
|---|---|---|---|
| **publisher**: package pipeline (`publisher/cmd/main.go` processPackage, `upload/`, `analysis/`, `database/file.go`) | objects in `cat` and `ls`; table `files`; temporary directories; goroutines and a channel | extract, deduplicate, upload files, checkpoint, upload six artifacts, record the version | several packages and workers at once; failed and half-failed PUTs; panics that are recovered and panics that are not; kills; truncated hashes that collide |
| **publisher**: distribution loop (`cmd/main.go` processDistro, `database/package.go`, `upload/upload.go`) | tables `package_versions` and `distribution_contents`; `packages.json`, `paths.fzf`, `symbols.txt` | snapshot the mirror, skip or process each package, REPLACE and DELETE rows, rewrite the three files | the mirror changes; several SQL statements per update; a crash between any two; builds with other epochs |
| **publisher**: mirror indexes (`apt/`, `control/`) | none | read the Release file of each area, download the indexes it names, merge by priority | the mirror publishes meanwhile; downloads that are cut; missing or repeated components |
| **publisher**: analysis (`analysis/`) | none | the tree of a package; the lists of files that go into fzf, codesearch and ctags | symbolic links; four walks that treat files differently |
| **grep update** (`grep/update.go`, `internal/util.go`) | index files, archives and unpacked sources on disk | list, download, unpack | works for hours from one list; killed half way; versions share a directory |
| **grep serve** (`grep/serve.go`) | none but the indexes it opened | search in pages | resumption by comparing names; globs; files that are gone |
| **grep line matcher** (`grep/algorithm.go`) | none | from matches to lines with context | every offset at a boundary |
| **zerokube** (`zerokube/main.go`) | containers, state directories, the unprotected list of services | start-up cleaning, deploy, route, drain, signal, hooks | concurrent deploys; containers that outlive the process; timers against requests |
| **extension: search client** (`extension/src/clients/grep.ts`, `http.ts`) | a cache entry per search with a shared array | new, retried and next-page queries over a streamed response | truncated and cancelled responses; callbacks that throw; overlapping queries |
| **extension: other clients** (`package.ts`, `inode.ts`, `file.ts`, `symbols.ts`, `fzf.ts`) | caches of promises; the tree of a package | look up, list, follow symbolic links | lists that are replaced during a session; rejected promises that stay cached; symbolic links |
| **extension: providers** | none | adapters to the editor | what is shown and what opens |
| **fzf server** (`fzf/`) | the arena of all file names | load, search | offsets packed into words; a matcher that is advanced, restored and reused; a bounded heap |
| **infrastructure** | none | configuration | |

They interact through stored objects only: the publisher's promise to all the
others is that index objects are immutable and only ever added, under a name that
holds distribution, package, version and epoch, and that `packages.json` names only
objects that are there. That promise is module `Catalog`.

### What makes each component correct

* package pipeline: a hash in `files` means that the file is on the CDN; a tree on
  `ls` lists only files that can be opened; a recorded version is complete, because
  it is never looked at again; the archive outlives the workers that read it.
* distribution loop: nothing published is missing; the table of contents refers to
  existing versions of the right package; a successful run mirrors its snapshot;
  epochs do not go backwards; every run ends.
* grep update: exit code 0 means that what was listed is on disk, whatever earlier
  runs left; what was listed can still be fetched, however late.
* mirror: a snapshot is complete or there is none, and mixes no two releases.
* grep serve and its line matcher: a search is complete or says that it is not, every
  line that it prints leads to a match, and paging comes to an end.
* fzf: it finds every path that contains the query and no other, and shows the best.
* browser session: nothing that it asks for is missing; what is found opens; a link
  leads where it leads on disk.
* zerokube: requests go to a running container, and none is cut off by a deploy; a
  restart leaves one container; a superseded container is never left to run, unless the
  log says that stopping it failed.
* search client: what it says is loaded was loaded; warnings stay.

## 2. Modules

| Module | Models | State and actions in terms of the code |
|---|---|---|
| `Upload` | `processPackage` and its upload workers, for all packages of a distribution, over several runs | `cat`, `ls`, `tracked` (table `files`) and `recorded` (`package_versions`) survive a crash; `stage`, `feed`, `worker` are goroutines. One action per blocking operation: `StartUpload` (DeduplicateFiles and the start of the pool), `Receive` (the unbuffered channel), `PutFile`/`PutFails` (one attempt; a failed one may have stored), `Checkpoint`, `RecordFinal`, `WaitGroupDone`, `PutArtifact` six times, `RecordPackageVersion`. `PackageFails` is the recovered panic with the deferred CleanUp, `WorkerPanics` the one that nobody recovers |
| `Catalog` | the publisher as the rest of the system sees it | `store`, `listing`; `StoreEntry`, `PublishList` |
| `Publish` | `main` and `processDistro` with both tables and the three meta files | `pv` and `dc` are the tables as sets of rows with ids; every SQL statement is an action (`RecordPackageVersion`, `ReplaceBatch`, `FindUnseen`, `DeleteUnseen`, `ListContents`); a SELECT delivers any part of its rows (`Reads`), because no loop over rows looks at `rows.Err()`, and `short` remembers that one did; `RecordUnread` writes the row of a version and then fails to read its id; the pool is `unfed`, `active`, `results`; each PUT of a meta file is an action or a failure of `DistroFails`; what a distribution or the process held in memory is gone when it ends or dies (`DistroEnds`, `ProcessEnds`). A package's processing, which is `Upload` in detail, is three steps here |
| `Upload_proofs`, `Publish_proofs`, `Mirror_proofs`, `Browser_proofs`, `Zerokube_proofs`, `GrepSearch_proofs`, `GrepClient_proofs`, `UpdateFzf_proofs` | inductive invariants and theorems; the last one those of `GrepUpdate` and of `Fzf`, which share nothing | see section 5 |
| `Mirror` | `FetchSources`, `FindFileInList`, `FetchPackages` and the merge in `processDistro` | `release`, `pool` are the mirror, which `PublishRelease` changes; `FetchSources` (whole or cut) appends to `sources` what it found of an area, `FetchPackages` merges the indexes of one source; an index whose file has length zero (`ZeroLength`) ends the loop over components, one of other length without stanzas does not; `Panic` ends the distribution |
| `PackageTree` | `constructTree`, the walks of fzf, codesearch and ctags; `types/inode.ts`; `fileSystem.ts` | a disk is a function from paths to nodes; the kernel's path resolution (`OnDisk`) is the reference for `ResolveLinks`; a file node says what codesearch and ctags make of it (`text`, `tagged`), which are different tests; both are recursive functions, `LookUp` one name of a lookup of the kernel's and `ResolveFrom` one part of a destination in a call of `resolveLinks`; no state. `MaxFollowed` is how many links the kernel follows in a lookup (40), `MaxDepth` how many calls of `resolveLinks` fit on the stack |
| `Browser` | a session of the extension: `package.ts`, `symbols.ts` | extends `Catalog` (the publisher goes on) and `PackageTree`; each promise is `none`, `pending`, `fulfilled` or `rejected`; one action per request that settles, and `Reload` |
| `Zerokube` | the process, its containers in Docker, `/deploy`, routing, draining, shutdown | `StartService` is the five states of `start`; the read and the write of `z.Services` are two actions, `Probe` and `AppendService`; `drain` are the goroutines of `/deploy`, whose stops may fail (`StopFails`; `failed` is what the log says of it); a container can end by itself (`ContainerExits`); `Tick` is time for `writeTimeout` and the drain's sleep |
| `GrepUpdate` | `update`, `updateDistro`, `Package.Update` | extends `Catalog` as its environment; `csi`, `tar`, `src` is the disk; each package is a task with the steps of `Update`, and each file is created (truncated) and copied in two steps. One updater runs at a time |
| `Globs` | `MatchPath`, `CanMatchPrefix`, `MustMatchPrefix` | names and globs are sequences of `Fragments`; `doublestar.Match` is a recursive function on pairs of offsets. A `?`, a class, alternatives or an escape is a fragment of a glob with the texts it stands for (`Wildcards`, `Meaning`), as `Match` reads it, and without them, as `CanMatchPrefix` does |
| `LineMatcher` | `Grep.Reader`, and what `grep.ts` makes of each line | recursive functions on offsets: `Reader` is what is printed, `ClientRange` and `ClientContext` what the editor shows; `RangeOf`, `ContextLines` and `Required` are the reference |
| `GrepSearch` | the loops of `ServeHTTP` and its `after`/`Resume` protocol | extends `Globs` and `LineMatcher`; the visit is a set of `Positions` (an index, and a file in it) with their order `Precedes`, of which `Candidates` and `Scans` are what the two loops come to; one action per page. String order and the order of the visit are parameters, because they differ |
| `GrepClient` | `GrepClient.query` over `HTTPClient.streamingFetch` | the cache entry and its array, and per query the rest of its response; one action per start, line and end of a response, and for a callback that throws |
| `Fzf` | `directory.rs`, `matcher.rs`, `query.rs`, `charset.rs` and the handler | a package is the sequence of its directories in the order of `paths.fzf`, the root first, each naming later ones as its subdirectories (`IsTree`); `arena` is the three flat vectors, filled by `ParseDirectory`, whose recursion is the function `Parser`; `stack` holds the calls of `walk` with the matcher each restores; `Request`, `StartWalk`, `VisitFile`, `VisitDirectory`, `LeaveDirectory`, `Respond`, `Panic` for a slice out of range and `LoadPanics` for a name that is too long to pack; `Request` refuses a query of more than `MaxQuery` characters |
| `MC*` | small instances of these | |

A definition marked "mutant" in a comment is a plausible bug: it is not part of the
specification, and stands before the definition that it could replace. It shows that
the property named for it in PROJECT.json would notice.

**Abstractions.** File contents, names, versions and hashes are atoms; in `Upload` the
tree of a package is the sequence of its files. Retries inside `retryablehttp` are one
attempt. SQLite statements are atomic, and the database survives a kill after any
statement. Docker's and the CDN's failures are choices at each call. In `Globs`
alternatives hold no `/`. In `Zerokube` one service is modelled (services share only the
process), and hooks and the admin page, which change no state of zerokube, are not. In
`Mirror` a Release file that is cut ends after any entry, and compression and the
parsing of stanzas are left out. In `LineMatcher` a regexp is any function from the
offsets where it matches to the end of the match, and a byte is a column, as it is for
ASCII (the client counts UTF-16 units). In `GrepClient` there is one cache key, and a
line is the number of its hit. In `Browser` the text of tags is left out: the model
knows which files they are of. In `Fzf` characters are atoms with a case, the heap is a
sequence of which `pop` takes any of the least results, equal results are listed in any
order (`Orders`), the words that pack a name are scaled (`Unit` is 4 instead of 64, so
that a name can be too long), and running out of the arena is left out.

## 3. Runs

| Run | Config, module | Shows |
|---|---|---|
| upload | `Upload.cfg`, `MCUpload` | `TypeOK`, `TrackedIsStored`, `ListedTreeIsServed`, `RecordedIsComplete`, `ArchiveOutlivesUploads`, `CheckpointBound`, and `RunEnds` under fairness |
| publish | `Publish.cfg`, `MCPublish` | `TypeOK`, `PublishedFetchable`, `DoneMirrors`, `ContentsSound`, `EpochNeverDecreases`, `ImplementsCatalog` (refinement), and `RunEnds` under fairness |
| publish_removed | `PublishRemoved.cfg`, `MCPublish` | *violated*: `RemovedAreDropped` |
| mirror | `Mirror.cfg`, `MCMirror` | `NothingMissing`, `FirstWins` |
| browse | `Browser.cfg`, `MCBrowser` | `TypeOK`, `RequestsExist`, `FoundFilesOpen`, `LinksAgree`, `LinksOpenAsShown`; no deadlock |
| zerokube | `Zerokube.cfg`, `MCZerokube` | `TypeOK`, `RoutedIsRunning`, `NoRequestAborted`, `NamesDistinct`, `SupersededAwaited`, `CleanStart` with one deploy at a time |
| grep_update | `GrepUpdate.cfg`, `MCGrepUpdate` | `TypeOK`, `UpdatedIsSearchable`, `SnapshotFetchable` |
| grep_search | `GrepSearch.cfg`, `MCGrepSearch` | `SinglePageComplete`, `ErrorsReported`, `RangesAreMatches`, `SearchEnds` |
| grep_search_lost | `GrepSearchLost.cfg`, `MCGrepSearch` | *violated*: `PagesComplete`, by a page that ends inside a package |
| grep_client | `GrepClient.cfg`, `MCGrepClient` | `TypeOK`, `NothingLost`, `ErrorsStay` with two queries that may overlap |
| fzf | `Fzf.cfg`, `MCFzf` | `ArenaHoldsTrees`, `FindsSubsequences`, `BestFirst` |
| fzf_scores | `FzfScores.cfg`, `MCFzf` | *violated*: `ScoredAsWhole` |

### Bounds, and why they are enough

* **upload**: two packages with a file in common, one of which lists a file twice
  and has more files than workers; two workers per package; two different files
  with one truncated hash; two attempts per upload; checkpoints of two files; two
  runs, so that one starts from what another left. Every hazard is between two
  packages, two workers or two runs.
* **publish**: two packages, so that a batch of size 1 leaves one for later; two
  versions; two epochs in either order; one change of the mirror, at any time before its
  last snapshot; two runs; any SELECT may break off and deliver any part of its rows. One
  package is of the kind that `paths.fzf` leaves out. After `MaxRuns` runs nothing
  follows, so the last one is not killed (it may panic and fail). `publish_removed` has
  one epoch, two changes of the mirror and batches of two.
* **mirror**: two areas with two components, indexes of no bytes, of some bytes without
  a stanza, of one or two stanzas, or that list a package twice; Release files that are
  whole, lack a component or name one twice; one new release, at any time. `Publish`
  takes the snapshot in one step. That is exact for what it does with it: the snapshot
  is gathered before the first statement on the database, and what may be in it is any
  set of packages.
* **browse**: one package in one or two versions, each in any number of lists. It has a
  directory, a file in it (which ctags takes or is told to leave out), a pipe, and two
  links, one in the directory, with all destinations of one or two parts, and of three
  that begin with `..`. Links of links, loops, links to the directory that holds them
  and links out of the package are among them. A package's links concern no other
  package, and the lists of one package behave as those of many. `MaxFollowed` and
  `MaxDepth` are 10: two links that do not loop are followed a few times at most, so the
  kernel's 40 and a stack of thousands of calls show nothing more (`FewLinksHere`, which
  TLC evaluates, compares with a limit of 20).
* **zerokube**: three names, of which any two can be running and the third taken by a deploy
  that failed; three starts of the process, so that a second restart finds what the
  first left; two requests; read and write timeouts of 1 and 2 ticks, so that they can be
  told apart. Names are interchangeable (symmetry), and three are enough for a container to
  be replaced twice. What overlapping deploys do to names is proved (`NamesNeverShared`).
* **grep_update**: one package in two distributions, a version with two files and
  one with one, three changes of lists, two starts of the updater. Packages of one
  distribution have directories of their own and share only the flag `errored`, which
  is never reset, so a second package per distribution adds no behaviour.
* **grep_search**: four packages whose names are the hard cases of string order (`apt` <
  `apt-utils` < `apt/a`, and `l/lxc` globbed before `liba/libapt`), every set of
  matching files, each readable, gone or refused (with globs, at most one that is not
  read); three visits to a page, so that it ends before, at and behind the end of a
  visit. The globs are one of each form: a package, a file of every package, a directory
  at any depth, `**` in front, at the end and in the middle, pairs of an include and an
  exclude, and a `?`, a class and alternatives (some of them empty) before the first star
  or slash and behind it, an escape before it and a brace that is not closed behind
  it. In `grep_search_lost` a page has one visit and all files are in one package of two,
  so that a page ends inside it. For the line matcher:
  every text of up to three bytes with newlines anywhere and any matches, of four with
  up to two matches, of five with one; context of up to two lines. A boundary is between
  two lines, a match touches at most its first, its last and the lines between them.
* **grep_client**: five hits in pages of two, so a last page that is short, and four
  requests by two queries; every response may end after any line, hang, or throw at a
  line that the client cannot parse.
* **fzf**: 165 lists of packages, three levels deep, with names that have a capital
  inside, a separator, a character outside ASCII, more letters than the packed word has
  room for, or so many that the server panics when it loads them; all queries of up to
  three of `a`, `B`, `/`, `_`, and a longer one, which is refused (`MaxQuery` is 3
  instead of 256); two results, so that the heap overflows.

Bounds on unbounded counters (`MaxRuns`, `MaxChanges`, `MaxBoots`, `MaxLists`,
`MaxPages`, `MaxFetches`) are guards of the actions that count.

`CHECK_DEADLOCK FALSE` is in every config but `Browser.cfg`: programs end, searches
complete, the counters run out, and the fzf server ends when it panics.

### Fairness

* `Upload`: weak fairness of each goroutine (package and worker). The Go scheduler
  runs what is runnable; which way a call to the network turns out is left open.
  Nothing is assumed of kills, restarts or panics.
* `Publish`: as long as main or a package worker can take a step, one of them does; no
  fairness between them is needed.
* `GrepSearch`: a client that asks for the next page as long as it is offered one.

## 4. What the code does differently from what it says

Runs with an expected violation show these; their counterexamples are short.

* `publish_removed`: `UpdateDistroContents` collects ids of `package_versions` and
  deletes rows of `distribution_contents` with those ids (`database/package.go:155`,
  `:161`). Packages that left the mirror stay listed, and another package's row may
  go instead. After a removal a package of the mirror can so be missing from a run that
  ended well: `DoneMirrors` holds as long as nothing is removed.
* `grep_search_lost`: resuming compares package names with the path of the last file
  (`grep/serve.go:232`). The name of that file's own package sorts before it, so the rest of
  the package in which a page ended is skipped.
* `fzf_scores`: the score of a path is not that of the path in one piece, since a
  component's slash has the position of its first character and the first component
  counts from 1 (`matcher.rs:177`, `:182`), and the +3 for a start is given in the whole
  first component (`:215`). The tests `advance_score_simple`, `advance_score_tail` and
  `walk` state numbers that these definitions do not give.

Noticed while modelling, and either outside of the models or the reason for a
condition in a property:

* zerokube: two overlapping deploys read and write the list without a lock
  (`main.go:491`, with a TODO at `:58`); the drain of the one that is lost stops the
  routed container, and a container lost from the list runs on, as no later drain stops
  it. `RoutedIsRunning` and `SupersededAwaited` are so of one deploy at a time. A
  `ContainerStop` that fails is logged and not tried again (`:337`): the superseded
  container runs on, until a later deploy or a restart stops it (the condition
  `n \in failed`). So does one whose deploy failed when its stop fails too; it is on no
  list.
* search client: a second query of a search that is still running takes it for a
  crashed one and empties the array that it fills (`grep.ts:43`; the condition
  `emptied`). The state read as "completed fully" (`:45`) is never stored, so a completed
  search is fetched again, and a page that was cut is fetched from its start, which
  repeats hits. Whether an earlier page had errors is read when a page is begun
  (`grep.ts:32`) and reported when it ends (`:130`): a page begun before the errors of the
  one before it are read ends without the warning (the condition `late`). Go's
  `%q` has escapes that JSON lacks, so `:66` can throw, and a read that rejects or a
  callback that throws never settles the promise (`http.ts:90`). File names with spaces
  break `split(" ")`.
* grep serve: `CanMatchPrefix` compares what precedes the first star with the name of the
  package letter by letter (`serve.go:91`). An include that begins with a `?`, a class,
  alternatives or an escape, such as `?xc/a`, `{apt,lxc}/a`, `[a-m]pt/**` or `\apt`, so
  skips packages whose files it selects, and an exclude such as `apt/**/b` skips all of
  `apt` (`:113`). These are what the condition `FiltersAgree` of `SinglePageComplete`
  leaves out, and the assumption `FiltersMisjudge` of `MCGrepSearch`, which TLC evaluates,
  shows that each of them is misjudged. Resuming compares in string order, while the visit
  is in the order of directories: after a page that ended in `lxc` (directory `l/lxc`)
  `libapt` (`liba/libapt`) is skipped although it was never visited. The flags at
  `serve.go:192` come to 0, since `syntax.Perl` does not contain `syntax.NonGreedy`, so
  that `\d`, `\b` and `(?:...)` are rejected. Files of exactly 1 MiB are indexed but
  refused (`codesearch.go:59`, `algorithm.go:34`).
* grep update: exits in the middle of its loop over distributions when a package failed
  (`update.go:55`), and leaves the indexes of earlier versions. Two hooks can start two
  updaters at once, which share the directories and no lock (zerokube's `main.go:358`).
* publisher: a run that finds nothing new does not repair listings that a crash left old
  (`main.go:179`). No loop over rows looks at `rows.Err()` (`package.go:81`, `:109`), so
  a SELECT that breaks off counts as a shorter list: packages are left out of all three
  listings of a run that logs "Done!", or are processed again (the condition `short` of
  `DoneMirrors` and `EpochNeverDecreases`). An index of length zero ends the loop over
  components (`source.go:49`), while the message says that it is skipped (the condition
  `Reached`). A package that moves from one area to another between the downloads is
  missed. Errors of `ReadFrom` are dropped (`client.go:78`, `util.go:61`).
* trees: one absolute link makes the extension reject the manifest of the package,
  although the comment at `tree.go:136` provides for it. `lib/` as a destination does not
  resolve (the condition `Tidy`), and `..` behind a file does. Whether a link that
  leaves the package is a directory is decided by the machine that built the index. The
  extension follows a chain of more than 40 links, at which the kernel gives up
  (`inode.ts:109`; the hypothesis `FewLinks` of section 5).
* session: a rejected promise stays until the window is reloaded; `symbols.txt` and
  `packages.json` may be of different lists; `contents["constructor"]` finds a member of
  the prototype.
* fzf: `path_iter` takes the offset from `data >> 6`, which includes the two upper bits
  of the length, so that a name of 64 characters or more is read from a wrong place, and
  the last one panics (`directory.rs:129`; the condition `NamesFit`). A name of more
  than 255 bytes keeps the server from starting (`:121`). `BestFirst` is about the score
  that a matcher of its own gives to the components of a path, fed one after the other
  (see `fzf_scores`). Characters outside ASCII are printed as NUL.

## 5. What is proved

TLAPS checks these for every value of the constants under the named ASSUMEs of the
modules: types of the constants, positive limits, at least one worker, and, where data
are constants, what the code that produces them ensures (`ReleasesType` and `ListsType`
in `Mirror`; `WalkType`, `SpellingType` and `SearchesType` in `GrepSearch`; `DisksType` in
`Browser`). TLC evaluates them on the instances of the runs, where the inductive
invariants were also checked before they were proved.

**Upload** (`Upload_proofs`). `ListedTreeIsServed` is not inductive: that a file is
on the CDN when the tree is uploaded follows from where every position of the tree
is in between. The inductive invariant `IInv` adds, for each package: `Accounted`
(each file is in `feed`, in a worker's hands or batch, or its hash is tracked),
`WorkersInv` (what a worker holds is stored, and a worker that left holds nothing),
`ArtifactsInv` (artifacts are uploaded after the pool ended, in order, and a recorded
version has them all) and `TmpInv` (workers live only while the archive is there).
From `Spec => []IInv` follow `TypeCorrect`, `FilesTableSound`, `TreeServed`,
`TreeServedExactly` (without collisions, the file itself is there),
`RecordedComplete` and `ArchiveKept`. `LossBounded` (no worker holds more than a
checkpoint's worth of files that are not in the table) is an invariant of cardinalities of
its own, `BatchInv`: a batch is finite and grows by one file between two checks of its
size. Collisions are what weakens `TreeServed`:
table `files` is keyed by 64 bits of the hash, and its owner accepts the 404s.

**Publish** (`Publish_proofs`). `PublishedFetchable` needs to know where lists come
from: `RowsInv` (each row of `package_versions` has its artifacts in `ls` and its own id
and version), `CopiesInv` (rows that the program holds in memory are rows of the table,
or were, with an epoch that is still stored), `PoolInv` (what a worker processes belongs
to the snapshot), `ContentsSound` and `MetaInv`. From `Spec => []IInv` follow
`TypeCorrect`, `ListingsFetchable`, `ContentsReferToVersions` and
`PublishImplementsCatalog`, the refinement: every step of the publisher stores objects,
replaces one list by objects that are stored, one per package, or stutters. `EpochsGrow`
needs one more invariant, `EpochInv`: a version that the loop has still to decide about
is in the database only if `existing` has its row, so one that goes to a worker has no
row of the same or a newer epoch, and nothing else writes that row while the worker has
it. It holds as long as `ListExistingPackages` delivered all rows (`~ short`), and so
does the theorem. `FilesAgree` says that the three meta files, once a run is past them,
were written from one table of contents, and `DoneListsAll` that a run that ended well
lists the whole snapshot, at the mirror's versions (`DoneMirrors`): `CoverInv` follows
each package of the snapshot from the loop through the pool and the two buffers to a row
of `distribution_contents`, `ReplacedInv` has the row there after its batch, and by
`KeptInv` nothing is deleted. The last needs `Removable = {}`; section 4 says why. `EpochsGrow`
and `DoneListsAll` are about runs in which every SELECT delivered its rows (`~ short`); what a SELECT
that broke off does to `DoneMirrors` is in section 4 too.

**Mirror** (`Mirror_proofs`). `SnapshotWhole`: what a Release file names is in the
snapshot or the run ends. `SourcesInv` says that the sources are the indexes that the
release of each area names, up to the component that ends the loop, in the order of
priority, whatever part of a file was received (`FoundIsNamed`); `MapInv` that the
merged map has each package from the first index that lists it. `PriorityKept` (the
first area and component wins) follows from both.

**GrepUpdate** (`UpdateFzf_proofs`). `SnapshotFetchable` follows from `ListsInv` (a list
names stored objects, one per package of its distribution) and `SnapshotInv` (so does
the snapshot, and no two of its objects share a directory). `UpdatedIsSearchable` says
nothing of an update that still runs; the invariant adds `OrderInv` (only tasks of the
present distribution run, and those to come have nothing in the snapshot) and
`WorkInv`: what is unpacked of each package stays while its task goes on (`Progress`),
whatever the directory held before, and the packages of earlier distributions are
`Complete`. From `Spec => []IInv` follow `TypeCorrect`, `SnapshotAvailable` and
`UpdateRepairs`.

**Browser** (`Browser_proofs`). `RequestsExist` is about what a session has already
asked for or received; with it the invariant needs that the publisher's present lists
are of stored objects (`ListsInv`), and that a promise that settles is about what it was
asked about (`PromisesInv`). `NoRequestMisses` follows: names hold the epoch and the
version, objects are never removed, so a list of any age is good for the session.
`TypeCorrect` rests on it. `IndexedFilesOpen` (`FoundFilesOpen`) has two halves.
`WalkFinds` is about the trees: every prefix of the path of a file is a directory of the
manifest, so that the walk of `inode.ts` comes to the file, whatever links the package
has; and what the four walks of the publisher index are files. `SessionInv` is about the
session: a list has one version of a package and every promise is of the list that the
session holds, so the tree and the tags of a package are of one version.

`LinksLeadAsOnDisk` (`LinksAgree`) compares two recursions of different shape: the
kernel has one list of names, into which a link puts its destination in place of its
name, and it counts links in all; `resolveLinks` calls itself for every link, and the
stack counts only depth. From disk to tree (`DiskToTree`): when a lookup that begins
with some parts ends at a node, `resolveLinks` goes through these parts, to a node from
which the lookup ends where it did, with no more links left (`GoesAlong`;
`LookupsGoAlong` is by induction on the links left and then the parts, `LowerLookup`).
The stack is deep enough since `MaxFollowed <= MaxDepth`, and a link that meets itself,
which `resolveLinks` refuses, would make the lookup begin again with fewer links and so
end nowhere. From tree to disk (`TreeToDisk`): where a call of `resolveLinks` ends, some
number of links takes the kernel there, or to a file on its way (`Takes`;
`FramesResolve` is by induction on the depth left and then the parts, `LowerFrame`). By
`LookupsEnd` a lookup that ends within a limit ends the same within a higher one, so it
is left that the limit of the kernel is enough, which is what the theorem assumes:
`FewLinks`, in the packages at hand a link at which the kernel gives up is one at which
it would with any limit. Nothing in the code bounds the links of a package, and without
the hypothesis the property is false (section 4). `LinksShownOpen` (`LinksOpenAsShown`)
is only about links that the kernel follows to a node, and needs no hypothesis:
`LinkOpens` combines `DiskToTree` with the walks of the manifest.

**Zerokube** (`Zerokube_proofs`). For any number of deploys at a time, `IInv` relates
the names of containers, of socket directories, of the list and of what each goroutine
of `/deploy` has read of it: a name is taken as long as its directory exists,
directories are only removed when a process starts (`DirsInv`); `BootInv`, that no old container is left while main starts its own,
gives `StartsClean`. With one deploy at a time (`OneDeploy`, which is also what the run
assumes), `OneInv` adds that who is about to append has read the present list
(`FreshInv`), that zerokube has not stopped the routed container, those about to be
appended and those with a request (`RunningInv`; each can still end by itself), that a
goroutine stops only superseded containers without requests, because its sleep lasts
longer than theirs (`DrainInv`), and that requests are with containers of the list
(`RequestsInv`). `RoutedAlwaysRuns` and `NoneAborted` follow, for all timeouts with a
`ReadTimeout` above zero. `NamesNeverShared` says that the socket directory in which a
call of `StartService` is about to start a container is that of no running one:
`SocketInv` has the directory of each running container on disk, where `Mkdir` finds it,
and `CallRuns` that only a call runs a container, the one it made the directory for.
`SupersededNeverForgotten` (`SupersededAwaited`) also needs one deploy at a time: a
container that was replaced is before the routed one in the list, its successor's
goroutine takes it from there when its sleep is over (`QueueAwait`), and what is appended
meanwhile is behind it (`AppendAwait`).

**GrepClient** (`GrepClient_proofs`). The rest of a response and the array of results
are related through the page: `PagesInv` (requests begin at multiples of the page size),
`StreamInv` (what a query has still to read is the end of the response of its page, and
what came before was reported), `LoadedInv` (what precedes the page of a query, or the
next page, is in the array) and `ErrorsInv` (the errors of the pages before it are known
to the query, or to the cache entry). `NoHitLost` and `WarningStays` follow for any
number of overlapping queries, with the conditions `emptied` and `late` of section 4.

**GrepSearch** (`GrepSearch_proofs`). `ReaderLeads` is about the loop of `Grep.Reader`:
each line that it prints leads the client to the first match of a line, with the right
context (`MatchLineLeads`, an argument about numbers of newlines between offsets), and
each line with a match has one. `CanMatch` and `MustMatch` are about globs: a package is
skipped only if the globs select none of its files, whatever texts a wildcard stands
for, under the condition `FiltersAgree`: every wildcard of an include is behind a star
or a slash, and an exclude does not go on behind a `**` that follows another part. Of
the globs that it leaves out the code skips packages wrongly (`FiltersMisjudge`,
section 4), and `OnePageShowsAll` says nothing. `AllScanned` and `ResumeIs` are about
the limit: a page that names no file to resume from has searched every candidate.
`LinesLead` holds of all pages; `OnePageShowsAll` and `OnePageWarns` are of the first,
as later ones are not complete (section 4).

**Fzf** (`UpdateFzf_proofs`). All three properties hold for any packages, queries,
packing and size of the heap. The assumptions are `LimitsType`, `InputsType` (packages
are trees) and `CharsType`: upper and lower case correspond, no letter and no slash
falls into the bit that the characters without one of their own share, and NUL is in no
name.

`ArenaHolds` (`ArenaHoldsTrees`) is about a recursion that fills three vectors at once.
The places of the subdirectories are reserved before the first of them is parsed, and
each is written when it was. The invariant `ArenaInv` says that every root is `Carried`
by the arena: it is what a parse returned, and the arena still has what that parse put
into the vectors. What is appended later (`Extends`) does not disturb that, and a write
into a reserved place disturbs only that place; so `Parsed` says of a whole call that it
leaves what was there and fills what it reserved, `CarriesUpTo` follows the loop over
subdirectories, and by `SubdirectoriesCarried` the subdirectories of what is carried are
carried in turn. The induction is on how many directories follow in the package and then
on the place in the loop.

`FindsMatches` (`FindsSubsequences`) has three parts. The matcher: `Reads(q, m, w)` says
that after the text `w` the k-th state has a score exactly if the first k characters of
the query are a subsequence of `w`, and that `char_set` has the characters of what it
matched; visiting the query from its end is what makes a step keep it. Skipping: a
directory or a file whose characters, with those matched above it, lack one of the query
has no path that contains the query (`SkippedBelow`, `SkippedFile`), since a character
set covers all that is below. The walk: each call on the stack has a plan, which
directory of which package it is in and how much of it is still to visit. `WalkInv` says
that there are plans for which the matcher of a call is the one that its path gives by
itself (`MatcherAfter`, so restoring works), and that every file is awaited by some
plan, in a package that comes later, or `Considered`: it is in the heap with its score,
its score is 0, or the heap is full of results that are no worse. The reply is the heap
in order when no call is left. `FindsBest` (`BestFirst`) follows from the same
invariant, `SearchInv`, as replacing a least result keeps all that was considered so;
the score is the one that the components of a path give when they are fed one after the
other (section 4 on `fzf_scores`).

**Induction.** The library's induction theorems take an operator as a parameter, which
no installed prover can instantiate. The proofs state the induction hypothesis as a set
instead, and use that `<` is well-founded on numbers (`LeastNumber`, `SetInduction`) and
on pairs of them in lexical order (`LeastElement`, `InductionBelow`, for a set with two
`Measures`), in `Browser_proofs` and again in `UpdateFzf_proofs`. Recursive functions
are first shown to exist, since their definition is a CHOOSE: `TurnsExist` and
`MatchFunction` for one measure, and `RecursionBelow` for two, of which the kernel's
lookup and `resolveLinks` are instances (`KernelIs`, `ResolverIs`), and so are the
parser of the arena, the matcher along a path and the files below a directory. The step
of a recursion is a parameter there as a function that takes a partial solution and a
state. Functions take one argument (a tuple), as the provers have no others.

Every invariant and action property that a passing run checks is so a theorem. Only
model-checked: that `PagesComplete`, `ScoredAsWhole` and `RemovedAreDropped` fail, and
the liveness properties (`RunEnds` of `Upload` and of `Publish`, `SearchEnds`), which
rest on fairness and ENABLED. Both kinds are out of the provers' reach.

## 6. Not modelled

* the text of indexes: ctags and symbols, trigrams and their query (`PostingQuery` is any
  set of files), the syntax of regexps;
* the parsing of control files, which keeps no state;
* the adapters of the extension (`fzf.ts`, `file.ts`, providers other than the file
  system's) and `fuzzyScorer`, a copy of VS Code's;
* zerokube's hooks and admin page; the benchmark of fzf; infrastructure, images and VS
  Code patches;
* the start-up of the database: `Connect` creates the tables one after the other, and only
  if the file is new, so a crash in between leaves a file without them;
* a search while `grep update` rewrites the files: the code promises nothing about it;
* two updaters at a time: nothing keeps a hook from starting a second one, and what they
  unpack over each other is no version of a package.

## 7. Plan

Order: what the rest of the system relies on comes first.

1. `Upload`, `Catalog`, `Publish` and their proofs (done).
2. `Zerokube`, `GrepUpdate`, `GrepSearch`, `GrepClient` (done).
3. `PackageTree` and `Browser`, `Mirror`, `LineMatcher`, `Fzf` (done).
4. Proofs of every safety property (done), of `Fzf` after its trees became sequences of
   directories and its recursions functions.
5. `RoutedIsRunning` for overlapping deploys, once the list has a lock (the TODO at
   `main.go:58`).
