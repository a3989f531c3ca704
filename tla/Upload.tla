------------------------------- MODULE Upload -------------------------------
(* processPackage (publisher/cmd/main.go): the pipeline that turns source    *)
(* packages into objects on the CDN.  Each package has one goroutine of its  *)
(* own, which extracts the archive, asks the database which files are        *)
(* already stored, feeds the rest to a pool of upload workers over an        *)
(* unbuffered channel, waits for the pool, uploads six per-package artifacts *)
(* and records the package version.  Several packages run at once and share  *)
(* the CDN and the `files` table.                                            *)
(*                                                                           *)
(* A panic in a package's own goroutine is recovered and fails that package; *)
(* a panic in an upload worker is not, and ends the process.  The process    *)
(* may also be killed at any moment.  The CDN, the database and the          *)
(* temporary directories survive it.                                         *)
EXTENDS Naturals, Sequences, FiniteSets

CONSTANTS
  Packages,         \* package versions of one distribution
  Files,            \* file contents, i.e. full SHA-256 hashes
  Hashes,           \* truncated 64-bit hashes, the keys of table `files`
  Short,            \* convertHash: Files -> Hashes, not injective in general
  Tree,             \* archive.Tree.Files(): the files of a package in walk order
  Workers,          \* uploadThreads
  CheckpointLimit,  \* checkpointLimit
  MaxTries,         \* the 5 attempts of UploadFile
  MaxRuns           \* bound: number of times the process is started

ASSUME ShortType   == Short \in [Files -> Hashes]
ASSUME TreeType    == Tree \in [Packages -> Seq(Files)]
ASSUME LimitsType  == /\ CheckpointLimit \in Nat \ {0}
                      /\ MaxTries \in Nat \ {0}
                      /\ MaxRuns \in Nat
ASSUME SomeWorkers == Workers # {}

VARIABLES
  cat,       \* file contents stored in the `cat` bucket
  tracked,   \* table `files`
  ls,        \* package -> artifacts stored in the `ls` bucket
  recorded,  \* table `package_versions`
  tmp,       \* packages with a temporary directory on disk
  process,   \* "running", "panicked" (by its own code) or "killed"
  runs,      \* number of times the process was started
  stage,     \* package -> where its goroutine is
  feed,      \* package -> files not yet handed to a worker, in walk order
  artifact,  \* package -> number of the next artifact to upload
  worker     \* package -> worker -> the state of that upload goroutine

stored == <<cat, tracked, ls, recorded>>
vars   == <<stored, tmp, process, runs, stage, feed, artifact, worker>>

(* .json, .fzf, .tags, .symbols, .csi and .tar.zst, in this order *)
Artifacts == 1 .. 6

Stages == {"idle", "extracting", "extracted", "feeding", "waiting",
           "artifacts", "done", "failed"}

(* A file of a package is named by its position in the walk: the same        *)
(* contents may occur, and be uploaded, more than once.                      *)
Positions(p) == DOMAIN Tree[p]

HashesAt(p, is) == {Short[Tree[p][i]] : i \in is}

WorkerStates == [at    : {"receive", "put", "checkpoint", "exited"},
                 file  : Nat,            \* the file being uploaded, 0: none
                 tries : 0 .. MaxTries,
                 held  : SUBSET Nat]     \* `hashes`: uploaded, not recorded

FreshWorker  == [at |-> "receive", file |-> 0, tries |-> 0, held |-> {}]
ExitedWorker == [at |-> "exited", file |-> 0, tries |-> 0, held |-> {}]

(* the files whose truncated hash is not in table `files` *)
DeduplicateFiles(p) == {i \in Positions(p) : Short[Tree[p][i]] \notin tracked}

(* mutant: > for >= *)
CheckpointLate(held) == Cardinality(held) > CheckpointLimit

CheckpointDue(held) == Cardinality(held) >= CheckpointLimit

Init ==
  /\ cat = {} /\ tracked = {} /\ recorded = {} /\ tmp = {}
  /\ ls = [p \in Packages |-> {}]
  /\ process = "running"
  /\ runs = 1
  /\ stage = [p \in Packages |-> "idle"]
  /\ feed = [p \in Packages |-> {}]
  /\ artifact = [p \in Packages |-> 1]
  /\ worker = [p \in Packages |-> [w \in Workers |-> FreshWorker]]

-----------------------------------------------------------------------------
(* The package goroutine.  `processDistro` skips recorded packages.          *)

Begin(p) ==          \* os.MkdirTemp, then download, dpkg-source and the walk
  /\ process = "running" /\ stage[p] = "idle" /\ p \notin recorded
  /\ stage' = [stage EXCEPT ![p] = "extracting"]
  /\ tmp' = tmp \cup {p}
  /\ UNCHANGED <<stored, process, runs, feed, artifact, worker>>

Extract(p) ==
  /\ process = "running" /\ stage[p] = "extracting"
  /\ stage' = [stage EXCEPT ![p] = "extracted"]
  /\ UNCHANGED <<stored, tmp, process, runs, feed, artifact, worker>>

ExtractFails(p) ==   \* CleanUp is not deferred yet: the directory stays
  /\ process = "running" /\ stage[p] = "extracting"
  /\ stage' = [stage EXCEPT ![p] = "failed"]
  /\ UNCHANGED <<stored, tmp, process, runs, feed, artifact, worker>>

StartUpload(p) ==
  /\ process = "running" /\ stage[p] = "extracted"
  /\ feed' = [feed EXCEPT ![p] = DeduplicateFiles(p)]
  /\ stage' = [stage EXCEPT ![p] = "feeding"]
  /\ worker' = [worker EXCEPT ![p] = [w \in Workers |-> FreshWorker]]
  /\ UNCHANGED <<stored, tmp, process, runs, artifact>>

CloseJobs(p) ==
  /\ process = "running" /\ stage[p] = "feeding" /\ feed[p] = {}
  /\ stage' = [stage EXCEPT ![p] = "waiting"]
  /\ UNCHANGED <<stored, tmp, process, runs, feed, artifact, worker>>

(* mutant: no wg.Wait() *)
NoWait(p) ==
  /\ process = "running" /\ stage[p] = "waiting"
  /\ stage' = [stage EXCEPT ![p] = "artifacts"]
  /\ artifact' = [artifact EXCEPT ![p] = 1]
  /\ UNCHANGED <<stored, tmp, process, runs, feed, worker>>

WaitGroupDone(p) ==
  /\ process = "running" /\ stage[p] = "waiting"
  /\ \A w \in Workers : worker[p][w].at = "exited"
  /\ stage' = [stage EXCEPT ![p] = "artifacts"]
  /\ artifact' = [artifact EXCEPT ![p] = 1]
  /\ UNCHANGED <<stored, tmp, process, runs, feed, worker>>

PutArtifact(p) ==
  /\ process = "running" /\ stage[p] = "artifacts" /\ artifact[p] \in Artifacts
  /\ ls' = [ls EXCEPT ![p] = @ \cup {artifact[p]}]
  /\ artifact' = [artifact EXCEPT ![p] = @ + 1]
  /\ UNCHANGED <<cat, tracked, recorded, tmp, process, runs, stage, feed, worker>>

RecordPackageVersion(p) ==
  /\ process = "running" /\ stage[p] = "artifacts" /\ artifact[p] \notin Artifacts
  /\ recorded' = recorded \cup {p}
  /\ stage' = [stage EXCEPT ![p] = "done"]
  /\ tmp' = tmp \ {p}
  /\ UNCHANGED <<cat, tracked, ls, process, runs, feed, artifact, worker>>

(* A recovered panic: the deduplication query, an analysis, an artifact      *)
(* upload, the INSERT or the SELECT of the new row's id failed.  A PUT that  *)
(* reports an error may still have stored its object, and the SELECT fails   *)
(* with the row already there.                                               *)
PackageFails(p) ==
  /\ process = "running" /\ stage[p] \in {"extracted", "artifacts"}
  /\ \/ UNCHANGED <<ls, recorded>>
     \/ /\ stage[p] = "artifacts" /\ artifact[p] \in Artifacts
        /\ ls' = [ls EXCEPT ![p] = @ \cup {artifact[p]}]
        /\ UNCHANGED recorded
     \/ /\ stage[p] = "artifacts" /\ artifact[p] \notin Artifacts
        /\ recorded' = recorded \cup {p}
        /\ UNCHANGED ls
  /\ stage' = [stage EXCEPT ![p] = "failed"]
  /\ tmp' = tmp \ {p}
  /\ UNCHANGED <<cat, tracked, process, runs, feed, artifact, worker>>

-----------------------------------------------------------------------------
(* The upload workers of one package.                                        *)

SetWorker(p, w, state) == worker' = [worker EXCEPT ![p][w] = state]

Receive(p, w) ==     \* rendezvous on the unbuffered channel `jobs`
  /\ process = "running" /\ stage[p] = "feeding"
  /\ worker[p][w].at = "receive"
  /\ \E i \in feed[p] :
       /\ \A j \in feed[p] : i <= j
       /\ SetWorker(p, w, [at |-> "put", file |-> i, tries |-> 0,
                           held |-> worker[p][w].held])
       /\ feed' = [feed EXCEPT ![p] = @ \ {i}]
  /\ UNCHANGED <<stored, tmp, process, runs, stage, artifact>>

(* mutant: UploadFile gives up silently after an error *)
PutUnchecked(p, w) ==
  /\ process = "running" /\ worker[p][w].at = "put"
  /\ cat' \in {cat, cat \cup {Tree[p][worker[p][w].file]}}
  /\ LET held == worker[p][w].held \cup {worker[p][w].file}
     IN  SetWorker(p, w, [at |-> IF CheckpointDue(held) THEN "checkpoint" ELSE "receive",
                          file |-> 0, tries |-> 0, held |-> held])
  /\ UNCHANGED <<tracked, ls, recorded, tmp, process, runs, stage, feed, artifact>>

PutFile(p, w) ==
  /\ process = "running" /\ worker[p][w].at = "put"
  /\ worker[p][w].tries < MaxTries
  /\ cat' = cat \cup {Tree[p][worker[p][w].file]}
  /\ LET held == worker[p][w].held \cup {worker[p][w].file}
     IN  SetWorker(p, w, [at |-> IF CheckpointDue(held) THEN "checkpoint" ELSE "receive",
                          file |-> 0, tries |-> 0, held |-> held])
  /\ UNCHANGED <<tracked, ls, recorded, tmp, process, runs, stage, feed, artifact>>

(* mutant: attempts are not bounded *)
PutFailsForEver(p, w) ==
  /\ process = "running" /\ worker[p][w].at = "put"
  /\ cat' \in {cat, cat \cup {Tree[p][worker[p][w].file]}}
  /\ SetWorker(p, w, [at |-> "put", file |-> worker[p][w].file,
                      tries |-> worker[p][w].tries + 1,
                      held |-> worker[p][w].held])
  /\ UNCHANGED <<tracked, ls, recorded, tmp, process, runs, stage, feed, artifact>>

PutFails(p, w) ==    \* an error, after which the worker sleeps and tries again
  /\ process = "running" /\ worker[p][w].at = "put"
  /\ worker[p][w].tries < MaxTries
  /\ cat' \in {cat, cat \cup {Tree[p][worker[p][w].file]}}
  /\ SetWorker(p, w, [at |-> "put", file |-> worker[p][w].file,
                      tries |-> worker[p][w].tries + 1,
                      held |-> worker[p][w].held])
  /\ UNCHANGED <<tracked, ls, recorded, tmp, process, runs, stage, feed, artifact>>

Checkpoint(p, w) ==  \* RecordHashes, then hashes = nil
  /\ process = "running" /\ worker[p][w].at = "checkpoint"
  /\ tracked' = tracked \cup HashesAt(p, worker[p][w].held)
  /\ SetWorker(p, w, FreshWorker)
  /\ UNCHANGED <<cat, ls, recorded, tmp, process, runs, stage, feed, artifact>>

(* mutant: the last, partial batch is not recorded *)
ExitUnrecorded(p, w) ==
  /\ process = "running" /\ stage[p] = "waiting" /\ worker[p][w].at = "receive"
  /\ SetWorker(p, w, ExitedWorker)
  /\ UNCHANGED <<stored, tmp, process, runs, stage, feed, artifact>>

RecordFinal(p, w) == \* the channel is closed: record the rest and exit
  /\ process = "running" /\ stage[p] = "waiting" /\ worker[p][w].at = "receive"
  /\ tracked' = tracked \cup HashesAt(p, worker[p][w].held)
  /\ SetWorker(p, w, ExitedWorker)
  /\ UNCHANGED <<cat, ls, recorded, tmp, process, runs, stage, feed, artifact>>

(* mutant: a worker that fails returns instead of panicking *)
WorkerReturns(p, w) ==
  /\ process = "running" /\ worker[p][w].at = "put"
  /\ worker[p][w].tries \in {0, MaxTries}
  /\ SetWorker(p, w, ExitedWorker)
  /\ UNCHANGED <<stored, tmp, process, runs, stage, feed, artifact>>

(* The panics nobody recovers: the file cannot be opened, the last attempt   *)
(* failed, or RecordHashes could not write.                                  *)
WorkerPanics(p, w) ==
  /\ process = "running"
  /\ \/ worker[p][w].at = "put" /\ worker[p][w].tries \in {0, MaxTries}
     \/ worker[p][w].at = "checkpoint"
     \/ /\ stage[p] = "waiting" /\ worker[p][w].at = "receive"
        /\ worker[p][w].held # {}
  /\ process' = "panicked"
  /\ UNCHANGED <<stored, tmp, runs, stage, feed, artifact, worker>>

-----------------------------------------------------------------------------
(* The process.  A run is over when every package is done or failed, or was  *)
(* recorded by an earlier run.                                               *)

RunOver == \A p \in Packages : \/ stage[p] \in {"done", "failed"}
                               \/ stage[p] = "idle" /\ p \in recorded

Killed ==
  /\ process = "running"
  /\ process' = "killed"
  /\ UNCHANGED <<stored, tmp, runs, stage, feed, artifact, worker>>

NextRun ==           \* nothing in memory survives; temporary directories do
  /\ runs < MaxRuns
  /\ process # "running" \/ RunOver
  /\ runs' = runs + 1
  /\ process' = "running"
  /\ stage' = [p \in Packages |-> "idle"]
  /\ feed' = [p \in Packages |-> {}]
  /\ artifact' = [p \in Packages |-> 1]
  /\ worker' = [p \in Packages |-> [w \in Workers |-> FreshWorker]]
  /\ UNCHANGED <<stored, tmp>>

PackageStep(p) ==
  \/ Begin(p) \/ Extract(p) \/ ExtractFails(p) \/ StartUpload(p)
  \/ CloseJobs(p) \/ WaitGroupDone(p) \/ PutArtifact(p)
  \/ RecordPackageVersion(p) \/ PackageFails(p)

WorkerStep(p, w) ==
  \/ Receive(p, w) \/ PutFile(p, w) \/ PutFails(p, w)
  \/ Checkpoint(p, w) \/ RecordFinal(p, w) \/ WorkerPanics(p, w)

Next ==
  \/ \E p \in Packages : PackageStep(p)
  \/ \E p \in Packages, w \in Workers : WorkerStep(p, w)
  \/ Killed
  \/ NextRun

Spec == Init /\ [][Next]_vars

(* Goroutines that can run do run; nothing is assumed about which outcome an *)
(* upload has.                                                               *)
FairSpec ==
  /\ Spec
  /\ \A p \in Packages : WF_vars(PackageStep(p))
  /\ \A p \in Packages, w \in Workers : WF_vars(WorkerStep(p, w))

-----------------------------------------------------------------------------
TypeOK ==
  /\ cat \subseteq Files
  /\ tracked \subseteq Hashes
  /\ ls \in [Packages -> SUBSET Artifacts]
  /\ recorded \subseteq Packages
  /\ tmp \subseteq Packages
  /\ process \in {"running", "panicked", "killed"}
  /\ runs \in Nat
  /\ stage \in [Packages -> Stages]
  /\ feed \in [Packages -> SUBSET Nat]
  /\ \A p \in Packages : feed[p] \subseteq Positions(p)
  /\ artifact \in [Packages -> 1 .. 7]
  /\ worker \in [Packages -> [Workers -> WorkerStates]]
  /\ \A p \in Packages, w \in Workers :
       /\ worker[p][w].held \subseteq Positions(p)
       /\ worker[p][w].at = "put" => worker[p][w].file \in Positions(p)

(* DeduplicateFiles trusts table `files`: a hash is in it only if some file  *)
(* with that hash was stored, whatever failed or crashed on the way.         *)
TrackedIsStored == \A h \in tracked : \E f \in cat : Short[f] = h

(* Once the tree of a package is on `ls`, a visitor can open every file it   *)
(* lists, except one whose truncated hash collides with that of another      *)
(* stored file (the 404 that schema.sql accepts).                            *)
Served(f) == f \in cat \/ \E g \in cat : g # f /\ Short[g] = Short[f]

ListedTreeIsServed ==
  \A p \in Packages : ls[p] # {} => \A i \in Positions(p) : Served(Tree[p][i])

(* A recorded version is never processed again, so by then all its files     *)
(* must be tracked and all six artifacts stored.                             *)
RecordedIsComplete ==
  \A p \in recorded : ls[p] = Artifacts /\ HashesAt(p, Positions(p)) \subseteq tracked

(* The deferred CleanUp never removes the extracted archive under a worker   *)
(* that still reads a file from it.                                          *)
ArchiveOutlivesUploads ==
  \A p \in Packages, w \in Workers : worker[p][w].at = "put" => p \in tmp

(* A killed process loses at most CheckpointLimit uploads per worker.        *)
CheckpointBound ==
  \A p \in Packages, w \in Workers :
    LET s == worker[p][w]
    IN  Cardinality(s.held) + (IF s.at = "put" THEN 1 ELSE 0) <= CheckpointLimit

(* A run ends: workers, feeder and wait group never wait on each other for   *)
(* ever, whatever uploads fail.                                              *)
RunEnds == process = "running" ~> (process # "running" \/ RunOver)

=============================================================================
