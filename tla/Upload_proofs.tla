---------------------------- MODULE Upload_proofs ----------------------------
(* Upload's type invariant and its safety invariants, for any packages,      *)
(* trees, workers, truncation and limits.                                    *)
EXTENDS Upload, FiniteSetTheorems, TLAPS

USE ShortType, TreeType, LimitsType DEF Artifacts, stored

(* A file of package p that is uploaded or about to be, but not in `files`:  *)
(* it waits in the feed or some worker has it.                               *)
Pending(p, i) ==
  \/ i \in feed[p]
  \/ \E w \in Workers : \/ worker[p][w].at = "put" /\ worker[p][w].file = i
                        \/ i \in worker[p][w].held

IsTracked(p, i) == Short[Tree[p][i]] \in tracked

AllTracked(p) == \A i \in Positions(p) : IsTracked(p, i)

(* What DeduplicateFiles left out is tracked, and nothing fed is forgotten.  *)
Accounted(p) ==
  stage[p] \in {"feeding", "waiting"} =>
    \A i \in Positions(p) : IsTracked(p, i) \/ Pending(p, i)

WorkersInv(p) ==
  /\ stage[p] = "waiting" => feed[p] = {}
  /\ \A w \in Workers :
       /\ worker[p][w].at = "put" => stage[p] \in {"feeding", "waiting"}
       /\ worker[p][w].at = "exited" => worker[p][w].held = {}
       /\ \A i \in worker[p][w].held : Tree[p][i] \in cat

ArtifactsInv(p) ==
  /\ stage[p] = "artifacts" =>
       AllTracked(p) /\ \A k \in Artifacts : k < artifact[p] => k \in ls[p]
  /\ ls[p] # {} => AllTracked(p)
  /\ p \in recorded => ls[p] = Artifacts

TmpInv(p) ==
  stage[p] \in {"extracting", "extracted", "feeding", "waiting", "artifacts"} =>
    p \in tmp

IInv ==
  /\ TypeOK
  /\ TrackedIsStored
  /\ \A p \in Packages : /\ Accounted(p)
                         /\ WorkersInv(p)
                         /\ ArtifactsInv(p)
                         /\ TmpInv(p)

(***************************************************************************)
(* A position lies in its package's tree, and its file is a file.           *)
(***************************************************************************)
LEMMA TreeFacts ==
  ASSUME NEW p \in Packages
  PROVE  /\ Positions(p) \subseteq Nat
         /\ \A i \in Positions(p) : Tree[p][i] \in Files
         /\ \A i \in Positions(p) : Short[Tree[p][i]] \in Hashes
BY DEF Positions

LEMMA InitInv == Init => IInv
<1> SUFFICES ASSUME Init PROVE IInv
  OBVIOUS
<1> USE DEF Init, FreshWorker
<1>1. TypeOK
  BY DEF TypeOK, Stages, WorkerStates, Positions
<1>2. TrackedIsStored
  BY DEF TrackedIsStored
<1>3. ASSUME NEW p \in Packages
      PROVE  Accounted(p) /\ WorkersInv(p) /\ ArtifactsInv(p) /\ TmpInv(p)
  BY DEF Accounted, WorkersInv, ArtifactsInv, TmpInv
<1> QED BY <1>1, <1>2, <1>3 DEF IInv

(***************************************************************************)
(* Type correctness of each step.                                           *)
(***************************************************************************)
LEMMA TypeStep == TypeOK /\ [Next]_vars => TypeOK'
<1> SUFFICES ASSUME TypeOK, [Next]_vars PROVE TypeOK'
  OBVIOUS
<1> USE DEF TypeOK, Stages
<1>1. ASSUME NEW p \in Packages, PackageStep(p) PROVE TypeOK'
  <2>1. CASE Begin(p)
    BY <2>1 DEF Begin
  <2>2. CASE Extract(p)
    BY <2>2 DEF Extract
  <2>3. CASE ExtractFails(p)
    BY <2>3 DEF ExtractFails
  <2>4. CASE StartUpload(p)
    <3>1. DeduplicateFiles(p) \subseteq Positions(p)
      BY DEF DeduplicateFiles
    <3>2. FreshWorker \in WorkerStates
      BY DEF FreshWorker, WorkerStates
    <3> QED BY <2>4, <3>1, <3>2, TreeFacts DEF StartUpload, FreshWorker
  <2>5. CASE CloseJobs(p)
    BY <2>5 DEF CloseJobs
  <2>6. CASE WaitGroupDone(p)
    BY <2>6 DEF WaitGroupDone
  <2>7. CASE PutArtifact(p)
    BY <2>7 DEF PutArtifact
  <2>8. CASE RecordPackageVersion(p)
    BY <2>8 DEF RecordPackageVersion
  <2>9. CASE PackageFails(p)
    BY <2>9 DEF PackageFails
  <2> QED BY <1>1, <2>1, <2>2, <2>3, <2>4, <2>5, <2>6, <2>7, <2>8, <2>9
          DEF PackageStep
<1>2. ASSUME NEW p \in Packages, NEW w \in Workers, WorkerStep(p, w)
      PROVE  TypeOK'
  <2> USE DEF WorkerStates, SetWorker, FreshWorker, ExitedWorker
  <2>1. CASE Receive(p, w)
    BY <2>1 DEF Receive
  <2>2. CASE PutFile(p, w)
    BY <2>2, TreeFacts DEF PutFile
  <2>3. CASE PutFails(p, w)
    BY <2>3, TreeFacts DEF PutFails
  <2>4. CASE Checkpoint(p, w)
    BY <2>4, TreeFacts DEF Checkpoint, HashesAt
  <2>5. CASE RecordFinal(p, w)
    BY <2>5, TreeFacts DEF RecordFinal, HashesAt
  <2>6. CASE WorkerPanics(p, w)
    BY <2>6 DEF WorkerPanics
  <2> QED BY <1>2, <2>1, <2>2, <2>3, <2>4, <2>5, <2>6 DEF WorkerStep
<1>3. CASE Killed
  BY <1>3 DEF Killed
<1>4. CASE NextRun
  <2>1. FreshWorker \in WorkerStates
    BY DEF FreshWorker, WorkerStates
  <2> QED BY <1>4, <2>1 DEF NextRun, FreshWorker
<1>5. CASE UNCHANGED vars
  BY <1>5 DEF vars
<1> QED BY <1>1, <1>2, <1>3, <1>4, <1>5 DEF Next

(***************************************************************************)
(* The package goroutine keeps the invariant.                               *)
(***************************************************************************)
LEMMA PackageStepInv ==
  ASSUME IInv, TypeOK', NEW p \in Packages, PackageStep(p)
  PROVE  IInv'
<1> USE DEF IInv
<1>1. TrackedIsStored'
  BY DEF TrackedIsStored, PackageStep, Begin, Extract, ExtractFails, StartUpload,
         CloseJobs, WaitGroupDone, PutArtifact, RecordPackageVersion, PackageFails
<1>2. ASSUME NEW q \in Packages
      PROVE  (Accounted(q) /\ WorkersInv(q) /\ ArtifactsInv(q) /\ TmpInv(q))'
  <2> USE DEF TypeOK, Accounted, WorkersInv, ArtifactsInv, TmpInv, IsTracked,
              Pending, AllTracked
  <2>1. CASE Begin(p)
    BY <2>1 DEF Begin
  <2>2. CASE Extract(p)
    BY <2>2 DEF Extract
  <2>3. CASE ExtractFails(p)
    BY <2>3 DEF ExtractFails
  <2>4. CASE StartUpload(p)
    BY <2>4 DEF StartUpload, DeduplicateFiles, FreshWorker
  <2>5. CASE CloseJobs(p)
    BY <2>5 DEF CloseJobs
  <2>6. CASE WaitGroupDone(p)
    <3>1. CASE q # p
      BY <2>6, <3>1 DEF WaitGroupDone
    <3>2. CASE q = p
      <4>1. \A i \in Positions(p) : ~ Pending(p, i)
        BY <2>6 DEF WaitGroupDone
      <4>2. AllTracked(p)
        BY <2>6, <4>1 DEF WaitGroupDone
      <4> QED BY <2>6, <3>2, <4>2 DEF WaitGroupDone
    <3> QED BY <3>1, <3>2
  <2>7. CASE PutArtifact(p)
    <3>1. \A k \in Artifacts : k < artifact[p] + 1 => k = artifact[p] \/ k < artifact[p]
      <4>1. artifact[p] \in 1 .. 7
        OBVIOUS
      <4> HIDE DEF IInv, TypeOK, Accounted, WorkersInv, ArtifactsInv, TmpInv
      <4> QED BY <4>1
    <3>2. AllTracked(p) /\ artifact'[p] = artifact[p] + 1
                       /\ ls'[p] = ls[p] \cup {artifact[p]}
      BY <2>7 DEF PutArtifact
    <3>3. p \in recorded => ls'[p] = Artifacts
      <4>1. p \in recorded => ls[p] = Artifacts
        OBVIOUS
      <4> QED BY <2>7, <3>2, <4>1 DEF PutArtifact
    <3>4. CASE q = p
      <4>1. stage' = stage /\ tmp' = tmp /\ feed' = feed /\ worker' = worker
                           /\ cat' = cat /\ tracked' = tracked /\ recorded' = recorded
        BY <2>7 DEF PutArtifact
      <4>2. ArtifactsInv(p)'
        BY <3>1, <3>2, <3>3, <4>1
      <4> QED BY <2>7, <3>4, <4>1, <4>2
    <3>5. CASE q # p
      BY <2>7, <3>5 DEF PutArtifact
    <3> QED BY <3>4, <3>5
  <2>8. CASE RecordPackageVersion(p)
    BY <2>8 DEF RecordPackageVersion
  <2>9. CASE PackageFails(p)
    BY <2>9 DEF PackageFails
  <2> QED BY <2>1, <2>2, <2>3, <2>4, <2>5, <2>6, <2>7, <2>8, <2>9 DEF PackageStep
<1> QED BY <1>1, <1>2

(***************************************************************************)
(* The upload workers keep the invariant.                                   *)
(***************************************************************************)
LEMMA WorkerStepInv ==
  ASSUME IInv, TypeOK', NEW p \in Packages, NEW w \in Workers, WorkerStep(p, w)
  PROVE  IInv'
<1> USE DEF IInv, SetWorker
<1>1. TrackedIsStored'
  <2> USE DEF TrackedIsStored, HashesAt, WorkersInv
  <2>1. CASE Receive(p, w) \/ WorkerPanics(p, w)
    BY <2>1 DEF Receive, WorkerPanics
  <2>2. CASE PutFile(p, w)
    BY <2>2 DEF PutFile
  <2>3. CASE PutFails(p, w)
    BY <2>3 DEF PutFails
  <2>4. CASE Checkpoint(p, w)
    BY <2>4 DEF Checkpoint
  <2>5. CASE RecordFinal(p, w)
    BY <2>5 DEF RecordFinal
  <2> QED BY <2>1, <2>2, <2>3, <2>4, <2>5 DEF WorkerStep
<1>2. ASSUME NEW q \in Packages
      PROVE  (Accounted(q) /\ WorkersInv(q) /\ ArtifactsInv(q) /\ TmpInv(q))'
  <2> USE DEF TypeOK, Accounted, WorkersInv, ArtifactsInv, TmpInv, IsTracked,
              Pending, AllTracked, WorkerStates
  <2>1. CASE Receive(p, w)
    <3>1. PICK i \in feed[p] :
            /\ worker' = [worker EXCEPT ![p][w] =
                 [at |-> "put", file |-> i, tries |-> 0,
                  held |-> worker[p][w].held]]
            /\ feed' = [feed EXCEPT ![p] = @ \ {i}]
      BY <2>1 DEF Receive
    <3>2. worker'[p][w] = [at |-> "put", file |-> i, tries |-> 0,
                           held |-> worker[p][w].held]
      BY <3>1
    <3>3. \A v \in Workers : worker'[q][v].held = worker[q][v].held
      BY <3>1, <3>2
    <3>4. \A v \in Workers : q # p \/ v # w => worker'[q][v] = worker[q][v]
      BY <3>1
    <3>5. WorkersInv(q)'
      BY <2>1, <3>1, <3>2, <3>3, <3>4 DEF Receive
    <3>6. ASSUME NEW j \in Positions(q), Pending(q, j) PROVE Pending(q, j)'
      BY <2>1, <3>1, <3>2, <3>3, <3>4, <3>6 DEF Receive
    <3>7. Accounted(q)'
      BY <2>1, <3>6 DEF Receive
    <3> QED BY <2>1, <3>5, <3>7 DEF Receive
  <2>2. CASE PutFile(p, w)
    <3> DEFINE i == worker[p][w].file
    <3>1. PICK at \in {"checkpoint", "receive"} :
            worker' = [worker EXCEPT ![p][w] =
              [at |-> at, file |-> 0, tries |-> 0,
               held |-> worker[p][w].held \cup {i}]]
      BY <2>2 DEF PutFile
    <3>2. worker'[p][w] = [at |-> at, file |-> 0, tries |-> 0,
                           held |-> worker[p][w].held \cup {i}]
      BY <3>1
    <3>3. \A v \in Workers : q # p \/ v # w => worker'[q][v] = worker[q][v]
      BY <3>1
    <3>4. cat \subseteq cat' /\ Tree[p][i] \in cat'
      BY <2>2 DEF PutFile
    <3>5. WorkersInv(q)'
      BY <2>2, <3>2, <3>3, <3>4 DEF PutFile
    <3>6. ASSUME NEW j \in Positions(q), Pending(q, j) PROVE Pending(q, j)'
      BY <2>2, <3>2, <3>3, <3>6 DEF PutFile
    <3>7. Accounted(q)'
      BY <2>2, <3>6 DEF PutFile
    <3> QED BY <2>2, <3>5, <3>7 DEF PutFile
  <2>3. CASE PutFails(p, w)
    <3>1. worker'[p][w].at = "put" /\ worker'[p][w].file = worker[p][w].file
                                  /\ worker'[p][w].held = worker[p][w].held
      BY <2>3 DEF PutFails
    <3>2. \A v \in Workers : q # p \/ v # w => worker'[q][v] = worker[q][v]
      BY <2>3 DEF PutFails
    <3>3. cat \subseteq cat' /\ worker[p][w].at = "put"
      BY <2>3 DEF PutFails
    <3>4. WorkersInv(q)'
      BY <2>3, <3>1, <3>2, <3>3 DEF PutFails
    <3>5. ASSUME NEW j \in Positions(q), Pending(q, j) PROVE Pending(q, j)'
      BY <2>3, <3>1, <3>2, <3>3, <3>5 DEF PutFails
    <3>6. Accounted(q)'
      BY <2>3, <3>5 DEF PutFails
    <3> QED BY <2>3, <3>4, <3>6 DEF PutFails
  <2>4. CASE Checkpoint(p, w)
    BY <2>4 DEF Checkpoint, HashesAt, FreshWorker, ExitedWorker
  <2>5. CASE RecordFinal(p, w)
    <3>1. worker'[p][w] = ExitedWorker
      BY <2>5 DEF RecordFinal
    <3>2. \A v \in Workers : q # p \/ v # w => worker'[q][v] = worker[q][v]
      BY <2>5 DEF RecordFinal
    <3>3. WorkersInv(q)'
      BY <2>5, <3>1, <3>2 DEF RecordFinal, ExitedWorker
    <3>4. tracked \subseteq tracked' /\ \A j \in worker[p][w].held : IsTracked(p, j)'
      BY <2>5 DEF RecordFinal, HashesAt
    <3>5. ASSUME NEW j \in Positions(q), Pending(q, j)
          PROVE  Pending(q, j)' \/ IsTracked(q, j)'
      BY <2>5, <3>1, <3>2, <3>4, <3>5 DEF RecordFinal
    <3>6. Accounted(q)'
      BY <2>5, <3>4, <3>5 DEF RecordFinal
    <3> QED BY <2>5, <3>3, <3>4, <3>6 DEF RecordFinal
  <2>6. CASE WorkerPanics(p, w)
    BY <2>6 DEF WorkerPanics
  <2> QED BY <2>1, <2>2, <2>3, <2>4, <2>5, <2>6 DEF WorkerStep
<1> QED BY <1>1, <1>2

LEMMA StepInv == IInv /\ [Next]_vars => IInv'
<1> SUFFICES ASSUME IInv, [Next]_vars PROVE IInv'
  OBVIOUS
<1>0. TypeOK'
  BY TypeStep DEF IInv
<1>1. CASE \E p \in Packages : PackageStep(p)
  BY <1>0, <1>1, PackageStepInv
<1>2. CASE \E p \in Packages, w \in Workers : WorkerStep(p, w)
  BY <1>0, <1>2, WorkerStepInv
<1> USE DEF IInv, TypeOK, TrackedIsStored, Accounted, WorkersInv, ArtifactsInv,
            TmpInv, IsTracked, Pending, AllTracked
<1>3. CASE Killed
  <2>1. UNCHANGED <<stored, tmp, runs, stage, feed, artifact, worker>>
    BY <1>3 DEF Killed
  <2> QED BY <1>0, <2>1
<1>4. CASE NextRun
  BY <1>0, <1>4 DEF NextRun, FreshWorker
<1>5. CASE UNCHANGED vars
  BY <1>0, <1>5 DEF vars
<1> QED BY <1>1, <1>2, <1>3, <1>4, <1>5 DEF Next

THEOREM Invariance == Spec => []IInv
BY InitInv, StepInv, PTL DEF Spec

(* The variables of the publisher's upload pipeline keep their types.        *)
THEOREM TypeCorrect == Spec => []TypeOK
<1>1. IInv => TypeOK
  BY DEF IInv
<1> QED BY <1>1, Invariance, PTL

(* A short hash in table `files` is always that of a stored file, in spite   *)
(* of failed uploads, crashes and packages processed side by side.           *)
THEOREM FilesTableSound == Spec => []TrackedIsStored
<1>1. IInv => TrackedIsStored
  BY DEF IInv
<1> QED BY <1>1, Invariance, PTL

(* A package whose tree is on `ls` has every file tracked, hence stored, but *)
(* for collisions of the truncated hash.                                     *)
THEOREM TreeServed == Spec => []ListedTreeIsServed
<1>1. IInv => ListedTreeIsServed
  <2> SUFFICES ASSUME IInv, NEW p \in Packages, ls[p] # {}, NEW i \in Positions(p)
               PROVE  Served(Tree[p][i])
    BY DEF ListedTreeIsServed
  <2>1. IsTracked(p, i)
    BY DEF IInv, ArtifactsInv, AllTracked
  <2>2. PICK f \in cat : Short[f] = Short[Tree[p][i]]
    BY <2>1 DEF IInv, TrackedIsStored, IsTracked
  <2> QED BY <2>2 DEF Served
<1> QED BY <1>1, Invariance, PTL

(* If the truncation to 64 bits has no collision, every file of a listed     *)
(* tree is stored under its own hash.                                        *)
THEOREM TreeServedExactly ==
  ASSUME \A f, g \in Files : Short[f] = Short[g] => f = g
  PROVE  Spec => [](\A p \in Packages :
                      ls[p] # {} => \A i \in Positions(p) : Tree[p][i] \in cat)
<1>1. IInv => \A p \in Packages :
                ls[p] # {} => \A i \in Positions(p) : Tree[p][i] \in cat
  <2> SUFFICES ASSUME IInv, NEW p \in Packages, ls[p] # {}, NEW i \in Positions(p)
               PROVE  Tree[p][i] \in cat
    OBVIOUS
  <2>1. IsTracked(p, i)
    BY DEF IInv, ArtifactsInv, AllTracked
  <2>2. PICK f \in cat : Short[f] = Short[Tree[p][i]]
    BY <2>1 DEF IInv, TrackedIsStored, IsTracked
  <2>3. f \in Files /\ Tree[p][i] \in Files
    BY TreeFacts DEF IInv, TypeOK
  <2> QED BY <2>2, <2>3
<1> QED BY <1>1, Invariance, PTL

(* A recorded version, which no later run processes, has all its artifacts   *)
(* and all its files.                                                        *)
THEOREM RecordedComplete == Spec => []RecordedIsComplete
<1>1. IInv => RecordedIsComplete
  <2> SUFFICES ASSUME IInv, NEW p \in recorded
               PROVE  ls[p] = Artifacts /\ HashesAt(p, Positions(p)) \subseteq tracked
    BY DEF RecordedIsComplete
  <2>1. p \in Packages /\ ArtifactsInv(p)
    BY DEF IInv, TypeOK
  <2>2. ls[p] = Artifacts /\ 1 \in Artifacts
    BY <2>1 DEF ArtifactsInv
  <2>3. AllTracked(p)
    BY <2>1, <2>2 DEF ArtifactsInv
  <2> QED BY <2>2, <2>3 DEF AllTracked, IsTracked, HashesAt
<1> QED BY <1>1, Invariance, PTL

(* The temporary directory exists whenever a worker reads from it.           *)
THEOREM ArchiveKept == Spec => []ArchiveOutlivesUploads
<1>1. IInv => ArchiveOutlivesUploads
  BY DEF IInv, WorkersInv, TmpInv, ArchiveOutlivesUploads
<1> QED BY <1>1, Invariance, PTL

(***************************************************************************)
(* What a worker holds and has not recorded.                                *)
(***************************************************************************)
BatchOK(state) ==
  /\ IsFiniteSet(state.held)
  /\ Cardinality(state.held) <= CheckpointLimit
  /\ state.at \in {"receive", "put"} => Cardinality(state.held) < CheckpointLimit

BatchInv == \A p \in Packages, w \in Workers : BatchOK(worker[p][w])

LEMMA EmptyBatches == BatchOK(FreshWorker) /\ BatchOK(ExitedWorker)
<1>1. IsFiniteSet({}) /\ Cardinality({}) = 0
  BY FS_EmptySet
<1>2. FreshWorker.held = {} /\ ExitedWorker.held = {}
  BY DEF FreshWorker, ExitedWorker
<1> QED BY <1>1, <1>2 DEF BatchOK

LEMMA BatchInit == Init => BatchInv
BY EmptyBatches DEF Init, BatchInv

(* One worker changes its batch, by a batch in order.                        *)
LEMMA SetBatch ==
  ASSUME TypeOK, BatchInv, NEW p \in Packages, NEW w \in Workers, NEW state,
         SetWorker(p, w, state), BatchOK(state)
  PROVE  BatchInv'
<1>1. worker \in [Packages -> [Workers -> WorkerStates]]
  BY DEF TypeOK
<1>2. worker' = [worker EXCEPT ![p][w] = state]
  BY DEF SetWorker
<1> SUFFICES ASSUME NEW q \in Packages, NEW v \in Workers PROVE BatchOK(worker'[q][v])
  BY DEF BatchInv, BatchOK
<1>3. CASE q = p /\ v = w
  <2>1. worker'[q][v] = state
    BY <1>1, <1>2, <1>3
  <2> QED BY <2>1
<1>4. CASE ~ (q = p /\ v = w)
  <2>1. worker'[q][v] = worker[q][v]
    BY <1>1, <1>2, <1>4
  <2> QED BY <2>1 DEF BatchInv
<1> QED BY <1>3, <1>4

LEMMA BatchWorker ==
  ASSUME TypeOK, BatchInv, NEW p \in Packages, NEW w \in Workers, WorkerStep(p, w)
  PROVE  BatchInv'
<1> DEFINE held == worker[p][w].held
<1>0. /\ IsFiniteSet(held) /\ Cardinality(held) \in Nat
      /\ worker[p][w].at \in {"receive", "put"} => Cardinality(held) < CheckpointLimit
  BY FS_CardinalityType DEF BatchInv, BatchOK
<1>1. CASE Receive(p, w)
  <2>1. PICK i \in feed[p] :
          SetWorker(p, w, [at |-> "put", file |-> i, tries |-> 0, held |-> held])
    BY <1>1 DEF Receive
  <2>2. BatchOK([at |-> "put", file |-> i, tries |-> 0, held |-> held])
    BY <1>0, <1>1 DEF Receive, BatchOK
  <2> QED BY <2>1, <2>2, SetBatch
<1>2. CASE PutFile(p, w)
  <2> DEFINE i     == worker[p][w].file
             more  == held \cup {i}
             state == [at |-> IF CheckpointDue(more) THEN "checkpoint" ELSE "receive",
                       file |-> 0, tries |-> 0, held |-> more]
  <2>1. SetWorker(p, w, state) /\ Cardinality(held) < CheckpointLimit
    BY <1>0, <1>2 DEF PutFile
  <2>2. /\ IsFiniteSet(more)
        /\ Cardinality(more) = Cardinality(held) \/ Cardinality(more) = Cardinality(held) + 1
    BY <1>0, FS_AddElement
  <2>3. Cardinality(more) \in Nat /\ Cardinality(more) <= CheckpointLimit
    <3> HIDE DEF held, more
    <3> QED BY <1>0, <2>1, <2>2
  <2>4. ~ CheckpointDue(more) => Cardinality(more) < CheckpointLimit
    <3> HIDE DEF held, more
    <3> QED BY <2>3 DEF CheckpointDue
  <2>5. /\ state.held = more
        /\ state.at = "receive" => ~ CheckpointDue(more)
        /\ state.at # "put"
    <3> HIDE DEF held, more
    <3> QED OBVIOUS
  <2>6. BatchOK(state)
    <3> HIDE DEF state, more
    <3> QED BY <2>2, <2>3, <2>4, <2>5 DEF BatchOK
  <2> HIDE DEF state
  <2> QED BY <2>1, <2>6, SetBatch
<1>3. CASE PutFails(p, w)
  <2> DEFINE state == [at |-> "put", file |-> worker[p][w].file,
                       tries |-> worker[p][w].tries + 1, held |-> held]
  <2>1. SetWorker(p, w, state) /\ Cardinality(held) < CheckpointLimit
    BY <1>0, <1>3 DEF PutFails
  <2>2. BatchOK(state)
    BY <1>0, <2>1 DEF BatchOK
  <2> HIDE DEF state
  <2> QED BY <2>1, <2>2, SetBatch
<1>4. CASE Checkpoint(p, w)
  BY <1>4, EmptyBatches, SetBatch DEF Checkpoint
<1>5. CASE RecordFinal(p, w)
  BY <1>5, EmptyBatches, SetBatch DEF RecordFinal
<1>6. CASE WorkerPanics(p, w)
  BY <1>6 DEF WorkerPanics, BatchInv, BatchOK
<1> QED BY <1>1, <1>2, <1>3, <1>4, <1>5, <1>6 DEF WorkerStep

LEMMA BatchStep == TypeOK /\ BatchInv /\ [Next]_vars => BatchInv'
<1> SUFFICES ASSUME TypeOK, BatchInv, [Next]_vars PROVE BatchInv'
  OBVIOUS
<1>1. ASSUME NEW p \in Packages, PackageStep(p) PROVE BatchInv'
  <2>1. CASE StartUpload(p)
    <3>1. worker' = [worker EXCEPT ![p] = [w \in Workers |-> FreshWorker]]
      BY <2>1 DEF StartUpload
    <3>2. worker \in [Packages -> [Workers -> WorkerStates]]
      BY DEF TypeOK
    <3>3. \A q \in Packages, v \in Workers :
            worker'[q][v] = worker[q][v] \/ worker'[q][v] = FreshWorker
      BY <3>1, <3>2
    <3> QED BY <3>3, EmptyBatches DEF BatchInv, BatchOK
  <2>2. CASE ~ StartUpload(p)
    <3>1. worker' = worker
      BY <1>1, <2>2 DEF PackageStep, Begin, Extract, ExtractFails, CloseJobs, WaitGroupDone,
                        PutArtifact, RecordPackageVersion, PackageFails
    <3> QED BY <3>1 DEF BatchInv, BatchOK
  <2> QED BY <2>1, <2>2
<1>2. ASSUME NEW p \in Packages, NEW w \in Workers, WorkerStep(p, w) PROVE BatchInv'
  BY <1>2, BatchWorker
<1>3. CASE Killed
  BY <1>3 DEF Killed, BatchInv, BatchOK
<1>4. CASE NextRun
  <2>1. \A q \in Packages, v \in Workers : worker'[q][v] = FreshWorker
    BY <1>4 DEF NextRun
  <2> QED BY <2>1, EmptyBatches DEF BatchInv, BatchOK
<1>5. CASE UNCHANGED vars
  BY <1>5 DEF vars, BatchInv, BatchOK
<1> QED BY <1>1, <1>2, <1>3, <1>4, <1>5 DEF Next

(* A process that is killed or panics loses at most CheckpointLimit uploads  *)
(* of each worker: what it holds unrecorded and the file it is sending.      *)
THEOREM LossBounded == Spec => []CheckpointBound
<1>1. BatchInv => CheckpointBound
  <2> SUFFICES ASSUME BatchInv, NEW p \in Packages, NEW w \in Workers
               PROVE  Cardinality(worker[p][w].held)
                        + (IF worker[p][w].at = "put" THEN 1 ELSE 0) <= CheckpointLimit
    BY DEF CheckpointBound
  <2>1. /\ Cardinality(worker[p][w].held) \in Nat
        /\ Cardinality(worker[p][w].held) <= CheckpointLimit
        /\ worker[p][w].at = "put" => Cardinality(worker[p][w].held) < CheckpointLimit
    BY FS_CardinalityType DEF BatchInv, BatchOK
  <2> QED BY <2>1
<1>2. IInv => TypeOK
  BY DEF IInv
<1> QED BY <1>1, <1>2, Invariance, BatchInit, BatchStep, PTL DEF Spec

=============================================================================
