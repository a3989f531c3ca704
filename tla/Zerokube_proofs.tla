--------------------------- MODULE Zerokube_proofs ---------------------------
(* What zerokube keeps to, for any numbers of container names, requests and  *)
(* restarts and any timeouts.  Names and the clean start hold with any       *)
(* number of concurrent deploys; the routing is proved for one at a time.    *)
EXTENDS Zerokube, SequenceTheorems, FiniteSetTheorems, TLAPS

(* What the phases of the process leave no room for: a process that cleans   *)
(* up has called nothing, and while main starts its container nothing else   *)
(* does.                                                                     *)
LifeInv ==
  /\ process \in {"down", "cleaning"} =>
       services = <<>> /\ start[Boot] = NoStart
  /\ process # "serving" =>
       /\ \A c \in Deployers : start[c] = NoStart
       /\ \A n \in Names : drain[n] = NoDrain
       /\ \A r \in Requests : req[r] = NoRequest
  /\ process = "starting" =>
       /\ start[Boot].at # "no" => services = <<>>
       /\ start[Boot].list = <<>>
       /\ start[Boot].at = "no" => start[Boot] = NoStart
  /\ process = "serving" => start[Boot] = NoStart

(* A name that is in use has a state directory, and no list that is or will  *)
(* be the service's has the name of a container that is being started.       *)
DirsInv ==
  /\ Elements(services) \subseteq dirs
  /\ \A c \in Callers :
       /\ start[c].at \in {"run", "probe", "append"} => start[c].name # NoName
       /\ start[c].name # NoName => start[c].name \in dirs
       /\ start[c].name \notin Elements(services)
       /\ Elements(start[c].list) \subseteq dirs
       /\ \A d \in Callers : start[d].name \notin Elements(start[c].list)

Distinct(list) == \A i, j \in DOMAIN list : list[i] = list[j] => i = j

ListsInv ==
  /\ Distinct(services)
  /\ \A c \in Callers : Distinct(start[c].list)

CallersInv ==
  \A c, d \in Callers :
    c # d /\ start[c].name # NoName => start[c].name # start[d].name

(* Until it listens, no container runs but the one of main.                  *)
BootInv ==
  process = "starting" /\ ~ exiting =>
    /\ start[Boot].at \in {"begin", "run"} => Leftover = {}
    /\ start[Boot].at \in {"probe", "append"} =>
         /\ Leftover \subseteq {start[Boot].name}
         /\ ctr[start[Boot].name] \in {"running", "exited"}
    /\ start[Boot].at = "no" =>
         /\ Len(services) = 1
         /\ Leftover \subseteq {services[1]}
         /\ ctr[services[1]] \in {"running", "exited"}

IInv == TypeOK /\ LifeInv /\ DirsInv /\ ListsInv /\ CallersInv /\ BootInv

-----------------------------------------------------------------------------
(* One deploy at a time.                                                     *)

OneDeploy == \A c, d \in Deployers : c = d

(* A caller that is about to append has read the list that is there.         *)
FreshInv ==
  \A c \in Callers : start[c].at = "append" => start[c].list = services

(* What gets requests, or will, was not stopped.                             *)
RunningInv ==
  ~ exiting =>
    /\ services # <<>> => ctr[Routed] \in {"running", "exited"}
    /\ \A c \in Callers :
         start[c].at \in {"probe", "append"} => ctr[start[c].name] \in {"running", "exited"}
    /\ \A r \in Requests : req[r] # NoRequest => ctr[req[r].name] \in {"running", "exited"}

(* A goroutine that stops containers stops superseded ones that no request   *)
(* is with, because one that sleeps sleeps longer than such a request lasts. *)
DrainInv ==
  \A n \in Names :
    /\ Elements(drain[n].queue) \subseteq Superseded
    /\ drain[n].at = "sleep" => n \in Elements(services)
    /\ \A r \in Requests :
         req[r] # NoRequest =>
           /\ req[r].name \notin Elements(drain[n].queue)
           /\ drain[n].at = "sleep" /\ req[r].name \in Before(n) =>
                req[r].left + ReadTimeout <= drain[n].wait

RequestsInv ==
  \A r \in Requests : req[r] # NoRequest => req[r].name \in Elements(services)

OneInv == FreshInv /\ RunningInv /\ DrainInv /\ RequestsInv

-----------------------------------------------------------------------------
(* Lemmas about the operators.                                               *)

LEMMA GraceType == Grace \in Nat /\ WriteTimeout \in Nat /\ ReadTimeout \in Nat /\ ReadTimeout > 0
<1>1. ReadTimeout \in Nat /\ ReadTimeout > 0 /\ WriteTimeout \in Nat
  BY TimeoutsType
<1>2. QED
  BY <1>1 DEF Grace

(* What a call of StartService writes to its own state.                      *)
LEMMA SetStartEffect ==
  ASSUME TypeOK, NEW c \in Callers, NEW at, NEW name, NEW list, SetStart(c, at, name, list)
  PROVE  /\ start'[c] = [at |-> at, name |-> name, list |-> list]
         /\ start'[c].at = at /\ start'[c].name = name /\ start'[c].list = list
         /\ \A d \in Callers : d # c => start'[d] = start[d]
<1>1. start' = [start EXCEPT ![c] = [at |-> at, name |-> name, list |-> list]]
  BY DEF SetStart
<1>2. DOMAIN start = Callers
  BY DEF TypeOK
<1>3. start'[c] = [at |-> at, name |-> name, list |-> list]
  BY <1>1, <1>2
<1>4. \A d \in Callers : d # c => start'[d] = start[d]
  BY <1>1, <1>2
<1>5. QED
  BY <1>3, <1>4

LEMMA SetStartType ==
  ASSUME TypeOK, NEW c \in Callers, NEW at \in {"no", "begin", "run", "probe", "append"},
         NEW name \in Names \cup {NoName}, NEW list \in Seq(Names),
         SetStart(c, at, name, list)
  PROVE  start' \in [Callers -> StartStates]
<1>1. start' = [start EXCEPT ![c] = [at |-> at, name |-> name, list |-> list]]
  BY DEF SetStart
<1>2. [at |-> at, name |-> name, list |-> list] \in StartStates
  BY DEF StartStates
<1>3. start \in [Callers -> StartStates]
  BY DEF TypeOK
<1>4. QED
  BY <1>1, <1>2, <1>3

LEMMA StartFields ==
  ASSUME TypeOK, NEW c \in Callers
  PROVE  /\ start[c].at \in {"no", "begin", "run", "probe", "append"}
         /\ start[c].name \in Names \cup {NoName}
         /\ start[c].list \in Seq(Names)
         /\ start[c] = [at |-> start[c].at, name |-> start[c].name, list |-> start[c].list]
<1>1. start[c] \in StartStates
  BY DEF TypeOK
<1>2. QED
  BY <1>1 DEF StartStates

LEMMA DrainFields ==
  ASSUME TypeOK, NEW n \in Names
  PROVE  /\ drain[n].at \in {"no", "sleep", "stop"}
         /\ drain[n].wait \in 0 .. Grace
         /\ drain[n].queue \in Seq(Names)
         /\ drain[n] = [at |-> drain[n].at, wait |-> drain[n].wait, queue |-> drain[n].queue]
<1>1. drain[n] \in DrainStates
  BY DEF TypeOK
<1>2. QED
  BY <1>1 DEF DrainStates

LEMMA SetQueue ==
  ASSUME NEW d, NEW q, d = [at |-> d.at, wait |-> d.wait, queue |-> d.queue]
  PROVE  [d EXCEPT !.queue = q] = [at |-> d.at, wait |-> d.wait, queue |-> q]
  OBVIOUS

LEMMA ReqFields ==
  ASSUME TypeOK, NEW r \in Requests
  PROVE  /\ req[r].name \in Names \cup {NoName}
         /\ req[r].left \in 0 .. WriteTimeout /\ req[r].left \in Nat
         /\ req[r] = [name |-> req[r].name, left |-> req[r].left]
<1>1. /\ req[r].name \in Names \cup {NoName}
      /\ req[r].left \in 0 .. WriteTimeout
      /\ req[r] = [name |-> req[r].name, left |-> req[r].left]
  BY DEF TypeOK
<1>2. \A n \in 0 .. WriteTimeout : n \in Nat
  BY GraceType
<1>3. QED
  BY <1>1, <1>2

LEMMA EmptyElements == Elements(<<>>) = {} /\ Distinct(<<>>)
<1>1. DOMAIN <<>> = {}
  BY EmptySeq, LenProperties
<1>2. QED
  BY <1>1 DEF Elements, Distinct

LEMMA AppendElements ==
  ASSUME NEW list \in Seq(Names), NEW n \in Names
  PROVE  /\ Append(list, n) \in Seq(Names)
         /\ Append(list, n) # <<>>
         /\ Len(Append(list, n)) = Len(list) + 1
         /\ DOMAIN Append(list, n) = 1 .. Len(list) + 1
         /\ Append(list, n)[Len(list) + 1] = n
         /\ \A i \in 1 .. Len(list) : Append(list, n)[i] = list[i]
         /\ Elements(Append(list, n)) = Elements(list) \cup {n}
<1>1. /\ Append(list, n) \in Seq(Names)
      /\ Len(Append(list, n)) = Len(list) + 1
      /\ Append(list, n)[Len(list) + 1] = n
      /\ \A i \in 1 .. Len(list) : Append(list, n)[i] = list[i]
  OBVIOUS
<1>2. Len(list) \in Nat /\ DOMAIN list = 1 .. Len(list)
  BY LenProperties
<1>3. DOMAIN Append(list, n) = 1 .. Len(list) + 1
  BY <1>1, LenProperties
<1>4. Elements(Append(list, n)) = Elements(list) \cup {n}
  <2>1. 1 .. Len(list) + 1 = (1 .. Len(list)) \cup {Len(list) + 1}
    BY <1>2
  <2>2. QED
    BY <1>1, <1>2, <1>3, <2>1 DEF Elements
<1>5. Append(list, n) # <<>>
  BY <1>1, <1>2, EmptySeq
<1>6. QED
  BY <1>1, <1>3, <1>4, <1>5

LEMMA AppendDistinct ==
  ASSUME NEW list \in Seq(Names), NEW n \in Names, Distinct(list), n \notin Elements(list)
  PROVE  Distinct(Append(list, n))
<1>1. Len(list) \in Nat /\ DOMAIN list = 1 .. Len(list)
  BY LenProperties
<1>2. \A i \in 1 .. Len(list) : list[i] # n
  BY <1>1 DEF Elements
<1>3. \A i, j \in 1 .. Len(list) : list[i] = list[j] => i = j
  BY <1>1 DEF Distinct
<1>4. \A i \in 1 .. Len(list) + 1 : i \in 1 .. Len(list) \/ i = Len(list) + 1
  BY <1>1
<1>5. QED
  BY <1>1, <1>2, <1>3, <1>4, AppendElements DEF Distinct

LEMMA TailElements ==
  ASSUME NEW list \in Seq(Names), list # <<>>
  PROVE  /\ Head(list) \in Elements(list)
         /\ Tail(list) \in Seq(Names)
         /\ Elements(Tail(list)) \subseteq Elements(list)
         /\ \A n \in Elements(list) : n = Head(list) \/ n \in Elements(Tail(list))
<1>1. /\ Len(list) \in Nat /\ Len(list) > 0 /\ DOMAIN list = 1 .. Len(list)
  BY LenProperties, EmptySeq
<1>2. /\ Tail(list) \in Seq(Names) /\ Len(Tail(list)) = Len(list) - 1
      /\ \A i \in 1 .. Len(Tail(list)) : Tail(list)[i] = list[i + 1]
  BY HeadTailProperties
<1>3. DOMAIN Tail(list) = 1 .. Len(list) - 1
  BY <1>2, LenProperties
<1>4. Head(list) = list[1]
  BY <1>1
<1>5. Elements(Tail(list)) \subseteq Elements(list)
  BY <1>1, <1>2, <1>3 DEF Elements
<1>6. ASSUME NEW n \in Elements(list), n # Head(list)
      PROVE  n \in Elements(Tail(list))
  <2>1. PICK i \in 1 .. Len(list) : n = list[i]
    BY <1>1 DEF Elements
  <2>2. i - 1 \in 1 .. Len(list) - 1 /\ (i - 1) + 1 = i
    BY <1>1, <1>4, <1>6, <2>1
  <2>3. Tail(list)[i - 1] = n
    BY <1>2, <2>1, <2>2
  <2>4. QED
    BY <1>3, <2>2, <2>3 DEF Elements
<1>7. QED
  BY <1>1, <1>2, <1>4, <1>5, <1>6 DEF Elements

(* The loop over the list that ends at n visits what is before n, and all of *)
(* the list when n is not in it.                                             *)
LEMMA DrainListElements ==
  ASSUME services \in Seq(Names), Distinct(services), NEW n
  PROVE  DrainList(n) \in Seq(Names) /\ Elements(DrainList(n)) = Before(n)
<1> DEFINE L == Len(services)
           before == {i \in DOMAIN services : \A j \in 1 .. i : services[j] # n}
<1>1. L \in Nat /\ DOMAIN services = 1 .. L
  BY LenProperties
<1>2. \E k \in 0 .. L : before = 1 .. k
  <2>1. CASE n \notin Elements(services)
    <3>1. \A j \in 1 .. L : services[j] # n
      BY <2>1, <1>1 DEF Elements
    <3>2. before = 1 .. L
      BY <3>1, <1>1
    <3>3. QED
      BY <3>2, <1>1
  <2>2. CASE n \in Elements(services)
    <3>1. PICK k \in 1 .. L : services[k] = n
      BY <2>2, <1>1 DEF Elements
    <3>2. \A j \in 1 .. L : services[j] = n => j = k
      BY <3>1, <1>1 DEF Distinct
    <3>3. before = 1 .. (k - 1)
      BY <3>1, <3>2, <1>1
    <3>4. k - 1 \in 0 .. L
      BY <1>1
    <3>5. QED
      BY <3>3, <3>4
  <2>3. QED
    BY <2>1, <2>2
<1>3. PICK k \in 0 .. L : before = 1 .. k
  BY <1>2
<1>4. Cardinality(before) = k
  <2>1. k \in Nat
    BY <1>1
  <2>2. Cardinality(1 .. k) = IF 1 > k THEN 0 ELSE k - 1 + 1
    BY <2>1, FS_Interval
  <2>3. Cardinality(1 .. k) = k
    BY <2>1, <2>2
  <2>4. QED
    BY <1>3, <2>3
<1>5. DrainList(n) = SubSeq(services, 1, k)
  BY <1>4 DEF DrainList
<1>6. \A i \in 1 .. k : services[i] \in Names
  BY <1>1, ElementOfSeq
<1>7. /\ SubSeq(services, 1, k) \in Seq(Names)
      /\ Len(SubSeq(services, 1, k)) = k
      /\ \A i \in 1 .. k : SubSeq(services, 1, k)[i] = services[i]
  <2>1. 1 \in Int /\ k \in Int
    BY <1>1
  <2>2. /\ SubSeq(services, 1, k) \in Seq(Names)
        /\ Len(SubSeq(services, 1, k)) = IF 1 <= k THEN k - 1 + 1 ELSE 0
        /\ \A i \in 1 .. k - 1 + 1 : SubSeq(services, 1, k)[i] = services[1 + i - 1]
    BY <2>1, <1>6, SubSeqProperties
  <2>3. k \in Nat
    BY <1>1
  <2>4. QED
    BY <2>2, <2>3
<1>8. DOMAIN DrainList(n) = 1 .. k
  BY <1>5, <1>7, LenProperties
<1>9. Elements(DrainList(n)) = {services[i] : i \in before}
  BY <1>3, <1>5, <1>7, <1>8 DEF Elements
<1>10. QED
  BY <1>5, <1>7, <1>9 DEF Before

-----------------------------------------------------------------------------
(* The steps, grouped by what they change.                                   *)

(* A request to /deploy that fails: its container may have been left in any  *)
(* state, the others and the directories are as they were.                   *)
GiveUp(c) ==
  /\ c \in Deployers /\ start[c].at \in {"begin", "run", "probe"}
  /\ SetStart(c, "no", NoName, <<>>)
  /\ ctr' \in [Names -> ContainerStates]
  /\ \A n \in Names : ctr'[n] # ctr[n] =>
       /\ n = start[c].name
       /\ start[c].at = "run" => ctr[n] = "absent"
  /\ UNCHANGED <<life, dirs, services, drain, req>>

(* The memory of the process is gone, whatever ended it.                     *)
Restart == Down /\ ctr' \in [Names -> ContainerStates] /\ dirs' \subseteq Names

LEMMA FailStep ==
  ASSUME TypeOK, NEW c \in Callers, NameTaken(c) \/ RunFails(c) \/ ProbeFails(c)
  PROVE  GiveUp(c) \/ Restart
<1>1. ctr \in [Names -> ContainerStates] /\ dirs \subseteq Names
  BY DEF TypeOK, ContainerStates
<1>2. CASE NameTaken(c)
  <2>1. start[c].at = "begin" /\ ctr' = ctr /\ dirs' = dirs
    BY <1>2 DEF NameTaken, docker
  <2>2. QED
    BY <1>1, <1>2, <2>1 DEF NameTaken, StartFails, GiveUp, Restart
<1>3. CASE RunFails(c)
  <2>1. start[c].at = "run" /\ dirs' = dirs
    BY <1>3 DEF RunFails
  <2>2. /\ ctr' \in [Names -> ContainerStates]
        /\ \A n \in Names : ctr'[n] # ctr[n] => n = start[c].name /\ ctr[n] = "absent"
    <3>1. CASE ctr' = ctr
      BY <1>1, <3>1
    <3>2. CASE ctr[start[c].name] = "absent" /\ \E state \in {"created", "running"} :
                 ctr' = [ctr EXCEPT ![start[c].name] = state]
      BY <1>1, <3>2 DEF ContainerStates
    <3>3. QED
      BY <1>3, <3>1, <3>2 DEF RunFails
  <2>3. QED
    BY <1>1, <1>3, <2>1, <2>2 DEF RunFails, StartFails, GiveUp, Restart
<1>4. CASE ProbeFails(c)
  <2>1. start[c].at = "probe" /\ dirs' = dirs
    BY <1>4 DEF ProbeFails
  <2>2. /\ ctr' \in [Names -> ContainerStates]
        /\ \A n \in Names : ctr'[n] # ctr[n] => n = start[c].name
    BY <1>1, <1>4 DEF ProbeFails, ContainerStates
  <2>3. QED
    BY <1>1, <1>4, <2>1, <2>2 DEF ProbeFails, StartFails, GiveUp, Restart
<1>5. QED
  BY <1>2, <1>3, <1>4

LEMMA RestartStep ==
  ASSUME TypeOK, Killed \/ CleaningFails \/ Exit
  PROVE  Restart
<1>1. ctr \in [Names -> ContainerStates] /\ dirs \subseteq Names
  BY DEF TypeOK, ContainerStates
<1>2. Down /\ ctr' = ctr /\ dirs' = dirs
  BY DEF Killed, CleaningFails, Exit, docker
<1>3. QED
  BY <1>1, <1>2 DEF Restart

(* The steps of a call that do not fail.                                     *)
Advance(c) == Deploy(c) \/ MakeStateDir(c) \/ RunContainer(c) \/ Probe(c)

(* A step of Docker, of the goroutines or of the handler of the signal.      *)
StopStep ==
  \/ \E n \in Names : CleanContainer(n) \/ StopSuperseded(n)
                    \/ ContainerStops(n) \/ ContainerExits(n)
  \/ StopOnExit

QueueStep ==
  \E n \in Names : WakeUp(n) \/ StopReturns(n) \/ StopFails(n) \/ DrainEnds(n)

RequestStep == Tick \/ \E r \in Requests : Route(r) \/ Respond(r)

LEMMA Steps ==
  ASSUME TypeOK, Next
  PROVE  \/ Restart \/ StartProcess \/ CleanDirs \/ Listen \/ Signal
         \/ \E c \in Callers : GiveUp(c) \/ Advance(c) \/ AppendService(c)
         \/ StopStep \/ QueueStep \/ RequestStep
<1>1. CASE ProcessStep
  BY <1>1, RestartStep DEF ProcessStep, StopStep
<1>2. CASE Killed \/ Signal \/ Tick
  BY <1>2, RestartStep DEF RequestStep
<1>3. ASSUME NEW c \in Callers, Deploy(c) \/ StartStep(c)
      PROVE  Restart \/ GiveUp(c) \/ Advance(c) \/ AppendService(c)
  BY <1>3, FailStep DEF StartStep, Advance
<1>4. CASE \E n \in Names : DrainStep(n) \/ ContainerStops(n) \/ ContainerExits(n)
  BY <1>4 DEF DrainStep, QueueStep, StopStep
<1>5. CASE \E r \in Requests : Route(r) \/ Respond(r)
  BY <1>5 DEF RequestStep
<1>6. QED
  BY <1>1, <1>2, <1>3, <1>4, <1>5 DEF Next

(* Such a step starts no container.                                          *)
LEMMA StopRuns ==
  ASSUME TypeOK, StopStep, NEW m \in Names, Running(m)'
  PROVE  Running(m)
<1>1. \/ ctr' = ctr
      \/ \E n : \/ ctr' = [ctr EXCEPT ![n] = "stopped"]
                \/ ctr' = [ctr EXCEPT ![n] = "exited"]
                \/ ctr[n] = "running" /\ ctr' = [ctr EXCEPT ![n] = "stopping"]
  BY DEF StopStep, CleanContainer, StopSuperseded, ContainerStops, ContainerExits,
         StopOnExit, SendStop
<1>2. DOMAIN ctr = Names
  BY DEF TypeOK
<1>3. QED
  BY <1>1, <1>2 DEF Running

-----------------------------------------------------------------------------
(* A process that has ended leaves nothing but Docker's state.               *)

LEMMA BlankTypes ==
  /\ NoStart \in StartStates /\ NoDrain \in DrainStates
  /\ NoRequest \in [name : Names \cup {NoName}, left : 0 .. WriteTimeout]
<1>1. <<>> \in Seq(Names)
  BY EmptySeq
<1>2. 0 \in 0 .. Grace /\ 0 \in 0 .. WriteTimeout
  BY GraceType
<1>3. QED
  BY <1>1, <1>2 DEF NoStart, NoDrain, NoRequest, StartStates, DrainStates

LEMMA BlankFields ==
  /\ NoStart.at = "no" /\ NoStart.name = NoName /\ NoStart.list = <<>>
  /\ NoDrain.at = "no" /\ NoDrain.wait = 0 /\ NoDrain.queue = <<>>
  BY DEF NoStart, NoDrain

(* A state in which no process runs, or has just begun.                      *)
Blank ==
  /\ process \in {"down", "cleaning"} /\ services = <<>>
  /\ \A c \in Callers : start[c] = NoStart
  /\ \A n \in Names : drain[n] = NoDrain
  /\ \A r \in Requests : req[r] = NoRequest

LEMMA BlankInv == TypeOK /\ Blank => IInv /\ OneInv
<1> SUFFICES ASSUME TypeOK, Blank PROVE IInv /\ OneInv
  OBVIOUS
<1> USE DEF Blank
<1>1. \A c \in Callers : /\ start[c].at = "no" /\ start[c].name = NoName
                         /\ start[c].list = <<>>
  BY BlankFields
<1>2. Elements(services) = {} /\ Distinct(services)
  BY EmptyElements
<1>3. \A c \in Callers : Elements(start[c].list) = {} /\ Distinct(start[c].list)
  BY <1>1, EmptyElements
<1>4. LifeInv
  <2>1. Boot \in Callers /\ Deployers \subseteq Callers
    BY DEF Callers
  <2>2. QED
    BY <2>1, <1>1 DEF LifeInv
<1>5. DirsInv
  BY <1>1, <1>2, <1>3 DEF DirsInv
<1>6. ListsInv /\ CallersInv /\ BootInv
  BY <1>1, <1>2, <1>3 DEF ListsInv, CallersInv, BootInv
<1>7. FreshInv /\ RequestsInv /\ RunningInv
  BY <1>1 DEF FreshInv, RequestsInv, RunningInv
<1>8. DrainInv
  <2>1. \A n \in Names : drain[n].at = "no" /\ Elements(drain[n].queue) = {}
    BY BlankFields, EmptyElements
  <2>2. QED
    BY <2>1 DEF DrainInv
<1>9. QED
  BY <1>4, <1>5, <1>6, <1>7, <1>8 DEF IInv, OneInv

LEMMA BlankNext == (TypeOK /\ Blank)' => IInv' /\ OneInv'
  BY BlankInv, PTL

LEMMA InitInv == Init => IInv /\ OneInv
<1> SUFFICES ASSUME Init PROVE IInv /\ OneInv
  OBVIOUS
<1>1. TypeOK
  <2>1. <<>> \in Seq(Names)
    BY EmptySeq
  <2>2. /\ process \in {"down", "cleaning", "starting", "serving"}
        /\ boots \in Nat /\ exiting \in BOOLEAN /\ exitQueue \in Seq(Names)
        /\ ctr \in [Names -> ContainerStates]
        /\ failed \subseteq Names
        /\ dirs \subseteq Names /\ services \in Seq(Names)
    BY <2>1 DEF Init, ContainerStates
  <2>3. /\ start \in [Callers -> StartStates]
        /\ drain \in [Names -> DrainStates]
        /\ req \in [Requests -> [name : Names \cup {NoName}, left : 0 .. WriteTimeout]]
    BY BlankTypes DEF Init
  <2>4. QED
    BY <2>2, <2>3 DEF TypeOK
<1>2. /\ \A c \in Callers : start[c] = NoStart
      /\ \A n \in Names : drain[n] = NoDrain
      /\ \A r \in Requests : req[r] = NoRequest
  BY DEF Init
<1>3. Blank
  BY <1>2 DEF Blank, Init
<1>4. QED
  BY <1>1, <1>3, BlankInv

LEMMA RestartInv ==
  ASSUME TypeOK, Restart
  PROVE  IInv' /\ OneInv'
<1>1. /\ process' = "down" /\ boots' = boots /\ exiting' = FALSE /\ exitQueue' = <<>>
      /\ failed' = {} /\ services' = <<>>
      /\ start' = [c \in Callers |-> NoStart]
      /\ drain' = [n \in Names |-> NoDrain]
      /\ req' = [r \in Requests |-> NoRequest]
  BY DEF Restart, Down, Forget
<1>2. TypeOK'
  <2>1. <<>> \in Seq(Names)
    BY EmptySeq
  <2>2. /\ process' \in {"down", "cleaning", "starting", "serving"}
        /\ boots' \in Nat /\ exiting' \in BOOLEAN /\ exitQueue' \in Seq(Names)
        /\ ctr' \in [Names -> ContainerStates]
        /\ failed' \subseteq Names
        /\ dirs' \subseteq Names /\ services' \in Seq(Names)
    BY <1>1, <2>1 DEF Restart, TypeOK, ContainerStates
  <2>3. /\ start' \in [Callers -> StartStates]
        /\ drain' \in [Names -> DrainStates]
        /\ req' \in [Requests -> [name : Names \cup {NoName}, left : 0 .. WriteTimeout]]
    BY <1>1, BlankTypes
  <2>4. QED
    BY <2>2, <2>3 DEF TypeOK
<1>3. /\ \A c \in Callers : start'[c] = NoStart
      /\ \A n \in Names : drain'[n] = NoDrain
      /\ \A r \in Requests : req'[r] = NoRequest
  BY <1>1
<1>4. Blank'
  BY <1>1, <1>3 DEF Blank
<1>5. QED
  BY <1>2, <1>4, BlankNext

-----------------------------------------------------------------------------
(* A call in progress: of requests while serving, of main while starting.    *)
LEMMA InCall ==
  ASSUME IInv, NEW c \in Callers, start[c].at # "no"
  PROVE  \/ process = "serving" /\ c \in Deployers /\ c # Boot
         \/ process = "starting" /\ c = Boot
<1>1. NoStart.at = "no"
  BY BlankFields
<1>2. process \in {"down", "cleaning", "starting", "serving"} /\ LifeInv
  BY DEF IInv, TypeOK
<1>3. c \in Deployers \/ c = Boot
  BY DEF Callers
<1>4. QED
  BY <1>1, <1>2, <1>3, BootType DEF LifeInv

LEMMA NamedOrNot ==
  ASSUME TypeOK, NEW c \in Callers
  PROVE  NoName \notin Elements(services) /\ NoName \notin Elements(start[c].list)
<1>1. \A list \in Seq(Names) : NoName \notin Elements(list)
  <2> TAKE list \in Seq(Names)
  <2>1. \A i \in DOMAIN list : list[i] \in Names
    BY LenProperties, ElementOfSeq
  <2>2. QED
    BY <2>1, NamesType DEF Elements
<1>2. QED
  BY <1>1, StartFields DEF TypeOK

(* What a call may write about itself, and the names stay apart.             *)
LEMMA CallChange ==
  ASSUME IInv, NEW c \in Callers, NEW at, NEW name, NEW list,
         SetStart(c, at, name, list), services' = services, dirs \subseteq dirs',
         at \in {"run", "probe", "append"} => name # NoName,
         name # NoName => name \in dirs',
         name \notin Elements(services), name \notin Elements(list),
         \A d \in Callers : d # c =>
            /\ name # NoName => start[d].name # name
            /\ name \notin Elements(start[d].list)
            /\ start[d].name \notin Elements(list),
         Elements(list) \subseteq dirs, Distinct(list)
  PROVE  DirsInv' /\ ListsInv' /\ CallersInv'
<1>1. TypeOK /\ DirsInv /\ ListsInv /\ CallersInv
  BY DEF IInv
<1>2. /\ start'[c].at = at /\ start'[c].name = name /\ start'[c].list = list
      /\ \A d \in Callers : d # c => start'[d] = start[d]
  <2>1. TypeOK /\ SetStart(c, at, name, list)
    BY <1>1
  <2>2. QED
    BY ONLY <2>1, c \in Callers, SetStartEffect
<1>3. ListsInv'
  <2>1. \A d \in Callers : Distinct(start'[d].list)
    BY <1>1, <1>2 DEF ListsInv
  <2>2. QED
    BY <1>1, <2>1 DEF ListsInv, Distinct
<1>4. CallersInv'
  BY <1>1, <1>2 DEF CallersInv
<1>5. DirsInv'
  <2>1. Elements(services)' = Elements(services)
    BY DEF Elements
  <2>2. \A d \in Callers : Elements(start[d].list)' = IF d = c THEN Elements(list)
                                                     ELSE Elements(start[d].list)
    BY <1>2 DEF Elements
  <2>3. Elements(services)' \subseteq dirs'
    BY <1>1, <2>1 DEF DirsInv
  <2>4. ASSUME NEW d \in Callers
        PROVE  /\ start'[d].at \in {"run", "probe", "append"} => start'[d].name # NoName
               /\ start'[d].name # NoName => start'[d].name \in dirs'
               /\ start'[d].name \notin Elements(services)'
               /\ Elements(start[d].list)' \subseteq dirs'
    BY <1>1, <1>2, <2>1, <2>2 DEF DirsInv
  <2>5. ASSUME NEW d \in Callers, NEW e \in Callers
        PROVE  start'[e].name \notin Elements(start[d].list)'
    BY <1>1, <1>2, <2>2 DEF DirsInv
  <2>6. QED
    BY <2>3, <2>4, <2>5 DEF DirsInv
<1>6. QED
  BY <1>3, <1>4, <1>5

(* While serving, the phases and main's container are out of the way.        *)
LEMMA ServingLife ==
  ASSUME LifeInv, process = "serving", process' = "serving", start'[Boot] = start[Boot]
  PROVE  LifeInv' /\ BootInv'
  BY DEF LifeInv, BootInv

LEMMA GiveUpInv ==
  ASSUME IInv, NEW c \in Callers, GiveUp(c)
  PROVE  IInv'
<1>1. TypeOK /\ LifeInv
  BY DEF IInv
<1>2. process = "serving" /\ c \in Deployers /\ c # Boot
  BY InCall, BootType DEF GiveUp
<1>3. /\ SetStart(c, "no", NoName, <<>>)
      /\ process' = process /\ boots' = boots /\ exiting' = exiting
      /\ exitQueue' = exitQueue /\ failed' = failed /\ dirs' = dirs /\ services' = services
      /\ drain' = drain /\ req' = req
      /\ ctr' \in [Names -> ContainerStates]
  BY DEF GiveUp, life
<1>4. <<>> \in Seq(Names)
  BY EmptySeq
<1>5. start' \in [Callers -> StartStates]
  BY <1>1, <1>3, <1>4, SetStartType
<1>6. TypeOK'
  BY <1>1, <1>3, <1>5 DEF TypeOK, ContainerStates
<1>7. start'[Boot] = start[Boot]
  <2>1. Boot \in Callers
    BY DEF Callers
  <2>2. QED
    BY <1>1, <1>2, <1>3, <2>1, SetStartEffect
<1>8. LifeInv' /\ BootInv'
  BY <1>1, <1>2, <1>3, <1>7, ServingLife
<1>9. DirsInv' /\ ListsInv' /\ CallersInv'
  <2>1. NoName \notin Elements(services)
    BY <1>1, NamedOrNot
  <2>2. \A d \in Callers : NoName \notin Elements(start[d].list)
    BY <1>1, NamedOrNot
  <2>3. Elements(<<>>) = {} /\ Distinct(<<>>)
    BY EmptyElements
  <2>4. QED
    BY <1>3, <2>1, <2>2, <2>3, CallChange
<1>10. QED
  BY <1>6, <1>8, <1>9 DEF IInv

LEMMA DeployInv ==
  ASSUME IInv, NEW c \in Callers, Deploy(c)
  PROVE  IInv'
<1>1. TypeOK /\ LifeInv
  BY DEF IInv
<1>2. process = "serving" /\ c \in Deployers /\ c # Boot
  BY BootType DEF Deploy
<1>3. /\ SetStart(c, "begin", NoName, <<>>)
      /\ process' = process /\ boots' = boots /\ exiting' = exiting
      /\ exitQueue' = exitQueue /\ failed' = failed /\ ctr' = ctr /\ dirs' = dirs /\ services' = services
      /\ drain' = drain /\ req' = req
  BY DEF Deploy, life, docker
<1>4. <<>> \in Seq(Names)
  BY EmptySeq
<1>5. start' \in [Callers -> StartStates]
  BY <1>1, <1>3, <1>4, SetStartType
<1>6. TypeOK'
  BY <1>1, <1>3, <1>5 DEF TypeOK
<1>7. start'[Boot] = start[Boot]
  <2>1. Boot \in Callers
    BY DEF Callers
  <2>2. QED
    BY <1>1, <1>2, <1>3, <2>1, SetStartEffect
<1>8. LifeInv' /\ BootInv'
  BY <1>1, <1>2, <1>3, <1>7, ServingLife
<1>9. DirsInv' /\ ListsInv' /\ CallersInv'
  <2>1. NoName \notin Elements(services)
    BY <1>1, NamedOrNot
  <2>2. \A d \in Callers : NoName \notin Elements(start[d].list)
    BY <1>1, NamedOrNot
  <2>3. Elements(<<>>) = {} /\ Distinct(<<>>)
    BY EmptyElements
  <2>4. QED
    BY <1>3, <2>1, <2>2, <2>3, CallChange
<1>10. QED
  BY <1>6, <1>8, <1>9 DEF IInv

(* A step of a call leaves the phase as it is, also when main is the caller. *)
LEMMA CallLife ==
  ASSUME IInv, NEW c \in Callers, start[c].at # "no",
         NEW at, NEW name, NEW list, SetStart(c, at, name, list),
         at # "no", list = <<>> \/ list = services,
         process' = process, services' = services, drain' = drain, req' = req
  PROVE  LifeInv'
<1>1. TypeOK /\ LifeInv
  BY DEF IInv
<1>2. /\ start'[c].at = at /\ start'[c].list = list
      /\ \A d \in Callers : d # c => start'[d] = start[d]
  <2>1. TypeOK /\ SetStart(c, at, name, list)
    BY <1>1
  <2>2. QED
    BY ONLY <2>1, c \in Callers, SetStartEffect
<1>3. Boot \in Callers /\ Deployers \subseteq Callers
  BY DEF Callers
<1>4. CASE process = "serving" /\ c # Boot
  BY <1>1, <1>2, <1>3, <1>4 DEF LifeInv
<1>5. CASE process = "starting" /\ c = Boot
  <2>1. /\ services = <<>>
        /\ \A d \in Deployers : d # Boot
    BY <1>1, <1>5, BootType DEF LifeInv
  <2>2. \A d \in Deployers : start'[d] = start[d]
    BY <1>2, <1>3, <1>5, <2>1
  <2>3. QED
    BY <1>1, <1>2, <1>5, <2>1, <2>2 DEF LifeInv
<1>6. QED
  BY <1>4, <1>5, InCall

LEMMA MakeStateDirInv ==
  ASSUME IInv, NEW c \in Callers, MakeStateDir(c)
  PROVE  IInv'
<1>1. TypeOK /\ DirsInv /\ BootInv
  BY DEF IInv
<1>2. PICK n \in Names \ dirs : dirs' = dirs \cup {n} /\ SetStart(c, "run", n, <<>>)
  BY DEF MakeStateDir
<1>3. /\ start[c].at = "begin"
      /\ process' = process /\ boots' = boots /\ exiting' = exiting
      /\ exitQueue' = exitQueue /\ failed' = failed /\ ctr' = ctr /\ services' = services
      /\ drain' = drain /\ req' = req
  BY DEF MakeStateDir, life
<1>4. <<>> \in Seq(Names)
  BY EmptySeq
<1>5. start' \in [Callers -> StartStates]
  BY <1>1, <1>2, <1>4, SetStartType
<1>6. TypeOK'
  BY <1>1, <1>2, <1>3, <1>5 DEF TypeOK
<1>7. LifeInv'
  BY <1>2, <1>3, CallLife
<1>8. BootInv'
  <2>1. start'[c].at = "run" /\ \A d \in Callers : d # c => start'[d] = start[d]
    BY <1>1, <1>2, SetStartEffect
  <2>2. Leftover' = Leftover
    BY <1>3 DEF Leftover, Running
  <2>3. process = "serving" \/ c = Boot
    BY <1>3, InCall
  <2>4. QED
    BY <1>1, <1>3, <2>1, <2>2, <2>3 DEF BootInv
<1>9. DirsInv' /\ ListsInv' /\ CallersInv'
  <2>1. n # NoName /\ n \notin Elements(services)
    BY <1>1, NamesType DEF DirsInv
  <2>2. \A d \in Callers : n \notin Elements(start[d].list) /\ n # start[d].name
    BY <1>1, NamesType DEF DirsInv
  <2>3. Elements(<<>>) = {} /\ Distinct(<<>>)
    BY EmptyElements
  <2>4. QED
    BY <1>2, <1>3, <2>1, <2>2, <2>3, CallChange
<1>10. QED
  BY <1>6, <1>7, <1>8, <1>9 DEF IInv

LEMMA RunContainerInv ==
  ASSUME IInv, NEW c \in Callers, RunContainer(c)
  PROVE  IInv'
<1>1. TypeOK /\ DirsInv /\ BootInv /\ CallersInv
  BY DEF IInv
<1> DEFINE n == start[c].name
<1>2. /\ start[c].at = "run" /\ n \in Names /\ n # NoName
      /\ SetStart(c, "probe", n, <<>>)
      /\ ctr' = [ctr EXCEPT ![n] = "running"]
      /\ process' = process /\ boots' = boots /\ exiting' = exiting
      /\ exitQueue' = exitQueue /\ failed' = failed /\ dirs' = dirs /\ services' = services
      /\ drain' = drain /\ req' = req
  BY <1>1, StartFields DEF RunContainer, life, DirsInv
<1>3. <<>> \in Seq(Names)
  BY EmptySeq
<1>4. start' \in [Callers -> StartStates]
  BY <1>1, <1>2, <1>3, SetStartType
<1>5. /\ ctr' \in [Names -> ContainerStates]
      /\ ctr'[n] = "running" /\ \A m \in Names : m # n => ctr'[m] = ctr[m]
  BY <1>1, <1>2 DEF TypeOK, ContainerStates
<1>6. TypeOK'
  BY <1>1, <1>2, <1>4, <1>5 DEF TypeOK
<1>7. LifeInv'
  BY <1>2, CallLife
<1>8. BootInv'
  <2>1. /\ start'[c].at = "probe" /\ start'[c].name = n
        /\ \A d \in Callers : d # c => start'[d] = start[d]
    BY <1>1, <1>2, SetStartEffect
  <2>2. CASE process = "serving"
    BY <1>2, <2>2 DEF BootInv
  <2>3. CASE process = "starting" /\ c = Boot
    <3>1. ~ exiting => Leftover = {}
      BY <1>1, <1>2, <2>3 DEF BootInv
    <3>2. ~ exiting => Leftover' \subseteq {n}
      BY <1>2, <1>5, <3>1 DEF Leftover, Running
    <3>3. QED
      BY <1>2, <1>5, <2>1, <2>3, <3>2 DEF BootInv
  <2>4. QED
    BY <1>2, <2>2, <2>3, InCall
<1>9. DirsInv' /\ ListsInv' /\ CallersInv'
  <2>1. n \in dirs /\ n \notin Elements(services)
    BY <1>1, <1>2 DEF DirsInv
  <2>2. \A d \in Callers : n \notin Elements(start[d].list)
    BY <1>1 DEF DirsInv
  <2>3. \A d \in Callers : d # c => start[d].name # n
    BY <1>1, <1>2 DEF CallersInv
  <2>4. Elements(<<>>) = {} /\ Distinct(<<>>)
    BY EmptyElements
  <2>5. QED
    BY <1>2, <2>1, <2>2, <2>3, <2>4, CallChange
<1>10. QED
  BY <1>6, <1>7, <1>8, <1>9 DEF IInv

LEMMA ProbeInv ==
  ASSUME IInv, NEW c \in Callers, Probe(c)
  PROVE  IInv'
<1>1. TypeOK /\ DirsInv /\ BootInv /\ CallersInv /\ ListsInv
  BY DEF IInv
<1> DEFINE n == start[c].name
<1>2. /\ start[c].at = "probe" /\ n \in Names /\ n # NoName
      /\ SetStart(c, "append", n, services)
      /\ ctr' = ctr
      /\ process' = process /\ boots' = boots /\ exiting' = exiting
      /\ exitQueue' = exitQueue /\ failed' = failed /\ dirs' = dirs /\ services' = services
      /\ drain' = drain /\ req' = req
  BY <1>1, StartFields DEF Probe, life, docker, DirsInv
<1>3. services \in Seq(Names)
  BY <1>1 DEF TypeOK
<1>4. start' \in [Callers -> StartStates]
  BY <1>1, <1>2, <1>3, SetStartType
<1>5. TypeOK'
  BY <1>1, <1>2, <1>4 DEF TypeOK
<1>6. LifeInv'
  BY <1>2, CallLife
<1>7. BootInv'
  <2>1. /\ start'[c].at = "append" /\ start'[c].name = n
        /\ \A d \in Callers : d # c => start'[d] = start[d]
    BY <1>1, <1>2, SetStartEffect
  <2>2. Leftover' = Leftover
    BY <1>2 DEF Leftover, Running
  <2>3. process = "serving" \/ c = Boot
    BY <1>2, InCall
  <2>4. QED
    BY <1>1, <1>2, <2>1, <2>2, <2>3 DEF BootInv
<1>8. DirsInv' /\ ListsInv' /\ CallersInv'
  <2>1. n \in dirs /\ n \notin Elements(services) /\ Elements(services) \subseteq dirs
    BY <1>1, <1>2 DEF DirsInv
  <2>2. \A d \in Callers : /\ n \notin Elements(start[d].list)
                           /\ start[d].name \notin Elements(services)
    BY <1>1 DEF DirsInv
  <2>3. \A d \in Callers : d # c => start[d].name # n
    BY <1>1, <1>2 DEF CallersInv
  <2>4. Distinct(services)
    BY <1>1 DEF ListsInv
  <2>5. QED
    BY <1>2, <2>1, <2>2, <2>3, <2>4, CallChange
<1>9. QED
  BY <1>5, <1>6, <1>7, <1>8 DEF IInv

(* The append: the name moves from the call to the list of the service.      *)
LEMMA AppendFacts ==
  ASSUME IInv, NEW c \in Callers, AppendService(c)
  PROVE  /\ start[c].at = "append" /\ start[c].name \in Names /\ start[c].list \in Seq(Names)
         /\ services' = Append(start[c].list, start[c].name)
         /\ start'[c] = NoStart /\ \A d \in Callers : d # c => start'[d] = start[d]
         /\ start' \in [Callers -> StartStates]
         /\ ctr' = ctr /\ dirs' = dirs /\ req' = req
         /\ process' = process /\ boots' = boots /\ exiting' = exiting
         /\ exitQueue' = exitQueue /\ failed' = failed
<1>1. TypeOK /\ DirsInv
  BY DEF IInv
<1>2. /\ start[c].at = "append" /\ SetStart(c, "no", NoName, <<>>)
      /\ services' = Append(start[c].list, start[c].name)
      /\ ctr' = ctr /\ dirs' = dirs /\ req' = req
      /\ process' = process /\ boots' = boots /\ exiting' = exiting
      /\ exitQueue' = exitQueue /\ failed' = failed
  BY DEF AppendService, life, docker
<1>3. start[c].name \in Names /\ start[c].list \in Seq(Names)
  BY <1>1, <1>2, StartFields DEF DirsInv
<1>4. start'[c] = NoStart /\ \A d \in Callers : d # c => start'[d] = start[d]
  BY <1>1, <1>2, SetStartEffect DEF NoStart
<1>5. start' \in [Callers -> StartStates]
  BY <1>1, <1>2, SetStartType, EmptySeq
<1>6. QED
  BY <1>2, <1>3, <1>4, <1>5

LEMMA AppendDrain ==
  ASSUME TypeOK, NEW c \in Callers, AppendService(c)
  PROVE  /\ drain' \in [Names -> DrainStates]
         /\ \A n \in Names : n # start[c].name => drain'[n] = drain[n]
         /\ c = Boot => drain' = drain
         /\ c # Boot /\ start[c].name \in Names =>
              drain'[start[c].name] = [at |-> "sleep", wait |-> Grace, queue |-> <<>>]
<1>1. drain \in [Names -> DrainStates]
  BY DEF TypeOK
<1>2. CASE c = Boot
  BY <1>1, <1>2, BootType DEF AppendService
<1>3. CASE c # Boot
  <2>1. drain' = [drain EXCEPT ![start[c].name] =
                    [at |-> "sleep", wait |-> Grace, queue |-> <<>>]]
    BY <1>3 DEF AppendService
  <2>2. [at |-> "sleep", wait |-> Grace, queue |-> <<>>] \in DrainStates
    <3>1. Grace \in 0 .. Grace
      BY GraceType
    <3>2. <<>> \in Seq(Names)
      BY EmptySeq
    <3>3. QED
      BY <3>1, <3>2 DEF DrainStates
  <2>3. QED
    BY <1>1, <1>3, <2>1, <2>2
<1>4. QED
  BY <1>2, <1>3

LEMMA AppendInv ==
  ASSUME IInv, NEW c \in Callers, AppendService(c)
  PROVE  IInv'
<1>1. TypeOK /\ DirsInv /\ BootInv /\ CallersInv /\ ListsInv /\ LifeInv
  BY DEF IInv
<1> DEFINE n == start[c].name
           list == start[c].list
<1>2. /\ start[c].at = "append" /\ n \in Names /\ list \in Seq(Names)
      /\ services' = Append(list, n)
      /\ start'[c] = NoStart /\ \A d \in Callers : d # c => start'[d] = start[d]
      /\ start' \in [Callers -> StartStates]
      /\ ctr' = ctr /\ dirs' = dirs /\ req' = req
      /\ process' = process /\ boots' = boots /\ exiting' = exiting
      /\ exitQueue' = exitQueue /\ failed' = failed
  BY AppendFacts
<1>3. /\ services' \in Seq(Names)
      /\ Elements(services') = Elements(list) \cup {n}
  BY <1>2, AppendElements
<1>4. n # NoName /\ n \in dirs /\ n \notin Elements(list) /\ Elements(list) \subseteq dirs
      /\ Distinct(list)
  BY <1>1, <1>2, NamesType DEF DirsInv, ListsInv
<1>5. TypeOK'
  BY <1>1, <1>2, <1>3, AppendDrain DEF TypeOK
<1>6. start'[c].at = "no" /\ start'[c].name = NoName /\ start'[c].list = <<>>
  BY <1>2, BlankFields
<1>7. LifeInv' /\ BootInv'
  <2>1. Boot \in Callers /\ Deployers \subseteq Callers
    BY DEF Callers
  <2>2. CASE process = "serving" /\ c # Boot
    <3>1. start'[Boot] = start[Boot]
      BY <1>2, <2>1, <2>2
    <3>2. QED
      BY <1>1, <1>2, <2>2, <3>1, ServingLife
  <2>3. CASE process = "starting" /\ c = Boot
    <3>1. \A d \in Deployers : d # c
      BY <2>3, BootType
    <3>2. LifeInv'
      <4>1. drain' = drain
        BY <1>1, <2>3, AppendDrain
      <4>2. QED
        BY <1>1, <1>2, <1>6, <2>1, <2>3, <3>1, <4>1 DEF LifeInv
    <3>3. list = <<>>
      BY <1>1, <2>3 DEF LifeInv
    <3>4. Len(services') = 1 /\ services'[1] = n
      BY <1>2, <3>3
    <3>5. Leftover' = Leftover
      BY <1>2 DEF Leftover, Running
    <3>6. BootInv'
      BY <1>1, <1>2, <1>6, <2>3, <3>4, <3>5 DEF BootInv
    <3>7. QED
      BY <3>2, <3>6
  <2>4. QED
    BY <1>2, <2>2, <2>3, InCall
<1>8. ListsInv'
  <2>1. Distinct(services')
    BY <1>2, <1>4, AppendDistinct
  <2>2. \A d \in Callers : Distinct(start'[d].list)
    BY <1>1, <1>2, <1>6, EmptyElements DEF ListsInv
  <2>3. QED
    BY <2>1, <2>2 DEF ListsInv, Distinct
<1>9. CallersInv'
  BY <1>1, <1>2, <1>6 DEF CallersInv
<1>10. DirsInv'
  <2>1. Elements(services)' = Elements(list) \cup {n}
    BY <1>3 DEF Elements
  <2>2. \A d \in Callers : Elements(start[d].list)' = IF d = c THEN {} ELSE Elements(start[d].list)
    BY <1>2, <1>6, EmptyElements DEF Elements
  <2>3. \A d \in Callers : NoName \notin Elements(start[d].list)
    BY <1>1, NamedOrNot
  <2>4. Elements(services)' \subseteq dirs'
    BY <1>2, <1>4, <2>1
  <2>5. ASSUME NEW d \in Callers
        PROVE  /\ start'[d].at \in {"run", "probe", "append"} => start'[d].name # NoName
               /\ start'[d].name # NoName => start'[d].name \in dirs'
               /\ start'[d].name \notin Elements(services)'
               /\ Elements(start[d].list)' \subseteq dirs'
    <3>1. CASE d = c
      BY <1>4, <1>6, <2>1, <2>2, <2>3, <3>1
    <3>2. CASE d # c
      <4>1. start[d].name # n
        BY <1>1, <1>4, <3>2 DEF CallersInv
      <4>2. start[d].name \notin Elements(list)
        BY <1>1 DEF DirsInv
      <4>3. QED
        BY <1>1, <1>2, <2>1, <2>2, <3>2, <4>1, <4>2 DEF DirsInv
    <3>3. QED
      BY <3>1, <3>2
  <2>6. ASSUME NEW d \in Callers, NEW e \in Callers
        PROVE  start'[e].name \notin Elements(start[d].list)'
    BY <1>1, <1>2, <1>6, <2>2, <2>3 DEF DirsInv
  <2>7. QED
    BY <2>4, <2>5, <2>6 DEF DirsInv
<1>11. QED
  BY <1>5, <1>7, <1>8, <1>9, <1>10 DEF IInv

-----------------------------------------------------------------------------
(* The steps that no call takes.                                             *)

(* The lists, the calls and the directories are as they were.                *)
LEMMA SameNames ==
  ASSUME IInv, start' = start, services' = services, dirs' = dirs
  PROVE  DirsInv' /\ ListsInv' /\ CallersInv'
<1>1. DirsInv /\ ListsInv /\ CallersInv
  BY DEF IInv
<1>2. QED
  BY <1>1 DEF DirsInv, ListsInv, CallersInv, Elements, Distinct

LEMMA StartProcessInv == ASSUME IInv, StartProcess PROVE IInv'
<1>1. /\ process = "down" /\ process' = "cleaning" /\ boots' = boots + 1
      /\ exiting' = exiting /\ exitQueue' = exitQueue /\ failed' = failed /\ ctr' = ctr /\ dirs' = dirs
      /\ services' = services /\ start' = start /\ drain' = drain /\ req' = req
  BY DEF StartProcess, docker
<1>2. TypeOK /\ LifeInv
  BY DEF IInv
<1>3. boots' \in Nat
  BY <1>1, <1>2 DEF TypeOK
<1>4. TypeOK'
  BY <1>1, <1>2, <1>3 DEF TypeOK
<1>5. LifeInv' /\ BootInv'
  BY <1>1, <1>2 DEF LifeInv, BootInv
<1>6. QED
  BY <1>1, <1>4, <1>5, SameNames DEF IInv

LEMMA CleanDirsInv == ASSUME IInv, CleanDirs PROVE IInv'
<1>1. /\ process = "cleaning" /\ Leftover = {} /\ process' = "starting" /\ dirs' = {}
      /\ start' = [start EXCEPT ![Boot] = [NoStart EXCEPT !.at = "begin"]]
      /\ boots' = boots /\ exiting' = exiting /\ exitQueue' = exitQueue /\ failed' = failed /\ ctr' = ctr
      /\ services' = services /\ drain' = drain /\ req' = req
  BY DEF CleanDirs
<1>2. TypeOK /\ LifeInv
  BY DEF IInv
<1>3. SetStart(Boot, "begin", NoName, <<>>)
  <2>1. [NoStart EXCEPT !.at = "begin"] = [at |-> "begin", name |-> NoName, list |-> <<>>]
    BY DEF NoStart
  <2>2. QED
    BY <1>1, <2>1 DEF SetStart
<1>4. Boot \in Callers /\ Deployers \subseteq Callers
  BY DEF Callers
<1>5. start' \in [Callers -> StartStates]
  BY <1>2, <1>3, <1>4, SetStartType, EmptySeq
<1>6. TypeOK'
  BY <1>1, <1>2, <1>5 DEF TypeOK
<1>7. /\ start'[Boot].at = "begin" /\ start'[Boot].name = NoName /\ start'[Boot].list = <<>>
      /\ \A d \in Callers : d # Boot => start'[d] = start[d]
  BY <1>2, <1>3, <1>4, SetStartEffect
<1>8. \A d \in Deployers : d # Boot
  BY BootType
<1>9. LifeInv'
  BY <1>1, <1>2, <1>4, <1>7, <1>8 DEF LifeInv
<1>10. Leftover' = {}
  BY <1>1 DEF Leftover, Running
<1>11. BootInv'
  BY <1>7, <1>10 DEF BootInv
<1>12. services' = <<>>
  BY <1>1, <1>2 DEF LifeInv
<1>13. \A d \in Callers : start'[d].name = NoName /\ start'[d].list = <<>>
                          /\ start'[d].at \in {"no", "begin"}
  <2>1. \A d \in Callers : d = Boot \/ d \in Deployers
    BY DEF Callers
  <2>2. QED
    BY <1>1, <1>2, <1>7, <1>8, <1>4, <2>1, BlankFields DEF LifeInv
<1>14. DirsInv' /\ ListsInv' /\ CallersInv'
  BY <1>12, <1>13, EmptyElements DEF DirsInv, ListsInv, CallersInv, Elements, Distinct
<1>15. QED
  BY <1>6, <1>9, <1>11, <1>14 DEF IInv

LEMMA ListenInv == ASSUME IInv, Listen PROVE IInv'
<1>1. /\ process = "starting" /\ start[Boot].at = "no" /\ process' = "serving"
      /\ boots' = boots /\ exiting' = exiting /\ exitQueue' = exitQueue /\ failed' = failed
      /\ ctr' = ctr /\ dirs' = dirs
      /\ services' = services /\ start' = start /\ drain' = drain /\ req' = req
  BY DEF Listen, docker
<1>2. TypeOK /\ LifeInv
  BY DEF IInv
<1>3. TypeOK'
  BY <1>1, <1>2 DEF TypeOK
<1>4. LifeInv' /\ BootInv'
  BY <1>1, <1>2 DEF LifeInv, BootInv
<1>5. QED
  BY <1>1, <1>3, <1>4, SameNames DEF IInv

LEMMA SignalInv == ASSUME IInv, Signal PROVE IInv'
<1>1. /\ process' = process /\ exiting' = TRUE /\ exitQueue' = services /\ failed' = failed
      /\ boots' = boots /\ ctr' = ctr /\ dirs' = dirs
      /\ services' = services /\ start' = start /\ drain' = drain /\ req' = req
  BY DEF Signal, docker
<1>2. TypeOK /\ LifeInv
  BY DEF IInv
<1>3. TypeOK'
  BY <1>1, <1>2 DEF TypeOK
<1>4. LifeInv' /\ BootInv'
  BY <1>1, <1>2 DEF LifeInv, BootInv
<1>5. QED
  BY <1>1, <1>3, <1>4, SameNames DEF IInv

(* What stops a container: it is listed when a stop is asked for.            *)
LEMMA StopFacts ==
  ASSUME TypeOK, StopStep
  PROVE  /\ process' = process /\ boots' = boots /\ exiting' = exiting
         /\ exitQueue' \in Seq(Names) /\ failed' = failed /\ dirs' = dirs
         /\ services' = services /\ start' = start /\ drain' = drain /\ req' = req
         /\ ctr' \in [Names -> ContainerStates]
         /\ \A m \in Names : ctr'[m] # ctr[m] =>
              \/ process = "cleaning"
              \/ ctr[m] = "stopping" /\ ctr'[m] = "stopped"
              \/ ctr[m] = "running" /\ ctr'[m] = "exited"
              \/ \E n \in Names : drain[n].at = "stop" /\ m \in Elements(drain[n].queue)
              \/ exiting
<1>1. ctr \in [Names -> ContainerStates] /\ exitQueue \in Seq(Names)
  BY DEF TypeOK, ContainerStates
<1>2. ASSUME NEW n \in Names, CleanContainer(n)
      PROVE  /\ process = "cleaning" /\ exitQueue' = exitQueue
             /\ ctr' \in [Names -> ContainerStates]
  BY <1>1, <1>2 DEF CleanContainer, ContainerStates, life
<1>3. ASSUME NEW n \in Names, ContainerStops(n)
      PROVE  /\ exitQueue' = exitQueue /\ ctr' \in [Names -> ContainerStates]
             /\ \A m \in Names : ctr'[m] # ctr[m] => ctr[m] = "stopping" /\ ctr'[m] = "stopped"
  BY <1>1, <1>3 DEF ContainerStops, ContainerStates, life
<1>8. ASSUME NEW n \in Names, ContainerExits(n)
      PROVE  /\ exitQueue' = exitQueue /\ ctr' \in [Names -> ContainerStates]
             /\ \A m \in Names : ctr'[m] # ctr[m] => ctr[m] = "running" /\ ctr'[m] = "exited"
  BY <1>1, <1>8 DEF ContainerExits, ContainerStates, life
<1>4. ASSUME NEW n \in Names, StopSuperseded(n)
      PROVE  /\ exitQueue' = exitQueue /\ ctr' \in [Names -> ContainerStates]
             /\ drain[n].at = "stop"
             /\ \A m \in Names : ctr'[m] # ctr[m] => m \in Elements(drain[n].queue)
  <2>1. /\ drain[n].at = "stop" /\ drain[n].queue # <<>> /\ exitQueue' = exitQueue
        /\ ctr' = [ctr EXCEPT ![Head(drain[n].queue)] = "stopping"]
    BY <1>4 DEF StopSuperseded, SendStop, life
  <2>2. Head(drain[n].queue) \in Elements(drain[n].queue)
    BY <2>1, DrainFields, TailElements
  <2>3. QED
    BY <1>1, <2>1, <2>2 DEF ContainerStates
<1>5. CASE StopOnExit
  <2>1. exiting /\ exitQueue # <<>> /\ Tail(exitQueue) \in Seq(Names)
    BY <1>1, <1>5, TailElements DEF StopOnExit
  <2>2. exitQueue' = exitQueue \/ exitQueue' = Tail(exitQueue)
    BY <1>5 DEF StopOnExit
  <2>3. exitQueue' \in Seq(Names)
    BY <1>1, <2>1, <2>2
  <2>4. ctr' = ctr \/ ctr' = [ctr EXCEPT ![Head(exitQueue)] = "stopping"]
    BY <1>5 DEF StopOnExit, SendStop
  <2>5. ctr' \in [Names -> ContainerStates]
    BY <1>1, <2>4 DEF ContainerStates
  <2>6. QED
    BY <1>5, <2>1, <2>3, <2>5 DEF StopOnExit
<1>6. /\ process' = process /\ boots' = boots /\ exiting' = exiting /\ dirs' = dirs
      /\ failed' = failed /\ services' = services /\ start' = start /\ drain' = drain /\ req' = req
  BY DEF StopStep, CleanContainer, ContainerStops, ContainerExits, StopSuperseded,
         StopOnExit, life
<1>7. QED
  BY <1>1, <1>2, <1>3, <1>4, <1>5, <1>6, <1>8 DEF StopStep

LEMMA StopInv == ASSUME IInv, StopStep PROVE IInv'
<1>1. TypeOK /\ LifeInv /\ BootInv
  BY DEF IInv
<1>2. /\ process' = process /\ boots' = boots /\ exiting' = exiting
      /\ exitQueue' \in Seq(Names) /\ failed' = failed /\ dirs' = dirs
      /\ services' = services /\ start' = start /\ drain' = drain /\ req' = req
      /\ ctr' \in [Names -> ContainerStates]
      /\ \A m \in Names : ctr'[m] # ctr[m] =>
           \/ process = "cleaning"
           \/ ctr[m] = "stopping" /\ ctr'[m] = "stopped"
           \/ ctr[m] = "running" /\ ctr'[m] = "exited"
           \/ \E n \in Names : drain[n].at = "stop" /\ m \in Elements(drain[n].queue)
           \/ exiting
  BY <1>1, StopFacts
<1>3. TypeOK'
  BY <1>1, <1>2 DEF TypeOK, ContainerStates
<1>4. LifeInv'
  BY <1>1, <1>2 DEF LifeInv
<1>5. BootInv'
  <2> SUFFICES ASSUME process = "starting", ~ exiting PROVE BootInv'
    BY <1>2 DEF BootInv
  <2>1. \A n \in Names : drain[n].at = "no"
    BY <1>1, BlankFields DEF LifeInv
  <2>2. \A m \in Names : ctr[m] # "stopping"
    <3>1. \/ Leftover = {}
          \/ \E m \in Names \cup {start[Boot].name, services[1]} :
               Leftover \subseteq {m} /\ ctr[m] \in {"running", "exited"}
      <4>1. Boot \in Callers
        BY DEF Callers
      <4>2. start[Boot].at \in {"no", "begin", "run", "probe", "append"}
        BY <1>1, <4>1, StartFields
      <4>3. QED
        BY <1>1, <4>2 DEF BootInv
    <3>2. QED
      BY <3>1 DEF Leftover, Running
  <2>3. \A m \in Names : ctr'[m] = ctr[m] \/ (ctr[m] = "running" /\ ctr'[m] = "exited")
    BY <1>2, <2>1, <2>2
  <2>4. Leftover' \subseteq Leftover
    BY <2>3 DEF Leftover, Running
  <2>5. \A m \in Names : ctr[m] \in {"running", "exited"} => ctr'[m] \in {"running", "exited"}
    BY <2>3
  <2>6. start[Boot].at \in {"probe", "append"} => start[Boot].name \in Names
    <3>1. Boot \in Callers /\ DirsInv
      BY DEF Callers, IInv
    <3>2. QED
      BY <1>1, <3>1, StartFields DEF DirsInv
  <2>7. Len(services) = 1 => services[1] \in Names
    <3>1. services \in Seq(Names)
      BY <1>1 DEF TypeOK
    <3>2. Len(services) = 1 => 1 \in 1 .. Len(services)
      OBVIOUS
    <3>3. QED
      BY <3>1, <3>2, ElementOfSeq
  <2>8. QED
    BY <1>1, <1>2, <2>4, <2>5, <2>6, <2>7 DEF BootInv
<1>6. QED
  BY <1>2, <1>3, <1>4, <1>5, SameNames DEF IInv

(* What becomes of the queue of a goroutine that runs.                       *)
LEMMA QueueFacts ==
  ASSUME TypeOK, ListsInv, QueueStep
  PROVE  /\ process' = process /\ boots' = boots /\ exiting' = exiting
         /\ exitQueue' = exitQueue /\ failed' \subseteq Names /\ ctr' = ctr /\ dirs' = dirs
         /\ services' = services /\ start' = start /\ req' = req
         /\ \E n \in Names, state \in DrainStates :
              /\ drain' = [drain EXCEPT ![n] = state]
              /\ drain[n].at # "no" /\ state.at # "sleep"
              /\ \/ Elements(state.queue) \subseteq Elements(drain[n].queue)
                 \/ /\ drain[n].at = "sleep" /\ drain[n].wait = 0
                    /\ Elements(state.queue) = Before(n)
<1>1. drain \in [Names -> DrainStates] /\ services \in Seq(Names) /\ Distinct(services)
  BY DEF TypeOK, ListsInv
<1>2. PICK n \in Names : WakeUp(n) \/ StopReturns(n) \/ StopFails(n) \/ DrainEnds(n)
  BY DEF QueueStep
<1>3. /\ process' = process /\ boots' = boots /\ exiting' = exiting
      /\ exitQueue' = exitQueue /\ failed' \subseteq Names /\ ctr' = ctr /\ dirs' = dirs
      /\ services' = services /\ start' = start /\ req' = req
  <2>1. failed' = failed \/ StopFails(n)
    BY <1>2 DEF WakeUp, StopReturns, DrainEnds, life
  <2>2. StopFails(n) => failed' \subseteq Names
    <3>1. StopFails(n) => Head(drain[n].queue) \in Names
      BY DrainFields, ElementOfSeq, EmptySeq, HeadTailProperties DEF StopFails
    <3>2. QED
      BY <3>1 DEF StopFails, TypeOK
  <2>3. QED
    BY <1>2, <2>1, <2>2
    DEF WakeUp, StopReturns, StopFails, DrainEnds, life, docker, TypeOK
<1>4. CASE WakeUp(n)
  <2> DEFINE state == [at |-> "stop", wait |-> 0, queue |-> DrainList(n)]
  <2>1. DrainList(n) \in Seq(Names) /\ Elements(DrainList(n)) = Before(n)
    BY <1>1, DrainListElements
  <2>2. 0 \in 0 .. Grace
    BY GraceType
  <2>3. state \in DrainStates
    BY <2>1, <2>2 DEF DrainStates
  <2>4. state.at = "stop" /\ state.queue = DrainList(n)
    OBVIOUS
  <2>5. drain' = [drain EXCEPT ![n] = state] /\ drain[n].at = "sleep" /\ drain[n].wait = 0
    BY <1>4 DEF WakeUp
  <2>6. QED
    BY <1>3, <2>1, <2>3, <2>4, <2>5
<1>5. CASE StopReturns(n) \/ StopFails(n)
  <2> DEFINE state == [at |-> drain[n].at, wait |-> drain[n].wait, queue |-> Tail(drain[n].queue)]
  <2>1. /\ drain[n].at = "stop" /\ drain[n].queue # <<>>
        /\ drain' = [drain EXCEPT ![n].queue = Tail(@)]
    BY <1>5 DEF StopReturns, StopFails
  <2>2. /\ Tail(drain[n].queue) \in Seq(Names)
        /\ Elements(Tail(drain[n].queue)) \subseteq Elements(drain[n].queue)
    BY <2>1, DrainFields, TailElements
  <2>3. state \in DrainStates
    BY <2>2, DrainFields DEF DrainStates
  <2>4. [drain[n] EXCEPT !.queue = Tail(@)] = state
    <3>1. drain[n] = [at |-> drain[n].at, wait |-> drain[n].wait, queue |-> drain[n].queue]
      BY DrainFields
    <3>2. [drain[n] EXCEPT !.queue = Tail(@)]
            = [at |-> drain[n].at, wait |-> drain[n].wait, queue |-> Tail(drain[n].queue)]
      BY ONLY <3>1, SetQueue
    <3>3. QED
      BY <3>2
  <2>5. drain' = [drain EXCEPT ![n] = state]
    BY <2>1, <2>4
  <2>6. state.at = "stop" /\ state.queue = Tail(drain[n].queue)
    BY <2>1
  <2>7. QED
    BY <1>3, <2>1, <2>2, <2>3, <2>5, <2>6
<1>6. CASE DrainEnds(n)
  <2>1. drain' = [drain EXCEPT ![n] = NoDrain] /\ drain[n].at = "stop"
    BY <1>6 DEF DrainEnds
  <2>2. NoDrain \in DrainStates /\ NoDrain.at = "no" /\ Elements(NoDrain.queue) = {}
    BY BlankTypes, BlankFields, EmptyElements
  <2>3. QED
    BY <1>3, <2>1, <2>2
<1>7. QED
  BY <1>2, <1>4, <1>5, <1>6

LEMMA QueueInv == ASSUME IInv, QueueStep PROVE IInv'
<1>1. TypeOK /\ ListsInv /\ LifeInv /\ BootInv
  BY DEF IInv
<1>2. /\ process' = process /\ boots' = boots /\ exiting' = exiting
      /\ exitQueue' = exitQueue /\ failed' \subseteq Names /\ ctr' = ctr /\ dirs' = dirs
      /\ services' = services /\ start' = start /\ req' = req
      /\ \E n \in Names, state \in DrainStates :
           /\ drain' = [drain EXCEPT ![n] = state]
           /\ drain[n].at # "no"
  BY <1>1, QueueFacts
<1>3. PICK n \in Names, state \in DrainStates :
        drain' = [drain EXCEPT ![n] = state] /\ drain[n].at # "no"
  BY <1>2
<1>4. drain' \in [Names -> DrainStates]
  BY <1>1, <1>3 DEF TypeOK
<1>5. TypeOK'
  BY <1>1, <1>2, <1>4 DEF TypeOK
<1>6. process = "serving"
  BY <1>1, <1>3, BlankFields DEF LifeInv, TypeOK
<1>7. LifeInv' /\ BootInv'
  BY <1>1, <1>2, <1>6, ServingLife
<1>8. QED
  BY <1>2, <1>5, <1>7, SameNames DEF IInv

(* Time passes, requests come and go.                                        *)
LEMMA TickFacts ==
  ASSUME TypeOK, Tick
  PROVE  /\ \A r \in Requests : /\ req[r] = NoRequest => req'[r] = NoRequest
                                /\ req[r] # NoRequest =>
                                     /\ req[r].left > 0
                                     /\ req'[r] = [name |-> req[r].name, left |-> req[r].left - 1]
         /\ \A n \in Names : /\ drain[n].wait = 0 => drain'[n] = drain[n]
                             /\ drain[n].wait # 0 =>
                                  drain'[n] = [at |-> drain[n].at, wait |-> drain[n].wait - 1,
                                               queue |-> drain[n].queue]
         /\ drain' \in [Names -> DrainStates]
         /\ req' \in [Requests -> [name : Names \cup {NoName}, left : 0 .. WriteTimeout]]
<1>1. /\ \A r \in Requests : req[r] # NoRequest => req[r].left > 0
      /\ req' = [r \in Requests |->
                   IF req[r] = NoRequest THEN NoRequest
                   ELSE [req[r] EXCEPT !.left = @ - 1]]
      /\ drain' = [n \in Names |->
                     IF drain[n].wait = 0 THEN drain[n]
                     ELSE [drain[n] EXCEPT !.wait = @ - 1]]
  BY DEF Tick
<1>2. WriteTimeout \in Nat /\ Grace \in Nat
  BY GraceType
<1>3. ASSUME NEW r \in Requests
      PROVE  /\ req[r] = NoRequest => req'[r] = NoRequest
             /\ req[r] # NoRequest =>
                  /\ req[r].left > 0
                  /\ req'[r] = [name |-> req[r].name, left |-> req[r].left - 1]
             /\ req'[r] \in [name : Names \cup {NoName}, left : 0 .. WriteTimeout]
  <2>1. CASE req[r] = NoRequest
    BY <1>1, <2>1, BlankTypes
  <2>2. CASE req[r] # NoRequest
    <3>1. /\ req[r].name \in Names \cup {NoName} /\ req[r].left \in 0 .. WriteTimeout
          /\ req[r] = [name |-> req[r].name, left |-> req[r].left]
      BY ReqFields
    <3>2. req[r].left > 0
      BY <1>1, <2>2
    <3>3. [req[r] EXCEPT !.left = @ - 1] = [name |-> req[r].name, left |-> req[r].left - 1]
      BY <3>1
    <3>4. req'[r] = [name |-> req[r].name, left |-> req[r].left - 1]
      BY <1>1, <2>2, <3>3
    <3>5. req[r].left - 1 \in 0 .. WriteTimeout
      BY <1>2, <3>1, <3>2
    <3>6. QED
      BY <2>2, <3>1, <3>2, <3>4, <3>5
  <2>3. QED
    BY <2>1, <2>2
<1>4. ASSUME NEW n \in Names
      PROVE  /\ drain[n].wait = 0 => drain'[n] = drain[n]
             /\ drain[n].wait # 0 =>
                  drain'[n] = [at |-> drain[n].at, wait |-> drain[n].wait - 1,
                               queue |-> drain[n].queue]
             /\ drain'[n] \in DrainStates
  <2>1. CASE drain[n].wait = 0
    BY <1>1, <2>1 DEF TypeOK
  <2>2. CASE drain[n].wait # 0
    <3>1. /\ drain[n].at \in {"no", "sleep", "stop"} /\ drain[n].wait \in 0 .. Grace
          /\ drain[n].queue \in Seq(Names)
          /\ drain[n] = [at |-> drain[n].at, wait |-> drain[n].wait, queue |-> drain[n].queue]
      BY DrainFields
    <3>2. [drain[n] EXCEPT !.wait = @ - 1]
            = [at |-> drain[n].at, wait |-> drain[n].wait - 1, queue |-> drain[n].queue]
      BY <3>1
    <3>3. drain'[n] = [at |-> drain[n].at, wait |-> drain[n].wait - 1,
                       queue |-> drain[n].queue]
      BY <1>1, <2>2, <3>2
    <3>4. drain[n].wait - 1 \in 0 .. Grace
      BY <1>2, <2>2, <3>1
    <3>5. drain'[n] \in DrainStates
      BY <3>1, <3>3, <3>4 DEF DrainStates
    <3>6. QED
      BY <2>2, <3>3, <3>5
  <2>3. QED
    BY <2>1, <2>2
<1>5. drain' \in [Names -> DrainStates]
  BY <1>1, <1>4
<1>6. req' \in [Requests -> [name : Names \cup {NoName}, left : 0 .. WriteTimeout]]
  BY <1>1, <1>3
<1>7. QED
  BY <1>3, <1>4, <1>5, <1>6

LEMMA RoutedListed ==
  ASSUME services \in Seq(Names), services # <<>>
  PROVE  /\ Len(services) \in Nat /\ Len(services) > 0
         /\ Routed \in Elements(services) /\ Routed \in Names
<1>1. Len(services) \in Nat /\ Len(services) > 0 /\ DOMAIN services = 1 .. Len(services)
  BY LenProperties, EmptySeq
<1>2. Len(services) \in 1 .. Len(services)
  BY <1>1
<1>3. QED
  BY <1>1, <1>2, ElementOfSeq DEF Routed, Elements

LEMMA RequestInv == ASSUME IInv, RequestStep PROVE IInv'
<1>1. TypeOK /\ LifeInv /\ BootInv
  BY DEF IInv
<1>2. /\ process' = process /\ boots' = boots /\ exiting' = exiting
      /\ exitQueue' = exitQueue /\ failed' = failed /\ ctr' = ctr /\ dirs' = dirs
      /\ services' = services /\ start' = start
  BY DEF RequestStep, Tick, Route, Respond, life, docker
<1>3. /\ drain' \in [Names -> DrainStates]
      /\ req' \in [Requests -> [name : Names \cup {NoName}, left : 0 .. WriteTimeout]]
  <2>1. CASE Tick
    BY <1>1, <2>1, TickFacts
  <2>2. ASSUME NEW r \in Requests, Route(r)
        PROVE  drain' = drain
               /\ req' \in [Requests -> [name : Names \cup {NoName}, left : 0 .. WriteTimeout]]
    <3>1. Routed \in Names
      BY <1>1, <2>2, RoutedListed DEF Route, TypeOK
    <3>2. WriteTimeout \in 0 .. WriteTimeout
      BY GraceType
    <3>3. [name |-> Routed, left |-> WriteTimeout]
            \in [name : Names \cup {NoName}, left : 0 .. WriteTimeout]
      BY <3>1, <3>2
    <3>4. QED
      BY <1>1, <2>2, <3>3 DEF Route, TypeOK
  <2>3. ASSUME NEW r \in Requests, Respond(r)
        PROVE  drain' = drain
               /\ req' \in [Requests -> [name : Names \cup {NoName}, left : 0 .. WriteTimeout]]
    BY <1>1, <2>3, BlankTypes DEF Respond, TypeOK
  <2>4. QED
    BY <1>1, <2>1, <2>2, <2>3 DEF RequestStep, TypeOK
<1>4. TypeOK'
  BY <1>1, <1>2, <1>3 DEF TypeOK
<1>5. LifeInv'
  <2>1. CASE process = "serving"
    BY <1>1, <1>2, <2>1 DEF LifeInv
  <2>2. CASE process # "serving"
    <3>1. /\ \A n \in Names : drain[n] = NoDrain
          /\ \A r \in Requests : req[r] = NoRequest
      BY <1>1, <2>2 DEF LifeInv
    <3>2. ~ Tick /\ \A r \in Requests : ~ Route(r) /\ ~ Respond(r)
      BY <2>2, <3>1, BlankFields DEF Tick, Route, Respond
    <3>3. QED
      BY <3>2 DEF RequestStep
  <2>3. QED
    BY <2>1, <2>2
<1>6. BootInv'
  BY <1>1, <1>2 DEF BootInv, Leftover, Running
<1>7. QED
  BY <1>2, <1>4, <1>5, <1>6, SameNames DEF IInv

-----------------------------------------------------------------------------
LEMMA IInvNext == IInv /\ [Next]_vars => IInv'
<1> SUFFICES ASSUME IInv, [Next]_vars PROVE IInv'
  OBVIOUS
<1>1. TypeOK
  BY DEF IInv
<1>2. CASE Next
  <2>1. CASE Restart
    BY <1>1, <2>1, RestartInv
  <2>2. CASE StartProcess \/ CleanDirs \/ Listen \/ Signal
    BY <2>2, StartProcessInv, CleanDirsInv, ListenInv, SignalInv
  <2>3. ASSUME NEW c \in Callers, GiveUp(c) \/ Advance(c) \/ AppendService(c)
        PROVE  IInv'
    BY <2>3, GiveUpInv, DeployInv, MakeStateDirInv, RunContainerInv, ProbeInv, AppendInv
       DEF Advance
  <2>4. CASE StopStep \/ QueueStep \/ RequestStep
    BY <2>4, StopInv, QueueInv, RequestInv
  <2>5. QED
    BY <1>1, <1>2, <2>1, <2>2, <2>3, <2>4, Steps
<1>3. CASE UNCHANGED vars
  <2>1. /\ process' = process /\ boots' = boots /\ exiting' = exiting
        /\ exitQueue' = exitQueue /\ failed' = failed /\ ctr' = ctr /\ dirs' = dirs
        /\ services' = services /\ start' = start /\ drain' = drain /\ req' = req
    BY <1>3 DEF vars, life, docker
  <2>2. TypeOK' /\ LifeInv' /\ BootInv'
    BY <2>1 DEF IInv, TypeOK, LifeInv, BootInv, Leftover, Running
  <2>3. QED
    BY <2>1, <2>2, SameNames DEF IInv
<1>4. QED
  BY <1>2, <1>3

THEOREM Invariance == Spec => []IInv
<1>1. Init => IInv
  BY InitInv
<1>2. IInv /\ [Next]_vars => IInv'
  BY IInvNext
<1>3. QED
  BY <1>1, <1>2, PTL DEF Spec

(* Every variable keeps its type: no step of a deploy, of a signal or of the *)
(* clock leaves the values zerokube and Docker can have.                     *)
THEOREM TypeCorrect == Spec => []TypeOK
<1>1. IInv => TypeOK
  BY DEF IInv
<1>2. QED
  BY <1>1, Invariance, PTL

-----------------------------------------------------------------------------
(* A running container has a state directory, so that a directory that Mkdir *)
(* can make is that of none; it has none only when none runs.                *)
SocketInv ==
  /\ \A n \in Names : Running(n) => n \in dirs
  /\ \A c \in Callers : start[c].at = "run" => ~ Running(start[c].name)

LEMMA CtrDomain == TypeOK => DOMAIN ctr = Names
  BY DEF TypeOK

LEMMA DownCalls == ASSUME Down, NEW c \in Callers PROVE start'[c].at = "no"
  BY BlankFields DEF Down, Forget

(* A call of StartService alone makes a container run, and is then past it.  *)
LEMMA CallRuns ==
  ASSUME TypeOK, NEW c \in Callers, Deploy(c) \/ StartStep(c)
  PROVE  /\ dirs \subseteq dirs'
         /\ \A n \in Names : Running(n)' =>
              \/ Running(n)
              \/ start[c].at = "run" /\ n = start[c].name /\ start'[c].at # "run"
         /\ \A d \in Callers : start'[d].at = "run" =>
              \/ start'[d] = start[d]
              \/ d = c /\ start'[d].name \in Names \ dirs /\ ctr' = ctr
<1>1. ASSUME StartFails(c)
      PROVE  start'[c].at = "no" /\ \A d \in Callers : start'[d].at = "run" => start'[d] = start[d]
  <2>1. CASE SetStart(c, "no", NoName, <<>>)
    <3>1. start'[c].at = "no" /\ \A d \in Callers : d # c => start'[d] = start[d]
      BY <2>1, SetStartEffect
    <3>2. QED
      BY <3>1
  <2>2. CASE Down
    BY <2>2, DownCalls
  <2>3. QED
    BY <1>1, <2>1, <2>2 DEF StartFails
<1>2. CASE Deploy(c) \/ Probe(c)
  <2>1. dirs' = dirs /\ ctr' = ctr
    BY <1>2 DEF Deploy, Probe, docker
  <2>2. /\ start'[c].at \in {"begin", "append"}
        /\ \A d \in Callers : d # c => start'[d] = start[d]
    BY <1>2, SetStartEffect DEF Deploy, Probe
  <2>3. QED
    BY <2>1, <2>2 DEF Running
<1>3. CASE MakeStateDir(c)
  <2>1. PICK n \in Names \ dirs : /\ dirs' = dirs \cup {n} /\ SetStart(c, "run", n, <<>>)
                                  /\ ctr' = ctr
    BY <1>3 DEF MakeStateDir
  <2>2. start'[c].name = n /\ \A d \in Callers : d # c => start'[d] = start[d]
    BY <2>1, SetStartEffect
  <2>3. QED
    BY <2>1, <2>2 DEF Running
<1>4. CASE NameTaken(c)
  BY <1>1, <1>4 DEF NameTaken, docker, Running
<1>5. CASE RunContainer(c)
  <2>1. /\ start[c].at = "run" /\ dirs' = dirs
        /\ ctr' = [ctr EXCEPT ![start[c].name] = "running"]
        /\ SetStart(c, "probe", start[c].name, <<>>)
    BY <1>5 DEF RunContainer
  <2>2. start'[c].at = "probe" /\ \A d \in Callers : d # c => start'[d] = start[d]
    BY <2>1, SetStartEffect
  <2>3. \A n \in Names : n # start[c].name => ctr'[n] = ctr[n]
    BY <2>1, CtrDomain
  <2>4. QED
    BY <2>1, <2>2, <2>3 DEF Running
<1>6. CASE RunFails(c)
  <2>1. start[c].at = "run" /\ dirs' = dirs /\ StartFails(c)
    BY <1>6 DEF RunFails
  <2>2. \A n \in Names : n # start[c].name => ctr'[n] = ctr[n]
    BY <1>6, CtrDomain DEF RunFails
  <2>3. QED
    BY <1>1, <2>1, <2>2 DEF Running
<1>7. CASE ProbeFails(c)
  <2>1. dirs' = dirs /\ StartFails(c)
    BY <1>7 DEF ProbeFails
  <2>2. \A n \in Names : ctr'[n] = ctr[n] \/ ctr'[n] = "stopped"
    BY <1>7, CtrDomain DEF ProbeFails
  <2>3. QED
    BY <1>1, <2>1, <2>2 DEF Running
<1>8. CASE AppendService(c)
  <2>1. ctr' = ctr /\ dirs' = dirs /\ SetStart(c, "no", NoName, <<>>)
    BY <1>8 DEF AppendService, docker
  <2>2. start'[c].at = "no" /\ \A d \in Callers : d # c => start'[d] = start[d]
    BY <2>1, SetStartEffect
  <2>3. QED
    BY <2>1, <2>2 DEF Running
<1>9. QED
  BY <1>2, <1>3, <1>4, <1>5, <1>6, <1>7, <1>8 DEF StartStep

LEMMA SocketNext == IInv /\ SocketInv /\ [Next]_vars => SocketInv'
<1> SUFFICES ASSUME IInv, SocketInv, [Next]_vars PROVE SocketInv'
  OBVIOUS
<1>1. TypeOK /\ DirsInv /\ CallersInv
  BY DEF IInv
<1>2. ASSUME NEW c \in Callers, Deploy(c) \/ StartStep(c)
      PROVE  SocketInv'
  <2>1. ASSUME NEW n \in Names, Running(n)'
        PROVE  n \in dirs'
    <3>1. start[c].at = "run" => start[c].name \in dirs
      BY <1>1 DEF DirsInv
    <3>2. QED
      BY <1>1, <1>2, <2>1, <3>1, CallRuns DEF SocketInv
  <2>2. ASSUME NEW d \in Callers, start'[d].at = "run"
        PROVE  ~ Running(start[d].name)'
    <3>1. CASE start'[d] = start[d]
      <4>1. start[d].at = "run" /\ start[d].name # NoName /\ start[d].name \in Names
        BY <1>1, <2>2, <3>1, StartFields DEF DirsInv
      <4>2. ~ Running(start[d].name)
        BY <4>1 DEF SocketInv
      <4>3. d = c => ~ (start'[c].at # "run")
        BY <2>2
      <4>4. d # c => start[d].name # start[c].name
        BY <1>1, <4>1 DEF CallersInv
      <4>5. ctr'[start[d].name] \notin {"running", "stopping"}
        BY <1>1, <1>2, <4>1, <4>2, <4>3, <4>4, CallRuns DEF Running
      <4>6. QED
        BY <3>1, <4>5 DEF Running
    <3>2. CASE start'[d].name \in Names \ dirs /\ ctr' = ctr
      BY <3>2 DEF SocketInv, Running
    <3>3. QED
      BY <1>1, <1>2, <2>2, <3>1, <3>2, CallRuns
  <2>3. QED
    BY <2>1, <2>2 DEF SocketInv
<1>3. ASSUME dirs' = dirs \/ (ctr' = ctr /\ Leftover = {}),
             \A n \in Names : Running(n)' => Running(n),
             \A c \in Callers : start'[c].at = "run" => start'[c] = start[c]
      PROVE  SocketInv'
  <2>1. \A n \in Names : Running(n)' => n \in dirs'
    BY <1>3 DEF SocketInv, Leftover
  <2>2. ASSUME NEW c \in Callers, start'[c].at = "run"
        PROVE  ~ Running(start[c].name)'
    <3>1. start'[c] = start[c] /\ start[c].name \in Names /\ ~ Running(start[c].name)
      BY <1>1, <1>3, <2>2, StartFields DEF DirsInv, SocketInv
    <3>2. QED
      BY <1>3, <3>1 DEF Running
  <2>3. QED
    BY <2>1, <2>2 DEF SocketInv
<1>4. CASE Killed \/ CleaningFails \/ Exit
  <2>1. Down /\ dirs' = dirs /\ ctr' = ctr
    BY <1>4 DEF Killed, CleaningFails, Exit, docker
  <2>2. QED
    BY <1>3, <2>1, DownCalls DEF Running
<1>5. CASE StartProcess \/ Listen \/ Signal \/ RequestStep \/ QueueStep \/ UNCHANGED vars
  <2>1. dirs' = dirs /\ ctr' = ctr /\ start' = start
    BY <1>5 DEF StartProcess, Listen, Signal, RequestStep, QueueStep, Tick, Route, Respond,
                WakeUp, StopReturns, StopFails, DrainEnds, docker, vars
  <2>2. QED
    BY <1>3, <2>1 DEF Running
<1>6. CASE CleanDirs
  <2>1. Boot \in Callers
    BY DEF Callers
  <2>2. /\ Leftover = {} /\ ctr' = ctr
        /\ start' = [start EXCEPT ![Boot] = [NoStart EXCEPT !.at = "begin"]]
    BY <1>6 DEF CleanDirs
  <2>3. start'[Boot].at = "begin" /\ \A c \in Callers : c # Boot => start'[c] = start[c]
    BY <1>1, <2>1, <2>2 DEF TypeOK, NoStart
  <2>4. QED
    BY <1>3, <2>2, <2>3 DEF Running
<1>7. CASE StopStep
  <2>1. start' = start /\ dirs' = dirs
    BY <1>7 DEF StopStep, CleanContainer, StopSuperseded, ContainerStops, ContainerExits,
                StopOnExit
  <2>2. \A n \in Names : Running(n)' => Running(n)
    BY <1>1, <1>7, StopRuns
  <2>3. QED
    BY <1>3, <2>1, <2>2
<1>8. QED
  BY <1>2, <1>4, <1>5, <1>6, <1>7
     DEF Next, ProcessStep, DrainStep, QueueStep, StopStep, RequestStep

(* Whatever requests to /deploy run at once, and whatever is left of earlier *)
(* processes, a call of StartService is about to start its container in the  *)
(* directory of no running container and of no other call, and a list of     *)
(* containers has each name once.                                            *)
THEOREM NamesNeverShared == Spec => []NamesDistinct
<1>1. Init => SocketInv
  <2> SUFFICES ASSUME Init PROVE SocketInv
    OBVIOUS
  <2>1. /\ \A n \in Names : ctr[n] = "absent"
        /\ \A c \in Callers : start[c].at = "no"
    BY BlankFields DEF Init
  <2>2. QED
    BY <2>1 DEF SocketInv, Running
<1>2. IInv /\ SocketInv /\ [Next]_vars => SocketInv'
  BY SocketNext
<1>3. IInv /\ SocketInv => NamesDistinct
  BY DEF IInv, SocketInv, CallersInv, ListsInv, Distinct, NamesDistinct
<1>4. QED
  BY <1>1, <1>2, <1>3, Invariance, PTL DEF Spec

(* A process that starts to listen has not stopped the container it routes   *)
(* to, and none of those that earlier processes left is running.             *)
THEOREM StartsClean == Spec => CleanStart
<1>1. IInv /\ [Next]_vars =>
        [process = "starting" /\ process' = "serving" /\ ~ exiting =>
           NotStopped(Routed) /\ Leftover \subseteq {Routed}]_vars
  <2> SUFFICES ASSUME IInv, Next, process = "starting", process' = "serving", ~ exiting
               PROVE  NotStopped(Routed) /\ Leftover \subseteq {Routed}
    OBVIOUS
  <2>1. TypeOK /\ BootInv
    BY DEF IInv
  <2>2. process' # process
    OBVIOUS
  <2>3. Listen
    <3>1. ASSUME NEW c \in Callers, GiveUp(c) \/ Advance(c) \/ AppendService(c)
          PROVE  process' = process
      BY <3>1 DEF GiveUp, Advance, Deploy, MakeStateDir, RunContainer, Probe,
                  AppendService, life
    <3>2. CASE StopStep \/ QueueStep \/ RequestStep
      BY <3>2 DEF StopStep, QueueStep, RequestStep, CleanContainer, ContainerStops,
           ContainerExits, StopSuperseded, StopOnExit, WakeUp, StopReturns, StopFails,
           DrainEnds, Tick, Route, Respond, life
    <3>3. CASE Restart \/ StartProcess \/ CleanDirs \/ Signal
      BY <3>3 DEF Restart, Down, StartProcess, CleanDirs, Signal
    <3>4. QED
      BY <2>1, <2>2, <3>1, <3>2, <3>3, Steps
  <2>4. start[Boot].at = "no"
    BY <2>3 DEF Listen
  <2>5. /\ Len(services) = 1 /\ Leftover \subseteq {services[1]}
        /\ ctr[services[1]] \in {"running", "exited"}
    BY <2>1, <2>4 DEF BootInv
  <2>6. QED
    BY <2>5 DEF NotStopped, Routed
<1>2. QED
  BY <1>1, Invariance, PTL DEF Spec, CleanStart

-----------------------------------------------------------------------------
(* One deploy at a time: what gets requests runs until they are answered.    *)

LEMMA SupersededListed ==
  ASSUME services \in Seq(Names)
  PROVE  /\ Superseded \subseteq Elements(services)
         /\ \A n \in Elements(services) : Before(n) \subseteq Superseded
         /\ Distinct(services) /\ services # <<>> => Routed \notin Superseded
<1>1. Len(services) \in Nat /\ DOMAIN services = 1 .. Len(services)
  BY LenProperties
<1>2. \A i \in 1 .. Len(services) - 1 : i \in 1 .. Len(services) /\ i # Len(services)
  <2>1. Len(services) \in Nat
    BY <1>1
  <2>2. QED
    BY ONLY <2>1
<1>3. Superseded \subseteq Elements(services)
  BY <1>1, <1>2 DEF Superseded, Elements
<1>4. ASSUME NEW n \in Elements(services), NEW m \in Before(n)
      PROVE  m \in Superseded
  <2>1. PICK k \in 1 .. Len(services) : services[k] = n
    BY <1>1 DEF Elements
  <2>2. PICK i \in 1 .. Len(services) : m = services[i] /\ \A j \in 1 .. i : services[j] # n
    BY <1>1 DEF Before
  <2>3. i \in 1 .. Len(services) - 1
    <3>1. ~ (k \in 1 .. i)
      BY <2>1, <2>2
    <3>2. k \in Nat /\ i \in Nat /\ 1 <= k /\ k <= Len(services) /\ 1 <= i
      BY <1>1
    <3>3. QED
      BY ONLY <1>1, <3>1, <3>2
  <2>4. QED
    BY <2>2, <2>3 DEF Superseded
<1>5. ASSUME Distinct(services), services # <<>>
      PROVE  Routed \notin Superseded
  <2>1. Len(services) \in 1 .. Len(services)
    BY <1>1, <1>5, EmptySeq
  <2>2. \A i \in 1 .. Len(services) - 1 : services[i] # services[Len(services)]
    BY <1>1, <1>2, <1>5, <2>1 DEF Distinct
  <2>3. QED
    BY <2>2 DEF Superseded, Routed
<1>6. QED
  BY <1>3, <1>4, <1>5

(* No two calls of StartService are in progress.                             *)
LEMMA Alone ==
  ASSUME OneDeploy, IInv, NEW c \in Callers, NEW d \in Callers, c # d, start[c].at # "no"
  PROVE  start[d].at = "no"
<1>1. CASE process = "serving" /\ c \in Deployers /\ c # Boot
  <2>1. start[d].at # "no" => d \in Deployers
    BY <1>1, InCall
  <2>2. QED
    BY <1>1, <2>1 DEF OneDeploy
<1>2. CASE process = "starting" /\ c = Boot
  BY <1>2, InCall
<1>3. QED
  BY <1>1, <1>2, InCall

(* The list, the goroutines and the requests are as they were.               *)
LEMMA SameDrain ==
  ASSUME DrainInv, RequestsInv, services' = services, drain' = drain, req' = req
  PROVE  DrainInv' /\ RequestsInv'
<1>1. /\ Superseded' = Superseded /\ Elements(services)' = Elements(services)
      /\ \A n \in Names : /\ Before(n)' = Before(n)
                          /\ Elements(drain[n].queue)' = Elements(drain[n].queue)
  BY DEF Superseded, Before, Elements
<1>2. DrainInv'
  BY <1>1 DEF DrainInv
<1>3. RequestsInv'
  BY <1>1 DEF RequestsInv
<1>4. QED
  BY <1>2, <1>3

(* A step of a call that does not append.                                    *)
LEMMA CallOne ==
  ASSUME IInv, OneInv, NEW c \in Callers,
         services' = services, drain' = drain, req' = req, exiting' = exiting,
         \A d \in Callers : d # c => start'[d] = start[d],
         \A n \in Names : ctr'[n] # ctr[n] => n = start[c].name,
         ~ exiting /\ start'[c].at \in {"probe", "append"} =>
            ctr'[start'[c].name] \in {"running", "exited"},
         start'[c].at = "append" => start'[c].list = services
  PROVE  OneInv'
<1>1. /\ TypeOK /\ DirsInv /\ CallersInv
      /\ FreshInv /\ RunningInv /\ DrainInv /\ RequestsInv
  BY DEF IInv, OneInv
<1>2. DrainInv' /\ RequestsInv'
  BY <1>1, SameDrain
<1>3. FreshInv'
  BY <1>1 DEF FreshInv
<1>4. RunningInv'
  <2> SUFFICES ASSUME ~ exiting PROVE RunningInv'
    BY DEF RunningInv
  <2>1. start[c].name \notin Elements(services)
    BY <1>1 DEF DirsInv
  <2>2. Elements(services) \subseteq Names
    BY <1>1 DEF TypeOK, DirsInv
  <2>3. \A n \in Elements(services) : ctr'[n] = ctr[n]
    BY <2>1, <2>2
  <2>4. services # <<>> => ctr'[Routed] \in {"running", "exited"} /\ Routed' = Routed
    BY <1>1, <2>3, RoutedListed DEF RunningInv, TypeOK, Routed
  <2>5. \A r \in Requests : req[r] # NoRequest => ctr'[req[r].name] \in {"running", "exited"}
    BY <1>1, <2>3 DEF RunningInv, RequestsInv
  <2>6. ASSUME NEW d \in Callers, start'[d].at \in {"probe", "append"}
        PROVE  ctr'[start'[d].name] \in {"running", "exited"}
    <3>1. CASE d = c
      BY <2>6, <3>1
    <3>2. CASE d # c
      <4>1. start[d].at \in {"probe", "append"} /\ start'[d] = start[d]
        BY <2>6, <3>2
      <4>2. start[d].name # NoName /\ start[d].name \in Names
        BY <1>1, <4>1, StartFields DEF DirsInv
      <4>3. start[d].name # start[c].name
        BY <1>1, <3>2, <4>2 DEF CallersInv
      <4>4. ctr[start[d].name] \in {"running", "exited"}
        BY <1>1, <4>1 DEF RunningInv
      <4>5. QED
        BY <4>1, <4>2, <4>3, <4>4
    <3>3. QED
      BY <3>1, <3>2
  <2>7. QED
    BY <2>4, <2>5, <2>6 DEF RunningInv
<1>5. QED
  BY <1>2, <1>3, <1>4 DEF OneInv

LEMMA GiveUpOne ==
  ASSUME IInv, OneInv, NEW c \in Callers, GiveUp(c)
  PROVE  OneInv'
<1>1. TypeOK
  BY DEF IInv
<1>2. /\ SetStart(c, "no", NoName, <<>>)
      /\ services' = services /\ drain' = drain /\ req' = req /\ exiting' = exiting
      /\ \A n \in Names : ctr'[n] # ctr[n] => n = start[c].name
  BY DEF GiveUp, life
<1>3. start'[c].at = "no" /\ \A d \in Callers : d # c => start'[d] = start[d]
  BY <1>1, <1>2, SetStartEffect
<1>4. QED
  BY <1>2, <1>3, CallOne

LEMMA AdvanceOne ==
  ASSUME IInv, OneInv, NEW c \in Callers, Advance(c)
  PROVE  OneInv'
<1>1. TypeOK /\ RunningInv /\ DirsInv
  BY DEF IInv, OneInv
<1>2. services' = services /\ drain' = drain /\ req' = req /\ exiting' = exiting
  BY DEF Advance, Deploy, MakeStateDir, RunContainer, Probe, life
<1>3. CASE Deploy(c)
  <2>1. SetStart(c, "begin", NoName, <<>>) /\ ctr' = ctr
    BY <1>3 DEF Deploy, docker
  <2>2. start'[c].at = "begin" /\ \A d \in Callers : d # c => start'[d] = start[d]
    BY <1>1, <2>1, SetStartEffect
  <2>3. QED
    BY <1>2, <2>1, <2>2, CallOne
<1>4. CASE MakeStateDir(c)
  <2>1. PICK n \in Names : SetStart(c, "run", n, <<>>) /\ ctr' = ctr
    BY <1>4 DEF MakeStateDir
  <2>2. start'[c].at = "run" /\ \A d \in Callers : d # c => start'[d] = start[d]
    BY <1>1, <2>1, SetStartEffect
  <2>3. QED
    BY <1>2, <2>1, <2>2, CallOne
<1>5. CASE RunContainer(c)
  <2>1. /\ SetStart(c, "probe", start[c].name, <<>>)
        /\ ctr' = [ctr EXCEPT ![start[c].name] = "running"]
        /\ start[c].at = "run"
    BY <1>5 DEF RunContainer
  <2>2. /\ start'[c].at = "probe" /\ start'[c].name = start[c].name
        /\ \A d \in Callers : d # c => start'[d] = start[d]
    BY <1>1, <2>1, SetStartEffect
  <2>3. start[c].name \in Names
    BY <1>1, <2>1, StartFields DEF DirsInv
  <2>4. ctr'[start[c].name] \in {"running", "exited"} /\ \A n \in Names : ctr'[n] # ctr[n] => n = start[c].name
    BY <1>1, <2>1, <2>3 DEF TypeOK
  <2>5. QED
    BY <1>2, <2>2, <2>4, CallOne
<1>6. CASE Probe(c)
  <2>1. /\ SetStart(c, "append", start[c].name, services) /\ ctr' = ctr
        /\ start[c].at = "probe"
    BY <1>6 DEF Probe, docker
  <2>2. /\ start'[c].at = "append" /\ start'[c].name = start[c].name
        /\ start'[c].list = services
        /\ \A d \in Callers : d # c => start'[d] = start[d]
    BY <1>1, <2>1, SetStartEffect
  <2>3. ~ exiting => ctr'[start'[c].name] \in {"running", "exited"}
    BY <1>1, <2>1, <2>2 DEF RunningInv
  <2>4. QED
    BY <1>2, <2>1, <2>2, <2>3, CallOne
<1>7. QED
  BY <1>3, <1>4, <1>5, <1>6 DEF Advance

LEMMA AppendOne ==
  ASSUME OneDeploy, IInv, OneInv, NEW c \in Callers, AppendService(c)
  PROVE  OneInv'
<1>1. /\ TypeOK /\ DirsInv /\ CallersInv /\ ListsInv /\ LifeInv
      /\ FreshInv /\ RunningInv /\ DrainInv /\ RequestsInv
  BY DEF IInv, OneInv
<1> DEFINE n == start[c].name
<1>2. /\ start[c].at = "append" /\ n \in Names
      /\ services' = Append(services, n)
      /\ start'[c] = NoStart /\ \A d \in Callers : d # c => start'[d] = start[d]
      /\ ctr' = ctr /\ req' = req /\ exiting' = exiting
  BY <1>1, AppendFacts DEF FreshInv
<1>3. services \in Seq(Names) /\ Distinct(services) /\ n \notin Elements(services)
  BY <1>1 DEF TypeOK, ListsInv, DirsInv
<1>4. /\ services' # <<>> /\ Len(services') = Len(services) + 1
      /\ DOMAIN services' = 1 .. Len(services) + 1
      /\ services'[Len(services) + 1] = n
      /\ \A i \in 1 .. Len(services) : services'[i] = services[i]
      /\ Elements(services') = Elements(services) \cup {n}
      /\ Len(services) \in Nat /\ DOMAIN services = 1 .. Len(services)
  BY <1>2, <1>3, AppendElements, LenProperties
<1>5. \A d \in Callers : start'[d].at = "no"
  BY <1>2, Alone, BlankFields
<1>6. Elements(services)' = Elements(services) \cup {n}
  BY <1>4 DEF Elements
<1>7. Routed' = n
  BY <1>4 DEF Routed
<1>8. Superseded' = Elements(services)
  <2>1. (Len(services) + 1) - 1 = Len(services)
    BY <1>4
  <2>2. QED
    BY <1>4, <2>1 DEF Superseded, Elements
<1>9. \A m \in Elements(services) : Before(m)' = Before(m)
  <2> TAKE m \in Elements(services)
  <2>1. PICK k \in 1 .. Len(services) : services[k] = m
    BY <1>4 DEF Elements
  <2>2. 1 .. Len(services) + 1 = (1 .. Len(services)) \cup {Len(services) + 1}
    BY <1>4
  <2>3. \A i \in 1 .. Len(services) : \A j \in 1 .. i : services'[j] = services[j]
    BY <1>4
  <2>4. k \in 1 .. Len(services) + 1 /\ services'[k] = m
    BY <1>4, <2>1, <2>2
  <2>5. {i \in DOMAIN services' : \A j \in 1 .. i : services'[j] # m}
          = {i \in DOMAIN services : \A j \in 1 .. i : services[j] # m}
    BY <1>4, <2>2, <2>3, <2>4
  <2>6. QED
    BY <1>4, <2>5 DEF Before
<1>10. FreshInv' /\ RequestsInv'
  BY <1>1, <1>2, <1>5, <1>6 DEF FreshInv, RequestsInv
<1>11. RunningInv'
  BY <1>1, <1>2, <1>5, <1>7 DEF RunningInv
<1>12. DrainInv'
  <2>1. ASSUME NEW m \in Names, m # n
        PROVE  /\ Elements(drain[m].queue)' = Elements(drain[m].queue)
               /\ drain'[m] = drain[m]
    BY <1>1, <2>1, AppendDrain DEF Elements
  <2>2. Superseded \subseteq Superseded'
    BY <1>3, <1>8, SupersededListed
  <2>3. ASSUME NEW m \in Names, m # n
        PROVE  /\ Elements(drain[m].queue)' \subseteq Superseded'
               /\ drain'[m].at = "sleep" => m \in Elements(services)'
               /\ \A r \in Requests :
                    req'[r] # NoRequest =>
                      /\ req'[r].name \notin Elements(drain[m].queue)'
                      /\ drain'[m].at = "sleep" /\ req'[r].name \in Before(m)' =>
                           req'[r].left + ReadTimeout <= drain'[m].wait
    BY <1>1, <1>2, <1>6, <1>9, <2>1, <2>2, <2>3 DEF DrainInv
  <2>4. /\ Elements(drain'[n].queue) = {}
        /\ \A r \in Requests : req'[r] # NoRequest /\ drain'[n].at = "sleep" =>
             req'[r].left + ReadTimeout <= drain'[n].wait
    <3>1. CASE c = Boot
      <4>1. drain'[n] = NoDrain
        <5>1. process = "starting"
          BY <1>2, <3>1, InCall
        <5>2. drain[n] = NoDrain
          BY <1>1, <1>2, <5>1 DEF LifeInv
        <5>3. QED
          BY <1>1, <3>1, <5>2, AppendDrain
      <4>2. drain'[n].at = "no" /\ drain'[n].queue = <<>>
        BY <4>1, BlankFields
      <4>3. QED
        BY <4>2, EmptyElements DEF Elements
    <3>2. CASE c # Boot
      <4>1. drain'[n] = [at |-> "sleep", wait |-> Grace, queue |-> <<>>]
        BY <1>1, <1>2, <3>2, AppendDrain
      <4>2. drain'[n].wait = Grace /\ drain'[n].queue = <<>>
        BY <4>1
      <4>3. \A r \in Requests : req[r].left \in 0 .. WriteTimeout
        BY <1>1, ReqFields
      <4>4. ReadTimeout \in Nat /\ WriteTimeout \in Nat
        BY GraceType
      <4>5. \A left \in 0 .. WriteTimeout : left + ReadTimeout <= ReadTimeout + WriteTimeout
        BY ONLY <4>4
      <4>6. \A r \in Requests : req'[r].left + ReadTimeout <= drain'[n].wait
        BY <1>2, <4>2, <4>3, <4>5 DEF Grace
      <4>7. QED
        BY <4>2, <4>6, EmptyElements DEF Elements
    <3>3. QED
      BY <3>1, <3>2
  <2>5. \A m \in Names : m = n => Elements(drain[m].queue)' = {}
    BY <2>4 DEF Elements
  <2>6. n \in Elements(services)'
    BY <1>6
  <2>7. QED
    BY <1>2, <2>3, <2>4, <2>5, <2>6 DEF DrainInv
<1>13. QED
  BY <1>10, <1>11, <1>12 DEF OneInv

LEMMA ProcessOne ==
  ASSUME IInv, OneInv, StartProcess \/ CleanDirs \/ Listen \/ Signal
  PROVE  OneInv'
<1>1. /\ services' = services /\ drain' = drain /\ req' = req /\ ctr' = ctr
      /\ exiting' = exiting \/ exiting' = TRUE
  BY DEF StartProcess, CleanDirs, Listen, Signal, docker
<1>2. TypeOK /\ FreshInv /\ RunningInv /\ DrainInv /\ RequestsInv
  BY DEF IInv, OneInv
<1>3. CASE CleanDirs
  <2>1. Boot \in Callers
    BY DEF Callers
  <2>2. exiting' = exiting /\ start' = [start EXCEPT ![Boot] = [NoStart EXCEPT !.at = "begin"]]
    BY <1>3 DEF CleanDirs
  <2>3. /\ start'[Boot].at = "begin"
        /\ \A d \in Callers : d # Boot => start'[d] = start[d]
    BY <1>2, <2>1, <2>2 DEF NoStart, TypeOK
  <2>4. QED
    BY <1>1, <2>1, <2>2, <2>3, CallOne
<1>4. CASE StartProcess \/ Listen \/ Signal
  <2>1. start' = start
    BY <1>4 DEF StartProcess, Listen, Signal
  <2>2. DrainInv' /\ RequestsInv'
    BY <1>1, <1>2, SameDrain
  <2>3. FreshInv' /\ RunningInv'
    BY <1>1, <1>2, <2>1 DEF FreshInv, RunningInv, Routed
  <2>4. QED
    BY <2>2, <2>3 DEF OneInv
<1>5. QED
  BY <1>3, <1>4

LEMMA StopOne ==
  ASSUME IInv, OneInv, StopStep
  PROVE  OneInv'
<1>1. /\ TypeOK /\ LifeInv /\ DirsInv /\ ListsInv
      /\ FreshInv /\ RunningInv /\ DrainInv /\ RequestsInv
  BY DEF IInv, OneInv
<1>2. /\ process' = process /\ exiting' = exiting
      /\ services' = services /\ start' = start /\ drain' = drain /\ req' = req
      /\ \A m \in Names : ctr'[m] # ctr[m] =>
           \/ process = "cleaning"
           \/ ctr[m] = "stopping" /\ ctr'[m] = "stopped"
           \/ ctr[m] = "running" /\ ctr'[m] = "exited"
           \/ \E n \in Names : drain[n].at = "stop" /\ m \in Elements(drain[n].queue)
           \/ exiting
  BY <1>1, StopFacts
<1>3. DrainInv' /\ RequestsInv'
  BY <1>1, <1>2, SameDrain
<1>4. FreshInv'
  BY <1>1, <1>2 DEF FreshInv
<1>5. RunningInv'
  <2> SUFFICES ASSUME ~ exiting PROVE RunningInv'
    BY <1>2 DEF RunningInv
  <2>1. CASE process = "cleaning"
    <3>1. services' = <<>> /\ \A r \in Requests : req'[r] = NoRequest
      BY <1>1, <1>2, <2>1 DEF LifeInv
    <3>2. \A c \in Callers : start'[c].at = "no"
      BY <1>1, <1>2, <2>1, BlankFields DEF LifeInv, Callers
    <3>3. QED
      BY <3>1, <3>2 DEF RunningInv
  <2>2. CASE process # "cleaning"
    <3>1. ASSUME NEW m \in Names, ctr[m] \in {"running", "exited"},
                 \A n \in Names : m \notin Elements(drain[n].queue)
          PROVE  ctr'[m] \in {"running", "exited"}
      BY <1>2, <2>2, <3>1
    <3>2. \A n \in Names : Elements(drain[n].queue) \subseteq Superseded
      BY <1>1 DEF DrainInv
    <3>3. services \in Seq(Names) /\ Distinct(services)
      BY <1>1 DEF TypeOK, ListsInv
    <3>4. Superseded \subseteq Elements(services)
      BY <3>3, SupersededListed
    <3>5. services # <<>> => ctr'[Routed] \in {"running", "exited"} /\ Routed' = Routed
      <4> SUFFICES ASSUME services # <<>> PROVE ctr'[Routed] \in {"running", "exited"} /\ Routed' = Routed
        OBVIOUS
      <4>1. Routed \in Names /\ Routed \notin Superseded /\ Routed' = Routed
        BY <1>2, <3>3, RoutedListed, SupersededListed DEF Routed
      <4>2. ctr[Routed] \in {"running", "exited"}
        BY <1>1 DEF RunningInv
      <4>3. \A n \in Names : Routed \notin Elements(drain[n].queue)
        BY <3>2, <4>1
      <4>4. QED
        BY <3>1, <4>1, <4>2, <4>3
    <3>6. ASSUME NEW c \in Callers, start[c].at \in {"probe", "append"}
          PROVE  ctr'[start[c].name] \in {"running", "exited"}
      <4>1. start[c].name \in Names /\ start[c].name \notin Superseded
        BY <1>1, <3>4, <3>6, StartFields DEF DirsInv
      <4>2. ctr[start[c].name] \in {"running", "exited"}
        BY <1>1, <3>6 DEF RunningInv
      <4>3. \A n \in Names : start[c].name \notin Elements(drain[n].queue)
        BY <3>2, <4>1
      <4>4. QED
        BY <3>1, <4>1, <4>2, <4>3
    <3>7. ASSUME NEW r \in Requests, req[r] # NoRequest
          PROVE  ctr'[req[r].name] \in {"running", "exited"}
      <4>1. req[r].name \in Names
        BY <1>1, <3>7 DEF RequestsInv, DirsInv, TypeOK
      <4>2. ctr[req[r].name] \in {"running", "exited"}
        BY <1>1, <3>7 DEF RunningInv
      <4>3. \A n \in Names : req[r].name \notin Elements(drain[n].queue)
        BY <1>1, <3>7 DEF DrainInv
      <4>4. QED
        BY <3>1, <4>1, <4>2, <4>3
    <3>8. QED
      BY <1>2, <3>5, <3>6, <3>7 DEF RunningInv
  <2>3. QED
    BY <2>1, <2>2
<1>6. QED
  BY <1>3, <1>4, <1>5 DEF OneInv

(* A goroutine that wakes up finds no request with the containers before its *)
(* own: its sleep has lasted longer than the requests routed to them.        *)
LEMMA QueueOne ==
  ASSUME IInv, OneInv, QueueStep
  PROVE  OneInv'
<1>1. /\ TypeOK /\ ListsInv
      /\ FreshInv /\ RunningInv /\ DrainInv /\ RequestsInv
  BY DEF IInv, OneInv
<1>2. /\ exiting' = exiting /\ ctr' = ctr
      /\ services' = services /\ start' = start /\ req' = req
      /\ \E n \in Names, state \in DrainStates :
           /\ drain' = [drain EXCEPT ![n] = state]
           /\ drain[n].at # "no" /\ state.at # "sleep"
           /\ \/ Elements(state.queue) \subseteq Elements(drain[n].queue)
              \/ /\ drain[n].at = "sleep" /\ drain[n].wait = 0
                 /\ Elements(state.queue) = Before(n)
  BY <1>1, QueueFacts
<1>3. PICK n \in Names, state \in DrainStates :
        /\ drain' = [drain EXCEPT ![n] = state]
        /\ state.at # "sleep"
        /\ \/ Elements(state.queue) \subseteq Elements(drain[n].queue)
           \/ /\ drain[n].at = "sleep" /\ drain[n].wait = 0
              /\ Elements(state.queue) = Before(n)
  BY <1>2
<1>4. drain'[n] = state /\ \A m \in Names : m # n => drain'[m] = drain[m]
  BY <1>1, <1>3 DEF TypeOK
<1>5. /\ Superseded' = Superseded /\ Elements(services)' = Elements(services)
      /\ \A m \in Names : Before(m)' = Before(m)
  BY <1>2 DEF Superseded, Before, Elements
<1>6. /\ Elements(state.queue) \subseteq Superseded
      /\ \A r \in Requests : req[r] # NoRequest => req[r].name \notin Elements(state.queue)
  <2>1. CASE Elements(state.queue) \subseteq Elements(drain[n].queue)
    BY <1>1, <2>1 DEF DrainInv
  <2>2. CASE /\ drain[n].at = "sleep" /\ drain[n].wait = 0
             /\ Elements(state.queue) = Before(n)
    <3>1. n \in Elements(services) /\ services \in Seq(Names)
      BY <1>1, <2>2 DEF DrainInv, TypeOK
    <3>2. Before(n) \subseteq Superseded
      BY <3>1, SupersededListed
    <3>3. ASSUME NEW r \in Requests, req[r] # NoRequest, req[r].name \in Before(n)
          PROVE  FALSE
      <4>1. req[r].left + ReadTimeout <= 0
        BY <1>1, <2>2, <3>3 DEF DrainInv
      <4>2. req[r].left \in Nat /\ ReadTimeout \in Nat /\ ReadTimeout > 0
        BY <1>1, ReqFields, GraceType
      <4>3. QED
        BY ONLY <4>1, <4>2
    <3>4. QED
      BY <2>2, <3>2, <3>3
  <2>3. QED
    BY <1>3, <2>1, <2>2
<1>7. DrainInv'
  <2>1. ASSUME NEW m \in Names
        PROVE  /\ Elements(drain[m].queue)' \subseteq Superseded'
               /\ drain'[m].at = "sleep" => m \in Elements(services)'
               /\ \A r \in Requests :
                    req'[r] # NoRequest =>
                      /\ req'[r].name \notin Elements(drain[m].queue)'
                      /\ drain'[m].at = "sleep" /\ req'[r].name \in Before(m)' =>
                           req'[r].left + ReadTimeout <= drain'[m].wait
    <3>1. CASE m = n
      <4>1. Elements(drain[m].queue)' = Elements(state.queue)
        BY <1>4, <3>1 DEF Elements
      <4>2. QED
        BY <1>2, <1>3, <1>4, <1>5, <1>6, <3>1, <4>1
    <3>2. CASE m # n
      <4>1. /\ drain'[m] = drain[m]
            /\ Elements(drain[m].queue)' = Elements(drain[m].queue)
        BY <1>4, <3>2 DEF Elements
      <4>2. QED
        BY <1>1, <1>2, <1>5, <4>1 DEF DrainInv
    <3>3. QED
      BY <3>1, <3>2
  <2>2. QED
    BY <2>1 DEF DrainInv
<1>8. FreshInv' /\ RunningInv' /\ RequestsInv'
  BY <1>1, <1>2, <1>5 DEF FreshInv, RunningInv, RequestsInv, Routed
<1>9. QED
  BY <1>7, <1>8 DEF OneInv

(* A new request is with the last container, which no goroutine stops; time  *)
(* passes for the requests and for the sleeping goroutines alike.            *)
LEMMA RequestOne ==
  ASSUME IInv, OneInv, RequestStep
  PROVE  OneInv'
<1>1. /\ TypeOK /\ ListsInv
      /\ FreshInv /\ RunningInv /\ DrainInv /\ RequestsInv
  BY DEF IInv, OneInv
<1>2. /\ exiting' = exiting /\ ctr' = ctr /\ services' = services /\ start' = start
  BY DEF RequestStep, Tick, Route, Respond, life, docker
<1>3. /\ Superseded' = Superseded /\ Elements(services)' = Elements(services)
      /\ \A m \in Names : Before(m)' = Before(m)
  BY <1>2 DEF Superseded, Before, Elements
<1>4. FreshInv'
  BY <1>1, <1>2 DEF FreshInv
<1>5. CASE Tick
  <2>1. ASSUME NEW r \in Requests, req'[r] # NoRequest
        PROVE  /\ req[r] # NoRequest /\ req'[r].name = req[r].name
               /\ req'[r].left = req[r].left - 1
    BY <1>1, <1>5, <2>1, TickFacts
  <2>2. ASSUME NEW m \in Names
        PROVE  /\ drain'[m].at = drain[m].at /\ drain'[m].queue = drain[m].queue
               /\ drain'[m].wait = IF drain[m].wait = 0 THEN 0 ELSE drain[m].wait - 1
    <3>1. CASE drain[m].wait = 0
      BY <1>1, <1>5, <3>1, TickFacts
    <3>2. CASE drain[m].wait # 0
      <4>1. drain'[m] = [at |-> drain[m].at, wait |-> drain[m].wait - 1,
                         queue |-> drain[m].queue]
        BY <1>1, <1>5, <3>2, TickFacts
      <4>2. QED
        BY <3>2, <4>1
    <3>3. QED
      BY <3>1, <3>2
  <2>3. RequestsInv' /\ RunningInv'
    BY <1>1, <1>2, <1>3, <2>1 DEF RequestsInv, RunningInv, Routed
  <2>4. ASSUME NEW m \in Names, NEW r \in Requests, req'[r] # NoRequest,
               drain'[m].at = "sleep", req'[r].name \in Before(m)'
        PROVE  req'[r].left + ReadTimeout <= drain'[m].wait
    <3>1. req[r].left + ReadTimeout <= drain[m].wait
      BY <1>1, <1>3, <2>1, <2>2, <2>4 DEF DrainInv
    <3>2. req[r].left \in Nat /\ ReadTimeout \in Nat /\ ReadTimeout > 0
      BY <1>1, ReqFields, GraceType
    <3>3. drain[m].wait \in Nat
      <4>1. drain[m].wait \in 0 .. Grace /\ Grace \in Nat
        BY <1>1, DrainFields, GraceType
      <4>2. QED
        BY ONLY <4>1
    <3>4. drain[m].wait # 0
      BY ONLY <3>1, <3>2, <3>3
    <3>5. (req[r].left - 1) + ReadTimeout <= drain[m].wait - 1
      BY ONLY <3>1, <3>2, <3>3
    <3>6. QED
      BY <2>1, <2>2, <2>4, <3>4, <3>5
  <2>5. DrainInv'
    <3>1. \A m \in Names : Elements(drain[m].queue)' = Elements(drain[m].queue)
      BY <2>2 DEF Elements
    <3>2. QED
      BY <1>1, <1>3, <2>1, <2>2, <2>4, <3>1 DEF DrainInv
  <2>6. QED
    BY <1>4, <2>3, <2>5 DEF OneInv
<1>6. ASSUME NEW r \in Requests, Respond(r)
      PROVE  OneInv'
  <2>1. /\ drain' = drain
        /\ \A q \in Requests : req'[q] # NoRequest => req'[q] = req[q]
    BY <1>1, <1>6 DEF Respond, TypeOK
  <2>2. RequestsInv' /\ RunningInv'
    BY <1>1, <1>2, <1>3, <2>1 DEF RequestsInv, RunningInv, Routed
  <2>3. DrainInv'
    <3>1. \A m \in Names : Elements(drain[m].queue)' = Elements(drain[m].queue)
      BY <2>1 DEF Elements
    <3>2. QED
      BY <1>1, <1>3, <2>1, <3>1 DEF DrainInv
  <2>4. QED
    BY <1>4, <2>2, <2>3 DEF OneInv
<1>7. ASSUME NEW r \in Requests, Route(r)
      PROVE  OneInv'
  <2>1. /\ drain' = drain /\ services # <<>>
        /\ req'[r].name = Routed
        /\ \A q \in Requests : q # r => req'[q] = req[q]
    BY <1>1, <1>7 DEF Route, TypeOK
  <2>2. services \in Seq(Names) /\ Distinct(services)
    BY <1>1 DEF TypeOK, ListsInv
  <2>3. Routed \in Elements(services) /\ Routed \notin Superseded
    BY <2>1, <2>2, RoutedListed, SupersededListed
  <2>4. \A m \in Elements(services) : Routed \notin Before(m)
    BY <2>2, <2>3, SupersededListed
  <2>5. RequestsInv' /\ RunningInv'
    BY <1>1, <1>2, <1>3, <2>1, <2>3 DEF RequestsInv, RunningInv, Routed
  <2>6. DrainInv'
    <3>1. \A m \in Names : Elements(drain[m].queue)' = Elements(drain[m].queue)
      BY <2>1 DEF Elements
    <3>2. \A m \in Names : Routed \notin Elements(drain[m].queue)
      BY <1>1, <2>3 DEF DrainInv
    <3>3. \A m \in Names : drain[m].at = "sleep" => Routed \notin Before(m)
      BY <1>1, <2>4 DEF DrainInv
    <3>4. QED
      BY <1>1, <1>3, <2>1, <3>1, <3>2, <3>3 DEF DrainInv
  <2>7. QED
    BY <1>4, <2>5, <2>6 DEF OneInv
<1>8. QED
  BY <1>5, <1>6, <1>7 DEF RequestStep

LEMMA OneInvNext == OneDeploy /\ IInv /\ OneInv /\ [Next]_vars => OneInv'
<1> SUFFICES ASSUME OneDeploy, IInv, OneInv, [Next]_vars PROVE OneInv'
  OBVIOUS
<1>1. TypeOK
  BY DEF IInv
<1>2. CASE Next
  <2>1. CASE Restart
    BY <1>1, <2>1, RestartInv
  <2>2. CASE StartProcess \/ CleanDirs \/ Listen \/ Signal
    BY <2>2, ProcessOne
  <2>3. ASSUME NEW c \in Callers, GiveUp(c) \/ Advance(c) \/ AppendService(c)
        PROVE  OneInv'
    BY <2>3, GiveUpOne, AdvanceOne, AppendOne
  <2>4. CASE StopStep \/ QueueStep \/ RequestStep
    BY <2>4, StopOne, QueueOne, RequestOne
  <2>5. QED
    BY <1>1, <1>2, <2>1, <2>2, <2>3, <2>4, Steps
<1>3. CASE UNCHANGED vars
  <2>1. /\ exiting' = exiting /\ ctr' = ctr /\ services' = services
        /\ start' = start /\ drain' = drain /\ req' = req
    BY <1>3 DEF vars, life, docker
  <2>2. FreshInv' /\ RunningInv'
    BY <2>1 DEF OneInv, FreshInv, RunningInv, Routed
  <2>3. DrainInv' /\ RequestsInv'
    BY <2>1, SameDrain DEF OneInv
  <2>4. QED
    BY <2>2, <2>3 DEF OneInv
<1>4. QED
  BY <1>2, <1>3

THEOREM OneInvariance == ASSUME OneDeploy PROVE Spec => []OneInv
<1>1. Init => OneInv
  BY InitInv
<1>2. IInv /\ OneInv /\ [Next]_vars => OneInv'
  BY OneInvNext
<1>3. QED
  BY <1>1, <1>2, Invariance, PTL DEF Spec

(* With one deploy at a time, new requests are routed to a container that    *)
(* was not stopped and whose socket directory is there, until a signal says  *)
(* otherwise:                                                                *)
(* failed deploys, goroutines that stop containers late and restarts in any  *)
(* order do not stop the last container of the list.                         *)
THEOREM RoutedAlwaysRuns == ASSUME OneDeploy PROVE Spec => []RoutedIsRunning
<1>1. IInv /\ OneInv => RoutedIsRunning
  <2> SUFFICES ASSUME IInv, OneInv, services # <<>>, ~ exiting
               PROVE  ctr[Routed] \in {"running", "exited"} /\ Routed \in dirs
    BY DEF RoutedIsRunning, NotStopped
  <2>1. TypeOK /\ DirsInv /\ RunningInv
    BY DEF IInv, OneInv
  <2>2. Routed \in Elements(services)
    BY <2>1, RoutedListed DEF TypeOK
  <2>3. QED
    BY <2>1, <2>2 DEF RunningInv, DirsInv
<1>2. QED
  BY <1>1, Invariance, OneInvariance, PTL

(* With one deploy at a time, and for all timeouts with a readTimeout above  *)
(* zero, no container is stopped under a request that may still be answered: *)
(* the sleep of readTimeout + writeTimeout outlasts them.                    *)
THEOREM NoneAborted == ASSUME OneDeploy PROVE Spec => []NoRequestAborted
<1>1. OneInv => NoRequestAborted
  BY DEF OneInv, RunningInv, NoRequestAborted, NotStopped
<1>2. QED
  BY <1>1, OneInvariance, PTL

-----------------------------------------------------------------------------
(* One deploy at a time: what is superseded is stopped.                      *)

LEMMA AwaitSame ==
  ASSUME services \in Seq(Names), SupersededAwaited,
         services' = services, failed \subseteq failed',
         \A n \in Elements(services) : Running(n)' => Running(n),
         \A m \in Names : drain'[m].at = drain[m].at /\ drain'[m].queue = drain[m].queue
  PROVE  SupersededAwaited'
<1>1. Superseded' = Superseded /\ Superseded \subseteq Elements(services)
  BY SupersededListed DEF Superseded
<1>2. \A n : Before(n)' = Before(n)
  BY DEF Before
<1>3. \A m \in Names : \A n : Awaits(m, n) => Awaits(m, n)'
  BY <1>2 DEF Awaits, Elements
<1>4. QED
  BY <1>1, <1>3 DEF SupersededAwaited

LEMMA AppendAwait ==
  ASSUME OneDeploy, IInv, OneInv, NEW c \in Callers, AppendService(c)
  PROVE  SupersededAwaited'
<1>1. TypeOK /\ DirsInv /\ ListsInv /\ LifeInv /\ FreshInv
  BY DEF IInv, OneInv
<1>0. start[c].name \in Names /\ services' = Append(services, start[c].name)
  BY <1>1, AppendFacts DEF FreshInv
<1> PICK n \in Names : n = start[c].name
  BY <1>0
<1>2. /\ start[c].at = "append" /\ services' = Append(services, n)
      /\ services \in Seq(Names) /\ n \notin Elements(services)
  BY <1>0, <1>1 DEF AppendService, TypeOK, DirsInv
<1>3. /\ Len(services') = Len(services) + 1
      /\ DOMAIN services' = 1 .. Len(services) + 1
      /\ services'[Len(services) + 1] = n
      /\ \A i \in 1 .. Len(services) : services'[i] = services[i]
      /\ Len(services) \in Nat /\ DOMAIN services = 1 .. Len(services)
  BY <1>2, AppendElements, LenProperties
<1>4. Superseded' = Elements(services)
  <2>1. (Len(services) + 1) - 1 = Len(services)
    BY <1>3
  <2>2. QED
    BY <1>3, <2>1 DEF Superseded, Elements
<1>5. CASE c = Boot
  <2>1. services = <<>>
    BY <1>1, <1>2, <1>5, InCall DEF LifeInv
  <2>2. Superseded' = {}
    BY <1>4, <2>1, EmptyElements
  <2>3. QED
    BY <2>2 DEF SupersededAwaited
<1>6. CASE c # Boot
  <2>1. drain'[n].at = "sleep"
    BY <1>1, <1>2, <1>6, AppendDrain
  <2>2. Elements(services) \subseteq Before(n)'
    <3>1. \A i \in 1 .. Len(services) : services'[i] # n
      BY <1>2, <1>3 DEF Elements
    <3>2. \A i \in 1 .. Len(services) :
            i \in 1 .. Len(services) + 1 /\ \A j \in 1 .. i : j \in 1 .. Len(services)
      BY <1>3
    <3>3. \A i \in 1 .. Len(services) : services'[i] \in Before(n)'
      BY <1>3, <3>1, <3>2 DEF Before
    <3>4. QED
      BY <1>3, <3>3 DEF Elements
  <2>3. \A m \in Superseded' : Awaits(n, m)'
    BY <1>4, <2>1, <2>2 DEF Awaits
  <2>4. QED
    BY <1>2, <2>3 DEF SupersededAwaited
<1>7. QED
  BY <1>5, <1>6

(* A goroutine that wakes up takes over all that it slept for, and what it   *)
(* takes off its queue has ended or is in the log.                           *)
LEMMA QueueAwait ==
  ASSUME IInv, OneInv, SupersededAwaited, QueueStep
  PROVE  SupersededAwaited'
<1>1. TypeOK /\ ListsInv /\ services \in Seq(Names) /\ DOMAIN drain = Names
  BY DEF IInv, TypeOK
<1>2. PICK n \in Names : WakeUp(n) \/ StopReturns(n) \/ StopFails(n) \/ DrainEnds(n)
  BY DEF QueueStep
<1>3. services' = services /\ ctr' = ctr /\ failed \subseteq failed'
  BY <1>2 DEF WakeUp, StopReturns, StopFails, DrainEnds, life, docker
<1>4. Superseded' = Superseded /\ \A m : Before(m)' = Before(m)
  BY <1>3 DEF Superseded, Before
<1>5. \A m \in Names : m # n => drain'[m] = drain[m]
  BY <1>1, <1>2 DEF WakeUp, StopReturns, StopFails, DrainEnds
<1>6. \A m \in Names : \A k : m # n /\ Awaits(m, k) => Awaits(m, k)'
  BY <1>4, <1>5 DEF Awaits, Elements
<1>7. ASSUME NEW k \in Superseded, Running(k), Awaits(n, k), k \notin failed'
      PROVE  Awaits(n, k)'
  <2>1. CASE WakeUp(n)
    <3>1. /\ drain'[n].queue = DrainList(n) /\ drain'[n].at = "stop"
          /\ drain[n].at = "sleep"
      BY <1>1, <2>1 DEF WakeUp
    <3>2. k \in Before(n)
      BY <1>7, <3>1 DEF Awaits
    <3>3. Elements(DrainList(n)) = Before(n)
      BY <1>1, DrainListElements DEF ListsInv
    <3>4. QED
      BY <3>1, <3>2, <3>3 DEF Awaits, Elements
  <2>2. CASE StopReturns(n) \/ StopFails(n)
    <3>1. /\ drain[n].at = "stop" /\ drain[n].queue # <<>>
          /\ drain'[n].at = "stop" /\ drain'[n].queue = Tail(drain[n].queue)
          /\ k # Head(drain[n].queue)
      <4>1. /\ drain[n].at = "stop" /\ drain[n].queue # <<>>
            /\ drain' = [drain EXCEPT ![n].queue = Tail(drain[n].queue)]
        BY <2>2 DEF StopReturns, StopFails
      <4>2. drain'[n] = [at |-> drain[n].at, wait |-> drain[n].wait,
                         queue |-> Tail(drain[n].queue)]
        BY <1>1, <4>1, DrainFields, SetQueue
      <4>3. k # Head(drain[n].queue)
        BY <1>7, <2>2 DEF StopReturns, StopFails
      <4>4. QED
        BY <4>1, <4>2, <4>3
    <3>2. k \in Elements(drain[n].queue) /\ drain[n].queue \in Seq(Names)
      BY <1>1, <1>7, <3>1, DrainFields DEF Awaits
    <3>3. k \in Elements(Tail(drain[n].queue))
      BY <3>1, <3>2, TailElements
    <3>4. QED
      BY <3>1, <3>3 DEF Awaits, Elements
  <2>3. CASE DrainEnds(n)
    BY <1>7, <2>3, EmptyElements DEF DrainEnds, Awaits
  <2>4. QED
    BY <1>2, <2>1, <2>2, <2>3
<1>8. QED
  BY <1>3, <1>4, <1>6, <1>7 DEF SupersededAwaited, Running

LEMMA AwaitNext == OneDeploy /\ IInv /\ OneInv /\ SupersededAwaited /\ [Next]_vars
                     => SupersededAwaited'
<1> SUFFICES ASSUME OneDeploy, IInv, OneInv, SupersededAwaited, [Next]_vars
             PROVE  SupersededAwaited'
  OBVIOUS
<1>1. TypeOK /\ DirsInv /\ services \in Seq(Names)
  BY DEF IInv, TypeOK
<1>2. ASSUME services' = services, failed' = failed, ctr' = ctr,
             \A m \in Names : drain'[m].at = drain[m].at /\ drain'[m].queue = drain[m].queue
      PROVE  SupersededAwaited'
  BY <1>1, <1>2, AwaitSame DEF Running
<1>3. CASE Restart
  <2>1. services' = <<>>
    BY <1>3 DEF Restart, Down, Forget
  <2>2. Superseded' = {}
    BY <2>1 DEF Superseded
  <2>3. QED
    BY <2>2 DEF SupersededAwaited
<1>4. CASE StartProcess \/ CleanDirs \/ Listen \/ Signal \/ UNCHANGED vars
  <2>1. services' = services /\ failed' = failed /\ ctr' = ctr /\ drain' = drain
    BY <1>4 DEF StartProcess, CleanDirs, Listen, Signal, vars, life, docker
  <2>2. QED
    BY <1>2, <2>1
<1>5. ASSUME NEW c \in Callers, GiveUp(c) \/ Advance(c)
      PROVE  SupersededAwaited'
  <2>1. services' = services /\ failed' = failed /\ drain' = drain
    BY <1>5 DEF GiveUp, Advance, Deploy, MakeStateDir, RunContainer, Probe, life
  <2>2. \A n \in Names : ctr'[n] # ctr[n] => n = start[c].name
    BY <1>1, <1>5, CtrDomain DEF GiveUp, Advance, Deploy, MakeStateDir, RunContainer, Probe,
                              docker
  <2>3. start[c].name \notin Elements(services) /\ Elements(services) \subseteq Names
    BY <1>1 DEF DirsInv, TypeOK
  <2>4. \A n \in Elements(services) : Running(n)' => Running(n)
    BY <2>2, <2>3 DEF Running
  <2>5. QED
    BY <1>1, <2>1, <2>4, AwaitSame
<1>6. ASSUME NEW c \in Callers, AppendService(c)
      PROVE  SupersededAwaited'
  BY <1>6, AppendAwait
<1>7. CASE StopStep
  <2>1. services' = services /\ failed' = failed /\ drain' = drain
    BY <1>7 DEF StopStep, CleanContainer, StopSuperseded, ContainerStops, ContainerExits,
                StopOnExit, life
  <2>2. Elements(services) \subseteq Names
    BY <1>1 DEF DirsInv, TypeOK
  <2>3. \A n \in Elements(services) : Running(n)' => Running(n)
    BY <1>1, <1>7, <2>2, StopRuns
  <2>4. QED
    BY <1>1, <2>1, <2>3, AwaitSame
<1>8. CASE QueueStep
  BY <1>8, QueueAwait
<1>9. CASE RequestStep
  <2>1. services' = services /\ failed' = failed /\ ctr' = ctr
    BY <1>9 DEF RequestStep, Tick, Route, Respond, life, docker
  <2>2. CASE Tick
    <3>1. \A m \in Names : drain'[m].at = drain[m].at /\ drain'[m].queue = drain[m].queue
      <4> TAKE m \in Names
      <4>1. CASE drain[m].wait = 0
        BY <1>1, <2>2, <4>1, TickFacts
      <4>2. CASE drain[m].wait # 0
        <5>1. drain'[m] = [at |-> drain[m].at, wait |-> drain[m].wait - 1,
                           queue |-> drain[m].queue]
          BY <1>1, <2>2, <4>2, TickFacts
        <5>2. QED
          BY <5>1
      <4>3. QED
        BY <4>1, <4>2
    <3>2. QED
      BY <1>2, <2>1, <3>1
  <2>3. CASE ~ Tick
    <3>1. drain' = drain
      BY <1>9, <2>3 DEF RequestStep, Route, Respond
    <3>2. QED
      BY <1>2, <2>1, <3>1
  <2>4. QED
    BY <2>2, <2>3
<1>10. QED
  BY <1>1, <1>3, <1>4, <1>5, <1>6, <1>7, <1>8, <1>9, Steps

(* With one deploy at a time a container that was replaced is never          *)
(* forgotten: as long as it runs, either a goroutine has yet to stop it or   *)
(* the log says that stopping it failed, whatever deploys follow or fail.    *)
THEOREM SupersededNeverForgotten == ASSUME OneDeploy PROVE Spec => []SupersededAwaited
<1>1. Init => SupersededAwaited
  <2> SUFFICES ASSUME Init PROVE SupersededAwaited
    OBVIOUS
  <2>1. Superseded = {}
    BY DEF Init, Superseded
  <2>2. QED
    BY <2>1 DEF SupersededAwaited
<1>2. IInv /\ OneInv /\ SupersededAwaited /\ [Next]_vars => SupersededAwaited'
  BY AwaitNext
<1>3. QED
  BY <1>1, <1>2, Invariance, OneInvariance, PTL DEF Spec

=============================================================================
