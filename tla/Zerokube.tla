------------------------------ MODULE Zerokube ------------------------------
(* zerokube (zerokube/main.go): runs the container of a web service, routes  *)
(* HTTPS requests to it and replaces it without dropping requests.  A POST   *)
(* to /deploy starts a second container, waits until it answers, appends it  *)
(* to the list of the service, whose last element gets every new request,    *)
(* and after readTimeout + writeTimeout stops the containers before it.      *)
(*                                                                           *)
(* One service is modelled; services share nothing but the process.  The     *)
(* list is a plain Go slice in a map, written by every deploying request and *)
(* read by every other goroutine with no lock.  Containers outlive zerokube: *)
(* the next process stops those that still run.                              *)
EXTENDS Naturals, Sequences, FiniteSets

CONSTANTS
  Names,         \* zerokube.<slug>.<2 random bytes>
  NoName,
  Deployers,     \* concurrent requests to /deploy
  Boot,          \* the caller of StartService that is main, not a request
  Requests,      \* concurrent requests to the service
  ReadTimeout, WriteTimeout,  \* in ticks
  MaxBoots       \* bound: starts of the process

ASSUME NamesType    == NoName \notin Names
ASSUME BootType     == Boot \notin Deployers
ASSUME TimeoutsType == ReadTimeout \in Nat \ {0} /\ WriteTimeout \in Nat
ASSUME BootsType    == MaxBoots \in Nat

VARIABLES
  process,   \* "down", "cleaning" and "starting" (Initialize), "serving"
  boots,
  exiting,   \* a signal arrived: its handler is stopping containers
  exitQueue, \* containers that the signal handler still has to stop
  failed,    \* containers of which /deploy logged "Error stopping"
  ctr,       \* Docker: name -> state of the container
  dirs,      \* names with a state directory
  services,  \* z.Services[config.Serve]: containers, the last gets requests
  start,     \* caller -> its call of StartService
  drain,     \* container -> the goroutine that stops those before it
  req        \* request -> its container and the ticks until writeTimeout

docker == <<ctr, dirs>>
life   == <<process, boots, exiting, exitQueue, failed>>
vars   == <<life, docker, services, start, drain, req>>

Callers == Deployers \cup {Boot}

NoStart   == [at |-> "no", name |-> NoName, list |-> <<>>]
NoDrain   == [at |-> "no", wait |-> 0, queue |-> <<>>]
NoRequest == [name |-> NoName, left |-> 0]

Elements(list) == {list[i] : i \in DOMAIN list}
Routed == services[Len(services)]

Up == process # "down"

Running(n) == ctr[n] \in {"running", "stopping"}

Init ==
  /\ process = "down" /\ boots = 0 /\ exiting = FALSE /\ exitQueue = <<>>
  /\ failed = {}
  /\ ctr = [n \in Names |-> "absent"] /\ dirs = {}
  /\ services = <<>>
  /\ start = [c \in Callers |-> NoStart]
  /\ drain = [n \in Names |-> NoDrain]
  /\ req = [r \in Requests |-> NoRequest]

-----------------------------------------------------------------------------
(* The process: its memory is gone when it ends, and its proxies with it.    *)

Forget ==
  /\ exiting' = FALSE /\ exitQueue' = <<>> /\ failed' = {} /\ services' = <<>>
  /\ start' = [c \in Callers |-> NoStart]
  /\ drain' = [n \in Names |-> NoDrain]
  /\ req' = [r \in Requests |-> NoRequest]

Down == process' = "down" /\ Forget /\ UNCHANGED boots

(* By the operating system, or by the Go runtime, which aborts when it finds *)
(* two requests writing the map of services (main.go:491) at the same time.  *)
Killed == Up /\ Down /\ UNCHANGED docker

StartProcess ==
  /\ process = "down" /\ boots < MaxBoots
  /\ process' = "cleaning" /\ boots' = boots + 1
  /\ UNCHANGED <<exiting, exitQueue, failed, docker, services, start, drain, req>>

(* The running containers that Initialize finds.  Containers that only exist *)
(* are not listed, and keep their names.                                     *)
Leftover == {n \in Names : Running(n)}

CleanContainer(n) ==    \* ContainerStop with timeout 0
  /\ process = "cleaning" /\ n \in Leftover
  /\ ctr' = [ctr EXCEPT ![n] = "stopped"]
  /\ UNCHANGED <<life, dirs, services, start, drain, req>>

(* mutant: containers of an earlier process are not stopped *)
KeepContainers ==
  /\ process = "cleaning"
  /\ dirs' = {}
  /\ process' = "starting"
  /\ start' = [start EXCEPT ![Boot] = [NoStart EXCEPT !.at = "begin"]]
  /\ UNCHANGED <<boots, exiting, exitQueue, failed, ctr, services, drain, req>>

CleanDirs ==
  /\ process = "cleaning" /\ Leftover = {}
  /\ dirs' = {}
  /\ process' = "starting"
  /\ start' = [start EXCEPT ![Boot] = [NoStart EXCEPT !.at = "begin"]]
  /\ UNCHANGED <<boots, exiting, exitQueue, failed, ctr, services, drain, req>>

CleaningFails ==        \* Docker or the file system reports an error: a panic
  /\ process = "cleaning"
  /\ Down /\ UNCHANGED docker

Listen ==
  /\ process = "starting" /\ start[Boot].at = "no"
  /\ process' = "serving"
  /\ UNCHANGED <<boots, exiting, exitQueue, failed, docker, services, start,
                 drain, req>>

-----------------------------------------------------------------------------
(* StartService, called by Initialize and by /deploy requests.               *)

SetStart(c, at, name, list) ==
  start' = [start EXCEPT ![c] = [at |-> at, name |-> name, list |-> list]]

Deploy(c) ==
  /\ process = "serving" /\ c \in Deployers /\ start[c].at = "no"
  /\ SetStart(c, "begin", NoName, <<>>)
  /\ UNCHANGED <<life, docker, services, drain, req>>

(* A panic: net/http recovers it in a request, nobody does in Initialize.    *)
StartFails(c) ==
  \/ /\ c \in Deployers
     /\ SetStart(c, "no", NoName, <<>>)
     /\ UNCHANGED <<life, services, drain, req>>
  \/ /\ c = Boot
     /\ Down

(* mutant: os.MkdirAll *)
MakeStateDirAll(c) ==
  /\ start[c].at = "begin"
  /\ \E n \in Names :
       /\ dirs' = dirs \cup {n}
       /\ SetStart(c, "run", n, <<>>)
  /\ UNCHANGED <<life, ctr, services, drain, req>>

MakeStateDir(c) ==      \* os.Mkdir
  /\ start[c].at = "begin"
  /\ \E n \in Names \ dirs :
       /\ dirs' = dirs \cup {n}
       /\ SetStart(c, "run", n, <<>>)
  /\ UNCHANGED <<life, ctr, services, drain, req>>

NameTaken(c) ==         \* the random name has a state directory already
  /\ start[c].at = "begin" /\ dirs # {}
  /\ StartFails(c)
  /\ UNCHANGED docker

RunContainer(c) ==      \* ImagePull, ContainerCreate, ContainerStart
  /\ start[c].at = "run" /\ ctr[start[c].name] = "absent"
  /\ ctr' = [ctr EXCEPT ![start[c].name] = "running"]
  /\ SetStart(c, "probe", start[c].name, <<>>)
  /\ UNCHANGED <<life, dirs, services, drain, req>>

(* A panic before, between or after the calls to Docker; also when a stopped *)
(* container still has the name.  The state directory stays.                 *)
RunFails(c) ==
  /\ start[c].at = "run"
  /\ \/ UNCHANGED ctr
     \/ /\ ctr[start[c].name] = "absent"
        /\ \E state \in {"created", "running"} :
             ctr' = [ctr EXCEPT ![start[c].name] = state]
  /\ StartFails(c)
  /\ UNCHANGED dirs

(* mutant: the service is listed before it answers *)
ProbeFailsListed(c) ==
  /\ start[c].at = "probe"
  /\ ctr' = [ctr EXCEPT ![start[c].name] = "stopped"]
  /\ services' = Append(services, start[c].name)
  /\ SetStart(c, "no", NoName, <<>>)
  /\ UNCHANGED <<life, dirs, drain, req>>

(* Every probe was answered with an empty body, or not at all.  The stop can *)
(* fail too, as when the client of the request has gone.                     *)
ProbeFails(c) ==
  /\ start[c].at = "probe"
  /\ ctr' \in {ctr, [ctr EXCEPT ![start[c].name] = "stopped"]}
  /\ StartFails(c)
  /\ UNCHANGED dirs

Probe(c) ==             \* read z.Services[svc.Config.Serve]
  /\ start[c].at = "probe"
  /\ SetStart(c, "append", start[c].name, services)
  /\ UNCHANGED <<life, docker, services, drain, req>>

(* mutant: the grace of the old container is the read timeout alone *)
ReadGrace == ReadTimeout

Grace == ReadTimeout + WriteTimeout

(* Write it back with the new container appended, and, in a request, start   *)
(* the goroutine that will stop the others.                                  *)
AppendService(c) ==
  /\ start[c].at = "append"
  /\ services' = Append(start[c].list, start[c].name)
  /\ SetStart(c, "no", NoName, <<>>)
  /\ \/ /\ c = Boot /\ UNCHANGED drain
     \/ /\ c \in Deployers
        /\ drain' = [drain EXCEPT ![start[c].name] =
                       [at |-> "sleep", wait |-> Grace, queue |-> <<>>]]
  /\ UNCHANGED <<life, docker, req>>

-----------------------------------------------------------------------------
(* Requests to the service.                                                  *)

Route(r) ==
  /\ process = "serving" /\ services # <<>> /\ req[r] = NoRequest
  /\ req' = [req EXCEPT ![r] = [name |-> Routed, left |-> WriteTimeout]]
  /\ UNCHANGED <<life, docker, services, start, drain>>

Respond(r) ==           \* complete, failed or past writeTimeout
  /\ req[r] # NoRequest
  /\ req' = [req EXCEPT ![r] = NoRequest]
  /\ UNCHANGED <<life, docker, services, start, drain>>

(* mutant: a response may be written after writeTimeout *)
TickLate ==
  /\ \/ \E r \in Requests : req[r] # NoRequest
     \/ \E n \in Names : drain[n].wait > 0
  /\ req' = [r \in Requests |->
               IF req[r] = NoRequest THEN NoRequest
               ELSE [req[r] EXCEPT !.left = @ - 1]]
  /\ drain' = [n \in Names |->
                 IF drain[n].wait = 0 THEN drain[n]
                 ELSE [drain[n] EXCEPT !.wait = @ - 1]]
  /\ UNCHANGED <<life, docker, services, start>>

(* One unit of time.  No response is written after writeTimeout, an append   *)
(* takes less than a unit; a sleeping goroutine may wake up late.            *)
Tick ==
  /\ \A c \in Callers : start[c].at # "append"
  /\ \A r \in Requests : req[r] # NoRequest => req[r].left > 0
  /\ \/ \E r \in Requests : req[r] # NoRequest
     \/ \E n \in Names : drain[n].wait > 0
  /\ req' = [r \in Requests |->
               IF req[r] = NoRequest THEN NoRequest
               ELSE [req[r] EXCEPT !.left = @ - 1]]
  /\ drain' = [n \in Names |->
                 IF drain[n].wait = 0 THEN drain[n]
                 ELSE [drain[n] EXCEPT !.wait = @ - 1]]
  /\ UNCHANGED <<life, docker, services, start>>

-----------------------------------------------------------------------------
(* Stopping the containers that a deploy superseded.                         *)

(* mutant: the loop starts at the second element *)
DrainNotFirst(n) ==
  LET before == {i \in DOMAIN services : \A j \in 1 .. i : services[j] # n}
  IN  SubSeq(services, 2, Cardinality(before))

(* the elements before the first occurrence of n *)
DrainList(n) ==
  LET before == {i \in DOMAIN services : \A j \in 1 .. i : services[j] # n}
  IN  SubSeq(services, 1, Cardinality(before))

WakeUp(n) ==
  /\ drain[n].at = "sleep" /\ drain[n].wait = 0
  /\ drain' = [drain EXCEPT ![n] = [at |-> "stop", wait |-> 0, queue |-> DrainList(n)]]
  /\ UNCHANGED <<life, docker, services, start, req>>

(* ContainerStop with gracePeriod: Docker sends the signal and waits.  It is *)
(* done at once for a container that has ended.                              *)
SendStop(n) == ctr' = [ctr EXCEPT ![n] = "stopping"]

StopSuperseded(n) ==
  /\ drain[n].at = "stop" /\ drain[n].queue # <<>>
  /\ ctr[Head(drain[n].queue)] = "running"
  /\ SendStop(Head(drain[n].queue))
  /\ UNCHANGED <<life, dirs, services, start, drain, req>>

StopReturns(n) ==
  /\ drain[n].at = "stop" /\ drain[n].queue # <<>>
  /\ ~ Running(Head(drain[n].queue))
  /\ drain' = [drain EXCEPT ![n].queue = Tail(@)]
  /\ UNCHANGED <<life, docker, services, start, req>>

(* Docker reports an error, before or after the signal.  It is logged, and   *)
(* the container is left as it is.                                           *)
StopFails(n) ==
  /\ drain[n].at = "stop" /\ drain[n].queue # <<>>
  /\ failed' = failed \cup {Head(drain[n].queue)}
  /\ drain' = [drain EXCEPT ![n].queue = Tail(@)]
  /\ UNCHANGED <<process, boots, exiting, exitQueue, docker, services, start, req>>

DrainEnds(n) ==
  /\ drain[n].at = "stop" /\ drain[n].queue = <<>>
  /\ drain' = [drain EXCEPT ![n] = NoDrain]
  /\ UNCHANGED <<life, docker, services, start, req>>

ContainerStops(n) ==    \* after the signal, or killed by Docker
  /\ ctr[n] = "stopping"
  /\ ctr' = [ctr EXCEPT ![n] = "stopped"]
  /\ UNCHANGED <<life, dirs, services, start, drain, req>>

ContainerExits(n) ==    \* its program ends by itself, at any time
  /\ ctr[n] = "running"
  /\ ctr' = [ctr EXCEPT ![n] = "exited"]
  /\ UNCHANGED <<life, dirs, services, start, drain, req>>

-----------------------------------------------------------------------------
(* SIGINT or SIGTERM: the handler stops every listed container, while the    *)
(* servers keep running, then exits.                                         *)

Signal ==
  /\ process \in {"cleaning", "starting", "serving"} /\ ~ exiting
  /\ exiting' = TRUE /\ exitQueue' = services
  /\ UNCHANGED <<process, boots, failed, docker, services, start, drain, req>>

StopOnExit ==
  /\ exiting /\ exitQueue # <<>>
  /\ \/ /\ ctr[Head(exitQueue)] = "running"
        /\ SendStop(Head(exitQueue))
        /\ UNCHANGED exitQueue
     \/ /\ exitQueue' = Tail(exitQueue)      \* it ended, or an error is logged
        /\ UNCHANGED ctr
  /\ UNCHANGED <<process, boots, exiting, failed, dirs, services, start, drain, req>>

Exit ==
  /\ exiting /\ exitQueue = <<>>
  /\ Down /\ UNCHANGED docker

-----------------------------------------------------------------------------
StartStep(c) ==
  \/ MakeStateDir(c) \/ NameTaken(c) \/ RunContainer(c) \/ RunFails(c)
  \/ Probe(c) \/ ProbeFails(c) \/ AppendService(c)

DrainStep(n) ==
  \/ WakeUp(n) \/ DrainEnds(n)
  \/ StopSuperseded(n) \/ StopReturns(n) \/ StopFails(n)

ProcessStep ==
  \/ StartProcess \/ CleanDirs \/ CleaningFails \/ Listen \/ StopOnExit \/ Exit
  \/ \E n \in Names : CleanContainer(n)

Next ==
  \/ ProcessStep
  \/ Killed \/ Signal \/ Tick
  \/ \E c \in Callers : Deploy(c) \/ StartStep(c)
  \/ \E n \in Names : DrainStep(n) \/ ContainerStops(n) \/ ContainerExits(n)
  \/ \E r \in Requests : Route(r) \/ Respond(r)

Spec == Init /\ [][Next]_vars

-----------------------------------------------------------------------------
StartStates == [at : {"no", "begin", "run", "probe", "append"},
                name : Names \cup {NoName}, list : Seq(Names)]
DrainStates == [at : {"no", "sleep", "stop"}, wait : 0 .. Grace, queue : Seq(Names)]

ContainerStates ==
  {"absent", "created", "running", "exited", "stopping", "stopped"}

TypeOK ==
  /\ process \in {"down", "cleaning", "starting", "serving"}
  /\ boots \in Nat /\ exiting \in BOOLEAN /\ exitQueue \in Seq(Names)
  /\ ctr \in [Names -> ContainerStates]
  /\ failed \subseteq Names
  /\ dirs \subseteq Names
  /\ services \in Seq(Names)
  /\ start \in [Callers -> StartStates]
  /\ drain \in [Names -> DrainStates]
  /\ req \in [Requests -> [name : Names \cup {NoName}, left : 0 .. WriteTimeout]]

(* Zerokube has not stopped it; it may have ended by itself. *)
NotStopped(n) == ctr[n] \in {"running", "exited"}

(* While no signal asks for it, no deploy, failed deploy or restart leaves   *)
(* new requests with a container that zerokube stopped, or whose socket      *)
(* directory it removed.  With two deploys at once the lost append of one    *)
(* breaks it, so it is checked for one deploy at a time.                     *)
RoutedIsRunning ==
  services # <<>> /\ ~ exiting => NotStopped(Routed) /\ Routed \in dirs

(* The old container gets its stop signal only when every request that was   *)
(* routed to it has been answered or has timed out: the sleep in /deploy.    *)
NoRequestAborted ==
  \A r \in Requests :
    req[r] # NoRequest /\ ~ exiting => NotStopped(req[r].name)

(* The state directory in which a call of StartService is about to start a   *)
(* container, and with it the socket, is that of no running container, of    *)
(* whichever process, and of no other call; and a name is never listed twice.*)
NamesDistinct ==
  /\ \A c \in Callers : start[c].at = "run" => ~ Running(start[c].name)
  /\ \A c, d \in Callers :
       c # d /\ start[c].name # NoName => start[c].name # start[d].name
  /\ \A i, j \in DOMAIN services : services[i] = services[j] => i = j

(* When a process starts to listen no container is running but the one it    *)
(* routes to, which it has not stopped, whatever the processes before it     *)
(* left behind.                                                              *)
CleanStart ==
  [][process = "starting" /\ process' = "serving" /\ ~ exiting =>
       NotStopped(Routed) /\ Leftover \subseteq {Routed}]_vars

Superseded == {services[i] : i \in 1 .. Len(services) - 1}

(* the elements of the list before the first occurrence of n *)
Before(n) == {services[i] : i \in {k \in DOMAIN services :
                                    \A j \in 1 .. k : services[j] # n}}

(* The goroutine of container m has yet to stop n. *)
Awaits(m, n) == \/ drain[m].at = "sleep" /\ n \in Before(m)
                \/ drain[m].at = "stop" /\ n \in Elements(drain[m].queue)

(* A container that was replaced is never left to run beside its successor:  *)
(* it has ended, or the log has the error for which it was not stopped, or   *)
(* the goroutine of a later deploy has yet to stop it.  With two deploys at  *)
(* once a container lost from the list, which is superseded in fact and      *)
(* before no name of the list, runs for ever; so it is checked for one       *)
(* deploy at a time.                                                         *)
SupersededAwaited ==
  \A n \in Superseded :
    ~ Running(n) \/ n \in failed \/ \E m \in Names : Awaits(m, n)

=============================================================================
