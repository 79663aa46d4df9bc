---------------------------- MODULE BenchmarkProofs ----------------------------
(***************************************************************************)
(* Theorems about the benchmark runner, for every sequence of runs, every  *)
(* way to make them, every set of runs with faults and every file that an  *)
(* earlier session left.                                                   *)
(***************************************************************************)
EXTENDS BenchmarkRunner, TLAPS

\* Nothing of run r has been started.
Fresh(r) == shell[r] = "off" /\ router[r] = "off" /\ server[r] = "off" /\ client[r] = "off"

\* The runner is through with the processes of the run at hand.
Over == rpc \in {"cleanup", "collect", "done", "raised"}

\* Whoever has the port is there.
PortHeld ==
  listener # Nobody =>
    IF Transport[listener] = "grpc" THEN server[listener] \in {"serving", "written"}
                                    ELSE router[listener] = "up"

\* Runs to come are fresh, and those that are over hold no pipe.
ProcessesInv ==
  /\ TypeOK
  /\ \A r \in Run : r > run \/ (r = run /\ rpc = "start") => Fresh(r)
  /\ \A r \in Run : r < run \/ (r = run /\ Over) => ~PipeHeld(r)
  /\ \A r \in Run : shell[r] = "up" => Transport[r] = "areg"
  /\ PortHeld

\* A way to make the runs in which somebody stops client c.
Stopped(c) == setup = "docker" \/ (setup = "local" /\ c \notin Faulty)

\* Clients join one server at most, and those that are stopped have ended with their run.
ClientsInv ==
  /\ rpc \in {"start", "port", "clients"} => client[run] = "off"
  /\ \A c \in Run : client[c] \in {"off", "starting"} => master[c] = Nobody
  /\ \A c \in Run : Stopped(c) /\ (c < run \/ (c = run /\ rpc = "collect")) =>
       client[c] \notin {"starting", "working"}
  /\ ClientsOfThisRun

\* What is in a pipe was printed.
PipeInv == \A r \in Run : pipe[r] <= printed[r]

\* A client that may hang has come to a server that waits for it.
HeldUpOnce(r) == Transport[r] = "grpc" /\ Visitors(r) \cap Faulty # {}

\* A run without faults whose server is through has a CSV, and so has one whose AREG
\* client is; the runner finds it.  Only clients of other runs may hold the server up,
\* or end it before the clients of the run were started.
Sound(r) ==
  /\ server[r] \in {"written", "gone"} => file[r] = "own" \/ HeldUpOnce(r)
  /\ shell[r] = "gone" => server[r] = "gone"
  /\ Transport[r] = "areg" =>
       /\ client[r] = "working" => master[r] = r /\ server[r] \in {"serving", "written", "gone"}
       /\ client[r] = "gone" => file[r] = "own"
  /\ client[r] = "off" => server[r] \in {"off", "loading", "serving"} \/ Visitors(r) # {}
  /\ rpc = "stopping" => client[r] = "gone"
  /\ rpc \in {"drain", "cleanup", "collect"} => file[r] = "own" \/ HeldUpOnce(r)
  /\ rpc = "failed" => Visitors(r) # {}

OwnInv ==
  /\ run \notin Faulty /\ rpc \notin {"done", "raised"} => Sound(run)
  /\ RunsYieldOwnCsv

-----------------------------------------------------------------------------
\* What the constants are.
LEMMA Constants ==
  /\ Len(Transport) \in Nat /\ Len(Transport) > 0
  /\ Run = 1 .. Len(Transport) /\ 1 \in Run /\ Run \subseteq Int /\ Nobody \notin Run
  /\ \A r \in Run : Transport[r] \in {"grpc", "areg"} /\ Output(r) \in 0 .. GrpcOutput
  /\ GrpcOutput \in Nat /\ PipeCapacity \in Nat
BY ScriptAssumption, RunnerAssumption DEF ScriptAssumption, RunnerAssumption, Run, Nobody,
   Output

\* Initially.
LEMMA TypeInit == Init => TypeOK
BY Constants, RunnerAssumption
DEF Init, ScriptInit, TypeOK, ScriptTypeOK, RunnerTypeOK, RunnerAssumption

\* A step of the processes of a run.
LEMMA ScriptTyped ==
  ASSUME TypeOK, NEW r \in Run,
         ScriptStep(r) \/ PrintBuffer(r) \/ WriteCsv(r) \/ ServerCrashes(r)
  PROVE  ScriptTypeOK'
<1> USE Constants DEF TypeOK, ScriptTypeOK, Becomes
<1>1. CASE StartRouter(r) \/ RouterFails(r) \/ StartAregServer(r)
  BY <1>1 DEF StartRouter, RouterFails, StartAregServer
<1>2. CASE Serve(r) \/ BindFails(r)
  BY <1>2 DEF Serve, BindFails
<1>3. CASE ServerExits(r) \/ ServerCrashes(r) \/ ShellExits(r)
  BY <1>3 DEF ServerExits, ServerCrashes, ServerGone, Released, ShellExits
<1>4. CASE PrintBuffer(r)
  <2>1. printed[r] \in 0 .. GrpcOutput /\ pipe[r] \in 0 .. PipeCapacity /\ Output(r) \in 0 .. GrpcOutput
    OBVIOUS
  <2>2. /\ printed[r] + 1 \in 0 .. GrpcOutput /\ pipe[r] + 1 \in 0 .. PipeCapacity
        /\ printed' = [printed EXCEPT ![r] = @ + 1] /\ pipe' = [pipe EXCEPT ![r] = @ + 1]
        /\ UNCHANGED <<shell, router, server, listener, file>>
    BY <1>4, <2>1 DEF PrintBuffer, Blocked
  <2> QED BY <2>2
<1>5. CASE WriteCsv(r)
  BY <1>5 DEF WriteCsv
<1> QED BY <1>1, <1>2, <1>3, <1>4, <1>5 DEF ScriptStep

\* A step of the runner.
LEMMA RunnerTyped ==
  ASSUME TypeOK, RunnerStep
  PROVE  TypeOK'
<1>r. run \in Run
  BY DEF TypeOK, RunnerTypeOK
<1>1. CASE StartServer
  <2>1. shell' = shell \/ shell' = [shell EXCEPT ![run] = "up"]
    BY <1>1 DEF StartServer, Spawn, Becomes
  <2>2. server' = server \/ server' = [server EXCEPT ![run] = "loading"]
    BY <1>1 DEF StartServer, Spawn, Becomes
  <2>3. shell' \in [Run -> {"off", "up", "gone"}]
    BY <1>r, <2>1 DEF TypeOK, ScriptTypeOK
  <2>4. server' \in [Run -> {"off", "loading", "serving", "written", "gone"}]
    BY <1>r, <2>2 DEF TypeOK, ScriptTypeOK
  <2>5. /\ UNCHANGED <<router, listener, printed, pipe, file>>
        /\ UNCHANGED <<setup, run, client, master, result>> /\ rpc' = "port"
    BY <1>1 DEF StartServer, Spawn, Goes
  <2> QED BY <2>3, <2>4, <2>5 DEF TypeOK, ScriptTypeOK, RunnerTypeOK
<1>2. CASE \/ PortAnswers \/ PortFails \/ ServerEnded \/ OutputEnds \/ ClientContainerExits
           \/ ClientsSurvive
  <2>1. /\ UNCHANGED <<scriptVars, setup, run, client, master, result>>
        /\ rpc' \in {"clients", "failed", "drain", "raised", "cleanup", "stopping", "collect"}
    BY <1>2 DEF PortAnswers, PortFails, ServerEnded, OutputEnds, ClientContainerExits,
       ClientsSurvive, Goes
  <2> QED BY <2>1 DEF TypeOK, ScriptTypeOK, RunnerTypeOK, scriptVars
<1>3. CASE StartClients \/ StopClients
  <2>1. /\ UNCHANGED <<scriptVars, setup, run, master, result>>
        /\ rpc' \in {"wait", "collect"}
        /\ client' = client \/ \E to \in {"starting", "gone"} : client' = [client EXCEPT ![run] = to]
    BY <1>3 DEF StartClients, StopClients, Goes
  <2>2. client' \in [Run -> {"off", "starting", "working", "gone"}]
    BY <1>r, <2>1 DEF TypeOK, RunnerTypeOK
  <2> QED BY <2>1, <2>2 DEF TypeOK, ScriptTypeOK, RunnerTypeOK, scriptVars
<1>4. CASE ServerTimesOut
  <2>1. /\ UNCHANGED <<router, printed, pipe, file, setup, run, client, master, result>>
        /\ rpc' = "drain"
        /\ shell' = shell \/ shell' = [shell EXCEPT ![run] = "gone"]
        /\ server' = server \/ server' = [server EXCEPT ![run] = "gone"]
        /\ listener' \in {listener, Nobody}
    BY <1>4 DEF ServerTimesOut, KillChild, ServerGone, Released, Becomes, Goes
  <2>2. shell' \in [Run -> {"off", "up", "gone"}]
    BY <1>r, <2>1 DEF TypeOK, ScriptTypeOK
  <2>3. server' \in [Run -> {"off", "loading", "serving", "written", "gone"}]
    BY <1>r, <2>1 DEF TypeOK, ScriptTypeOK
  <2> QED BY <2>1, <2>2, <2>3 DEF TypeOK, ScriptTypeOK, RunnerTypeOK
<1>5. CASE ReadOutput
  <2>1. /\ UNCHANGED <<shell, router, server, listener, printed, file, runnerVars>>
        /\ pipe' = [pipe EXCEPT ![run] = 0]
    BY <1>5 DEF ReadOutput, ReadPipe
  <2>2. pipe' \in [Run -> 0 .. PipeCapacity]
    BY <1>r, <2>1, Constants DEF TypeOK, ScriptTypeOK
  <2> QED BY <2>1, <2>2 DEF TypeOK, ScriptTypeOK, RunnerTypeOK, runnerVars
<1>6. CASE ContainersEnd
  <2>1. /\ UNCHANGED <<printed, pipe, file, setup, run, master, result>> /\ rpc' = "collect"
        /\ shell' = [shell EXCEPT ![run] = "gone"] /\ router' = [router EXCEPT ![run] = "gone"]
        /\ server' = [server EXCEPT ![run] = "gone"] /\ listener' \in {listener, Nobody}
        /\ client' = [client EXCEPT ![run] = "gone"]
    BY <1>6 DEF ContainersEnd, KillContainer, Released, Goes
  <2>2. shell' \in [Run -> {"off", "up", "gone"}] /\ router' \in [Run -> {"off", "up", "gone"}]
    BY <1>r, <2>1 DEF TypeOK, ScriptTypeOK
  <2>3. server' \in [Run -> {"off", "loading", "serving", "written", "gone"}]
    BY <1>r, <2>1 DEF TypeOK, ScriptTypeOK
  <2>4. client' \in [Run -> {"off", "starting", "working", "gone"}]
    BY <1>r, <2>1 DEF TypeOK, RunnerTypeOK
  <2> QED BY <2>1, <2>2, <2>3, <2>4 DEF TypeOK, ScriptTypeOK, RunnerTypeOK
<1>7. CASE Collect
  <2>1. /\ file' = [file EXCEPT ![run] = "none"]
        /\ UNCHANGED <<shell, router, server, listener, printed, pipe, setup, client, master>>
    BY <1>7 DEF Collect
  <2>2. run' \in Run /\ rpc' \in {"start", "done", "raised"}
    BY <1>7, <1>r, Constants DEF Collect, NextRun
  <2>3. result' \in [Run -> {"none", "earlier", "own"}]
    <3>1. file[run] \in {"none", "earlier", "own"} /\ result[run] \in {"none", "earlier", "own"}
      BY <1>r DEF TypeOK, ScriptTypeOK, RunnerTypeOK
    <3>2. \/ UNCHANGED result
          \/ result' = [result EXCEPT ![run] = result[run]]
          \/ result' = [result EXCEPT ![run] = file[run]]
      BY <1>7 DEF Collect
    <3> QED BY <1>r, <3>1, <3>2 DEF TypeOK, RunnerTypeOK
  <2>4. file' \in [Run -> {"none", "earlier", "own"}]
    BY <1>r, <2>1 DEF TypeOK, ScriptTypeOK
  <2> QED BY <2>1, <2>2, <2>3, <2>4 DEF TypeOK, ScriptTypeOK, RunnerTypeOK
<1> QED BY <1>1, <1>2, <1>3, <1>4, <1>5, <1>6, <1>7 DEF RunnerStep

\* A step of a client.
LEMMA ClientTyped ==
  ASSUME TypeOK, NEW c \in Run, ClientStep(c)
  PROVE  TypeOK'
<1> USE Constants DEF TypeOK, ScriptTypeOK, RunnerTypeOK, Becomes, scriptVars
<1>1. CASE ClientJoins(c)
  BY <1>1 DEF ClientJoins
<1>2. CASE ClientRefused(c)
  BY <1>2 DEF ClientRefused
<1>3. CASE ClientLeaves(c)
  BY <1>3 DEF ClientLeaves
<1> QED BY <1>1, <1>2, <1>3 DEF ClientStep

\* Every step keeps the state what it should be.
LEMMA NextTyped == TypeOK /\ [Next]_vars => TypeOK'
<1> SUFFICES ASSUME TypeOK, [Next]_vars PROVE TypeOK'
  OBVIOUS
<1>1. ASSUME NEW r \in Run, ProcessesStep(r) \/ TasksGoOn(r) \/ Crash(r) PROVE TypeOK'
  BY <1>1, ScriptTyped
  DEF ProcessesStep, TasksGoOn, Crash, runnerVars, TypeOK, RunnerTypeOK
<1>2. CASE Finished \/ WaitsForOutput \/ UNCHANGED vars
  BY <1>2 DEF Finished, WaitsForOutput, vars, scriptVars, runnerVars, TypeOK, ScriptTypeOK,
      RunnerTypeOK
<1> QED BY <1>1, <1>2, RunnerTyped, ClientTyped DEF Next

\* What the state of the processes, the runner, the clients and the files is.
THEOREM TypeCorrect == Spec => []TypeOK
BY TypeInit, NextTyped, PTL DEF Spec

-----------------------------------------------------------------------------
\* One run at a time.

\* A step of the processes of run r.
OfProcesses(r) == ScriptStep(r) \/ PrintBuffer(r) \/ WriteCsv(r) \/ ServerCrashes(r)

\* They are those of the run at hand, and the runner is not through with them.
LEMMA OnlyThisRun ==
  ASSUME ProcessesInv, NEW r \in Run, OfProcesses(r)
  PROVE  r = run /\ ~Over /\ rpc # "start"
<1>1. PipeHeld(r)
  BY DEF OfProcesses, ScriptStep, StartRouter, RouterFails, StartAregServer, Serve, BindFails,
     ServerExits, ShellExits, PrintBuffer, WriteCsv, ServerCrashes, Becomes, PipeHeld
<1>2. ~Fresh(r)
  BY <1>1 DEF Fresh, PipeHeld
<1> QED BY <1>1, <1>2, Constants DEF ProcessesInv, TypeOK, RunnerTypeOK

\* What such a step does to the other runs, and to who has the port.
LEMMA OfProcessesHolds ==
  ASSUME ProcessesInv, NEW r \in Run, OfProcesses(r)
  PROVE  /\ \A q \in Run \ {r} : UNCHANGED <<shell[q], router[q], server[q]>>
         /\ \A q \in Run : shell'[q] = "up" => Transport[q] = "areg"
         /\ PortHeld'
<1> USE Constants DEF ProcessesInv, TypeOK, ScriptTypeOK, Becomes, PortHeld
<1>1. CASE StartRouter(r)
  BY <1>1 DEF StartRouter
<1>2. CASE RouterFails(r)
  BY <1>2 DEF RouterFails
<1>3. CASE StartAregServer(r)
  BY <1>3 DEF StartAregServer
<1>4. CASE Serve(r) \/ BindFails(r)
  BY <1>4 DEF Serve, BindFails
<1>5. CASE ServerExits(r) \/ ServerCrashes(r)
  BY <1>5 DEF ServerExits, ServerCrashes, ServerGone, Released
<1>6. CASE ShellExits(r)
  BY <1>6 DEF ShellExits, Released
<1>7. CASE PrintBuffer(r) \/ WriteCsv(r)
  BY <1>7 DEF PrintBuffer, WriteCsv
<1> QED BY <1>1, <1>2, <1>3, <1>4, <1>5, <1>6, <1>7 DEF OfProcesses, ScriptStep

\* The processes keep to their run.
LEMMA ProcessesKeep ==
  ASSUME ProcessesInv, TypeOK', NEW r \in Run, OfProcesses(r), UNCHANGED <<run, rpc, client>>
  PROVE  ProcessesInv'
<1>1. r = run /\ ~Over /\ rpc # "start"
  BY OnlyThisRun
<1>2. /\ \A q \in Run \ {r} : UNCHANGED <<shell[q], router[q], server[q]>>
      /\ \A q \in Run : shell'[q] = "up" => Transport[q] = "areg"
      /\ PortHeld'
  BY OfProcessesHolds
<1>3. \A q \in Run : q > run => q # run
  BY Constants DEF ProcessesInv, TypeOK, RunnerTypeOK
<1>4. \A q \in Run : q < run => q # run
  BY Constants DEF ProcessesInv, TypeOK, RunnerTypeOK
<1> QED BY <1>1, <1>2, <1>3, <1>4 DEF ProcessesInv, Fresh, Over, PipeHeld

\* A step within the run at hand.
LEMMA SameRunKeeps ==
  ASSUME ProcessesInv, TypeOK', run' = run, rpc' # "start",
         \A q \in Run \ {run} : UNCHANGED <<shell[q], router[q], server[q], client[q]>>,
         shell'[run] = "up" => shell[run] = "up" \/ Transport[run] = "areg",
         PortHeld', Over' => ~PipeHeld(run)'
  PROVE  ProcessesInv'
<1>1. \A q \in Run : (q > run => q # run) /\ (q < run => q # run)
  BY Constants DEF ProcessesInv, TypeOK, RunnerTypeOK
<1>2. \A r \in Run : r > run' \/ (r = run' /\ rpc' = "start") => Fresh(r)'
  BY <1>1 DEF ProcessesInv, Fresh
<1>3. \A r \in Run : r < run' \/ (r = run' /\ Over') => ~PipeHeld(r)'
  BY <1>1 DEF ProcessesInv, PipeHeld
<1>4. \A r \in Run : shell'[r] = "up" => Transport[r] = "areg"
  BY DEF ProcessesInv
<1> QED BY <1>2, <1>3, <1>4 DEF ProcessesInv

\* The runner goes on only when the run at hand is over.
LEMMA RunnerKeeps ==
  ASSUME ProcessesInv, TypeOK', RunnerStep
  PROVE  ProcessesInv'
<1> USE DEF Goes
<1>r. run \in Run /\ Nobody \notin Run
  BY Constants DEF ProcessesInv, TypeOK, RunnerTypeOK
<1>f. DOMAIN shell = Run /\ DOMAIN router = Run /\ DOMAIN server = Run /\ DOMAIN client = Run
  BY DEF ProcessesInv, TypeOK, ScriptTypeOK, RunnerTypeOK
<1>1. CASE PortAnswers \/ PortFails \/ ServerEnded \/ ClientContainerExits
  <2>1. UNCHANGED <<shell, router, server, listener, client, run>>
    BY <1>1 DEF PortAnswers, PortFails, ServerEnded, ClientContainerExits, scriptVars
  <2>2. rpc' \in {"clients", "failed", "drain", "stopping"}
    BY <1>1 DEF PortAnswers, PortFails, ServerEnded, ClientContainerExits
  <2>3. PortHeld'
    BY <2>1 DEF ProcessesInv, PortHeld
  <2> QED BY <2>1, <2>2, <2>3, SameRunKeeps DEF Over
<1>2. CASE StartServer
  <2>1. Fresh(run) /\ run' = run /\ rpc' = "port" /\ rpc = "start"
    BY <1>r, <1>2 DEF StartServer, ProcessesInv
  <2>2. /\ \A q \in Run \ {run} : UNCHANGED <<shell[q], router[q], server[q], client[q]>>
        /\ shell'[run] = "up" => Transport[run] = "areg"
    BY <1>r, <1>f, <1>2, <2>1 DEF StartServer, Spawn, Becomes, Fresh
  <2>3. PortHeld'
    <3>1. /\ UNCHANGED <<listener, router>>
          /\ \A q \in Run : server[q] # "off" => server'[q] = server[q]
      BY <1>r, <1>f, <1>2 DEF StartServer, Spawn, Becomes
    <3>2. listener \in Run \cup {Nobody}
      BY DEF ProcessesInv, TypeOK, ScriptTypeOK
    <3> QED BY <3>1, <3>2 DEF ProcessesInv, PortHeld
  <2> QED BY <2>1, <2>2, <2>3, SameRunKeeps DEF Over
<1>3. CASE OutputEnds
  <2>1. UNCHANGED <<shell, router, server, listener, client, run>> /\ ~PipeHeld(run)
    BY <1>3 DEF OutputEnds, scriptVars
  <2>2. rpc' # "start"
    BY <1>3 DEF OutputEnds
  <2>3. PortHeld' /\ ~PipeHeld(run)'
    BY <2>1 DEF ProcessesInv, PortHeld, PipeHeld
  <2> QED BY <2>1, <2>2, <2>3, SameRunKeeps
<1>4. CASE StartClients \/ StopClients \/ ClientsSurvive
  <2>1. UNCHANGED <<shell, router, server, listener, run>>
    BY <1>4 DEF StartClients, StopClients, ClientsSurvive, scriptVars
  <2>2. /\ rpc' \in {"wait", "collect"} /\ rpc \in {"clients", "cleanup"}
        /\ rpc = "clients" => rpc' = "wait"
    BY <1>4 DEF StartClients, StopClients, ClientsSurvive
  <2>3. \A q \in Run \ {run} : client'[q] = client[q]
    BY <1>4, <1>f DEF StartClients, StopClients, ClientsSurvive
  <2>4. PortHeld'
    BY <2>1 DEF ProcessesInv, PortHeld
  <2>5. Over' => ~PipeHeld(run)'
    BY <1>r, <2>1, <2>2 DEF ProcessesInv, Over, PipeHeld
  <2> QED BY <2>1, <2>2, <2>3, <2>4, <2>5, SameRunKeeps
<1>5. CASE ServerTimesOut
  <2>1. rpc' = "drain" /\ run' = run /\ UNCHANGED <<router, client>>
    BY <1>5 DEF ServerTimesOut, KillChild
  <2>2. /\ \A q \in Run \ {run} : UNCHANGED <<shell[q], server[q]>>
        /\ shell'[run] = "up" => shell[run] = "up"
    BY <1>r, <1>f, <1>5 DEF ServerTimesOut, KillChild, ServerGone, Becomes
  <2>3. PortHeld'
    <3>1. \/ UNCHANGED <<listener, server>>
          \/ /\ listener' # run /\ listener' \in {listener, Nobody}
             /\ \A q \in Run \ {run} : server'[q] = server[q]
      BY <1>r, <1>f, <1>5 DEF ServerTimesOut, KillChild, ServerGone, Released
    <3>2. listener \in Run \cup {Nobody} /\ UNCHANGED router
      BY <2>1 DEF ProcessesInv, TypeOK, ScriptTypeOK
    <3> QED BY <3>1, <3>2 DEF ProcessesInv, PortHeld
  <2> QED BY <2>1, <2>2, <2>3, SameRunKeeps DEF Over
<1>6. CASE ReadOutput
  <2>1. UNCHANGED <<shell, router, server, listener, client, run, rpc>>
    BY <1>6 DEF ReadOutput, ReadPipe, runnerVars
  <2> QED BY <2>1 DEF ProcessesInv, Fresh, Over, PipeHeld, PortHeld
<1>7. CASE ContainersEnd
  <2>1. /\ \A q \in Run \ {run} : UNCHANGED <<shell[q], router[q], server[q], client[q]>>
        /\ shell'[run] = "gone" /\ router'[run] = "gone" /\ server'[run] = "gone"
    BY <1>r, <1>f, <1>7 DEF ContainersEnd, KillContainer
  <2>2. rpc' = "collect" /\ run' = run
    BY <1>7 DEF ContainersEnd
  <2>3. PortHeld'
    BY <1>r, <1>7, <2>1 DEF ContainersEnd, KillContainer, Released, ProcessesInv, TypeOK,
       ScriptTypeOK, PortHeld
  <2>4. ~PipeHeld(run)'
    BY <2>1, <2>2 DEF PipeHeld
  <2> QED BY <2>1, <2>2, <2>3, <2>4, SameRunKeeps
<1>8. CASE Collect
  <2>1. UNCHANGED <<shell, router, server, listener, client>> /\ rpc = "collect"
    BY <1>8 DEF Collect
  <2>2. \/ run' = run /\ rpc' \in {"done", "raised"}
        \/ run' = run + 1 /\ rpc' = "start"
    BY <1>8 DEF Collect, NextRun
  <2>3. run \in Int /\ \A q \in Run : q \in Int
    BY <1>r, Constants
  <2>4. \A r \in Run : r > run' \/ (r = run' /\ rpc' = "start") => r > run
    BY <2>2, <2>3
  <2>5. \A r \in Run : r < run' \/ (r = run' /\ Over') => r < run \/ r = run
    BY <2>2, <2>3 DEF Over
  <2>6. PortHeld'
    BY <2>1 DEF ProcessesInv, PortHeld
  <2> QED BY <2>1, <2>4, <2>5, <2>6 DEF ProcessesInv, Fresh, Over, PipeHeld
<1> QED BY <1>1, <1>2, <1>3, <1>4, <1>5, <1>6, <1>7, <1>8 DEF RunnerStep

\* Clients have no part in it.
LEMMA ClientsKeep ==
  ASSUME ProcessesInv, TypeOK', NEW c \in Run, ClientStep(c)
  PROVE  ProcessesInv'
<1>1. /\ UNCHANGED <<shell, router, server, listener, run, rpc>>
      /\ client[c] # "off" /\ \A q \in Run \ {c} : client'[q] = client[q]
  BY DEF ClientStep, ClientJoins, ClientRefused, ClientLeaves, Becomes, scriptVars,
     ProcessesInv, TypeOK, RunnerTypeOK
<1> QED BY <1>1 DEF ProcessesInv, Fresh, Over, PipeHeld, PortHeld

\* Initially all runs are to come.
LEMMA ProcessesInitially == Init => ProcessesInv
BY TypeInit, Constants
DEF Init, ScriptInit, ProcessesInv, Fresh, Over, PipeHeld, PortHeld

\* Every step of the benchmark keeps one run at a time.
LEMMA ProcessesInductive == ProcessesInv /\ [Next]_vars => ProcessesInv'
<1> SUFFICES ASSUME ProcessesInv, [Next]_vars PROVE ProcessesInv'
  OBVIOUS
<1>1. TypeOK'
  BY NextTyped DEF ProcessesInv
<1>2. ASSUME NEW r \in Run, ProcessesStep(r) \/ TasksGoOn(r) \/ Crash(r) PROVE ProcessesInv'
  BY <1>1, <1>2, ProcessesKeep DEF ProcessesStep, TasksGoOn, Crash, runnerVars, OfProcesses
<1>3. CASE Finished \/ WaitsForOutput \/ UNCHANGED vars
  <2>1. UNCHANGED <<shell, router, server, listener, run, rpc, client>>
    BY <1>3 DEF Finished, WaitsForOutput, vars, scriptVars, runnerVars
  <2> QED BY <1>1, <2>1 DEF ProcessesInv, Fresh, Over, PipeHeld, PortHeld
<1> QED BY <1>1, <1>2, <1>3, RunnerKeeps, ClientsKeep DEF Next

\* Runs are numbers.
LEMMA RunsNumbered == TypeOK => run \in Int /\ Run \subseteq Int
BY Constants DEF TypeOK, RunnerTypeOK

\* The port is free or with the run at hand.
LEMMA ListenerIsRun == ProcessesInv => listener \in {Nobody, run}
<1> SUFFICES ASSUME ProcessesInv, listener # Nobody PROVE listener = run
  OBVIOUS
<1>1. run \in Int /\ (\A r \in Run : r \in Int) /\ listener \in Run
  BY RunsNumbered DEF ProcessesInv, TypeOK, ScriptTypeOK
<1>2. PipeHeld(listener)
  BY <1>1 DEF ProcessesInv, PortHeld, PipeHeld
<1> QED BY <1>1, <1>2 DEF ProcessesInv, Fresh, PipeHeld

\* A run starts only when nothing is left of the one before, whatever crashed in it.
THEOREM OneAtATime == Spec => []OneRunAtATime
<1>1. ProcessesInv => \A r \in Run \ {run} : ~PipeHeld(r)
  <2> SUFFICES ASSUME ProcessesInv, NEW r \in Run \ {run} PROVE ~PipeHeld(r)
    OBVIOUS
  <2>1. r < run \/ r > run
    BY RunsNumbered DEF ProcessesInv
  <2> QED BY <2>1 DEF ProcessesInv, Fresh, PipeHeld
<1>2. ProcessesInv => OneRunAtATime
  BY <1>1, ListenerIsRun DEF OneRunAtATime
<1> QED BY <1>2, ProcessesInitially, ProcessesInductive, PTL DEF Spec

-----------------------------------------------------------------------------
\* The clients of a run, and its file.

\* What a client does.
LEMMA ClientsGoOn ==
  ASSUME ProcessesInv, ClientsInv, NEW c \in Run, ClientStep(c)
  PROVE  ClientsInv'
<1>0. /\ client \in [Run -> {"off", "starting", "working", "gone"}] /\ setup \in {"local", "ssh", "docker"}
      /\ DOMAIN master = Run /\ run \in Int /\ (\A q \in Run : q \in Int) /\ Nobody \notin Run
  BY RunsNumbered, Constants, RunnerAssumption
  DEF ProcessesInv, TypeOK, RunnerTypeOK, RunnerAssumption
<1>1. /\ client[c] \in {"starting", "working"} /\ client'[c] \in {"working", "gone"}
      /\ client[c] = "working" => client'[c] = "gone"
      /\ \A q \in Run \ {c} : UNCHANGED <<client[q], master[q]>>
      /\ UNCHANGED <<setup, run, rpc>>
  BY <1>0 DEF ClientStep, ClientJoins, ClientRefused, ClientLeaves, Becomes
<1>2. rpc \in {"start", "port", "clients"} => client'[run] = "off"
  BY <1>0, <1>1 DEF ClientsInv, ProcessesInv, TypeOK, RunnerTypeOK
<1>3. \A q \in Run : Stopped(q) /\ (q < run \/ (q = run /\ rpc = "collect")) =>
        client'[q] \notin {"starting", "working"}
  BY <1>1 DEF ClientsInv
<1>4. \/ UNCHANGED master
      \/ client[c] = "starting" /\ master' = [master EXCEPT ![c] = run]
  BY ListenerIsRun DEF ClientStep, ClientJoins, ClientRefused, ClientLeaves, Reached
<1>5. \A q \in Run : client'[q] \in {"off", "starting"} => master'[q] = Nobody
  BY <1>1 DEF ClientsInv
<1>6. ClientsOfThisRun'
  <2>1. CASE UNCHANGED master
    BY <1>1, <2>1 DEF ClientsInv, ClientsOfThisRun, Visitors
  <2>2. CASE client[c] = "starting" /\ master' = [master EXCEPT ![c] = run]
    <3>1. c < run \/ c = run
      <4>1. ~(c > run)
        BY <1>1 DEF ProcessesInv, Fresh
      <4> QED BY <1>0, <4>1
    <3>2. c < run => setup = "ssh" \/ (setup = "local" /\ c \in Faulty)
      BY <1>0, <2>2 DEF ClientsInv, Stopped
    <3>3. \A q \in Run \ {c} : master'[q] = master[q]
      BY <1>1
    <3>4. master'[c] = run
      BY <1>0, <2>2
    <3>5. ASSUME NEW r \in Run, NEW q \in Run \ {r}, master'[q] = r
          PROVE  q < r /\ (setup = "ssh" \/ (setup = "local" /\ q \in Faulty))
      <4>1. CASE q = c
        BY <3>1, <3>2, <3>4, <3>5, <4>1
      <4>2. CASE q # c
        <5>1. q \in Visitors(r)
          BY <3>3, <3>5, <4>2 DEF Visitors
        <5> QED BY <5>1 DEF ClientsInv, ClientsOfThisRun
      <4> QED BY <4>1, <4>2
    <3> QED BY <1>1, <3>5 DEF ClientsOfThisRun, Visitors
  <2> QED BY <1>4, <2>1, <2>2
<1> QED BY <1>1, <1>2, <1>3, <1>5, <1>6 DEF ClientsInv, Stopped

\* What the runner does about clients.
LEMMA RunnerStopsClients ==
  ASSUME ProcessesInv, ClientsInv, RunnerStep
  PROVE  ClientsInv'
<1> USE DEF Goes
<1>0. /\ run \in Run /\ run \in Int /\ (\A q \in Run : q \in Int)
      /\ client \in [Run -> {"off", "starting", "working", "gone"}]
  BY RunsNumbered DEF ProcessesInv, TypeOK, RunnerTypeOK
<1>1. UNCHANGED <<setup, master>>
  BY DEF RunnerStep, StartServer, PortAnswers, PortFails, StartClients, ServerEnded,
     ServerTimesOut, ReadOutput, OutputEnds, StopClients, ClientsSurvive, ClientContainerExits,
     ContainersEnd, Collect, runnerVars
<1>2. ClientsOfThisRun'
  BY <1>1 DEF ClientsInv, ClientsOfThisRun, Visitors
<1>3. CASE \/ StartServer \/ PortAnswers \/ PortFails \/ ServerEnded \/ ServerTimesOut
           \/ ReadOutput \/ OutputEnds \/ ClientContainerExits \/ ClientsSurvive
  <2>1. /\ UNCHANGED <<run, client>>
        /\ rpc' \in {"start", "port", "clients"} => rpc \in {"start", "port", "clients"}
        /\ rpc' = "collect" => rpc = "collect" \/ ~Stopped(run)
    BY <1>3 DEF StartServer, PortAnswers, PortFails, ServerEnded, ServerTimesOut, ReadOutput,
       OutputEnds, ClientContainerExits, ClientsSurvive, runnerVars, Stopped
  <2> QED BY <1>1, <1>2, <2>1 DEF ClientsInv, Stopped
<1>4. CASE StartClients
  <2>1. /\ UNCHANGED run /\ rpc = "clients" /\ rpc' = "wait"
        /\ client' = [client EXCEPT ![run] = "starting"]
    BY <1>4 DEF StartClients
  <2>2. master[run] = Nobody
    BY <1>0, <2>1 DEF ClientsInv
  <2> QED BY <1>0, <1>1, <1>2, <2>1, <2>2 DEF ClientsInv, Stopped
<1>5. CASE StopClients \/ ContainersEnd
  <2>1. UNCHANGED run /\ rpc' = "collect" /\ client' = [client EXCEPT ![run] = "gone"]
    BY <1>5 DEF StopClients, ContainersEnd
  <2> QED BY <1>0, <1>1, <1>2, <2>1 DEF ClientsInv, Stopped
<1>6. CASE Collect
  <2>1. /\ UNCHANGED client /\ rpc = "collect"
        /\ \/ run' = run /\ rpc' \in {"done", "raised"}
           \/ run' = run + 1 /\ rpc' = "start" /\ run' \in Run
    BY <1>0, <1>6, Constants DEF Collect, NextRun
  <2>2. rpc' = "start" => client[run'] = "off"
    BY <1>0, <2>1 DEF ProcessesInv, Fresh
  <2>3. \A c \in Run : c < run' => c < run \/ c = run
    BY <1>0, <2>1
  <2> QED BY <1>1, <1>2, <2>1, <2>2, <2>3 DEF ClientsInv, Stopped
<1> QED BY <1>3, <1>4, <1>5, <1>6 DEF RunnerStep

\* Initially no client has been started.
LEMMA ClientsInitially == Init => ClientsInv
<1> SUFFICES ASSUME Init PROVE ClientsInv
  OBVIOUS
<1>1. run \in Run /\ Nobody \notin Run /\ ~\E c \in Run : c < run
  BY Constants DEF Init
<1> QED BY <1>1 DEF Init, ClientsInv, ClientsOfThisRun, Visitors

\* Every step keeps to it.
LEMMA ClientsInductive == ProcessesInv /\ ClientsInv /\ [Next]_vars => ClientsInv'
<1> SUFFICES ASSUME ProcessesInv, ClientsInv, [Next]_vars PROVE ClientsInv'
  OBVIOUS
<1>1. CASE \/ \E r \in Run : ProcessesStep(r) \/ TasksGoOn(r) \/ Crash(r)
           \/ Finished \/ WaitsForOutput \/ UNCHANGED vars
  <2>1. UNCHANGED <<setup, run, rpc, client, master>>
    BY <1>1 DEF ProcessesStep, TasksGoOn, Crash, Finished, WaitsForOutput, vars, runnerVars
  <2> QED BY <2>1 DEF ClientsInv, Stopped, ClientsOfThisRun, Visitors
<1> QED BY <1>1, ClientsGoOn, RunnerStopsClients DEF Next

\* A client works for the server of another run only if that is a later one, and nobody
\* stopped the client: it is on another machine, or its run had a fault.
THEOREM ClientsInTheirRun == Spec => []ClientsOfThisRun
<1>1. ClientsInv => ClientsOfThisRun
  BY DEF ClientsInv
<1> QED BY <1>1, ClientsInitially, ClientsInductive, ProcessesInitially, ProcessesInductive,
           PTL DEF Spec

\* Who changes a file.
LEMMA FilesOf ==
  ASSUME ProcessesInv, [Next]_vars
  PROVE  /\ \A r \in Run \ {run} : file'[r] = file[r]
         /\ run' # run => run' = run + 1 /\ file'[run] = "none"
<1>0. file \in [Run -> {"none", "earlier", "own"}] /\ run \in Run
  BY DEF ProcessesInv, TypeOK, ScriptTypeOK, RunnerTypeOK
<1>1. ASSUME NEW r \in Run, ProcessesStep(r) \/ TasksGoOn(r) \/ Crash(r)
      PROVE  run' = run /\ \A q \in Run \ {run} : file'[q] = file[q]
  <2>1. r = run
    BY <1>1, OnlyThisRun DEF ProcessesStep, TasksGoOn, Crash, OfProcesses
  <2> QED BY <1>0, <1>1, <2>1
      DEF ProcessesStep, TasksGoOn, Crash, runnerVars, ScriptStep, StartRouter, RouterFails,
          StartAregServer, Serve, BindFails, ServerExits, ShellExits, PrintBuffer, WriteCsv,
          ServerCrashes
<1>2. CASE Collect
  BY <1>0, <1>2 DEF Collect, NextRun
<1>3. CASE RunnerStep /\ ~Collect
  BY <1>3 DEF RunnerStep, StartServer, PortAnswers, PortFails, StartClients, ServerEnded,
     ServerTimesOut, ReadOutput, OutputEnds, StopClients, ClientsSurvive,
     ClientContainerExits, ContainersEnd,
     scriptVars, runnerVars, Spawn, KillChild, ReadPipe, KillContainer
<1>4. ASSUME NEW c \in Run, ClientStep(c) PROVE UNCHANGED <<run, file>>
  BY <1>4 DEF ClientStep, ClientJoins, ClientRefused, ClientLeaves, scriptVars
<1>5. CASE Finished \/ WaitsForOutput \/ UNCHANGED vars
  BY <1>5 DEF Finished, WaitsForOutput, vars, scriptVars, runnerVars
<1> QED BY <1>1, <1>2, <1>3, <1>4, <1>5 DEF Next

\* Every CSV is collected before the next run, one that a killed script's server
\* wrote as well.
THEOREM Collected == Spec => []NothingLeftBehind
<1>1. Init => NothingLeftBehind
  BY Constants DEF Init, NothingLeftBehind
<1>2. ProcessesInv /\ NothingLeftBehind /\ [Next]_vars => NothingLeftBehind'
  <2> SUFFICES ASSUME ProcessesInv, NothingLeftBehind, [Next]_vars PROVE NothingLeftBehind'
    OBVIOUS
  <2>1. run \in Int /\ (\A r \in Run : r \in Int)
    BY RunsNumbered DEF ProcessesInv
  <2>2. \A r \in Run : r < run' => r < run \/ (r = run /\ run' # run)
    BY <2>1, FilesOf
  <2> QED BY <2>1, <2>2, FilesOf DEF NothingLeftBehind
<1> QED BY <1>1, <1>2, ProcessesInitially, ProcessesInductive, PTL DEF Spec

-----------------------------------------------------------------------------
\* One CSV per run.

\* What a gRPC server prints fits in a pipe that is not read before it has ended.
OutputFits == Setups \subseteq {"docker"} \/ GrpcOutput <= PipeCapacity

\* No result is collected where it is.
CopiesElsewhere == InPlace = {}

\* A server of the run at hand waits for no reader.
LEMMA NeverBlocked ==
  ASSUME OutputFits, TypeOK, PipeInv, setup # "docker", NEW r \in Run
  PROVE  ~Blocked(r)
<1>0. GrpcOutput <= PipeCapacity
  BY DEF OutputFits, TypeOK, RunnerTypeOK
<1>1. printed[r] \in 0 .. GrpcOutput /\ pipe[r] \in 0 .. PipeCapacity /\ PipeCapacity \in Nat
  BY Constants DEF TypeOK, ScriptTypeOK
<1>2. Output(r) \in 0 .. GrpcOutput /\ GrpcOutput \in Nat
  BY Constants
<1> QED BY <1>0, <1>1, <1>2 DEF Blocked, PipeInv

\* What is printed comes to the pipe, and only the reader takes it out.
LEMMA PipesKeep ==
  ASSUME TypeOK, PipeInv, [Next]_vars
  PROVE  PipeInv'
<1>0. 0 .. GrpcOutput \subseteq Nat /\ 0 .. PipeCapacity \subseteq Nat
  BY Constants
<1>1. printed \in [Run -> Nat] /\ pipe \in [Run -> Nat]
  BY <1>0 DEF TypeOK, ScriptTypeOK
<1>2. ASSUME NEW r \in Run, ProcessesStep(r) \/ TasksGoOn(r) \/ Crash(r) PROVE PipeInv'
  <2>1. CASE PrintBuffer(r)
    BY <1>1, <2>1 DEF PrintBuffer, PipeInv
  <2>2. CASE ~PrintBuffer(r)
    BY <1>2, <2>2
    DEF ProcessesStep, TasksGoOn, Crash, ScriptStep, StartRouter, RouterFails,
        StartAregServer, Serve, BindFails, ServerExits, ShellExits, WriteCsv, ServerCrashes, PipeInv
  <2> QED BY <2>1, <2>2
<1>3. CASE RunnerStep
  <2>1. \/ UNCHANGED <<printed, pipe>>
        \/ UNCHANGED printed /\ pipe' = [pipe EXCEPT ![run] = 0]
    BY <1>3 DEF RunnerStep, StartServer, PortAnswers, PortFails, StartClients, ServerEnded,
       ServerTimesOut, ReadOutput, OutputEnds, StopClients, ClientsSurvive,
       ClientContainerExits, ContainersEnd,
       Collect, scriptVars, Spawn, KillChild, ReadPipe, KillContainer
  <2> QED BY <1>1, <2>1 DEF PipeInv
<1>4. CASE (\E c \in Run : ClientStep(c)) \/ Finished \/ WaitsForOutput \/ UNCHANGED vars
  <2>1. UNCHANGED <<printed, pipe>>
    BY <1>4 DEF ClientStep, ClientJoins, ClientRefused, ClientLeaves, Finished, WaitsForOutput,
       vars, scriptVars
  <2> QED BY <2>1 DEF PipeInv
<1> QED BY <1>2, <1>3, <1>4 DEF Next

\* A run without faults, whose processes have the port to themselves, fails in none
\* of its steps.
LEMMA NothingFails ==
  ASSUME ProcessesInv, run \notin Faulty
  PROVE  ~RouterFails(run) /\ ~BindFails(run) /\ ~ServerCrashes(run)
BY ListenerIsRun, Constants DEF ProcessesInv, PortHeld, RouterFails, BindFails, ServerCrashes,
   Becomes, TypeOK, RunnerTypeOK

\* Who came to a server stays known.
LEMMA VisitorsStay ==
  ASSUME ProcessesInv, ClientsInv, [Next]_vars
  PROVE  \A r \in Run : Visitors(r) \subseteq Visitors(r)'
<1>0. Nobody \notin Run /\ DOMAIN master = Run
  BY Constants DEF ProcessesInv, TypeOK, RunnerTypeOK
<1>1. \A c \in Run : master[c] # Nobody => master'[c] = master[c]
  <2>1. CASE \E c \in Run : ClientJoins(c)
    <3>1. PICK c \in Run : ClientJoins(c)
      BY <2>1
    <3>2. master[c] = Nobody /\ \A q \in Run \ {c} : master'[q] = master[q]
      BY <1>0, <3>1 DEF ClientJoins, ClientsInv
    <3> QED BY <3>2
  <2>2. CASE ~\E c \in Run : ClientJoins(c)
    <3>1. UNCHANGED master
      BY <2>2 DEF Next, RunnerStep, StartServer, PortAnswers, PortFails, StartClients,
         ServerEnded, ServerTimesOut, ReadOutput, OutputEnds, StopClients, ClientsSurvive,
         ClientContainerExits, ContainersEnd, Collect, ProcessesStep, TasksGoOn, Crash,
         ClientStep, ClientRefused, ClientLeaves, Finished, WaitsForOutput, vars, runnerVars
    <3> QED BY <3>1
  <2> QED BY <2>1, <2>2
<1> QED BY <1>0, <1>1 DEF Visitors

\* Its processes write the CSV before they end.
LEMMA ProcessesSound ==
  ASSUME ProcessesInv, run \notin Faulty, Sound(run), OfProcesses(run),
         WriteCsv(run) => client[run] # "off" \/ Visitors(run) # {},
         UNCHANGED <<run, rpc, client, master>>
  PROVE  Sound(run)'
<1>0. run \in Run /\ ~Over /\ TypeOK
  BY OnlyThisRun DEF ProcessesInv, TypeOK, RunnerTypeOK
<1>v. Visitors(run)' = Visitors(run) /\ HeldUpOnce(run)' = HeldUpOnce(run)
  BY DEF Visitors, HeldUpOnce
<1> USE <1>0, <1>v DEF Sound, TypeOK, ScriptTypeOK, Becomes
<1>1. CASE StartRouter(run) \/ PrintBuffer(run)
  BY <1>1 DEF StartRouter, PrintBuffer
<1>2. CASE StartAregServer(run)
  BY <1>2 DEF StartAregServer
<1>3. CASE Serve(run)
  BY <1>3 DEF Serve
<1>4. CASE ServerExits(run)
  BY <1>4 DEF ServerExits, ServerGone
<1>5. CASE ShellExits(run)
  BY <1>5 DEF ShellExits
<1>6. CASE WriteCsv(run)
  BY <1>6 DEF WriteCsv
<1> QED BY <1>1, <1>2, <1>3, <1>4, <1>5, <1>6, NothingFails DEF OfProcesses, ScriptStep

\* Its AREG client ends after the CSV is written.
LEMMA ClientsSound ==
  ASSUME ProcessesInv, run \notin Faulty, Sound(run), NEW c \in Run, ClientStep(c),
         Visitors(run) \subseteq Visitors(run)'
  PROVE  Sound(run)'
<1>0. run \in Run /\ TypeOK /\ UNCHANGED <<run, rpc, shell, router, server, file>>
  BY DEF ProcessesInv, TypeOK, RunnerTypeOK, ClientStep, ClientJoins, ClientRefused,
     ClientLeaves, scriptVars
<1>v. /\ Visitors(run) # {} => Visitors(run)' # {}
      /\ HeldUpOnce(run) => HeldUpOnce(run)'
      /\ Transport[run] = "areg" => ~HeldUpOnce(run)
  BY <1>0 DEF HeldUpOnce
<1> USE <1>0, <1>v DEF TypeOK, RunnerTypeOK, Becomes
<1>1. CASE c # run
  <2>1. UNCHANGED <<client[run], master[run]>>
    BY <1>1 DEF ClientStep, ClientJoins, ClientRefused, ClientLeaves
  <2> QED BY <2>1 DEF Sound
<1>2. CASE ClientJoins(run)
  BY <1>2, ListenerIsRun DEF ClientJoins, Reached, Sound
<1>3. CASE ClientRefused(run)
  BY <1>3, Constants DEF ClientRefused, Sound
<1>4. CASE ClientLeaves(run)
  BY <1>4, Constants DEF ClientLeaves, Dismissed, Sound
<1> QED BY <1>1, <1>2, <1>3, <1>4 DEF ClientStep

\* A process the runner waits for has written the CSV when it has gone.
LEMMA GoneIsOwn ==
  ASSUME ProcessesInv, Sound(run), ChildGone(run)
  PROVE  server[run] = "gone" /\ (file[run] = "own" \/ HeldUpOnce(run))
BY DEF Sound, ChildGone

\* The runner goes on in the run only when it may.
LEMMA RunnerSound ==
  ASSUME OutputFits, ProcessesInv, ClientsInv, PipeInv, run \notin Faulty, Sound(run),
         rpc \notin {"done", "raised"}, RunnerStep, ~Collect
  PROVE  /\ Sound(run)' /\ UNCHANGED <<run, result>>
         /\ rpc' # "done" /\ (rpc' = "raised" => Visitors(run) # {})
<1>0. run \in Run /\ TypeOK /\ Transport[run] \in {"grpc", "areg"}
  BY Constants DEF ProcessesInv, TypeOK, RunnerTypeOK
<1>m. UNCHANGED master
  BY DEF RunnerStep, StartServer, PortAnswers, PortFails, StartClients, ServerEnded,
     ServerTimesOut, ReadOutput, OutputEnds, StopClients, ClientsSurvive, ClientContainerExits,
     ContainersEnd, runnerVars
<1>v. /\ Visitors(run') = Visitors(run) \/ run' # run
      /\ run' = run => Visitors(run)' = Visitors(run) /\ HeldUpOnce(run)' = HeldUpOnce(run)
      /\ Transport[run] = "areg" => ~HeldUpOnce(run)
  BY <1>m DEF Visitors, HeldUpOnce
<1> USE <1>0, <1>v DEF TypeOK, ScriptTypeOK, RunnerTypeOK, Goes, Sound
<1>1. CASE StartServer
  BY <1>1 DEF StartServer, Spawn, Becomes
<1>2. CASE PortAnswers \/ ClientContainerExits
  BY <1>2 DEF PortAnswers, ClientContainerExits, scriptVars
<1>3. CASE PortFails
  <2>1. server[run] = "gone" /\ client[run] = "off"
    BY <1>3, GoneIsOwn DEF PortFails, ClientsInv
  <2> QED BY <1>3, <2>1 DEF PortFails, scriptVars
<1>4. CASE StartClients
  BY <1>4 DEF StartClients, scriptVars
<1>5. CASE ServerEnded
  BY <1>5, GoneIsOwn DEF ServerEnded, scriptVars
<1>6. CASE ServerTimesOut
  <2>1. HeldUp(run)
    BY <1>6, NeverBlocked DEF ServerTimesOut
  <2>2. Transport[run] = "grpc" /\ HeldUpOnce(run) /\ Visitors(run) # {}
    BY <2>1 DEF HeldUp, HeldUpOnce
  <2> QED BY <1>6, <2>2 DEF ServerTimesOut, KillChild, ServerGone
<1>7. CASE ReadOutput
  BY <1>7 DEF ReadOutput, ReadPipe, runnerVars
<1>8. CASE OutputEnds
  BY <1>8 DEF OutputEnds, scriptVars
<1>9. CASE StopClients \/ ClientsSurvive
  BY <1>9 DEF StopClients, ClientsSurvive, scriptVars
<1>10. CASE ContainersEnd
  <2>1. file[run] = "own" \/ HeldUpOnce(run)
    BY <1>10, GoneIsOwn DEF ContainersEnd, StopEnds
  <2> QED BY <1>10, <2>1 DEF ContainersEnd, KillContainer
<1> QED BY <1>1, <1>2, <1>3, <1>4, <1>5, <1>6, <1>7, <1>8, <1>9, <1>10 DEF RunnerStep

\* It collects what the server of the run has written.
LEMMA CollectSound ==
  ASSUME CopiesElsewhere, ProcessesInv, OwnInv, Collect
  PROVE  OwnInv'
<1>0. /\ run \in Run /\ TypeOK /\ run \in Int /\ (\A q \in Run : q \in Int)
      /\ Run = 1 .. Len(Transport) /\ Len(Transport) \in Nat
  BY Constants, RunsNumbered DEF ProcessesInv, TypeOK, RunnerTypeOK
<1>1. /\ NextRun /\ rpc = "collect"
      /\ result' = [result EXCEPT ![run] = IF file[run] = "none" THEN @ ELSE file[run]]
      /\ UNCHANGED <<shell, router, server, client, master>>
  BY DEF Collect, RemovesOwnFile, CopiesElsewhere, ProcessesInv, TypeOK, RunnerTypeOK
<1>2. \/ run' = run + 1 /\ rpc' = "start" /\ run' \in Run
      \/ run' = run /\ rpc' = "done"
  BY <1>0, <1>1 DEF NextRun
<1>3. rpc' = "start" => Sound(run)'
  <2> SUFFICES ASSUME rpc' = "start" PROVE Sound(run)'
    OBVIOUS
  <2>1. Fresh(run')
    BY <1>0, <1>2 DEF ProcessesInv
  <2> QED BY <1>1, <2>1 DEF Fresh, Sound
<1>4. RunsYieldOwnCsv'
  <2>1. ASSUME NEW r \in Run \ Faulty, r < run' \/ (r = run' /\ rpc' = "done")
        PROVE  result'[r] = "own" \/ HeldUpOnce(r)
    <3>1. r < run \/ r = run
      BY <1>0, <1>2, <2>1
    <3>2. CASE r = run
      BY <1>0, <1>1, <3>2 DEF OwnInv, Sound, TypeOK, RunnerTypeOK
    <3>3. CASE r < run
      BY <1>0, <1>1, <3>3 DEF OwnInv, RunsYieldOwnCsv, HeldUpOnce, TypeOK, RunnerTypeOK
    <3> QED BY <3>1, <3>2, <3>3
  <2> QED BY <1>1, <1>2, <2>1 DEF RunsYieldOwnCsv, HeldUpOnce, Visitors
<1> QED BY <1>2, <1>3, <1>4 DEF OwnInv

\* A step that leaves the runner at its run, and ends the benchmark only when the run
\* may, changes nothing about what was collected.
LEMMA SameRun ==
  ASSUME OwnInv, UNCHANGED <<run, result>>,
         \A r \in Run : Visitors(r) \subseteq Visitors(r)',
         rpc' = "done" => rpc = "done" \/ run \in Faulty,
         rpc' = "raised" => rpc = "raised" \/ run \in Faulty \/ Visitors(run) # {}
  PROVE  RunsYieldOwnCsv'
<1> SUFFICES ASSUME NEW r \in Run \ Faulty
             PROVE  /\ r < run \/ (r = run /\ rpc' = "done") =>
                         result[r] = "own"
                         \/ (Transport[r] = "grpc" /\ Visitors(r)' \cap Faulty # {})
                    /\ r = run /\ rpc' = "raised" => Visitors(r)' # {}
  BY DEF RunsYieldOwnCsv
<1>1. /\ r < run \/ (r = run /\ rpc = "done") =>
           result[r] = "own" \/ (Transport[r] = "grpc" /\ Visitors(r) \cap Faulty # {})
      /\ r = run /\ rpc = "raised" => Visitors(r) # {}
  BY DEF OwnInv, RunsYieldOwnCsv
<1>2. Visitors(r) \subseteq Visitors(r)'
  OBVIOUS
<1> QED BY <1>1, <1>2

\* Every step keeps the runs without faults sound.
LEMMA OwnInductive ==
  ASSUME OutputFits, CopiesElsewhere
  PROVE  ProcessesInv /\ ClientsInv /\ PipeInv /\ OwnInv /\ [Next]_vars => OwnInv'
<1> SUFFICES ASSUME ProcessesInv, ClientsInv, PipeInv, OwnInv, [Next]_vars PROVE OwnInv'
  OBVIOUS
<1>0. (\A r \in Run : Visitors(r) \subseteq Visitors(r)') /\ run \in Run
  BY VisitorsStay DEF ProcessesInv, TypeOK, RunnerTypeOK
<1>1. ASSUME NEW r \in Run, ProcessesStep(r) \/ TasksGoOn(r) \/ Crash(r) PROVE OwnInv'
  <2>1. OfProcesses(r) /\ UNCHANGED <<run, rpc, client, master, result>>
    BY <1>1 DEF ProcessesStep, TasksGoOn, Crash, OfProcesses, runnerVars
  <2>2. WriteCsv(r) => client[r] # "off" \/ Visitors(r) # {}
    <3>1. WriteCsv(r) => server[r] = "serving" /\ server'[r] = "written"
      BY DEF WriteCsv, Becomes, ProcessesInv, TypeOK, ScriptTypeOK
    <3>2. ScriptStep(r) \/ ServerCrashes(r) => server'[r] = server[r] \/ server'[r] # "written"
      BY DEF ScriptStep, StartRouter, RouterFails, StartAregServer, Serve, BindFails,
         ServerExits, ShellExits, ServerCrashes, ServerGone, Becomes, ProcessesInv, TypeOK,
         ScriptTypeOK
    <3> QED BY <1>1, <3>1, <3>2 DEF ProcessesStep, TasksGoOn, Crash
  <2>3. RunsYieldOwnCsv'
    BY <1>0, <2>1, SameRun
  <2> QED BY <2>1, <2>2, <2>3, OnlyThisRun, ProcessesSound DEF OwnInv
<1>2. ASSUME RunnerStep, ~Collect PROVE OwnInv'
  <2>1. run' = run /\ result' = result
    BY <1>2 DEF RunnerStep, StartServer, PortAnswers, PortFails, StartClients, ServerEnded,
       ServerTimesOut, ReadOutput, OutputEnds, StopClients, ClientsSurvive,
       ClientContainerExits, ContainersEnd, runnerVars
  <2>2. (rpc \in {"done", "raised"} => rpc' = rpc) /\ (rpc' = "done" => rpc = "done")
    BY <1>2 DEF RunnerStep, StartServer, PortAnswers, PortFails, StartClients, ServerEnded,
       ServerTimesOut, ReadOutput, OutputEnds, StopClients, ClientsSurvive,
       ClientContainerExits, ContainersEnd, runnerVars, Goes
  <2>3. CASE run \in Faulty \/ rpc \in {"done", "raised"}
    BY <1>0, <2>1, <2>2, <2>3, SameRun DEF OwnInv
  <2>4. CASE run \notin Faulty /\ rpc \notin {"done", "raised"}
    <3>1. Sound(run)' /\ (rpc' = "raised" => Visitors(run) # {})
      BY <1>2, <2>4, RunnerSound DEF OwnInv
    <3>2. RunsYieldOwnCsv'
      BY <1>0, <2>1, <2>2, <3>1, SameRun
    <3> QED BY <2>1, <3>1, <3>2 DEF OwnInv
  <2> QED BY <2>3, <2>4
<1>3. ASSUME NEW c \in Run, ClientStep(c) PROVE OwnInv'
  <2>1. UNCHANGED <<run, rpc, result>>
    BY <1>3 DEF ClientStep, ClientJoins, ClientRefused, ClientLeaves
  <2>2. RunsYieldOwnCsv'
    BY <1>0, <2>1, SameRun
  <2> QED BY <1>0, <1>3, <2>1, <2>2, ClientsSound DEF OwnInv
<1>4. CASE Finished \/ WaitsForOutput \/ UNCHANGED vars
  BY <1>4 DEF Finished, WaitsForOutput, vars, scriptVars, runnerVars, OwnInv, Sound,
     HeldUpOnce, Visitors, RunsYieldOwnCsv
<1> QED BY <1>1, <1>2, <1>3, <1>4, CollectSound DEF Next

\* A run without faults is lost in two ways only, and both need the client of another: it
\* hangs with a task of a gRPC server, or it ends the run before the runner has seen the
\* port.  This holds if a gRPC server's output fits in a pipe that nobody reads
\* meanwhile, and the results are kept elsewhere than where the servers write.
THEOREM OwnCsv ==
  ASSUME OutputFits, CopiesElsewhere
  PROVE  Spec => []RunsYieldOwnCsv
<1>1. Init => PipeInv /\ OwnInv
  <2> SUFFICES ASSUME Init PROVE PipeInv /\ OwnInv
    OBVIOUS
  <2>1. Sound(1) /\ run = 1 /\ rpc = "start"
    BY Constants DEF Init, ScriptInit, Sound
  <2>2. \A r \in Run : ~(r < run)
    BY Constants, <2>1
  <2>3. PipeInv
    BY DEF Init, ScriptInit, PipeInv
  <2> QED BY <2>1, <2>2, <2>3 DEF OwnInv, RunsYieldOwnCsv
<1>2. ProcessesInv /\ PipeInv /\ [Next]_vars => PipeInv'
  BY PipesKeep DEF ProcessesInv
<1>3. ProcessesInv /\ ClientsInv /\ PipeInv /\ OwnInv /\ [Next]_vars => OwnInv'
  BY OwnInductive
<1>4. OwnInv => RunsYieldOwnCsv
  BY DEF OwnInv
<1> QED BY <1>1, <1>2, <1>3, <1>4, ProcessesInitially, ProcessesInductive, ClientsInitially,
           ClientsInductive, PTL DEF Spec
=============================================================================
