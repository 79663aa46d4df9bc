---------------------------- MODULE BenchmarkRunner ----------------------------
(***************************************************************************)
(* The benchmark runner (run_benchmark.py): for every run it starts the    *)
(* server script, waits for the port, starts the clients, waits for the    *)
(* server, reads its output, stops the clients and collects the CSV.       *)
(*                                                                         *)
(* Its twin (docker_bench.py) leaves all but the collecting to compose,    *)
(* which puts the same two scripts into two containers (docker-compose.yml)*)
(* and removes both when the first process of one of them has ended.       *)
(*                                                                         *)
(* Of the clients of a run one is followed, any of those that the others   *)
(* do not wait for.  Each run has an output file of its own.               *)
(***************************************************************************)
EXTENDS ServerScript

CONSTANTS
  Setups,                     \* the ways to make the runs: "local" and "ssh",
                              \* which say where the clients are, and "docker"
  InPlace,                    \* those whose results_dir is where the server writes:
                              \* repo_dir, or for docker, by default, repo_dir/results
  Leftovers                   \* runs whose output file is there before the start

ASSUME RunnerAssumption ==
  /\ Setups \subseteq {"local", "ssh", "docker"}
  /\ InPlace \subseteq Setups
  /\ Leftovers \subseteq Run
  /\ Len(Transport) > 0

VARIABLES
  setup,                      \* the way this benchmark is made
  run,                        \* the run at hand
  rpc,                        \* where the runner is in it
  client,                     \* the client of each run
  master,                     \* the run whose server it works for
  result                      \* who wrote what was collected for each run

runnerVars == <<setup, run, rpc, client, master, result>>
vars == <<scriptVars, runnerVars>>

RunnerTypeOK ==
  /\ setup \in Setups
  /\ run \in Run
  /\ rpc \in {"start", "port", "failed", "raised", "clients", "wait", "drain",
              "stopping", "cleanup", "collect", "done"}
  /\ client \in [Run -> {"off", "starting", "working", "gone"}]
  /\ master \in [Run -> Run \cup {Nobody}]
  /\ result \in [Run -> {"none", "earlier", "own"}]

Init ==
  /\ ScriptInit
  /\ file = [r \in Run |-> IF r \in Leftovers THEN "earlier" ELSE "none"]
  /\ setup \in Setups
  /\ run = 1
  /\ rpc = "start"
  /\ client = [r \in Run |-> "off"]
  /\ master = [r \in Run |-> Nobody]
  /\ result = [r \in Run |-> "none"]

Goes(from, to) == rpc = from /\ rpc' = to

-----------------------------------------------------------------------------
StartServer ==
  /\ Goes("start", "port")
  /\ Spawn(run)
  /\ UNCHANGED <<setup, run, client, master, result>>

\* Any process that listens will do.
PortAnswers ==
  /\ Goes("port", "clients")
  /\ listener # Nobody
  /\ UNCHANGED <<scriptVars, setup, run, client, master, result>>

\* The process died, or the deadline passed.
PortFails ==
  /\ setup # "docker"
  /\ Goes("port", "failed")
  /\ ChildGone(run) \/ run \in Faulty
  /\ UNCHANGED <<scriptVars, setup, run, client, master, result>>

\* The clients are started, on this machine or detached on another.
StartClients ==
  /\ Goes("clients", "wait")
  /\ client' = [client EXCEPT ![run] = "starting"]
  /\ UNCHANGED <<scriptVars, setup, run, master, result>>

ServerEnded ==
  /\ setup # "docker"
  /\ Goes("wait", "drain")
  /\ ChildGone(run)
  /\ UNCHANGED <<scriptVars, setup, run, client, master, result>>

\* The clients of other runs that have found the server of run r.
Visitors(r) == {c \in Run \ {r} : master[c] = r}

\* A client that was left by a faulty run hangs with a task, for which a gRPC server
\* waits.  (An AREG master counts a sentinel in its place.)
HeldUp(r) ==
  Transport[r] = "grpc" /\ \E c \in Visitors(r) \cap Faulty : client[c] = "working"

\* The time limit is far above what a run takes, unless the server is stuck.
ServerTimesOut ==
  /\ setup # "docker"
  /\ Goes("wait", "drain")
  /\ ~ChildGone(run)
  /\ run \in Faulty \/ Blocked(run) \/ HeldUp(run)
  /\ KillChild(run)
  /\ UNCHANGED <<setup, run, client, master, result>>

\* The runner reads when the server has ended, compose as it comes.
ReadOutput ==
  /\ rpc \in {"failed", "drain"} \/ setup = "docker"
  /\ ReadPipe(run)
  /\ UNCHANGED runnerVars

\* Mutant of OutputEnds: what is in the pipe is read, its end not awaited.
OutputRead ==
  /\ Goes("failed", "raised") \/ Goes("drain", "cleanup")
  /\ pipe[run] = 0
  /\ UNCHANGED <<scriptVars, setup, run, client, master, result>>

\* stdout.read() returns when no process can write to the pipe any more.
OutputEnds ==
  /\ Goes("failed", "raised") \/ Goes("drain", "cleanup")
  /\ pipe[run] = 0 /\ ~PipeHeld(run)
  /\ UNCHANGED <<scriptVars, setup, run, client, master, result>>

\* Mutant of StopClients: clients that have not ended are left.
LeaveClients ==
  /\ Goes("cleanup", "collect")
  /\ UNCHANGED <<scriptVars, setup, run, client, master, result>>

\* The script of the clients is told to end; its trap stops them and waits for them.
StopClients ==
  /\ setup = "local"
  /\ Goes("cleanup", "collect")
  /\ client' = [client EXCEPT ![run] = "gone"]
  /\ UNCHANGED <<scriptVars, setup, run, master, result>>

\* The script has died, or the trap takes longer than five seconds and the script is
\* killed: nobody stops its clients.  Those of another machine are not the children
\* of the SSH command, which has ended long ago.
ClientsSurvive ==
  /\ setup = "ssh" \/ (setup = "local" /\ run \in Faulty)
  /\ Goes("cleanup", "collect")
  /\ UNCHANGED <<scriptVars, setup, run, client, master, result>>

\* The first process of the client container, start-clients.sh, has waited for all
\* clients: compose stops the server's container.
ClientContainerExits ==
  /\ setup = "docker"
  /\ Goes("wait", "stopping")
  /\ client[run] = "gone"
  /\ UNCHANGED <<scriptVars, setup, run, client, master, result>>

\* A first process without a handler of SIGTERM does not hear the stop: the gRPC
\* server goes on for ten seconds, enough for one whose tasks are done.  The shell of
\* an AREG run ends at once, for its trap on EXIT makes it listen.
StopEnds == ChildGone(run) \/ run \in Faulty \/ Transport[run] = "areg"

\* The server has ended, or its port never answered, or it was stopped; the clients
\* are stopped with it.  Processes die with the first one of their container.  If the
\* port did not answer, compose may leave them to be removed by the next run: without
\* clients they do nothing.
ContainersEnd ==
  /\ setup = "docker"
  /\ \/ Goes("wait", "collect") /\ ChildGone(run)
     \/ Goes("port", "collect") /\ (ChildGone(run) \/ run \in Faulty)
     \/ Goes("stopping", "collect") /\ StopEnds
  /\ KillContainer(run)
  /\ client' = [client EXCEPT ![run] = "gone"]
  /\ UNCHANGED <<setup, run, master, result>>

\* Mutant of NextRun: the last run is not recognised.
NextRunAlways == run' = run + 1 /\ rpc' = "start"

NextRun ==
  \/ run < Len(Transport) /\ run' = run + 1 /\ rpc' = "start"
  \/ run = Len(Transport) /\ rpc' = "done" /\ UNCHANGED run

\* The destination is the source: it is there, so it is unlinked before it is copied.
RemovesOwnFile == setup \in InPlace /\ file[run] # "none"

\* Mutant of Collect: the file is removed before it is copied.
CollectRemoved ==
  /\ rpc = "collect"
  /\ NextRun
  /\ file' = [file EXCEPT ![run] = "none"]
  /\ result' = [result EXCEPT ![run] = file'[run]]
  /\ UNCHANGED <<shell, router, server, listener, printed, pipe>>
  /\ UNCHANGED <<setup, client, master>>

\* The file, whoever wrote it, replaces what the results held for the run.
Collect ==
  /\ rpc = "collect"
  /\ IF RemovesOwnFile
       THEN rpc' = "raised" /\ UNCHANGED <<run, result>>
       ELSE /\ NextRun
            /\ result' = [result EXCEPT ![run] = IF file[run] = "none" THEN @ ELSE file[run]]
  /\ file' = [file EXCEPT ![run] = "none"]
  /\ UNCHANGED <<shell, router, server, listener, printed, pipe>>
  /\ UNCHANGED <<setup, client, master>>

RunnerStep ==
  \/ StartServer \/ PortAnswers \/ PortFails \/ StartClients
  \/ ServerEnded \/ ServerTimesOut \/ ReadOutput \/ OutputEnds
  \/ StopClients \/ ClientsSurvive \/ ClientContainerExits \/ ContainersEnd
  \/ Collect

-----------------------------------------------------------------------------
\* Behind the port is a server, or its router, that client c can talk to.
Reached(c) == listener # Nobody /\ Transport[listener] = Transport[c]

\* A client works for the server it finds on the port, of whichever run.
ClientJoins(c) ==
  /\ client[c] = "starting"
  /\ Reached(c) /\ server[listener] = "serving"
  /\ client' = [client EXCEPT ![c] = "working"]
  /\ master' = [master EXCEPT ![c] = listener]
  /\ UNCHANGED <<scriptVars, setup, run, rpc, result>>

\* A gRPC client that finds no gRPC server ends; an AREG client waits for one.
ClientRefused(c) ==
  /\ Transport[c] = "grpc"
  /\ Becomes(client, c, "starting", "gone")
  /\ ~Reached(c)
  /\ UNCHANGED <<scriptVars, setup, run, rpc, master, result>>

\* A gRPC server closes the streams when no task is left, before it writes the CSV.
Dismissed(c) ==
  \/ server[master[c]] # "serving"
  \/ Transport[c] = "grpc" /\ printed[master[c]] = Output(master[c])

ClientLeaves(c) ==
  /\ Becomes(client, c, "working", "gone")
  /\ Dismissed(c) \/ c \in Faulty
  /\ UNCHANGED <<scriptVars, setup, run, rpc, master, result>>

\* Tasks are handed out and done once there are clients, those of the run or some that
\* were left by another, which may do them all before the runner has seen the port.
TasksGoOn(r) ==
  /\ client[r] # "off" \/ Visitors(r) # {}
  /\ PrintBuffer(r) \/ WriteCsv(r)
  /\ UNCHANGED runnerVars

ProcessesStep(r) == ScriptStep(r) /\ UNCHANGED runnerVars
Crash(r) == ServerCrashes(r) /\ UNCHANGED runnerVars
ClientStep(c) == ClientJoins(c) \/ ClientRefused(c) \/ ClientLeaves(c)

Finished == rpc \in {"done", "raised"} /\ UNCHANGED vars

\* Nobody will close the pipe: the read in OutputEnds has no time limit.
WaitsForOutput == rpc \in {"failed", "drain"} /\ PipeHeld(run) /\ UNCHANGED vars

Next ==
  \/ RunnerStep
  \/ \E r \in Run : ProcessesStep(r) \/ TasksGoOn(r) \/ Crash(r) \/ ClientStep(r)
  \/ Finished \/ WaitsForOutput

Spec == Init /\ [][Next]_vars

\* The runner is scheduled, and the processes of the runs where none of them hangs, as
\* long as they do not wait for a client that does.
Fairness ==
  /\ WF_vars(RunnerStep)
  /\ \A r \in Run \ Faulty :
       WF_vars(ProcessesStep(r)) /\ WF_vars(TasksGoOn(r) /\ ~HeldUp(r))

FairSpec == Spec /\ Fairness

-----------------------------------------------------------------------------
\* Properties

TypeOK == ScriptTypeOK /\ RunnerTypeOK

\* A run starts only when no process of an earlier one is left, not even an
\* orphan of a killed script, so no run finds its port taken or is measured
\* beside another.  Nothing checks for it: it rests on reading the output of the
\* server to its end (run_benchmark.py:246, 296), or on compose removing containers
\* as a whole (docker_bench.py:142-148).
OneRunAtATime ==
  /\ \A r \in Run \ {run} : ~PipeHeld(r)
  /\ listener \in {Nobody, run}

\* The n in <transport>_out_<n>.csv (README.md:59) is the number of workers: a client
\* that came late, or was left, works for the server of another run only if it is on
\* another machine, or the script that should have stopped it did not end within five
\* seconds (run_benchmark.py:302-309).
ClientsOfThisRun ==
  \A r \in Run : \A c \in Visitors(r) :
    c < r /\ (setup = "ssh" \/ (setup = "local" /\ c \in Faulty))

\* A CSV is collected whenever it is written, by an orphan after the kill
\* (run_benchmark.py:289) as well: none stays behind to be taken for another.
NothingLeftBehind == \A r \in Run : r < run => file[r] = "none"

\* "One CSV per run" (README.md:59): what is collected for a run without faults was
\* written by its own server, whatever file an earlier session left and whatever
\* happened to the runs before it, but for two things that their clients may do.  One
\* that hangs with a task holds up a gRPC server until it is killed.  One that is late
\* may do all tasks before the runner has seen the port, which it takes for a failed
\* start (run_benchmark.py:89, 244).  With compose, where the end of the clients stops
\* the server (docker_bench.py:142), it rests on a gRPC server that does not hear the
\* stop, and on AREG clients that outlive the writing of the CSV.
RunsYieldOwnCsv ==
  \A r \in Run \ Faulty :
    /\ r < run \/ (r = run /\ rpc = "done") =>
         result[r] = "own" \/ (Transport[r] = "grpc" /\ Visitors(r) \cap Faulty # {})
    /\ r = run /\ rpc = "raised" => Visitors(r) # {}

\* The benchmark ends, or raises an error, or waits for ever for the output of a
\* run that had a fault: its read has no time limit (run_benchmark.py:246, 296).
\* With compose, whose runs have none (docker_bench.py:141), it may wait for the
\* server or the clients of such a run.  A run without faults never blocks it.
OnlyFaultsBlock ==
  \/ <>(rpc \in {"done", "raised"})
  \/ <>[](run \in Faulty /\ rpc \in IF setup = "docker" THEN {"wait"}
                                                         ELSE {"failed", "drain"})
=============================================================================
