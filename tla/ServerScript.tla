----------------------------- MODULE ServerScript -----------------------------
(***************************************************************************)
(* The processes that start-server.sh makes for each run of the benchmark, *)
(* seen from outside.  For gRPC the script replaces itself by the server   *)
(* (exec); for AREG it starts the router, then the server, waits for it    *)
(* and kills the router.  All of them print to one pipe, whose reader is   *)
(* the benchmark runner or compose, and all runs use one port (grpc_port   *)
(* and areg_port are the same in benchmark.ini).                           *)
(*                                                                         *)
(* What the servers do while they serve is the subject of GrpcServer and   *)
(* AregMaster; here a server prints, writes its CSV and exits.             *)
(***************************************************************************)
EXTENDS Integers, Sequences

CONSTANTS
  Transport,                  \* the runs in their order: "grpc" or "areg" each
  GrpcOutput,                 \* what a gRPC server prints, in buffers: it grows
                              \* with its tasks; an AREG server prints a line
  PipeCapacity,               \* the buffers that the pipe holds
  Faulty                      \* runs whose processes may crash, hang or be slow

ASSUME ScriptAssumption ==
  /\ Transport \in Seq({"grpc", "areg"})
  /\ GrpcOutput \in Nat /\ PipeCapacity \in Nat
  /\ Faulty \subseteq 1 .. Len(Transport)

Run == 1 .. Len(Transport)
Nobody == 0

VARIABLES
  shell,                      \* the script, as long as it is a shell
  router,                     \* mtrouter
  server,                     \* grpc-server or areg_server
  listener,                   \* the run whose process has the port, or Nobody
  printed,                    \* buffers a server has printed
  pipe,                       \* buffers in its pipe, not read yet
  file                        \* out_csv in the repository: who wrote it, if any

scriptVars == <<shell, router, server, listener, printed, pipe, file>>

Output(r) == IF Transport[r] = "grpc" THEN GrpcOutput ELSE 0

\* The process the runner started and waits for.
ChildGone(r) == IF Transport[r] = "grpc" THEN server[r] = "gone" ELSE shell[r] = "gone"

\* Some process still has the pipe open for writing.
PipeHeld(r) ==
  shell[r] = "up" \/ router[r] = "up" \/ server[r] \notin {"off", "gone"}

\* The server waits for room in the pipe.
Blocked(r) ==
  server[r] = "serving" /\ printed[r] < Output(r) /\ pipe[r] >= PipeCapacity

ScriptTypeOK ==
  /\ shell \in [Run -> {"off", "up", "gone"}]
  /\ router \in [Run -> {"off", "up", "gone"}]
  /\ server \in [Run -> {"off", "loading", "serving", "written", "gone"}]
  /\ listener \in Run \cup {Nobody}
  /\ printed \in [Run -> 0 .. GrpcOutput]
  /\ pipe \in [Run -> 0 .. PipeCapacity]
  /\ file \in [Run -> {"none", "earlier", "own"}]

ScriptInit ==
  /\ shell = [r \in Run |-> "off"]
  /\ router = [r \in Run |-> "off"]
  /\ server = [r \in Run |-> "off"]
  /\ listener = Nobody
  /\ printed = [r \in Run |-> 0]
  /\ pipe = [r \in Run |-> 0]

Becomes(process, r, from, to) ==
  process[r] = from /\ process' = [process EXCEPT ![r] = to]

\* The port when the process of run r that had it, if it had, is gone.
Released(r) == IF listener = r THEN Nobody ELSE listener

-----------------------------------------------------------------------------
\* The runner executes the script.
Spawn(r) ==
  /\ \/ Transport[r] = "grpc" /\ Becomes(server, r, "off", "loading")
                              /\ UNCHANGED shell
     \/ Transport[r] = "areg" /\ Becomes(shell, r, "off", "up")
                              /\ UNCHANGED server
  /\ UNCHANGED <<router, listener, printed, pipe, file>>

\* The router has the port before the server has read a task.
StartRouter(r) ==
  /\ shell[r] = "up"
  /\ Becomes(router, r, "off", "up")
  /\ listener = Nobody
  /\ listener' = r
  /\ UNCHANGED <<shell, server, printed, pipe, file>>

\* The script looks after a second whether the router lives, and dies if not.
RouterFails(r) ==
  /\ Becomes(shell, r, "up", "gone")
  /\ Becomes(router, r, "off", "gone")
  /\ r \in Faulty \/ listener # Nobody
  /\ UNCHANGED <<server, listener, printed, pipe, file>>

StartAregServer(r) ==
  /\ shell[r] = "up" /\ router[r] = "up"
  /\ Becomes(server, r, "off", "loading")
  /\ UNCHANGED <<shell, router, listener, printed, pipe, file>>

\* The tasks are loaded; a gRPC server takes the port only now.
Serve(r) ==
  /\ Becomes(server, r, "loading", "serving")
  /\ \/ Transport[r] = "grpc" /\ listener = Nobody /\ listener' = r
     \/ Transport[r] = "areg" /\ UNCHANGED listener
  /\ UNCHANGED <<shell, router, printed, pipe, file>>

\* BuildAndStart fails: the port is taken, or the address is not this machine's.
BindFails(r) ==
  /\ Transport[r] = "grpc"
  /\ Becomes(server, r, "loading", "gone")
  /\ r \in Faulty \/ listener # Nobody
  /\ UNCHANGED <<shell, router, listener, printed, pipe, file>>

\* A gRPC server prints a line for every task it hands out.
PrintBuffer(r) ==
  /\ server[r] = "serving"
  /\ printed[r] < Output(r) /\ ~Blocked(r)
  /\ printed' = [printed EXCEPT ![r] = @ + 1]
  /\ pipe' = [pipe EXCEPT ![r] = @ + 1]
  /\ UNCHANGED <<shell, router, server, listener, file>>

\* All tasks are done and everything about them is printed.
WriteCsv(r) ==
  /\ Becomes(server, r, "serving", "written")
  /\ printed[r] = Output(r)
  /\ file' = [file EXCEPT ![r] = "own"]
  /\ UNCHANGED <<shell, router, listener, printed, pipe>>

\* Only the gRPC server has the port itself.
ServerGone(r) ==
  /\ server' = [server EXCEPT ![r] = "gone"]
  /\ listener' = IF Transport[r] = "grpc" THEN Released(r) ELSE listener

ServerExits(r) ==
  /\ server[r] = "written"
  /\ ServerGone(r)
  /\ UNCHANGED <<shell, router, printed, pipe, file>>

ServerCrashes(r) ==
  /\ r \in Faulty
  /\ server[r] \in {"loading", "serving", "written"}
  /\ ServerGone(r)
  /\ UNCHANGED <<shell, router, printed, pipe, file>>

\* Mutant of ShellExits: the router is not killed.
ShellExitsAlone(r) ==
  /\ Becomes(shell, r, "up", "gone")
  /\ server[r] = "gone"
  /\ UNCHANGED <<router, server, listener, printed, pipe, file>>

\* The script kills the router and waits for it, on every way out.
ShellExits(r) ==
  /\ Becomes(shell, r, "up", "gone")
  /\ server[r] = "gone"
  /\ router' = [router EXCEPT ![r] = "gone"]
  /\ listener' = Released(r)
  /\ UNCHANGED <<server, printed, pipe, file>>

\* SIGKILL to the process the runner started, and to no other.
KillChild(r) ==
  /\ \/ Transport[r] = "grpc" /\ ServerGone(r) /\ UNCHANGED shell
     \/ Transport[r] = "areg" /\ Becomes(shell, r, "up", "gone")
                              /\ UNCHANGED <<server, listener>>
  /\ UNCHANGED <<router, printed, pipe, file>>

\* The container of the script is removed, with all its processes.
KillContainer(r) ==
  /\ shell' = [shell EXCEPT ![r] = "gone"]
  /\ router' = [router EXCEPT ![r] = "gone"]
  /\ server' = [server EXCEPT ![r] = "gone"]
  /\ listener' = Released(r)
  /\ UNCHANGED <<printed, pipe, file>>

\* Somebody reads what is in the pipe.
ReadPipe(r) ==
  /\ pipe[r] > 0
  /\ pipe' = [pipe EXCEPT ![r] = 0]
  /\ UNCHANGED <<shell, router, server, listener, printed, file>>

\* What the processes of a run do without clients.
ScriptStep(r) ==
  \/ StartRouter(r) \/ RouterFails(r) \/ StartAregServer(r)
  \/ Serve(r) \/ BindFails(r) \/ ServerExits(r) \/ ShellExits(r)
=============================================================================
