# A verification project for areg-grpc-test

The repository compares two ways of spreading matrix products over worker
processes: a gRPC master with a bidirectional stream per worker
(`src/grpc-src`), and an AREG master whose handlers run in one thread
(`src/areg-src`). Both read the same task file, time every task and write one
CSV; Python scripts run the two, collect the CSVs and analyse them
(`src/run_benchmark.py`, `src/docker_bench.py`, `src/analyze.py`). If a CSV
lacks rows, or holds rows of something else, the comparison is worthless and
nothing says so. What this project asks is therefore: *who computes each task,
when is it counted, what is in the CSV, and do the programs end?*

## 1. Inventory

| Part | Source | State | Operations |
|---|---|---|---|
| gRPC dispatcher | `grpc-src/server.cpp:30-83` | task vector; atomics `enqueued_`, `completed_`, `shutdown_` | enqueue, dequeue, on_task_completed, done, shutdown |
| gRPC server | `grpc-src/server.cpp:89-265` | `next_worker_id_`, `ts_snd_rec`, `failed`; one thread per stream; main | RegisterWorker, AssignTasks, load, serve, poll, report, shut down |
| gRPC client | `grpc-src/client.cpp` | its stream, task, worker id | register, announce, read a task, multiply, write the result |
| gRPC stream | `proto/task.proto`, gRPC library | two queues and a connection | Read, Write, Finish, loss of connection |
| AREG master | `areg-src/MasterComponent.*`, `areg-src/server.cpp` | `mQueue`, `mRes`, `mNextTask`, `mCompleted`, `mNextWorkerId`, `mShutdown`; main's quit signal | three request handlers, start-up, quit |
| AREG worker | `areg-src/WorkerComponent.*`, `client.cpp`, `client_many.cpp` | connection, `mWorkerId`, a buffer | three callbacks; 1 or 60 components in a process |
| AREG channels | `areg-src/Interface.siml`, AREG runtime, mtrouter | messages under way | requests and responses |
| Task files | `common/gen_tasks.cpp`, `common/utils.hpp:55-103` | a file | generate, parse, read |
| Multiplication | `common/utils.hpp:105-135` | a buffer | multiply |
| Timings, CSV | `common/utils.hpp:137-142, 212-253`, `analyze.py:31-40` | rows of timestamps from two clocks | ts, Validate, record_csv, metrics |
| Benchmark runner | `run_benchmark.py`, `start-*.sh`, `benchmark.ini` | processes, output pipe, result directory | start, wait for the port, wait for the end, kill, collect |
| Docker orchestration | `docker_bench.py`, `docker-compose.yml` | containers | the same over compose |
| Analysis | `analyze.py` | data frames | filter, metrics, plots |
| System metrics | `common/utils.hpp:147-201` | none | read `/proc` |

**Interactions.** The runner starts a server and, when its port answers, the
clients. A gRPC client registers by a unary call, then opens a stream; the
library runs a handler thread per stream on the server. Handlers share with
each other and with `main` the dispatcher and the table of rows, and lock
nothing. An AREG worker is told when the master's service is connected, and from
then on each callback ends with the next request; the master's handlers run one
after another in `MasterThread`, and signal `main` when the last submission
is in. Nothing is retried or persisted except the CSV: a master that dies has
lost everything, so there is no recovery to model, only partial failure.

**What is hard, and what makes each part correct.**

- *Dispatcher and server.* Relaxed atomics and an unlocked table: no task to two
  handlers; `main` must not walk the table while a handler owns a task; a
  counted task must be a finished one; the row and the count are two steps.
- *Handler and client.* The two programs alternate strictly and never compare
  ids: an extra message shifts every later result. A broken stream must give its
  task up exactly once. No call has a deadline: what may block for ever?
- *Shut-down.* Calls arrive while the server stops: their clients must be told.
- *AREG master.* Sentinels are answered, counted and stored like tasks; the
  signal to quit stops nothing at once; crashes are never noticed. What does the
  count still mean, and how incomplete may a CSV be?
- *AREG worker.* Components that share a process share its crash, and its end when one
  of them loses the master: what was under way is lost without a failure.
- *Task files, multiplication.* Width of sizes and arguments, indices, a buffer that
  is not cleared by `resize`.
- *Timings.* Two clocks, readings taken at different places by the two transports, a
  validation that compares positions: what does each metric measure?
- *Runner.* A pipe nobody drains, a kill that misses grandchildren, results left
  from the run before. Under compose, clients whose end stops the server, and a
  result that is removed before it is copied.

PROJECT.json lists each hazard at its line, with the properties that catch it.

## 2. The modules

```
TaskDistribution <- EarlyDistribution                      abstract promises
      ^ implemented by       ^ implemented by
Dispatcher + GrpcStream -> GrpcServer  AregChannel -> AregMaster
             GrpcStream -> GrpcClient  AregChannel -> AregWorker
      GrpcSystem -> MCGrpc                  AregSystem -> MCAreg

ServerScript -> BenchmarkRunner -> MCBenchmark
TaskFile -> MCTaskFile      Multiply + SystemMetrics -> TaskTiming -> MCTaskTiming

GrpcSystem -> GrpcProofs -> GrpcExchangeProofs -> GrpcRefinementProofs
AregSystem -> AregProofs    BenchmarkRunner -> BenchmarkProofs
TaskFile -> TaskFileProofs  TaskTiming + FoldProofs -> TimingProofs
```

**TaskDistribution** is what the gRPC master promises: a task is queued, then
assigned to one worker, then recorded or lost with it; one report is published,
once, when nothing is queued or assigned, and holds exactly the recorded tasks.
**EarlyDistribution** is the weaker promise of the AREG master: several tasks may
move in one step, a recorded task may lose its timings again, and reports may
be published repeatedly once all tasks were handed out, with at most `Slack`
tasks missing.

**Dispatcher** has one operator per atomic access. `load_tasks` gives the task at
position *i* the id *i*, so a task is its position and the vector its length.
`Dequeue`/`DequeueNothing` both move the cursor, as the fetch-and-add does.

**GrpcStream** (external) is the connection of each worker and the messages under
way in both directions. Messages are the task a task or result belongs to,
or `Ready`, the first message of a client. A connection may break at any time
if the worker is in `Unreliable`. After a break the receiver may still get what was
under way, or not: `Read` may fail while messages are left. A message whose task is
in `TooLarge` is above the library's limit for received messages, which neither
program changes: reading it breaks the stream.

**GrpcServer** has an action per atomic access, per access to the table and per
blocking call, so threads interleave everywhere they can:

| `hpc` | `AssignTasks` | | `mpc` | `main` |
|---|---|---|---|---|
| `init` | `stream->Read(&init)` 113 | | `load` | read_tasks, enqueue, service 223-238 |
| `dequeue` | `dequeue(task)` 121 | | `bind` | BuildAndStart 240-250 |
| `write` | `Write` 126 | | `wait` | wait_until_done 252 |
| `read` | `Read(&result)` 135 | | `csv` | record_csv 258 |
| `store` | the row 143-150 | | `shutdown` | dispatcher.shutdown 260 |
| `count` | on_task_completed 153 | | `stop` | server->Shutdown 261 |
| `fail`, `giveup` | `++failed`; on_task_completed 129-141 | | `join` | server->Wait 262 |

A row is reduced to the task whose result it stores, which is what tells a right
row from a wrong one. An exception in `main` (`read_tasks`, the port,
`record_csv`) ends the process, and its handlers and streams with it.
`RowsFirst` says whether a row is visible to `main` before the count that
follows it. The code orders the two by nothing (`memory_order_relaxed` on
both sides); x86 orders them, ARM need not, and C++ calls it a data race. With
`RowsFirst = FALSE`, `record_csv` may see any set of rows as still blank.

**GrpcClient** is `client.cpp`'s main; **GrpcSystem** composes and adds what
belongs to neither: registration, opening a call, launching by the runner,
crashes and cut-offs.

**AregChannel** (external) carries messages in order per worker and direction. A
matrix is reduced to whether there is one (`real`); the answer
`AssignTaskReply(0, FALSE)` is the sentinel. **AregMaster** has one action per
handler, for handlers run one at a time; a row of `mRes` is reduced to what
filled it. `SubmitAndQuit` writes the CSV and wakes `main`, and does not stop
`MasterThread`: until `UnloadModel`, more submissions rewrite the CSV.
**AregWorker** has one action per callback, and the `main` of the processes that host
the components: one in `areg_client`, several in `areg_client_many`. **AregSystem**
composes and groups components in `Processes`. A process is launched and quits as a
whole, when one component was told that the master is gone (`Disconnect`) while the
others may be anywhere in a task. An unreliable process may crash (`Crash`) or lose
its connection to the router (`CutOff`), which its components take for the end of the
master; in both cases what was sent may still arrive. A process not in `Responsive`
may hang. `WaitQuit` and `Finished` are the two places where nothing is left to do.

**ServerScript** is what `start-server.sh` makes of a run, seen from outside: for
gRPC the script becomes the server (`exec`), for AREG it starts the router,
then the server, waits for it, and kills the router on every way out. What a
server does for its tasks is reduced to printing, writing the CSV, and exiting. All
processes of a run hold one pipe; `listener` says whose port it is (all runs use
the same port, as `benchmark.ini` has it). **BenchmarkRunner** is the loop of
`run_benchmark.py`, one action per wait: `rpc` is `start` (219-233), `port`
(244), `failed` (246), `clients` (255-281), `wait` (286), `drain` (296), `cleanup`
(302-309), `collect` (311-322). `OutputEnds` is the read of the output, which returns
when the last process that holds the pipe is gone: that, and nothing else,
keeps two runs apart. Of the clients of a run, one is followed. In `cleanup` they are
stopped by their script (`StopClients`), or survive (`ClientsSurvive`): on another machine, or
if the script does not end in five seconds and is killed, which only a run with a fault
does. A survivor works for whichever server it finds on the port (`ClientJoins`,
`Visitors`); tasks are done once a server has clients, whosever they are (`TasksGoOn`). GrpcServer and
AregMaster assume that their output is read.

`docker_bench.py` is the same loop with `setup = "docker"`, over the same scripts in
two containers: `port` is the health check, `wait` is `docker compose up` (140-148),
which has no time limit and prints the output as it comes, and `stopping` is the time
between the end of the client container and that of the server's
(`ClientContainerExits`, `ContainersEnd`). gRPC clients end when no task is left, which
is before the CSV is written: that the server still writes it rests on two facts,
that it is the first process of its container and has no handler of SIGTERM, so that it
does not hear the stop, and that it needs less than the `stop_grace_period` of ten
seconds (`docker-compose.yml:69`) once its tasks are done; runs without faults keep that
limit by assumption. The first process of an AREG run is the script, whose trap on EXIT
makes bash listen to SIGTERM, so that it may end at once with the router and the server;
but AREG clients end only when the master is gone, and by then the CSV is written. If the health check fails, compose may leave the
container to be recreated by the next run; nothing can happen in it meanwhile, since no
client exists, and the model removes it at once.

**TaskFile** is `gen-tasks` and `read_tasks` over words of `Word` values. The arguments
are truncated to a word, then checked; a line is its
three dimensions and the number of values in each field; the disk may fill between
any two values (no `fprintf` is tested). A cut that only takes digits from the last
number of the file leaves a well-formed line, with another value, and cannot be
noticed by counting.

**Multiply** is the loop nest and the reference it is compared with, **SystemMetrics**
the two functions that read `/proc`, both as plain operators. **TaskTiming** uses them: it
follows one worker of either transport from task to task, in the order of the
statements of both programs, with one clock per machine. `IsTask` is what the constructor
of `Task` asserts (`utils.hpp:29-34`); `IsMeminfo` is what the kernel writes: each number
on one line, and no more memory available than there is. Time passes in four
activities (`srv2cli`, `work`, `proc`, `cli2srv`), and `spent` remembers how long each
took in fact; the record is what the programs took down. `pc` is where the task is:
`sent` (`server.cpp:125`, `MasterComponent.cpp:61-63`), `received`, `worked`, `filled`,
`submitted` (`client.cpp:74-103`, `WorkerComponent.cpp:54-65`), `recorded`
(`server.cpp:142-150`, `MasterComponent.cpp:95-111`). `cli2srv` includes the time a
submission waits for AREG's `MasterThread`; `work` includes copying the product into the
message (gRPC).

Mutant operators ("Mutant of X" in their comment) stand before the operator they
damage; no specification uses them. PROJECT.json pairs each with the property
that catches it.

## 3. What the runs show

| Run | Instance | States | Shows |
|---|---|---|---|
| `grpc` | 2 workers, both may crash or be cut off and 1 may hang, 3 tasks, 1 above the message limit | 229,127 | `OneWorkerPerTask`, `RowsMatchTask`, `ProgramsInStep`, `CountInv`, `NoWriterWhileReporting`, `ReportIsFinal`, `ReportAccountsForEveryTask`; GrpcSystem implements TaskDistribution; the server ends, or waits for a hung client, or for anybody to take the tasks left; the client that does not hang leaves even then |
| `grpc_relaxed` | 2 reliable workers, `RowsFirst = FALSE` | violation | a timing that was taken may be missing from the CSV |
| `grpc_starved` | 2 reliable workers, 3 tasks, 2 above the limit | violation | all workers end and the server waits for ever |
| `areg_crash` | 3 components in 2 processes (that of 2 may crash, hang or be cut off), 4 tasks | 298,220 | `AnswersConserved`, `OneWorkerPerTask`, AregSystem implements EarlyDistribution with `Slack` = number of workers, and the master ends |
| `areg_all_timed` | 2 reliable components, 3 tasks | violation | the CSV is written while a task is still computed |
| `areg_kept_rows` | 2 reliable components, 3 tasks | violation | a sentinel's answer is kept as a row of task 0 |
| `bench` | 4 runs, `areg areg grpc grpc`, the middle two with faults; local, SSH and Docker | 78,108 | runs do not overlap, only clients that nobody could stop work for another run, no CSV is left behind, a run without faults never blocks the runner and yields its own CSV, unless such clients hold it up or end it before its port was seen |
| `bench_pipe` | 1 gRPC run that prints 3 buffers into a pipe of 2 | violation | the server blocks, is killed, and leaves no CSV |
| `docker_in_place` | 1 gRPC run in containers, `results_dir` at its default | violation | the CSV is removed instead of collected, and the benchmark ends |
| `task_file` | words of 4 bits, 6 lists of arguments, dimensions up to 3, 2 samples; 16,129 files of 2 lines written by hand | 91,996 | tasks are the samples, a complete file is read completely, and the work on a task stays inside of its matrices |
| `task_timing` | all tasks of up to 2x2 matrices over two patterns of values, and the sentinel; activities of 0 or 1; clocks apart by -2, 0, 3; 3 states each of `/proc/meminfo` and `/proc/stat` | 66,123 | the result is the product, whatever was in the buffer before; what each metric contains; the load in a row is the machine's |
| `task_labels` | the same | violation | the metric labelled "Client compute time" does not contain the multiplication |

**Bounds.** The only bounds are the constants: no counter is capped, because
every cursor and counter is moved at most once per claimed task or per
worker's last, empty claim, so the state space is finite by itself (TaskTiming, whose
worker never ends, sets its clock back between tasks).
Handlers differ only in which task they own, so interference needs two of
them, and either may fail while the other goes on. Three tasks suffice for a
worker that takes a second task while the other still has its first, for a
worker that finds the queue empty while the other holds a task, for a crash before,
between and after, and for a worker that is lost to the task above the limit. More
workers than these two are the business of the proofs: all safety properties of the
instance are proved for any number of them. The AREG
instance has more tasks than workers, so that the bound of one missing row per worker
is not met by missing rows altogether (with one less, TLC finds a counterexample), and
so that a sentinel's answer (task id 0) can come after task 0 was timed and before the
last task was. No run uses symmetry. The four runs of `bench` let each
transport follow itself and the other, with a fault before, after, or in neither.
Output of two buffers fits the pipe exactly. Words of 4 bits with dimensions up to 3
keep the relation of the code, where the largest size `gen-tasks` can write fits a
word (10000 * 10000 < 2^32 as 3 * 3 < 2^4); files written by hand hold dimensions
above a word and products that wrap, and two of the arguments are longer than a word.
The worker of `task_timing` takes tasks for ever, each after any other; activities of 0
and 1 tell every sum of them from every other, and the offsets have either sign.

**Fairness.** gRPC: each handler thread and `main` are weakly fair (threads are
scheduled), the runner launches every client (it starts them all in one
command), and a client in `Responsive` takes its steps. Crashes and cut-offs are
never owed. Weak fairness is enough because a step once enabled
stays so until taken or until the connection breaks, which enables another
step of the same process. AREG: the master's threads, the
launching and ending of every process, and the workers of `Responsive` processes are
weakly fair. Runner: the runner itself, and in the runs without faults all processes
and the progress of the tasks, are weakly fair, except that tasks are not owed while a
gRPC server waits for a client that a faulty run left and that may hang (`HeldUp`); a run
with faults may stop anywhere, and nothing it owes is assumed. The runner's deadlines pass
only in runs with faults, or when the server is so held up or stuck on a full pipe, because
they are far above what a run takes. TaskFile and TaskTiming have no liveness.

**Findings.** Seven statements of the repository that the code does not keep; each has
a run that ends in a counterexample and is quoted in PROJECT.json: the relaxed count
(`server.cpp:55,60`), tasks above the message limit (`client.cpp:29,72`), the
AREG count of sentinels (`MasterComponent.cpp:96`), the sentinel rows that
`analyze.py:69,81` describes and that do not exist as described, the output pipe
that is read too late (`run_benchmark.py:286,296`), the result that
`docker_bench.py:163` removes when it is its own source, and the label "Client compute
time" (`analyze.py:45`) of a metric without the computation.

Lesser consequences of the code that the models contain and that no run is spent on:
after a client is cut off, the gRPC server prints "all tasks completed"
(`server.cpp:254`) with a blank row for the task that was counted as failed; clients
over SSH are not stopped (`run_benchmark.py:302`), and those whose script was killed after
five seconds (`:308`) are not either: `ClientsOfThisRun` allows these, and only these, to
work for the server of a later run. There they can spoil a run in which nothing fails, as
`RunsYieldOwnCsv` says: one that hangs with a task holds up a gRPC server until the runner
kills it; and one that is quick may do all tasks between two polls of the port (`:88-95`),
so that the runner finds the server gone before it saw the port and raises "Server failed
to start" (`:244-253`), the CSV of that run uncollected. The latter needs a server that is
through within half a second of opening its port; with AREG the port is open for a second
before the server starts (`start-server.sh:123-126`), so that the machine must be slow as
well. `run_benchmark.py:312-317` removes
a result that is its own source as `docker_bench.py` does, but only if `results_dir` is
set to `repo_dir` (`InPlace`); a faulty run may collect the file that an earlier session left
(`:314`), so `RunsYieldOwnCsv` is stated for the runs without faults; killing the
script of an AREG run (`:289`) leaves server and router alive, and a server that
takes its port after the deadline is read from for ever (`:246`): `OnlyFaultsBlock`
allows both; with compose a run has no time limit at all, so that a server which waits
for a client that hangs stops the whole benchmark, while one whose clients are all
gone is stopped by their container's end; a disk that is full between two lines leaves a shorter task file, and
`gen-tasks` still returns 0; arguments that are too long for 32 bits are truncated,
not refused (`gen_tasks.cpp:35-37`).

`MetricsMeasure` says what each metric contains, whatever its label; `task_labels` sets it
against the labels, which a reader of the plots sees (`analyze.py:42-51`). `cli_compute`,
"Client compute time" (`:45`), contains no computation: it is 0 for gRPC
(`client.cpp:84,91`) and the reading of `/proc` for AREG (`WorkerComponent.cpp:57-61`); the
multiplication is in `cli_ser`, "Client serialization delay" (`:44`). The reading of `/proc` is charged to the network by gRPC
(`net_cli2srv`). The two metrics of the network hold the difference of the two
clocks, with opposite signs, when master and worker are on different machines; their
sum, `ttl` and the two of the worker do not. `Validate` (`utils.hpp:226`) compares positions, so
it is always true; comparing the readings would fail on machines whose clocks differ.

## 4. What is proved

Proved with TLAPS, for every value of the constants that the assumptions below allow.
Every safety invariant that a passing run checks, and both refinements, are among them:

| Module | Theorem | Statement |
|---|---|---|
| `GrpcProofs` | `TypeCorrect` | `Spec => []TypeOK` |
| | `Conservation` | `Spec => []CountInv` |
| | `TableIsQuiet` | `Spec => []NoWriterWhileReporting` |
| | `ReportFinal` | `RowsFirst` implies `Spec => []ReportIsFinal` |
| `GrpcExchangeProofs` | `InStepAlways` | `Spec => []ProgramsInStep` |
| | `OneWorker` | `Spec => []OneWorkerPerTask` |
| | `RowsMatch` | `Spec => []RowsMatchTask` |
| `GrpcRefinementProofs` | `ReportAccounts` | `RowsFirst` implies `Spec => []ReportAccountsForEveryTask` |
| | `ImplementsPromise` | `RowsFirst` implies `Spec => ImplementsTaskDistribution` |
| `AregProofs` | `TypeCorrect` | `Spec => []TypeOK` |
| | `Conservation` | `Spec => []AnswersConserved` |
| | `OneHolder` | `Spec => []OneWorkerPerTask` |
| | `ImplementsEarly` | `Spec => ImplementsEarlyDistribution` |
| `BenchmarkProofs` | `TypeCorrect` | `Spec => []TypeOK` |
| | `OneAtATime` | `Spec => []OneRunAtATime` |
| | `ClientsInTheirRun` | `Spec => []ClientsOfThisRun` |
| | `Collected` | `Spec => []NothingLeftBehind` |
| | `OwnCsv` | `OutputFits` and `CopiesElsewhere` imply `Spec => []RunsYieldOwnCsv` |
| `TaskFileProofs` | `Inside` | `Spec => []IndicesInside` |
| | `TasksOfSamples` | `Spec => []TasksAreSamples` |
| | `ReadsWhatWasWritten` | `Spec => []RoundTrip` |
| `TimingProofs` | `MetricsAlwaysMeasure` | `Spec => []MetricsMeasure` |
| | `BufferNeverLeaks` | `Spec => []ResultOfTaskAlone` |
| | `ResultAlwaysProduct` | `Spec => []ResultIsProduct` |
| | `MetricsAlwaysOfMachine` | `Spec => []MetricsOfMachine` |

`FoldProofs` has no theorem of the system: it says what the folds and sums of the library
return, for the proofs of TimingProofs.

The assumptions are those the modules name, and TLC evaluates them in the runs. gRPC:
`NumTasks` positive, `Workers` finite with `Unreliable` and `Responsive` among them,
`TooLarge` a set of naturals, `RowsFirst` Boolean. AREG: `NumTasks` positive, the workers
divided into `Processes`. Runner: any sequence of at least one run, any of them faulty. Task files: the
largest size that `gen-tasks` accepts fits a word (`MAX_D * MAX_D < Word`), lines written
by hand have any integers. Timings:
durations and the start are naturals, no clock reads below 0 when a task is sent, every
task is an `IsTask`, every `/proc/meminfo` an `IsMeminfo`, and `/proc/stat` has naturals.
Three theorems have a hypothesis of their own, and for each a run shows what happens
without it: `RowsFirst` (`grpc_relaxed`); `OutputFits`, the output of a gRPC server is
not above the capacity of a pipe (`bench_pipe`); `CopiesElsewhere`, no way of
making the runs collects a file where it is (`docker_in_place`).

*gRPC, the count.* That nobody writes the table while `main` reads it follows from a
count: `completed_ + |Owners|` is the number of tasks claimed
(`CountInv`, third conjunct), hence at most `queueSize`. `main` leaves `wait` only
when `completed_ >= queueSize` (the one other way out of the loop,
`shutdown_`, is closed: only `main` sets it, and later: fifth conjunct), so
then `|Owners| = 0` (`CountedMeansIdle`), and stays 0 because a claim needs
`enqueued_ < queueSize`. The first two conjuncts say that nothing has moved
before the queue is filled. `TypeOK /\ CountInv` is inductive; the
lemmas `OwnersCounted` and `OwnersStep` say how the cardinality changes when one
handler moves, and `CountUntouched` settles every action that touches none of it. With
the table quiet, the rows copied by `RecordCsv` cannot change afterwards, which is
`ReportFinal` (`ReportStaysFinal` is its inductive step).

*gRPC, the exchange.* Nothing in the messages says that a result answers the task sent
last; it holds because the two programs alternate. `ProgramsInStep` says for each worker
what may be under way in each state of its handler and of its client, and is inductive
with `TypeOK`. It speaks of one worker at a time, so a step of another worker keeps
it (`StepOfAnother`, by `InStepLocal`), and each action is examined for its own
worker only (`InStepMain`, `InStepHandler`, `InStepClient`, `InStepFailures`).
`ClaimedOnce` (claims are below the cursor and distinct) is inductive by
itself; the two together give `OneWorkerPerTask`. `RowsMatchTask` follows because
the handler stores what it read only in the state `store`, where `ProgramsInStep` says
that it is the task it claimed.

*gRPC, the report.* `Accounts` counts the blank rows: a row is blank if nobody claimed its
task, or its handler has neither stored nor given it up (`Unsettled`), or the
failure was counted; the cardinalities of the three add up. The step that needs the
exchange is `RecordTimings`, which must fill the row of its own task, and that row must be
blank and nobody else's. When the CSV is written there is no owner and the cursor has
passed the queue, so blank rows are failures.

*gRPC, the promise.* `RefinementInv` is all of these with `QueueFull`: from `bind` on the
queue has all tasks. Under it a handler's claim, row and failure are Assign, Record and
Lose of that one task (`OneTaskMoves`, `HandlerImplements`), because it is with no other
handler; `RecordCsv` is Publish, because the table is quiet and no task is queued
(`MainImplements`); what clients, streams and breaks do, the promise does not speak of
(`OthersImplement`). A process that dies takes handlers with it, and can do so only while
none of them has a task.

*AREG.* No message names an answer, and the master does not look at who asks. What makes
it right is again that the two alternate (`ExchangeInv`): at most one message is under
way between a worker and the master, in one direction. `Steps` therefore sorts all actions into
five kinds, by what becomes of that message: `Quiet` (nobody's answer changes, or one is
dropped), `Starts`, `Asks` (a registration), `Continues` (computed and submitted) and
`Ends` (a submission handled, with the next answer). Each of the later proofs goes by kind, so
that the order of crashes, cut-offs, hangs and quits of processes with several workers is
examined once. `LossesCounted` gives `AnswersConserved`: answers handed out, less those
submitted, less those that workers have, are at most the workers gone
silent, one each. `AnswersNamed` gives `OneWorkerPerTask`, with `Fits`: rows are filled
from the front, a worker's task is not timed already, and a row that was sent and
never timed has a worker that holds it or a silent worker that lost it. Handling a
submission and its answer is one action and two changes of the table; `Fits` has the table
and the holders as parameters, so that the state between the two can be spoken of. Of task
0 it says that the row may also be a sentinel's. From it comes the bound of
EarlyDistribution, rows missing from a report are at most as many as workers
(`FewRowsMissing`); `Advances` says that a step moves every task forward only.

*Runner.* That two runs never meet rests on who holds the output pipe. `ProcessesInv`:
runs to come are `Fresh`, runs that are over hold no pipe, only AREG runs have a script that
stays, and whoever has the port is a live process of its run (`PortHeld`). The runner
reaches `cleanup` only by the end of the pipe or, with compose, of both containers.
`ClientsInv` follows the clients, which hold no pipe: those that somebody stops (`Stopped`)
have ended with their run, and a client joins one server at most, so that only the others
can be `Visitors` of a later run, which is `ClientsOfThisRun`. For `RunsYieldOwnCsv`,
`Sound(r)` says of the run at hand, if it has no fault, how far server, script, client and
file have come together, and that its server is never blocked (`NeverBlocked`, from
`PipeInv` and `OutputFits`); that it is through before its own clients were started, or was
killed, is traced to visitors, who once they came are never forgotten (`VisitorsStay`,
`HeldUpOnce`). `OwnInv` adds that the result is kept when it is collected.

*Task files.* `IndicesInside` is arithmetic: with `Position`, every `i * cols + j` lies below
`rows * cols`, hence below `Word`, hence is not changed by truncation; `SizesInv` says that
what was parsed has the sizes it claims. For the other two, `FileOfSamples` says that
line *i* of the file is sample *i*, complete unless the disk was full, and `ReadSoFar`
that the tasks so far are the lines so far.

*The metrics.* A metric is a difference of two readings taken stages apart, so
`MetricsMeasure`, about finished rows only, is not inductive. `ReadingsSoFar` says at each
stage how far the readings already in the message lie behind the worker's clock, and
that the master's own reading and what was spent since add up to the time; a stage adds
what it spends to each (`TakesTime`). Sentinels are left out of it: their master's
reading is that of task 0.

*The product and the load.* `BufferInv` says when the buffer is empty, so that what is sent
is `multiply(task, NoValues)` (`BufferNeverLeaks`); that this is `Product(task)` is about a
fold over the rounds of three loops, of which there are as many as the task says. The
library's induction theorems take a predicate and cannot be used; FoldProofs proves
induction for sets instead: a set of naturals that has 0 and successors has all
(`SetInduction`), and so for the subsets of a finite set (`SubsetInduction`). From it come
the existence of the functions that the library chooses (`FoldExists`) and that a sum does not
depend on which element is taken off first (`SumAdds`). `PositionSums` is then
the invariant of the loops: after any set of rounds, position *p* has the sum of the
terms among them that are *p*'s. For `/proc`, `LinesKnown` is the invariant of the loop over the
lines (what is known of a number is 0 or the one line that has it, although the loop may stop
before the end), and the sums of the reference are reduced to it and to the
eight counters by `SumSame` and `SumZero`.

Only model-checked: liveness, which the proof system cannot treat under fairness
(`OnlyHungOrLostWorkersBlock`, `WorkersDismissed`, `MasterTerminates`, `OnlyFaultsBlock`),
and the seven counterexamples.

## 5. Not modelled

Build files, plots and statistics; reading `benchmark.ini` and `--dry-run`. The contents
of matrices are in Multiply only, as integers: rounding is not modelled. Clocks run at
one speed and never jump; the arithmetic of `/proc/stat` is on numbers far below 2^64. The
configuration file of the router, which both scripts rewrite on one machine
(`start-server.sh:113`, `start-clients.sh:82`), is left out, because its reader, and
even which copy it opens, is inside the AREG SDK. gRPC and AREG are
external: modelled from how the code calls them, in-order and without duplication, as
both promise. Deadlines, retries and keep-alives are absent because the code sets
none. Compose is external too: modelled from the options and the compose file it is
given. An empty task file makes the AREG master index an empty vector
(`SubmitToEmptyQueue`): the step is in the model as the death of the master,
and no document says what should happen instead. Products of more than 32 bits can
only come from files written by hand; `IndicesInside` says what holds below that.

## 6. Plan

In order of importance, with what is done:

1. Abstract promises, the gRPC system, its runs - done.
2. The AREG system, its runs - done.
3. gRPC proofs: types, conservation, quiet table, final report - done.
4. ServerScript and BenchmarkRunner, by scripts, over SSH and with compose - done.
5. TaskFile with the arguments of `gen-tasks`, Multiply - done.
6. SystemMetrics and TaskTiming: the order of the readings, what Validate compares,
   what the derived metrics measure - done.
7. Proofs, gRPC: the exchange, one worker per task, rows, the account of the
   report, the refinement of TaskDistribution - done.
8. Proofs, AREG: types, conservation, one worker per task, the refinement of
   EarlyDistribution - done.
9. Proofs, timings: the metrics, the buffer, the product, the load - done.
10. Proofs, runner and task files: all their invariants - done.
11. Left: what can be proved towards the liveness properties, namely measures that no
   step increases (tasks not yet counted, answers not yet given, processes not yet
   started), which bound how much a run can do before it must end or wait.
