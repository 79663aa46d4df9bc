------------------------------ MODULE TaskTiming ------------------------------
(***************************************************************************)
(* What the timings measure.  A master sends one worker task after task;   *)
(* both programs are followed in the order of their statements, for each   *)
(* transport, with the clock readings they take and the time that passes   *)
(* between these: time passes in the four activities, and nowhere else.    *)
(* analyze.py derives its metrics from the readings in a row of the CSV.   *)
(***************************************************************************)
EXTENDS Multiply, SystemMetrics

CONSTANTS
  Tasks,                      \* the tasks a worker may be sent, Sentinel among them
  Durations,                  \* how long an activity may take
  Start,                      \* the time when a task is sent
  Offsets,                    \* how far the worker's clock may be ahead
  Meminfos, Stats             \* what a worker may find in /proc

ASSUME TimingAssumption ==
  /\ Durations \subseteq Nat
  /\ Start \in Nat
  /\ Offsets \subseteq Int /\ \A o \in Offsets : Start + o >= 0
  /\ \A t \in Tasks : IsTask(t)
  /\ \A lines \in Meminfos : IsMeminfo(lines)
  /\ Stats \subseteq Seq(Nat)

VARIABLES
  transport,                  \* "grpc" or "areg"
  offset,                     \* the worker's clock minus the master's
  now,                        \* the time, as the master's clock has it
  pc,                         \* where the task is
  task,
  buff,                       \* the worker's buffer, kept from task to task
  message,                    \* the TaskResult, or the arguments of SubmitTask
  ts_srv_snd,                 \* the reading that the master keeps itself
  record,                     \* the TaskRecord of the task
  machine,                    \* what the worker found in /proc
  spent                       \* how long each activity took in fact

vars == <<transport, offset, now, pc, task, buff, message, ts_srv_snd, record,
          machine, spent>>

Activities == {"srv2cli", "work", "proc", "cli2srv"}
Nothing == [a \in {} |-> 0]
Blank == [ts_rec |-> 0, ts_tsk |-> 0, ts_snd |-> 0,
          ram_used_kb |-> 0, cpu_usage_percent |-> 0, result |-> NoValues]

\* ts() on either side.
srv_ts == now'
cli_ts == now' + offset

Init ==
  /\ transport \in {"grpc", "areg"}
  /\ offset \in Offsets
  /\ now = Start
  /\ pc = "idle"
  /\ task = Sentinel
  /\ buff = NoValues
  /\ message = Blank /\ record = Nothing /\ machine = Nothing
  /\ ts_srv_snd = 0
  /\ spent = [a \in Activities |-> 0]

Goes(from, to) == pc = from /\ pc' = to /\ UNCHANGED <<transport, offset>>

Takes(activity) ==
  \E d \in Durations : now' = now + d /\ spent' = [spent EXCEPT ![activity] = d]

-----------------------------------------------------------------------------
\* The reading is taken before the task is sent.  A sentinel, which only AREG
\* has, goes by the row of task 0, sent before to somebody.
SendTask(t) ==
  /\ Goes("idle", "sent")
  /\ task' = t
  /\ now' = Start
  /\ \/ t # Sentinel /\ ts_srv_snd' = srv_ts
     \/ t = Sentinel /\ transport = "areg" /\ ts_srv_snd' \in 0 .. Start
  /\ UNCHANGED <<buff, message, record, machine, spent>>

\* Between the two readings the task is copied, encoded, carried, decoded.
ReceiveTask ==
  /\ Goes("sent", "received")
  /\ Takes("srv2cli")
  /\ message' = [message EXCEPT !.ts_rec = cli_ts]
  /\ UNCHANGED <<task, buff, ts_srv_snd, record, machine>>

\* client.cpp clears its buffer here, and copies the product into the message
\* before it reads the clock.
WorkGrpc ==
  /\ transport = "grpc"
  /\ buff' = multiply(task, NoValues)

\* WorkerComponent.cpp relies on the buffer having been cleared.
WorkAreg ==
  /\ transport = "areg"
  /\ buff' = multiply(task, buff)

Work ==
  /\ Goes("received", "worked")
  /\ Takes("work")
  /\ WorkGrpc \/ WorkAreg
  /\ message' = [message EXCEPT !.ts_tsk = cli_ts]
  /\ UNCHANGED <<task, ts_srv_snd, record, machine>>

\* /proc is read into the message; time_sent is the clock when that is read.
ReadProc(time_sent) ==
  /\ machine' \in [meminfo : Meminfos, stat : Stats]
  /\ message' =
       [message EXCEPT !.ts_snd = time_sent,
                       !.ram_used_kb = get_ram_used_kb(machine'.meminfo),
                       !.cpu_usage_percent = get_cpu_usage_percent(machine'.stat)]

\* Mutant of FillGrpc: the clock is read after /proc.
FillGrpcLate ==
  /\ transport = "grpc"
  /\ ReadProc(cli_ts)

\* client.cpp reads the clock, then /proc; WorkerComponent.cpp the other way.
FillGrpc ==
  /\ transport = "grpc"
  /\ ReadProc(now + offset)

FillAreg ==
  /\ transport = "areg"
  /\ ReadProc(cli_ts)

Fill ==
  /\ Goes("worked", "filled")
  /\ Takes("proc")
  /\ FillGrpc \/ FillAreg
  /\ UNCHANGED <<task, buff, ts_srv_snd, record>>

\* Mutant of Submit: the buffer is never cleared.
SubmitUncleared ==
  /\ Goes("filled", "submitted")
  /\ message' = [message EXCEPT !.result = buff]
  /\ UNCHANGED <<now, task, buff, ts_srv_snd, record, machine, spent>>

\* The result is sent; then WorkerComponent.cpp clears its buffer.
Submit ==
  /\ Goes("filled", "submitted")
  /\ message' = [message EXCEPT !.result = buff]
  /\ buff' = IF transport = "areg" THEN NoValues ELSE buff
  /\ UNCHANGED <<now, task, ts_srv_snd, record, machine, spent>>

\* Dimensions and rows are the affair of GrpcServer and AregMaster.
TaskRecord(srv_rec) ==
  [ts_srv_snd |-> ts_srv_snd, ts_srv_rec |-> srv_rec,
   ts_cli_rec |-> message.ts_rec, ts_cli_tsk |-> message.ts_tsk,
   ts_cli_snd |-> message.ts_snd,
   ram_used_kb |-> message.ram_used_kb,
   cpu_usage_percent |-> message.cpu_usage_percent]

\* The AREG master reads the clock when MasterThread comes to the submission.
ReceiveResult ==
  /\ Goes("submitted", "recorded")
  /\ Takes("cli2srv")
  /\ record' = TaskRecord(srv_ts)
  /\ UNCHANGED <<task, buff, message, ts_srv_snd, machine>>

\* The positions of the readings in a list are compared, not the readings.
Validate(r) ==
  LET v == <<r.ts_srv_snd, r.ts_cli_rec, r.ts_cli_tsk, r.ts_cli_snd, r.ts_srv_rec>>
  IN  \A i \in 2 .. Len(v) : i - 1 <= i

\* The row is written.  Then the worker is sent another task, at any later time.
RecordCsv ==
  /\ Goes("recorded", "idle")
  /\ Validate(record)
  /\ now' = Start
  /\ message' = Blank /\ record' = Nothing /\ machine' = Nothing
  /\ spent' = [a \in Activities |-> 0]
  /\ UNCHANGED <<task, buff, ts_srv_snd>>

Next ==
  \/ \E t \in Tasks : SendTask(t)
  \/ ReceiveTask \/ Work \/ Fill \/ Submit \/ ReceiveResult \/ RecordCsv

Spec == Init /\ [][Next]_vars

-----------------------------------------------------------------------------
\* The metrics of analyze.py.
ttl(r)         == r.ts_srv_rec - r.ts_srv_snd
cli_ser(r)     == r.ts_cli_tsk - r.ts_cli_rec
cli_compute(r) == r.ts_cli_snd - r.ts_cli_tsk
net_srv2cli(r) == r.ts_cli_rec - r.ts_srv_snd
net_cli2srv(r) == r.ts_srv_rec - r.ts_cli_snd

RowOfTask == pc = "recorded" /\ task # Sentinel

(***************************************************************************)
(* Whatever was computed before in the same buffer, a sentinel included,   *)
(* the result that is sent is the product of the matrices of this task:    *)
(* multiply (utils.hpp:122) adds to what it finds, and the two workers     *)
(* clear the buffer at different ends of their loops.                      *)
(***************************************************************************)
ResultIsProduct ==
  pc \in {"submitted", "recorded"} => message.result = Product(task)

(***************************************************************************)
(* What each metric of the analysis contains, whatever its label says, for *)
(* either transport and any difference between the two machines' clocks    *)
(* (utils.hpp:137): the round trip and the two of the worker are free of   *)
(* that difference, the two of the network have it once each, with         *)
(* opposite signs; the product is in cli_ser, and the time spent in /proc  *)
(* counts as the worker's for AREG and as the network's for gRPC.          *)
(***************************************************************************)
MetricsMeasure ==
  RowOfTask =>
    LET proc(t) == IF transport = t THEN spent.proc ELSE 0
    IN  /\ ttl(record) = spent.srv2cli + spent.work + spent.proc + spent.cli2srv
        /\ cli_ser(record) = spent.work
        /\ cli_compute(record) = proc("areg")
        /\ net_srv2cli(record) = spent.srv2cli + offset
        /\ net_cli2srv(record) = spent.cli2srv + proc("grpc") - offset

(***************************************************************************)
(* "Client compute time" (analyze.py:45) is the time in which the worker   *)
(* computes the product.  Two readings and a subtraction of the analysis   *)
(* have to agree on it in three programs (client.cpp:74-91,                *)
(* WorkerComponent.cpp:48-61, analyze.py:34-35).                           *)
(***************************************************************************)
ClientComputeTime == RowOfTask => cli_compute(record) = spent.work

(***************************************************************************)
(* The load in the row is the machine's: memory in use is the total less   *)
(* what is available wherever their lines stand in /proc/meminfo, and the  *)
(* percentage is the counters' other than idle and iowait of those that    *)
(* the kernel has, 0 for an empty /proc/stat (utils.hpp:147-201).          *)
(***************************************************************************)
MetricsOfMachine ==
  pc = "recorded" =>
    LET kb(key) == MapThenSumSet(LAMBDA line : IF line.key = key THEN line.value ELSE 0,
                                 ToSet(machine.meminfo))
        jiffies(counters) == MapThenSumSet(LAMBDA i : machine.stat[i],
                                           counters \cap DOMAIN machine.stat)
        busy == 100 * jiffies({1, 2, 3, 6, 7, 8})
        cpu == record.cpu_usage_percent
    IN  /\ record.ram_used_kb = kb("MemTotal") - kb("MemAvailable")
        /\ cpu * jiffies(1 .. 8) <= busy
        /\ IF jiffies(1 .. 8) = 0 THEN cpu = 0 ELSE busy < (cpu + 1) * jiffies(1 .. 8)
=============================================================================
