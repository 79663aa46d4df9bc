------------------------------ MODULE GrpcServer ------------------------------
(***************************************************************************)
(* The gRPC master (grpc-src/server.cpp): the service, whose AssignTasks   *)
(* handler runs in a thread of its own for every open stream, and main,    *)
(* which loads the tasks, serves, polls the dispatcher, writes the CSV and *)
(* shuts down.  The threads share the dispatcher, the table ts_snd_rec     *)
(* and the counters, and nothing is locked: every action below is one      *)
(* atomic access, one access to the table, or one blocking call on the     *)
(* stream.                                                                 *)
(*                                                                         *)
(* A row of the table is reduced to the task its timings were measured     *)
(* for; Blank is the row the vector's constructor made.                    *)
(***************************************************************************)
EXTENDS Dispatcher, GrpcStream

CONSTANT RowsFirst            \* does a row become visible before it is counted?

ASSUME RowsFirstAssumption == RowsFirst \in BOOLEAN

VARIABLES
  next_worker_id_,
  ts_snd_rec,                 \* [position -> task whose timings it holds, or Blank]
  failed,
  hpc,                        \* where each worker's handler is
  htask,                      \* its local: task
  hresult,                    \* its local: result
  mpc,                        \* where main is
  csv                         \* the rows written to the CSV

serviceVars == <<next_worker_id_, ts_snd_rec, failed, hpc, htask, hresult>>
mainVars == <<mpc, csv>>

Blank == -1

HandlerStates ==
  {"none", "init", "dequeue", "write", "read", "store", "count",
   "fail", "giveup", "done"}
MainStates ==
  {"load", "bind", "wait", "csv", "shutdown", "stop", "join", "exited", "failed"}

\* A handler in one of these states owns a task that completed_ does not count.
Holding == {"write", "read", "store", "count", "fail", "giveup"}

\* New calls are accepted from BuildAndStart until server->Shutdown().
listening == mpc \in {"wait", "csv", "shutdown", "stop"}
Ended == mpc \in {"exited", "failed"}
CsvWritten == queueSize > 0 /\ mpc \in {"shutdown", "stop", "join", "exited"}

ServerTypeOK ==
  /\ DispatcherTypeOK
  /\ next_worker_id_ \in Nat
  /\ ts_snd_rec \in [0 .. (queueSize - 1) -> Int]
  /\ failed \in Nat
  /\ hpc \in [Workers -> HandlerStates]
  /\ htask \in [Workers -> Task \cup {Blank}]
  /\ hresult \in [Workers -> Int]
  /\ mpc \in MainStates
  /\ csv \in [DOMAIN csv -> Int]

ServerInit ==
  /\ DispatcherInit
  /\ next_worker_id_ = 1
  /\ ts_snd_rec = [p \in 0 .. (queueSize - 1) |-> Blank]
  /\ failed = 0
  /\ hpc = [w \in Workers |-> "none"]
  /\ htask = [w \in Workers |-> Blank]
  /\ hresult = [w \in Workers |-> Blank]
  /\ mpc = "load"
  /\ csv = [p \in 0 .. (queueSize - 1) |-> Blank]

-----------------------------------------------------------------------------
\* The AssignTasks handler of worker w's stream.

HandlerGoes(w, from, to) ==
  /\ hpc[w] = from
  /\ hpc' = [hpc EXCEPT ![w] = to]
  /\ UNCHANGED <<mainVars, next_worker_id_>>

\* A step that changes nothing but where the handler is.
HandlerMoves(w, from, to) ==
  /\ HandlerGoes(w, from, to)
  /\ UNCHANGED <<dispatcherVars, streamVars, ts_snd_rec, failed, htask, hresult>>

CallArrived(w) == listening /\ link[w] \in {"open", "broken"}

\* Mutant of StartHandler: the worker's first message is not read.
StartHandlerWithoutInit(w) == CallArrived(w) /\ HandlerMoves(w, "none", "dequeue")

\* gRPC starts the handler when the call arrives.
StartHandler(w) == CallArrived(w) /\ HandlerMoves(w, "none", "init")

ReadInit(w) ==
  /\ HandlerGoes(w, "init", "dequeue")
  /\ c2s[w] # <<>>
  /\ c2s' = Taken(c2s, w)
  /\ UNCHANGED <<dispatcherVars, link, s2c, ts_snd_rec, failed, htask, hresult>>

ReadInitFails(w) == ServerMayFail(w) /\ HandlerMoves(w, "init", "done")

DequeueTask(w) ==
  /\ HandlerGoes(w, "dequeue", "write")
  /\ Dequeue
  /\ htask' = [htask EXCEPT ![w] = enqueued_]
  /\ UNCHANGED <<streamVars, ts_snd_rec, failed, hresult>>

\* No more tasks: the handler returns and the stream ends.
DequeueEmpty(w) ==
  /\ HandlerGoes(w, "dequeue", "done")
  /\ DequeueNothing
  /\ link' = Closed(w)
  /\ UNCHANGED <<c2s, s2c, ts_snd_rec, failed, htask, hresult>>

WriteTask(w) ==
  /\ HandlerGoes(w, "write", "read")
  /\ s2c' = Written(s2c, w, htask[w])
  /\ UNCHANGED <<dispatcherVars, link, c2s, ts_snd_rec, failed, htask, hresult>>

ReadResult(w) ==
  /\ HandlerGoes(w, "read", "store")
  /\ c2s[w] # <<>> /\ ~ReadTooLarge(c2s, w)
  /\ hresult' = [hresult EXCEPT ![w] = Head(c2s[w])]
  /\ c2s' = Taken(c2s, w)
  /\ UNCHANGED <<dispatcherVars, link, s2c, ts_snd_rec, failed, htask>>

ReadResultTooLarge(w) ==
  /\ HandlerGoes(w, "read", "fail")
  /\ ReadTooLarge(c2s, w)
  /\ c2s' = Taken(c2s, w)
  /\ link' = Broken(w)
  /\ UNCHANGED <<dispatcherVars, s2c, ts_snd_rec, failed, htask, hresult>>

\* Mutant of CallFails: the failure is not counted in failed.
CallFailsSilently(w) ==
  /\ ServerMayFail(w)
  /\ HandlerMoves(w, "write", "giveup") \/ HandlerMoves(w, "read", "giveup")

\* Write or Read returned false: the task is given up, not requeued.
CallFails(w) ==
  /\ ServerMayFail(w)
  /\ HandlerMoves(w, "write", "fail") \/ HandlerMoves(w, "read", "fail")

\* Mutant of CountFailure: on_task_completed is forgotten on the error path.
CountFailureAndReturn(w) ==
  /\ HandlerGoes(w, "fail", "done")
  /\ failed' = failed + 1
  /\ UNCHANGED <<dispatcherVars, streamVars, ts_snd_rec, htask, hresult>>

CountFailure(w) ==
  /\ HandlerGoes(w, "fail", "giveup")
  /\ failed' = failed + 1
  /\ UNCHANGED <<dispatcherVars, streamVars, ts_snd_rec, htask, hresult>>

\* Mutants of GiveUp: the task is put back by moving the cursor back; the task
\* is not counted.
GiveUpRequeued(w) ==
  /\ HandlerGoes(w, "giveup", "done")
  /\ enqueued_' = enqueued_ - 1
  /\ UNCHANGED <<queueSize, completed_, shutdown_, streamVars, ts_snd_rec, failed,
                 htask, hresult>>

GiveUpUncounted(w) == HandlerMoves(w, "giveup", "done")

\* The given-up task is counted as completed and the handler returns.
GiveUp(w) ==
  /\ HandlerGoes(w, "giveup", "done")
  /\ OnTaskCompleted
  /\ UNCHANGED <<streamVars, ts_snd_rec, failed, htask, hresult>>

\* The row is chosen by the task sent; the id in the result is not looked at.
RecordTimings(w) ==
  /\ HandlerGoes(w, "store", "count")
  /\ ts_snd_rec' = [ts_snd_rec EXCEPT ![htask[w]] = hresult[w]]
  /\ UNCHANGED <<dispatcherVars, streamVars, failed, htask, hresult>>

CountCompleted(w) ==
  /\ HandlerGoes(w, "count", "dequeue")
  /\ OnTaskCompleted
  /\ UNCHANGED <<streamVars, ts_snd_rec, failed, htask, hresult>>

Handler(w) ==
  \/ StartHandler(w)
  \/ ReadInit(w) \/ ReadInitFails(w)
  \/ DequeueTask(w) \/ DequeueEmpty(w)
  \/ WriteTask(w)
  \/ ReadResult(w) \/ ReadResultTooLarge(w) \/ CallFails(w)
  \/ CountFailure(w) \/ GiveUp(w)
  \/ RecordTimings(w) \/ CountCompleted(w)

-----------------------------------------------------------------------------
\* main

MainGoes(from, to) ==
  /\ mpc = from
  /\ mpc' = to
  /\ UNCHANGED <<c2s, s2c, next_worker_id_, failed, hpc, htask, hresult>>

\* A step that changes nothing but where main is.
MainMoves(from, to) ==
  /\ MainGoes(from, to)
  /\ UNCHANGED <<dispatcherVars, link, ts_snd_rec, csv>>

\* The process is gone: its handlers with it, and every stream breaks.
ProcessDies ==
  /\ mpc' = "failed"
  /\ hpc' = [w \in Workers |-> IF hpc[w] = "none" THEN "none" ELSE "done"]
  /\ link' = [w \in Workers |-> IF link[w] = "open" THEN "broken" ELSE link[w]]
  /\ UNCHANGED <<dispatcherVars, c2s, s2c, csv,
                 next_worker_id_, ts_snd_rec, failed, htask, hresult>>

\* Load, enqueue, then construct the service, which sizes the table.
LoadTasks ==
  /\ MainGoes("load", "bind")
  /\ EnqueueAll
  /\ ts_snd_rec' = [p \in 0 .. (queueSize' - 1) |-> Blank]
  /\ UNCHANGED <<link, csv>>

\* The file holds no task: main returns before there is a service.
NothingToDistribute == MainMoves("load", "exited")

\* read_tasks throws, the port is taken, or record_csv cannot open the file.
LoadThrows == mpc = "load" /\ ProcessDies
BindFails == mpc = "bind" /\ ProcessDies
RecordCsvThrows == mpc = "csv" /\ ProcessDies

BuildAndStart == MainMoves("bind", "wait")

\* Mutant of PollDone: main does not wait.
PollNothing == MainMoves("wait", "csv")

\* wait_until_done polls done() every 10 ms.
PollNotDone == ~Done /\ MainMoves("wait", "wait")
PollDone == Done /\ MainMoves("wait", "csv")

\* The rows and completed_ are written and read with no ordering between the
\* threads (memory_order_relaxed), so main, which saw the count, may still see
\* an old row unless the machine keeps stores in order (RowsFirst: x86, where
\* the fetch-and-add is a barrier; not ARM, and not what C++ promises).
RecordCsv ==
  /\ MainGoes("csv", "shutdown")
  /\ \E seen \in SUBSET DOMAIN ts_snd_rec :
       /\ RowsFirst => seen = DOMAIN ts_snd_rec
       /\ csv' = [p \in DOMAIN ts_snd_rec |->
                    IF p \in seen THEN ts_snd_rec[p] ELSE Blank]
  /\ UNCHANGED <<dispatcherVars, link, ts_snd_rec>>

ShutdownDispatcher ==
  /\ MainGoes("shutdown", "stop")
  /\ Shutdown
  /\ UNCHANGED <<link, ts_snd_rec, csv>>

\* Mutant of StopServer: calls whose handler has not started stay open.
StopServerKeepsCalls == MainMoves("stop", "join")

\* server->Shutdown(): calls whose handler has not started are refused.
StopServer ==
  /\ MainGoes("stop", "join")
  /\ link' = [w \in Workers |->
                IF link[w] = "open" /\ hpc[w] = "none" THEN "broken" ELSE link[w]]
  /\ UNCHANGED <<dispatcherVars, ts_snd_rec, csv>>

\* Neither Shutdown() nor Wait() has a deadline: running handlers are awaited.
WaitHandlers ==
  /\ MainMoves("join", "exited")
  /\ \A w \in Workers : hpc[w] \in {"none", "done"}

Main ==
  \/ LoadTasks \/ NothingToDistribute \/ LoadThrows
  \/ BuildAndStart \/ BindFails
  \/ PollNotDone \/ PollDone
  \/ RecordCsv \/ RecordCsvThrows
  \/ ShutdownDispatcher \/ StopServer \/ WaitHandlers
=============================================================================
