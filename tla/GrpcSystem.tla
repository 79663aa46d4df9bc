------------------------------ MODULE GrpcSystem ------------------------------
(***************************************************************************)
(* The gRPC transport: the master and its workers over their streams, with *)
(* workers that may crash, lose their connection or stop answering.        *)
(***************************************************************************)
EXTENDS GrpcServer, GrpcClient, FiniteSets

CONSTANTS
  Unreliable,                 \* workers that may crash or be cut off
  Responsive                  \* workers that do not hang

ASSUME WorkersAssumption ==
  /\ IsFiniteSet(Workers)
  /\ Unreliable \subseteq Workers
  /\ Responsive \subseteq Workers

vars == <<dispatcherVars, streamVars, serviceVars, mainVars, clientVars>>

Init == ServerInit /\ StreamInit /\ ClientInit

-----------------------------------------------------------------------------
\* Steps that are neither the server's nor the client's alone.

\* The runner starts the clients once the server's port answers.
Launch(w) ==
  /\ listening
  /\ ClientGoes(w, "off", "start")
  /\ UNCHANGED <<dispatcherVars, streamVars, serviceVars, mainVars,
                 ctask, worker_id>>

RegisterWorker(w) ==
  /\ listening
  /\ ClientGoes(w, "start", "registered")
  /\ worker_id' = [worker_id EXCEPT ![w] = next_worker_id_]
  /\ next_worker_id_' = next_worker_id_ + 1
  /\ UNCHANGED <<dispatcherVars, streamVars, mainVars, ts_snd_rec, failed,
                 hpc, htask, hresult, ctask>>

\* The call fails; a lost reply still used up an id.  The process returns 1.
RegisterFails(w) ==
  /\ ClientGoes(w, "start", "failed")
  /\ \/ /\ ~listening
        /\ UNCHANGED next_worker_id_
     \/ /\ w \in Unreliable
        /\ next_worker_id_' \in {next_worker_id_, next_worker_id_ + 1}
  /\ UNCHANGED <<dispatcherVars, streamVars, mainVars, ts_snd_rec, failed,
                 hpc, htask, hresult, ctask, worker_id>>

\* stub->AssignTasks(): a server that is no longer listening refuses it.
OpenStream(w) ==
  /\ ClientGoes(w, "registered", "ready")
  /\ link' = [link EXCEPT ![w] = IF listening THEN "open" ELSE "broken"]
  /\ UNCHANGED <<dispatcherVars, serviceVars, mainVars, c2s, s2c,
                 ctask, worker_id>>

Crash(w) ==
  /\ w \in Unreliable
  /\ cpc[w] \notin ClientEnded \cup {"off"}
  /\ cpc' = [cpc EXCEPT ![w] = "crashed"]
  /\ link' = Broken(w)
  /\ UNCHANGED <<dispatcherVars, serviceVars, mainVars, c2s, s2c,
                 ctask, worker_id>>

CutOff(w) ==
  /\ w \in Unreliable
  /\ link[w] = "open"
  /\ link' = Broken(w)
  /\ UNCHANGED <<dispatcherVars, serviceVars, mainVars, c2s, s2c, clientVars>>

ServerStep == Main /\ UNCHANGED clientVars

HandlerStep(w) == Handler(w) /\ UNCHANGED clientVars

ClientStep(w) ==
  \/ Client(w) /\ UNCHANGED <<dispatcherVars, serviceVars, mainVars>>
  \/ RegisterWorker(w) \/ RegisterFails(w) \/ OpenStream(w)

\* The benchmark run is over and nothing moves.
Finished ==
  /\ Ended
  /\ \A w \in Workers : cpc[w] \in ClientEnded \cup {"off"}
  /\ UNCHANGED vars

Next ==
  \/ ServerStep
  \/ \E w \in Workers : HandlerStep(w)
  \/ \E w \in Workers : ClientStep(w)
  \/ \E w \in Workers : Launch(w) \/ Crash(w) \/ CutOff(w)
  \/ Finished

Spec == Init /\ [][Next]_vars

\* The threads of the server run; the runner launches every client; a
\* responsive client runs.  Crashes and cut-offs are never owed.
Fairness ==
  /\ WF_vars(ServerStep)
  /\ \A w \in Workers : WF_vars(HandlerStep(w)) /\ WF_vars(Launch(w))
  /\ \A w \in Responsive : WF_vars(ClientStep(w))

FairSpec == Spec /\ Fairness

-----------------------------------------------------------------------------
\* Properties

TypeOK == ServerTypeOK /\ StreamTypeOK /\ ClientTypeOK

\* The workers whose handler owns a task not yet counted.
Owners == {w \in Workers : hpc[w] \in Holding}

\* The positions of the queue that some handler has claimed.
Claimed == {t \in Task : t < queueSize /\ t < enqueued_}

\* dequeue() hands every task to one handler only (the relaxed fetch_add at
\* server.cpp:46), and what a client computes is the task its own handler
\* claimed, even after that handler has given up on the stream: no task is
\* ever in two places.
OneWorkerPerTask ==
  /\ \A v, w \in Workers : v # w /\ htask[v] = htask[w] => htask[w] = Blank
  /\ \A w \in Workers : cpc[w] = "work" => ctask[w] = htask[w]
  /\ \A w \in Workers : \A i \in 1 .. Len(s2c[w]) : s2c[w][i] = htask[w]

\* A row holds the timings of its own task although AssignTasks never
\* compares the id in the result with the id it sent (server.cpp:134-150): the
\* strict write-read alternation of both programs must keep them in step.
RowsMatchTask ==
  \A t \in DOMAIN ts_snd_rec : ts_snd_rec[t] \in {Blank, t}

\* The two programs of a stream alternate: at most one message or one product
\* is under way, it is of the task that the handler claimed last, and there is
\* none while the handler is not waiting for it.  After a break, the handler and
\* the client may each be left anywhere in the exchange, but nothing new enters
\* the stream.  Nothing in the messages enforces this (client.cpp:54-103,
\* server.cpp:111-153).
BeforeReady == {"off", "start", "registered", "ready"}

Exchange(w) ==
  /\ s2c[w] \in {<<>>, <<htask[w]>>}
  /\ c2s[w] \in {<<>>, <<Ready>>, <<htask[w]>>}
  /\ cpc[w] = "work" => ctask[w] = htask[w] /\ s2c[w] = <<>> /\ c2s[w] = <<>>
  /\ s2c[w] # <<>> => c2s[w] = <<>>

InStep(w) ==
  /\ Exchange(w)
  /\ cpc[w] \in BeforeReady =>
       /\ s2c[w] = <<>> /\ c2s[w] = <<>>
       /\ hpc[w] \in {"none", "init", "done"}
       /\ cpc[w] # "ready" => link[w] = "none"
  /\ hpc[w] # "none" => link[w] # "none"
  /\ hpc[w] \in {"none", "init"} =>
       /\ s2c[w] = <<>> /\ c2s[w] \in {<<>>, <<Ready>>}
       /\ cpc[w] # "work" /\ htask[w] = Blank
  /\ hpc[w] \in {"dequeue", "write", "store", "count"} =>
       s2c[w] = <<>> /\ c2s[w] = <<>> /\ cpc[w] # "work"
  /\ hpc[w] = "read" => c2s[w] # <<Ready>>
  /\ hpc[w] \in {"fail", "giveup", "done"} => link[w] # "open"
  /\ hpc[w] = "store" => hresult[w] = htask[w]

ProgramsInStep == \A w \in Workers : InStep(w)

\* record_csv walks the table with no lock (server.cpp:258).  By then no
\* handler may be between claiming a task and counting it, for it would write
\* the table under main's feet.
NoWriterWhileReporting ==
  mpc \in {"csv", "shutdown", "stop", "join", "exited"} => Owners = {}

\* Conservation: while the server lives, every task claimed from the queue is
\* either counted or owned by exactly one handler, so the counter that main
\* polls cannot reach the size of the queue while a handler is still at work;
\* and main writes the CSV only after it did.
TasksClaimed == IF enqueued_ < queueSize THEN enqueued_ ELSE queueSize

CountInv ==
  /\ mpc \in {"load", "bind"} =>
       /\ enqueued_ = 0 /\ completed_ = 0
       /\ \A w \in Workers : hpc[w] = "none"
  /\ mpc = "load" => queueSize = 0
  /\ mpc # "failed" => completed_ + Cardinality(Owners) = TasksClaimed
  /\ mpc \in {"csv", "shutdown", "stop", "join", "exited"} => completed_ >= queueSize
  /\ shutdown_ => mpc \in {"stop", "join", "exited"}

\* No timing arrives after the CSV was written, and every row the CSV holds is
\* complete: what was reported is all the server will ever know.  The relaxed
\* counters (server.cpp:55, 60) promise it only where RowsFirst holds.
ReportIsFinal == CsvWritten => csv = ts_snd_rec

\* The rows missing from the CSV are exactly the failures the service counted
\* (server.cpp:129, 139): no task disappears without a trace, none is counted
\* both ways.
ReportAccountsForEveryTask ==
  CsvWritten => Cardinality({t \in DOMAIN csv : csv[t] = Blank}) = failed

\* The abstract state of a task, read off the counters, the table and the
\* handlers.
TaskState(t) ==
  IF t \notin Claimed THEN "queued"
  ELSE IF ts_snd_rec[t] # Blank THEN "recorded"
  ELSE IF \E w \in Workers : htask[w] = t /\ hpc[w] \in {"write", "read", "store"}
    THEN "assigned"
  ELSE "lost"

\* The gRPC master keeps the promise of TaskDistribution: queue positions are
\* assignments, rows are recordings, a broken stream loses its task, and the
\* CSV is published once, complete.
Abstract == INSTANCE TaskDistribution WITH
  state <- [t \in Task |-> TaskState(t)],
  published <- CsvWritten,
  report <- {t \in DOMAIN csv : csv[t] # Blank}

ImplementsTaskDistribution == Abstract!Spec

\* "One CSV per run" (README.md:59-61): a server that serves writes its CSV,
\* unless it cannot open the file.  Every task that is too large for a message
\* ends the stream, and the process, of the worker it was sent to.
RunYieldsCsv == mpc = "wait" ~> CsvWritten \/ mpc = "failed"

\* Every launched client that does not hang leaves in the end, whatever happened
\* to its stream, even when another worker keeps the server from ending.
WorkersDismissed ==
  \A w \in Responsive : cpc[w] = "start" ~> cpc[w] \in ClientEnded

\* Tasks are left and nobody will ask for them: every client has ended or hangs.
Abandoned ==
  /\ mpc = "wait" /\ enqueued_ < queueSize
  /\ Owners = {}
  /\ \A w \in Responsive : cpc[w] \in ClientEnded

\* The server ends, except that it waits for ever in two cases, for no call and no
\* poll has a deadline: for a client that hangs without its connection breaking
\* (server.cpp:113, 135), or for anybody to take the tasks that are left when all
\* clients have failed (server.cpp:68).
OnlyHungOrLostWorkersBlock ==
  \/ <>Ended
  \/ \E w \in Workers \ Responsive : <>[](hpc[w] \in {"init", "read"})
  \/ <>[]Abandoned

\* "[server] all %zu tasks completed" (server.cpp:254), printed before the
\* CSV is written: every task would have a row of timings.
AllTasksCompleted ==
  CsvWritten => \A t \in DOMAIN csv : csv[t] # Blank
=============================================================================
