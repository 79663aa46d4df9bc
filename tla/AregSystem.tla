------------------------------ MODULE AregSystem ------------------------------
(***************************************************************************)
(* The AREG transport: the master, the worker components and the processes *)
(* that host them, some of which may crash or hang.                        *)
(***************************************************************************)
EXTENDS AregMaster, AregWorker, FiniteSets

CONSTANTS
  Processes,                  \* the client processes: sets of worker components
  Unreliable,                 \* the processes that may crash or be cut off
  Responsive                  \* the processes that do not hang

ASSUME ProcessesAssumption ==
  /\ IsFiniteSet(Workers)
  /\ UNION Processes = Workers
  /\ \A p, q \in Processes : p # q => p \cap q = {}
  /\ Unreliable \subseteq Processes
  /\ Responsive \subseteq Processes

vars == <<channelVars, masterVars, workerVars>>

Init == ChannelInit /\ MasterInit /\ WorkerInit

-----------------------------------------------------------------------------
Running == {"started", "connected", "disconnected"}

\* The clients are started once the port of the router answers, which says
\* nothing of the master: it may not have loaded its tasks yet, or be gone.
Launch(p) == (areg_client(p) \/ areg_client_many(p)) /\ UNCHANGED masterVars

\* A worker is told when the master's service is there ...
Connect(w) ==
  /\ serving
  /\ service_connected(w)
  /\ UNCHANGED masterVars

\* ... and when it is not any more.  The other components of its process may go
\* on with what they were sent until the process has unloaded them.
Disconnect(w) ==
  /\ MasterEnded
  /\ service_disconnected(w)
  /\ UNCHANGED masterVars

Quit(p) == UnloadWorkers(p) /\ UNCHANGED masterVars

\* The runner stops the clients that are left when the server has ended.
Stop(p) ==
  /\ MasterEnded
  /\ \A w \in p : wpc[w] \in Running
  /\ ProcessGoes(p, "quit")
  /\ UNCHANGED <<channelVars, masterVars, mWorkerId>>

\* The fault of an unreliable process; what its components had sent may still
\* arrive, or not.  Once the master has ended, nothing depends on faults.
Fails(p) ==
  /\ p \in Unreliable /\ ~MasterEnded
  /\ \E lost \in SUBSET p :
       requests' = [w \in Workers |-> IF w \in lost THEN <<>> ELSE requests[w]]

Crash(p) ==
  /\ Fails(p)
  /\ \A w \in p : wpc[w] \in Running
  /\ ProcessGoes(p, "crashed")
  /\ UNCHANGED <<replies, masterVars, mWorkerId>>

\* The connection to the router is lost: for the components that is a master
\* that is gone, and they will make their process quit.
CutOff(p) ==
  /\ Fails(p)
  /\ \E w \in p : wpc[w] = "connected"
  /\ wpc' = [w \in Workers |->
               IF w \in p /\ wpc[w] = "connected" THEN "disconnected" ELSE wpc[w]]
  /\ UNCHANGED <<replies, masterVars, mWorkerId>>

MasterStep == Master /\ UNCHANGED workerVars
WorkerStep(w) ==
  Connect(w) \/ Disconnect(w) \/ (Reacts(w) /\ UNCHANGED masterVars)
ProcessStep(p) == Launch(p) \/ Quit(p) \/ Stop(p)

Finished ==
  /\ MasterEnded
  /\ \A w \in Workers : wpc[w] \in {"quit", "crashed"}
  /\ UNCHANGED vars

\* Nobody asks for a task: the master waits, for ever if nobody is left.
WaitQuit ==
  /\ mpc = "serving"
  /\ \A w \in Workers : requests[w] = <<>>
  /\ UNCHANGED vars

Next ==
  \/ MasterStep
  \/ \E w \in Workers : WorkerStep(w)
  \/ \E p \in Processes : ProcessStep(p) \/ Crash(p) \/ CutOff(p)
  \/ Finished \/ WaitQuit

Spec == Init /\ [][Next]_vars

\* The master's threads run, the runner launches every client, and so do the
\* workers of the processes that do not hang.
Fairness ==
  /\ WF_vars(MasterStep)
  /\ \A p \in Processes : WF_vars(ProcessStep(p))
  /\ \A p \in Responsive : \A w \in p : WF_vars(WorkerStep(w))

FairSpec == Spec /\ Fairness

-----------------------------------------------------------------------------
\* Properties

TypeOK == ChannelTypeOK /\ MasterTypeOK /\ WorkerTypeOK

\* The answers under way: a task or sentinel sent to a worker whose submission
\* has not been handled.
AssignedTo(w) ==
  {i \in 1 .. Len(replies[w]) : replies[w][i].op = "AssignTaskReply"}
SubmittedBy(w) ==
  {i \in 1 .. Len(requests[w]) : requests[w][i].op = "SubmitTask"}
UnderWay(w) == Cardinality(AssignedTo(w)) + Cardinality(SubmittedBy(w))
Busy == {w \in Workers : UnderWay(w) > 0}
Left == {w \in Workers : wpc[w] \in {"disconnected", "quit", "crashed"}}

\* Conservation: every answer of make_response is submitted at most once, one
\* at a time per worker, and none disappears unless its worker does; mCompleted
\* is then right about the answers (MasterComponent.cpp:51, 96), if not about
\* the tasks.
AnswersConserved ==
  /\ \A w \in Workers : UnderWay(w) <= 1
  /\ mNextTask - mCompleted - Cardinality(Busy) \in 0 .. Cardinality(Left)

\* Task t is with worker w, which computes it or has submitted it.
Holds(w, t) ==
  \/ \E i \in AssignedTo(w) : replies[w][i].real /\ replies[w][i].task_id = t
  \/ \E i \in SubmittedBy(w) : requests[w][i].real /\ requests[w][i].task_id = t

\* No task of the file is computed twice, however registrations, submissions
\* and sentinels interleave: it has one holder, and none once it was timed.
OneWorkerPerTask ==
  \A t \in Task :
    /\ \A v, w \in Workers : Holds(v, t) /\ Holds(w, t) => v = w
    /\ t \in DOMAIN mRes /\ mRes[t] = "timed" => \A w \in Workers : ~Holds(w, t)

\* The abstract state of a task.
TaskState(t) ==
  IF t >= mQueue \/ t >= mNextTask THEN "queued"
  ELSE IF mRes[t] = "timed" THEN "recorded"
  ELSE IF \E w \in Workers : Holds(w, t) /\ (w \notin Left \/ SubmittedBy(w) # {})
    THEN "assigned"
  ELSE "lost"

Abstract == INSTANCE EarlyDistribution WITH
  state <- [t \in Task |-> TaskState(t)],
  published <- mQueue > 0 /\ csv # NoCsv,
  report <- IF csv = NoCsv THEN {} ELSE {t \in DOMAIN csv : csv[t] = "timed"},
  Slack <- Cardinality(Workers)

\* The AREG master keeps the weaker promise: it reports only after the last
\* task was handed out, and the rows missing from any CSV it writes are at most
\* one per worker, although sentinels are counted as completions
\* (MasterComponent.cpp:69, 96, 113) and overwrite the row of task 0 (:111).
ImplementsEarlyDistribution == Abstract!EarlySpec

\* The master ends, or every process crashes, hangs or loses its connection:
\* sentinel answers stand in for the tasks that the others took with them.
MasterTerminates ==
  <>MasterEnded \/ \A p \in Responsive : <>(p \subseteq Left)

\* "One CSV per run ... with per-task timing" (README.md:59-61): without
\* crashes, every task of the file would be timed when the CSV is written.
AllTasksTimed == csv # NoCsv => \A t \in DOMAIN csv : csv[t] = "timed"

\* "Filter sentinel rows used by AREG as keep-alive pings" (analyze.py:81): the
\* rows with dimensions, those the analysis keeps, would be timings of tasks.
KeptRowsAreTasks ==
  csv # NoCsv => \A t \in DOMAIN csv : HasDimensions(csv[t]) => csv[t] = "timed"
=============================================================================
