------------------------------ MODULE AregWorker ------------------------------
(***************************************************************************)
(* The AREG worker, WorkerComponent, and the processes that host it: one   *)
(* component in areg_client, sixty in areg_client_many, each with a thread *)
(* of its own.  A component has no loop, each callback ends by sending the *)
(* next request; a process waits until one of its components signals the   *)
(* end, and unloads them all.                                              *)
(***************************************************************************)
EXTENDS AregChannel, FiniteSets

VARIABLES
  wpc,                        \* where the component is in its life
  mWorkerId

workerVars == <<wpc, mWorkerId>>

WorkerStates == {"off", "started", "connected", "disconnected", "quit", "crashed"}

WorkerTypeOK ==
  /\ wpc \in [Workers -> WorkerStates]
  /\ mWorkerId \in [Workers -> Nat]

WorkerInit ==
  /\ wpc = [w \in Workers |-> "off"]
  /\ mWorkerId = [w \in Workers |-> 0]

\* All components of a process change together.
ProcessGoes(p, to) == wpc' = [w \in Workers |-> IF w \in p THEN to ELSE wpc[w]]

\* load_model() starts the components of the process.
LoadModel(p) ==
  /\ \A w \in p : wpc[w] = "off"
  /\ ProcessGoes(p, "started")
  /\ UNCHANGED <<channelVars, mWorkerId>>

areg_client(p) == Cardinality(p) = 1 /\ LoadModel(p)
areg_client_many(p) == Cardinality(p) > 1 /\ LoadModel(p)

\* wait_quit() returned: main unloads the model, whatever its components do.
UnloadWorkers(p) ==
  /\ \E w \in p : wpc[w] = "disconnected"
  /\ ProcessGoes(p, "quit")
  /\ UNCHANGED <<channelVars, mWorkerId>>

\* service_connected with a connected status ...
service_connected(w) ==
  /\ wpc[w] = "started"
  /\ wpc' = [wpc EXCEPT ![w] = "connected"]
  /\ requests' = Sent(requests, w, RegisterWorker)
  /\ UNCHANGED <<replies, mWorkerId>>

\* ... and with any other: the component signals its process to quit.
service_disconnected(w) ==
  /\ wpc[w] = "connected"
  /\ wpc' = [wpc EXCEPT ![w] = "disconnected"]
  /\ UNCHANGED <<channelVars, mWorkerId>>

response_RegisterWorkerReply(w) ==
  /\ wpc[w] = "connected"
  /\ Pending(replies, w, "RegisterWorkerReply")
  /\ replies' = Handled(replies, w)
  /\ mWorkerId' = [mWorkerId EXCEPT ![w] = Head(replies[w]).worker_id]
  /\ requests' = Sent(requests, w, AssignTask)
  /\ UNCHANGED wpc

\* A sentinel is multiplied and submitted like any task.
response_AssignTaskReply(w) ==
  /\ wpc[w] = "connected"
  /\ Pending(replies, w, "AssignTaskReply")
  /\ replies' = Handled(replies, w)
  /\ LET reply == Head(replies[w])
     IN  requests' = Sent(requests, w, SubmitTask(reply.task_id, reply.real))
  /\ UNCHANGED workerVars

Reacts(w) == response_RegisterWorkerReply(w) \/ response_AssignTaskReply(w)
=============================================================================
