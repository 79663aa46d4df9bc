----------------------------- MODULE AregChannel -----------------------------
(***************************************************************************)
(* The messages of the service areg-src/Interface.siml between the master  *)
(* and each worker, carried by the AREG runtime and its router (external:  *)
(* modelled from how the two components use it).  Requests of one worker   *)
(* and replies to one worker arrive in order; a reply goes to the worker   *)
(* whose request is being handled.                                         *)
(*                                                                         *)
(* The matrices, the product and the timings are reduced to whether there  *)
(* is a task at all: a reply or a submission with empty arrays and zero    *)
(* dimensions is a sentinel (real = FALSE).  The worker id that requests   *)
(* carry is left out, for the master never reads it.                       *)
(***************************************************************************)
EXTENDS Integers, Sequences

CONSTANT Workers              \* the worker components, whatever their process

VARIABLES
  requests,                   \* worker -> what it asked, not yet handled
  replies                     \* worker -> what it was answered, not yet handled

channelVars == <<requests, replies>>

RegisterWorker == [op |-> "RegisterWorker"]
RegisterWorkerReply(id) == [op |-> "RegisterWorkerReply", worker_id |-> id]
AssignTask == [op |-> "AssignTask"]
AssignTaskReply(id, real) == [op |-> "AssignTaskReply", task_id |-> id, real |-> real]
SubmitTask(id, real) == [op |-> "SubmitTask", task_id |-> id, real |-> real]

\* The answer to a worker that asks when the queue is exhausted.
Sentinel == AssignTaskReply(0, FALSE)

Request == {RegisterWorker, AssignTask} \cup
           [op : {"SubmitTask"}, task_id : Nat, real : BOOLEAN]
Reply == [op : {"RegisterWorkerReply"}, worker_id : Nat] \cup
         [op : {"AssignTaskReply"}, task_id : Nat, real : BOOLEAN]

ChannelTypeOK ==
  /\ requests \in [Workers -> Seq(Request)]
  /\ replies \in [Workers -> Seq(Reply)]

ChannelInit ==
  /\ requests = [w \in Workers |-> <<>>]
  /\ replies = [w \in Workers |-> <<>>]

Pending(channel, w, op) == channel[w] # <<>> /\ Head(channel[w]).op = op

Sent(channel, w, message) == [channel EXCEPT ![w] = Append(@, message)]
Handled(channel, w) == [channel EXCEPT ![w] = Tail(@)]
=============================================================================
