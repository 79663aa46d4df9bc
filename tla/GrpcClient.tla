------------------------------ MODULE GrpcClient ------------------------------
(***************************************************************************)
(* The gRPC worker (grpc-src/client.cpp), a process per worker: open the   *)
(* stream, announce itself, then read a task, multiply, write the result,  *)
(* until a call on the stream fails.  The product and the timings of a     *)
(* result are reduced to the task they belong to.  Registration is a call  *)
(* of its own and is in GrpcSystem.                                        *)
(***************************************************************************)
EXTENDS GrpcStream

VARIABLES
  cpc,                        \* where each worker is
  ctask,                      \* its local: task
  worker_id                   \* its local: worker_id

clientVars == <<cpc, ctask, worker_id>>

ClientStates ==
  {"off", "start", "registered", "ready", "receive", "work", "finish",
   "exited", "failed", "crashed"}

ClientEnded == {"exited", "failed", "crashed"}

ClientTypeOK ==
  /\ cpc \in [Workers -> ClientStates]
  /\ ctask \in [Workers -> Int]
  /\ worker_id \in [Workers -> Nat]

ClientInit ==
  /\ cpc = [w \in Workers |-> "off"]
  /\ ctask = [w \in Workers |-> -1]
  /\ worker_id = [w \in Workers |-> 0]

ClientGoes(w, from, to) ==
  /\ cpc[w] = from
  /\ cpc' = [cpc EXCEPT ![w] = to]

\* A step that changes nothing but where the client is.
ClientMoves(w, from, to) ==
  /\ ClientGoes(w, from, to)
  /\ UNCHANGED <<streamVars, ctask, worker_id>>

WriteReady(w) ==
  /\ ClientGoes(w, "ready", "receive")
  /\ c2s' = Written(c2s, w, Ready)
  /\ UNCHANGED <<link, s2c, ctask, worker_id>>

\* The process returns 1.
WriteReadyFails(w) == ClientMayFail(w) /\ ClientMoves(w, "ready", "failed")

\* A task in TooLarge may be small enough itself and have a large result.
ReadTask(w) ==
  /\ ClientGoes(w, "receive", "work")
  /\ s2c[w] # <<>>
  /\ ctask' = [ctask EXCEPT ![w] = Head(s2c[w])]
  /\ s2c' = Taken(s2c, w)
  /\ UNCHANGED <<link, c2s, worker_id>>

\* The client takes the failure for the end of the stream.
ReadTaskTooLarge(w) ==
  /\ ReadTooLarge(s2c, w)
  /\ ClientGoes(w, "receive", "finish")
  /\ s2c' = Taken(s2c, w)
  /\ link' = Broken(w)
  /\ UNCHANGED <<c2s, ctask, worker_id>>

\* End of stream: what the server wrote before closing is read first.
ReadEnds(w) ==
  /\ link[w] = "broken" \/ (link[w] = "closed" /\ s2c[w] = <<>>)
  /\ ClientMoves(w, "receive", "finish")

\* multiply() and the reply, which carries the id of the task just read.
WriteResult(w) ==
  /\ ClientGoes(w, "work", "receive")
  /\ c2s' = Written(c2s, w, ctask[w])
  /\ UNCHANGED <<link, s2c, ctask, worker_id>>

WriteResultFails(w) == ClientMayFail(w) /\ ClientMoves(w, "work", "finish")

\* Finish() returns the status whatever it is; the process returns 0.
Finish(w) == link[w] \in {"broken", "closed"} /\ ClientMoves(w, "finish", "exited")

Client(w) ==
  \/ WriteReady(w) \/ WriteReadyFails(w)
  \/ ReadTask(w) \/ ReadTaskTooLarge(w) \/ ReadEnds(w)
  \/ WriteResult(w) \/ WriteResultFails(w)
  \/ Finish(w)
=============================================================================
