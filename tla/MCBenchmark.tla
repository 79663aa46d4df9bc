----------------------------- MODULE MCBenchmark -----------------------------
(***************************************************************************)
(* Instances of BenchmarkRunner for TLC: sequences of runs.                *)
(***************************************************************************)
EXTENDS BenchmarkRunner

\* Runs of both transports, so that each may follow itself and the other.
MixedRuns == <<"areg", "areg", "grpc", "grpc">>
OneGrpcRun == <<"grpc">>
=============================================================================
