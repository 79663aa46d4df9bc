------------------------------ MODULE GrpcStream ------------------------------
(***************************************************************************)
(* The bidirectional stream of AssignTasks, as gRPC gives it to the two    *)
(* programs (external: modelled from how server.cpp and client.cpp use     *)
(* it).  Each worker opens one stream; a stream is a pair of FIFO          *)
(* channels.  While it is open every Write is delivered.  Once it is       *)
(* broken a Write may still report success although the message is gone,   *)
(* or report failure, and a Read may still return what had arrived, or     *)
(* report failure: gRPC orders none of these against the break.            *)
(***************************************************************************)
EXTENDS Integers, Sequences

CONSTANTS
  Workers,                    \* the client processes, one stream each
  TooLarge                    \* tasks whose message, or whose result, is above
                              \* the size the library accepts by default, 4 MiB

ASSUME TooLargeAssumption == TooLarge \subseteq Nat

VARIABLES
  link,                       \* "none", "open", "broken", or "closed" by the server
  c2s,                        \* TaskResults on their way to the server
  s2c                         \* tasks on their way to the client

streamVars == <<link, c2s, s2c>>

\* The first message of a client carries its worker id and no result.
Ready == -2

StreamInit ==
  /\ link = [w \in Workers |-> "none"]
  /\ c2s = [w \in Workers |-> <<>>]
  /\ s2c = [w \in Workers |-> <<>>]

StreamTypeOK ==
  /\ link \in [Workers -> {"none", "open", "broken", "closed"}]
  /\ c2s \in [Workers -> Seq(Int)]
  /\ s2c \in [Workers -> Seq(Int)]

\* A Write that returns true: the message arrives if the stream still stands.
Written(channel, w, message) ==
  IF link[w] = "open"
    THEN [channel EXCEPT ![w] = Append(@, message)]
    ELSE channel

\* A Read that returns true takes the oldest message.
Taken(channel, w) == [channel EXCEPT ![w] = Tail(@)]

\* A Read of a message that is too large returns false and ends the call.
ReadTooLarge(channel, w) == channel[w] # <<>> /\ Head(channel[w]) \in TooLarge

\* The other calls of one end fail only once the stream is broken or, seen from
\* the client, closed by the server.
ServerMayFail(w) == link[w] = "broken"
ClientMayFail(w) == link[w] \in {"broken", "closed"}

\* The handler returned a Status: the client will read end-of-stream.
Closed(w) == [link EXCEPT ![w] = IF @ = "open" THEN "closed" ELSE @]

Broken(w) == [link EXCEPT ![w] = IF @ = "open" THEN "broken" ELSE @]
=============================================================================
