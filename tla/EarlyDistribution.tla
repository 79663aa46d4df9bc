-------------------------- MODULE EarlyDistribution --------------------------
(***************************************************************************)
(* What the AREG master promises: as TaskDistribution, but one message may *)
(* move several tasks at once, a recorded task may lose its timings again, *)
(* and a report may be written, more than once, as soon as every task has  *)
(* been handed out and at most Slack of them are missing from it.          *)
(***************************************************************************)
EXTENDS TaskDistribution, FiniteSets

CONSTANT Slack                \* the rows a report may lack

\* A task may be handed to a worker that is gone already.
Moves == {<<"queued", "assigned">>, <<"queued", "lost">>,
          <<"assigned", "recorded">>, <<"assigned", "lost">>,
          <<"recorded", "lost">>}

Advance ==
  /\ state' \in [Task -> TaskStates]
  /\ \A t \in Task : state'[t] = state[t] \/ <<state[t], state'[t]>> \in Moves

PublishEarly ==
  /\ \A t \in Task : state'[t] # "queued"
  /\ published' = TRUE
  /\ report' = Recorded'
  /\ Cardinality(Task \ report') <= Slack

EarlyNext ==
  /\ Advance
  /\ PublishEarly \/ UNCHANGED <<published, report>>

EarlySpec == Init /\ [][EarlyNext]_abstractVars
=============================================================================
