------------------------- MODULE MCServiceShutdown -------------------------
(***************************************************************************)
(* The service's teardown at two paces: "prompt", where no attempt         *)
(* outlasts the timeout and manager.shutdown() succeeds, and "slow", where *)
(* either may go wrong.  ServiceShutdownDns.cfg and ServiceShutdownHang.cfg*)
(* show what does not hold of the slow one.                                *)
(***************************************************************************)
EXTENDS ServiceShutdown

VARIABLE pace

Slow == INSTANCE ServiceShutdown WITH RestoreMayFail <- TRUE, MayExceedTimeout <- TRUE

MCServiceInit == pace \in {"prompt", "slow"} /\ ServiceInit

Prompt == pace = "prompt" /\ ServiceNext /\ UNCHANGED pace
Slowly == pace = "slow" /\ Slow!ServiceNext /\ UNCHANGED pace

MCServiceNext == Prompt \/ Slowly

(* The fairness of ServiceSpec.                                            *)
MCServiceSpec ==
  /\ MCServiceInit /\ [][MCServiceNext]_<<pace, allVars>>
  /\ WF_allVars(pace = "prompt" /\ ExecutorMoves) /\ WF_allVars(pace = "prompt" /\ BridgeMoves)
  /\ WF_allVars(pace = "prompt" /\ RetrySucceeds) /\ WF_allVars(pace = "prompt" /\ V1End)

(* At the prompt pace the service is torn down only once the manager has   *)
(* given the core up.                                                      *)
PromptlyDown == pace = "prompt" => CoreDownAtTeardown

(* At the prompt pace the service's shutdown returns.                      *)
PromptlyReturns == pace = "prompt" => TeardownCompletes
============================================================================
