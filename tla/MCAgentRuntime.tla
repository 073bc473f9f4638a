--------------------------- MODULE MCAgentRuntime ---------------------------
(***************************************************************************)
(* An instance of AgentRuntime for TLC.                                    *)
(***************************************************************************)
EXTENDS AgentRuntime

MCStem == [f \in File |-> IF f = "metrics.sh" THEN "metrics" ELSE "shell"]
=============================================================================
