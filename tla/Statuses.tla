------------------------------ MODULE Statuses ------------------------------
(***************************************************************************)
(* The closed status types of the domain and the transition tables that    *)
(* packages/domain states for them.  A table is a relation: the set of     *)
(* pairs <<from, to>> the domain allows.  A status that opens no pair is   *)
(* terminal.                                                               *)
(***************************************************************************)

DocumentStatus == {"UPLOADED", "PROCESSING", "INDEXED", "FAILED", "DELETING"}

AgentRunStatus == {"QUEUED", "RUNNING", "COMPLETED", "FAILED",
                   "CANCEL_REQUESTED", "CANCELLED", "TIMED_OUT"}

RunStepStatus == {"PENDING", "RUNNING", "COMPLETED", "FAILED", "SKIPPED"}

EvaluationStatus == {"QUEUED", "RUNNING", "COMPLETED", "FAILED"}

documentTransitions ==
    ({"UPLOADED"} \X {"PROCESSING", "DELETING"})
      \cup ({"PROCESSING"} \X {"INDEXED", "FAILED", "DELETING"})
      \cup ({"INDEXED", "FAILED"} \X {"PROCESSING", "DELETING"})

agentRunTransitions ==
    ({"QUEUED"} \X {"RUNNING", "CANCEL_REQUESTED", "CANCELLED", "FAILED",
                    "TIMED_OUT"})
      \cup ({"RUNNING"} \X {"COMPLETED", "FAILED", "CANCEL_REQUESTED",
                            "CANCELLED", "TIMED_OUT"})
      \cup ({"CANCEL_REQUESTED"} \X {"CANCELLED", "COMPLETED", "FAILED",
                                     "TIMED_OUT"})

runStepTransitions ==
    ({"PENDING"} \X {"RUNNING", "SKIPPED"})
      \cup ({"RUNNING"} \X {"COMPLETED", "FAILED", "SKIPPED"})

evaluationTransitions ==
    ({"QUEUED"} \X {"RUNNING", "FAILED"})
      \cup ({"RUNNING"} \X {"COMPLETED", "FAILED"})

(* The statuses of an agent run that open no transition. *)
RunTerminal == {"COMPLETED", "FAILED", "CANCELLED", "TIMED_OUT"}
=============================================================================
