--------------------------- MODULE LifecycleModel ---------------------------
(***************************************************************************)
(* The status vocabulary of a lifecycle request and of its steps, and the  *)
(* two transition tables every store transaction asserts against           *)
(* (packages/shared/src/model.ts, packages/shared/src/transitions.ts).     *)
(*                                                                         *)
(* Absent is not a status of the program: it stands for a document that    *)
(* does not exist (yet).                                                   *)
(***************************************************************************)

RequestStatus == {"draft", "running", "awaiting_approval", "held",
                  "succeeded", "failed", "rejected", "cancelled"}

StepStatus == {"pending", "awaiting_approval", "ready", "running",
               "succeeded", "failed", "skipped"}

Absent == "absent"

TerminalRequestStatus == {"succeeded", "failed", "rejected", "cancelled"}

\* The statuses of a request "in flight": what the admission guard looks for.
NonTerminalRequestStatus == RequestStatus \ TerminalRequestStatus

-----------------------------------------------------------------------------

StepTransitions ==
    [from \in StepStatus |->
        CASE from = "pending"           -> {"ready", "awaiting_approval", "skipped"}
          [] from = "awaiting_approval" -> {"ready", "failed"}
          [] from = "ready"             -> {"running"}
          [] from = "running"           -> {"succeeded", "failed", "skipped",
                                            "ready", "running"}
          [] from = "failed"            -> {"ready"}
          [] OTHER                      -> {}]

RequestTransitions ==
    [from \in RequestStatus |->
        CASE from = "draft"             -> {"running", "awaiting_approval", "cancelled"}
          [] from = "running"           -> {"awaiting_approval", "held", "succeeded",
                                            "failed", "cancelled"}
          [] from = "awaiting_approval" -> {"running", "rejected", "cancelled", "failed"}
          [] from = "held"              -> {"running", "cancelled", "failed"}
          [] from = "failed"            -> {"running"}
          [] OTHER                      -> {}]

CanTransitionStep(from, to) == to \in StepTransitions[from]
CanTransitionRequest(from, to) == to \in RequestTransitions[from]

=============================================================================
