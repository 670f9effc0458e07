-------------------------- MODULE DefaultWorkflow ---------------------------
(***************************************************************************)
(* The workflow that seedDefaultWorkflowStages writes for every team, and  *)
(* what GetWorkflowInitialStage answers for it.                            *)
(***************************************************************************)

DefaultStages == {"Coding", "InReview", "InApproval", "Merging", "Done"}

DefaultType ==
  [s \in DefaultStages |-> CASE s \in {"Coding", "InReview"} -> "agent"
                             [] s = "InApproval" -> "human"
                             [] s = "Merging"    -> "merge"
                             [] s = "Done"       -> "terminal"]

DefaultOutcomes == {"submit_for_review", "done", "approved", "changes_requested"}

DefaultEdges ==
  {<<"Coding", "submit_for_review", "InReview">>,
   <<"Coding", "done", "Done">>,
   <<"InReview", "approved", "InApproval">>,
   <<"InReview", "changes_requested", "Coding">>,
   <<"InApproval", "approved", "Merging">>,
   <<"InApproval", "changes_requested", "Coding">>,
   <<"Merging", "done", "Done">>}

-----------------------------------------------------------------------------
NoInitialStage == ""        \* what the query returns beside its error

Default == INSTANCE Workflow
  WITH StageNames <- DefaultStages, Stages <- DefaultStages,
       StageType <- DefaultType, Outcomes <- DefaultOutcomes,
       Edges <- DefaultEdges, NoStage <- NoInitialStage

=============================================================================
