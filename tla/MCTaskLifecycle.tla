-------------------------- MODULE MCTaskLifecycle ---------------------------
(***************************************************************************)
(* Constants of TaskLifecycle for TLC: workflows and initial rows.  What   *)
(* each run shows is in README.md.                                         *)
(***************************************************************************)
EXTENDS TaskLifecycle, DefaultWorkflow, TLC

CONSTANTS a1, a2, c1, d1, d2, t1, t2

(* The daemons are interchangeable; no liveness run uses this.             *)
DaemonSymmetry == Permutations({d1, d2})

NoCandidates == [s \in Stages |-> {}]

(* A row of a task that has been claimed by a1 before.                     *)
Started(status, stage) ==
  [NewRow(status) EXCEPT !.dri = a1, !.wf = stage # NoStage, !.stage = stage]

-----------------------------------------------------------------------------
(* A workflow with an initial stage and a review loop, for the requests.   *)

ReviewStages == {"Coding", "InReview", "Done"}
ReviewStageNames == ReviewStages \cup {"Merging"}
ReviewType == [s \in ReviewStages |-> IF s = "Done" THEN "terminal" ELSE "agent"]
ReviewOutcomes == {"submit_for_review", "approved", "changes_requested"}
ReviewEdges == {<<"Coding", "submit_for_review", "InReview">>,
                <<"InReview", "approved", "Done">>,
                <<"InReview", "changes_requested", "InReview">>}
ReviewCandidates == [NoCandidates EXCEPT !["InReview"] = {a1}]
ReviewRows == {NewRow("absent"),
               [NewRow("todo") EXCEPT !.wf = TRUE],  \* rewound while it was created
               [NewRow("todo") EXCEPT !.wf = TRUE, !.stage = "Coding"]}

-----------------------------------------------------------------------------
(* A workflow with every type of stage, in which reviewers' outcomes leave *)
(* human stages only.  "Gone" has no row in workflow_stages.               *)

FullStages == {"Coding", "Lint", "InReview", "InApproval", "Ship", "Merging", "Done"}
FullStageNames == FullStages \cup {"Gone"}
FullType == [s \in FullStages |->
               CASE s \in {"Coding", "InReview"} -> "agent"
                 [] s = "Lint"       -> "auto"
                 [] s = "InApproval" -> "human"
                 [] s \in {"Ship", "Merging"} -> "merge"
                 [] s = "Done"       -> "terminal"]
FullOutcomes == {"done", "submit_for_review", "approved"}
FullEdges == {<<"Coding", "submit_for_review", "Lint">>,
              <<"Coding", "done", "Done">>,
              <<"Lint", "done", "InReview">>,
              <<"InReview", "done", "InApproval">>,
              <<"InApproval", "approved", "Merging">>,
              <<"Ship", "done", "Done">>,
              <<"Merging", "done", "Done">>}
FullRows == {NewRow("todo"), Started("todo", "InApproval"), Started("todo", "Gone"),
             Started("failed", "Lint"), Started("in_progress", "InReview"),
             [NewRow("todo") EXCEPT !.wf = TRUE, !.stage = "Coding"],
             [Started("todo", "Ship") EXCEPT !.worktree = TRUE],
             [Started("in_progress", "Merging") EXCEPT !.worktree = TRUE]}

WaitingRows == {NewRow("todo"),
                [Started("in_progress", "Merging") EXCEPT !.worktree = TRUE]}

(* The run of the pipeline is of the kind the theorems about it assume.    *)
ASSUME PipelineRunAssumption ==
  "approve" \in Ops /\ Ops \subseteq {"approve", "assign", "requeue",
                                       "disconnect", "crash", "fault"}
    => PipelineOnly

-----------------------------------------------------------------------------
(* Rows for the runs of the default workflow.                              *)

CodingRows == {[NewRow("todo") EXCEPT !.wf = TRUE, !.stage = "Coding"], NewRow("todo")}

=============================================================================
