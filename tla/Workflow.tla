------------------------------ MODULE Workflow ------------------------------
(***************************************************************************)
(* One workflow of a team: the rows of workflow_stages and                 *)
(* workflow_transitions, and the three questions the program asks of them  *)
(* (the next stage of an outcome, whether a stage is terminal, which stage *)
(* is initial).  Stage names are kept as strings because the code gives    *)
(* three of them a fixed meaning: "InReview", "Merging" and "Done".        *)
(* Custom workflows are data, so the module is a family of workflows.      *)
(***************************************************************************)
CONSTANTS
  StageNames,   \* every stage name a caller may write, listed in the workflow or not
  Stages,       \* the names that have a row in workflow_stages
  StageType,    \* stage_type of each of them
  Outcomes,     \* outcomes a runtime or a reviewer may give
  Edges,        \* rows <<from_stage, outcome, to_stage>> of workflow_transitions
  NoStage       \* SQL NULL in tasks.current_stage, "" in Go

StageTypes == {"agent", "human", "auto", "merge", "terminal"}

ASSUME WorkflowAssumption ==
  /\ Stages \subseteq StageNames
  /\ NoStage \notin StageNames
  /\ StageType \in [Stages -> StageTypes]
  /\ Edges \subseteq StageNames \X Outcomes \X StageNames
  \* PRIMARY KEY (workflow_id, from_stage, outcome)
  /\ \A e, f \in Edges : e[1] = f[1] /\ e[2] = f[2] => e = f

(* The stage that `outcome` leads to, NoStage when there is no such row.   *)
NextStage(from, outcome) ==
  IF \E e \in Edges : e[1] = from /\ e[2] = outcome
  THEN (CHOOSE e \in Edges : e[1] = from /\ e[2] = outcome)[3]
  ELSE NoStage

IsTerminalStage(s) == s \in Stages /\ StageType[s] = "terminal"

(* Stages that no transition leads to.                                     *)
Sources == {s \in Stages : \A e \in Edges : e[3] # s}

(* The first source in name order (the fixed choice of CHOOSE stands for   *)
(* that order), or NoStage where the code returns "workflow has no initial *)
(* stage".                                                                 *)
InitialStage == IF Sources = {} THEN NoStage ELSE CHOOSE s \in Sources : TRUE

=============================================================================
