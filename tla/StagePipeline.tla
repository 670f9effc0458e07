--------------------------- MODULE StagePipeline ----------------------------
(***************************************************************************)
(* What a workflow promises for its tasks, without schedulers, workers,    *)
(* requests or the statements they are made of: a task is taken from todo, *)
(* moves from stage to stage along the declared transitions only, is done  *)
(* when it has reached a terminal stage (a task without workflow: when its *)
(* one turn is over), and a task that is done stays done until somebody    *)
(* requeues it.                                                            *)
(*                                                                         *)
(* The code drops the errors of its statements and goes on, so two         *)
(* exceptions belong to the promise.  A task whose move was lost, and that *)
(* has not moved since, may be done where it is, and may fail after that.  *)
(* A task whose workflow could not be read may be marked failed although   *)
(* an approval has finished it meanwhile.                                  *)
(***************************************************************************)
EXTENDS Workflow

CONSTANT Tasks

VARIABLES status, stage, wf,
          unmoved,      \* tasks that have not moved since a move was lost
          misread       \* tasks not claimed since their workflow was unreadable

vars == <<status, stage, wf, unmoved, misread>>

Finished(t) == ~wf[t] \/ IsTerminalStage(stage[t])

Init ==
  /\ wf \in [Tasks -> BOOLEAN]
  /\ \A t \in Tasks : status[t] = "done" => Finished(t)
  /\ unmoved = {} /\ misread = {}

(* A scheduler takes the task, in whatever stage: an approval may have      *)
(* moved it to Merging since the scheduler picked it.                      *)
Claim(t) ==
  /\ status[t] = "todo"
  /\ status' = [status EXCEPT ![t] = "in_progress"]
  /\ misread' = misread \ {t}
  /\ UNCHANGED <<stage, wf, unmoved>>

(* An outcome takes it along a transition.                                 *)
Advance(t) ==
  /\ wf[t]
  /\ \E e \in Edges : e[1] = stage[t] /\ stage' = [stage EXCEPT ![t] = e[3]]
  /\ unmoved' = unmoved \ {t}
  /\ UNCHANGED <<status, wf, misread>>

Finish(t) ==
  /\ Finished(t) \/ t \in unmoved
  /\ status' = [status EXCEPT ![t] = "done"]
  /\ UNCHANGED <<stage, wf, unmoved, misread>>

Fail(t) ==
  /\ status[t] # "done" \/ t \in unmoved \cup misread
  /\ status' = [status EXCEPT ![t] = "failed"]
  /\ UNCHANGED <<stage, wf, unmoved, misread>>

Requeue(t) ==
  /\ status' = [status EXCEPT ![t] = "todo"]
  /\ UNCHANGED <<stage, wf, unmoved, misread>>

(* Statements fail, the errors are dropped.                                *)
LoseMove(t) ==
  /\ wf[t] /\ \E e \in Edges : e[1] = stage[t]
  /\ unmoved' = unmoved \cup {t}
  /\ UNCHANGED <<status, stage, wf, misread>>

Misread(t) ==
  /\ wf[t]
  /\ misread' = misread \cup {t}
  /\ UNCHANGED <<status, stage, wf, unmoved>>

Next ==
  \E t \in Tasks :
    \/ Claim(t) \/ Advance(t) \/ Finish(t) \/ Fail(t) \/ Requeue(t)
    \/ LoseMove(t) \/ Misread(t)

Spec == Init /\ [][Next]_vars

=============================================================================
