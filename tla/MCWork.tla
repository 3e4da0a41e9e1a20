------------------------------- MODULE MCWork -------------------------------
(***************************************************************************)
(* Agents, their transcripts, a team's messages and workflows, side by      *)
(* side.  They share no state: a behaviour picks one of them and lets the   *)
(* others rest.  No fair action of a part is enabled in its initial state,  *)
(* so that resting is fair to it.                                           *)
(***************************************************************************)
EXTENDS AgentTasks, TaskTranscript, TeamMailbox, WorkflowRuns, TLC

CONSTANTS a1, a2, fa, k1, k2, b1, b2, l1, l2, p1, r1

VARIABLE part

Fork == [s \in Steps |-> IF s = 3 THEN {1} ELSE {}]

workVars == <<part, taskVars, transcriptVars, teamVars, workflowVars>>

WorkInit ==
  /\ part \in {"tasks", "transcript", "mailbox", "workflow"}
  /\ TasksInit /\ TranscriptInit /\ MailboxInit /\ WorkflowInit

On(name) == part = name /\ UNCHANGED part

WorkNext ==
  \/ On("tasks") /\ TasksNext /\ UNCHANGED <<transcriptVars, teamVars, workflowVars>>
  \/ On("transcript") /\ TranscriptNext /\ UNCHANGED <<taskVars, teamVars, workflowVars>>
  \/ On("mailbox") /\ MailboxNext /\ UNCHANGED <<taskVars, transcriptVars, workflowVars>>
  \/ On("workflow") /\ WorkflowNext /\ UNCHANGED <<taskVars, transcriptVars, teamVars>>

WorkFairSpec ==
  /\ WorkInit /\ [][WorkNext]_workVars
  /\ TasksFairness /\ TranscriptFairness /\ MailboxFairness /\ WorkflowFairness

\* Whatever was begun, asked for or sent comes to its end, through deaths.
WorkMovesOn == StoppingEnds /\ ShutdownReturns /\ BegunIsDelivered /\ MailArrives /\ CallsReturn
=============================================================================
