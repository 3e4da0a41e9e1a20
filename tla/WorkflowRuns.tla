------------------------------- MODULE WorkflowRuns -------------------------------
(***************************************************************************)
(* One run of a workflow in its file,                                       *)
(*   src/src/services/workflows/manager.ts  WorkflowManager                 *)
(* and the calls that work on it: the workflow tool and /workflows make a   *)
(* manager of their own each time (src/src/tools/workflow.ts, cli.ts), so   *)
(* no call knows which runs another one is executing.  A call reads the     *)
(* file, then writes the whole run back under the file lock.                *)
(***************************************************************************)
EXTENDS Integers, FiniteSets

CONSTANTS
  Steps,               \* a set of numbers, the order of the definition
  Needs,               \* dependsOn, for each step (acyclic, which nothing here needs)
  MaxConcurrency,
  Lookers, Pausers, Resumers,  \* calls, by what they do
  MaxBatches           \* bound: batches started

ASSUME WorkflowAssumption ==
  /\ IsFiniteSet(Steps) /\ Steps \subseteq Nat
  /\ Needs \in [Steps -> SUBSET Steps]
  /\ MaxConcurrency \in Nat \ {0} /\ MaxBatches \in Nat

Calls == Lookers \cup Pausers \cup Resumers

Over(run) == run.status \in {"completed", "completed_with_errors"}
RunEnded == {"completed", "failed", "skipped"}
StepsIn(run, states) == {s \in Steps : run.steps[s] \in states}

FreshRun == [status |-> "paused", pause |-> FALSE, steps |-> [s \in Steps |-> "pending"]]

NoAgents == [s \in Steps |-> "none"]

VARIABLES
  runFile,
  at,           \* where a call is
  heldRun,         \* the run a call holds
  agents,       \* the steps an executing call has launched, and how they ended
  batches,      \* batches started so far
  done          \* steps the file has recorded as completed

workflowVars == <<runFile, at, heldRun, agents, batches, done>>

\* startRun has written the run.
WorkflowInit ==
  /\ runFile = FreshRun
  /\ at = [c \in Calls |-> "idle"]
  /\ heldRun = [c \in Calls |-> FreshRun]
  /\ agents = [c \in Calls |-> NoAgents]
  /\ batches = 0 /\ done = {}

Batch(c) == {s \in Steps : agents[c][s] # "none"}

Goes(c, place) == at' = [at EXCEPT ![c] = place]
Holds(c, run) == heldRun' = [heldRun EXCEPT ![c] = run]

\* Mutant: whoever writes last is right.
WrittenAnyway(run, keepPause) == run

\* #writeRun: a run that is over stays so, and a pause request is kept.
Written(run, keepPause) ==
  IF Over(runFile) /\ ~Over(run) THEN runFile
  ELSE IF runFile.pause /\ keepPause /\ run.status = "running" THEN [run EXCEPT !.pause = TRUE]
  ELSE run

\* normalizeRecoveredRun, on a run that no call of this manager executes.
RecoveredRun(run) ==
  [run EXCEPT !.status = IF @ = "running" THEN "paused" ELSE @,
              !.steps = [s \in Steps |-> IF @[s] = "running" THEN "pending" ELSE @[s]]]

\* getRun of a call that executes nothing: what it recovered it writes back.
Look(c, next) ==
  /\ Holds(c, RecoveredRun(runFile))
  /\ Goes(c, IF RecoveredRun(runFile) = runFile THEN next ELSE "recovering")
  /\ UNCHANGED <<runFile, agents, batches, done>>

AfterLook(c) == IF c \in Lookers THEN "idle" ELSE IF c \in Pausers THEN "pausing" ELSE "resuming"

StartCall(c) == at[c] = "idle" /\ Look(c, AfterLook(c))

WriteRecovered(c) ==
  /\ at[c] = "recovering"
  /\ runFile' = Written(heldRun[c], TRUE)
  /\ Goes(c, AfterLook(c))
  /\ UNCHANGED <<heldRun, agents, batches, done>>

\* pauseRun
Pause(c) ==
  /\ at[c] = "pausing"
  /\ runFile' = IF Over(heldRun[c]) THEN runFile
                ELSE Written([heldRun[c] EXCEPT !.pause = TRUE,
                                             !.status = IF @ = "running" THEN @ ELSE "paused"], TRUE)
  /\ Goes(c, "idle")
  /\ UNCHANGED <<heldRun, agents, batches, done>>

\* #executeRun, up to its first write.
Execute(c) ==
  /\ at[c] = "resuming"
  /\ IF Over(heldRun[c])
     THEN Goes(c, "idle") /\ UNCHANGED <<runFile, heldRun>>
     ELSE LET run == [heldRun[c] EXCEPT !.pause = FALSE, !.status = "running"]
          IN /\ runFile' = Written(run, FALSE)
             /\ Goes(c, "looping")
             /\ UNCHANGED heldRun
  /\ UNCHANGED <<agents, batches, done>>

Ready(run) == {s \in StepsIn(run, {"pending"}) : Needs[s] \subseteq StepsIn(run, RunEnded)}

Blocked(run) == {s \in Ready(run) : ~ (Needs[s] \subseteq StepsIn(run, {"completed"}))}

FirstFew(steps) == {s \in steps : Cardinality({r \in steps : r < s}) < MaxConcurrency}

\* One round of the loop up to the next write: the run as it was read decides.
\* It may also stop because its turn was cancelled or a pause was requested.
Round(c) ==
  /\ at[c] = "looping"
  /\ LET run == runFile
         launched == FirstFew(Ready(run))
     IN \/ /\ Holds(c, [run EXCEPT !.status = "paused"]) /\ Goes(c, "stopping")
           /\ UNCHANGED <<agents, batches>>
        \/ /\ ~run.pause /\ Ready(run) = {} /\ StepsIn(run, {"pending", "running"}) # {}
           /\ Holds(c, [run EXCEPT !.status = "paused"]) /\ Goes(c, "stopping")
           /\ UNCHANGED <<agents, batches>>
        \/ /\ ~run.pause /\ StepsIn(run, {"pending", "running"}) = {}
           /\ Holds(c, [run EXCEPT !.pause = FALSE,
                          !.status = IF StepsIn(run, {"completed"}) = Steps THEN "completed"
                                     ELSE "completed_with_errors"])
           /\ Goes(c, "stopping")
           /\ UNCHANGED <<agents, batches>>
        \/ /\ ~run.pause /\ Blocked(run) # {}
           /\ Holds(c, [run EXCEPT !.steps = [s \in Steps |-> IF s \in Blocked(run) THEN "skipped" ELSE @[s]]])
           /\ Goes(c, "skipping")
           /\ UNCHANGED <<agents, batches>>
        \/ /\ ~run.pause /\ Blocked(run) = {} /\ launched # {}
           /\ batches < MaxBatches /\ batches' = batches + 1
           /\ Holds(c, [run EXCEPT !.steps = [s \in Steps |-> IF s \in launched THEN "running" ELSE @[s]]])
           /\ agents' = [agents EXCEPT ![c] = [s \in Steps |-> IF s \in launched THEN "launching" ELSE "none"]]
           /\ Goes(c, "launching")
  /\ UNCHANGED <<runFile, done>>

\* The last write, with the run paused or over; or the skipped steps.
WriteRound(c) ==
  /\ at[c] \in {"stopping", "skipping"}
  /\ runFile' = Written(heldRun[c], TRUE)
  /\ Goes(c, IF at[c] = "stopping" THEN "idle" ELSE "looping")
  /\ UNCHANGED <<heldRun, agents, batches, done>>

LaunchBatch(c) ==
  /\ at[c] = "launching"
  /\ runFile' = Written(heldRun[c], TRUE)
  /\ agents' = [agents EXCEPT ![c] = [s \in Steps |-> IF s \in Batch(c) THEN "running" ELSE "none"]]
  /\ Goes(c, "waiting")
  /\ UNCHANGED <<heldRun, batches, done>>

AgentEnds(c, s, result) ==
  /\ agents[c][s] = "running"
  /\ agents' = [agents EXCEPT ![c][s] = result]
  /\ UNCHANGED <<runFile, at, heldRun, batches, done>>

\* Promise.allSettled
Settled(c) == \A s \in Batch(c) : agents[c][s] # "running"

\* The steps of the batch are entered in the call's own copy of the run, which
\* takes over a pause request and nothing else of what the file has now.
EndBatch(c) ==
  /\ at[c] = "waiting" /\ Settled(c)
  /\ Holds(c, [heldRun[c] EXCEPT
       !.steps = [s \in Steps |-> IF s \in Batch(c) THEN agents[c][s] ELSE @[s]],
       !.pause = @ \/ runFile.pause])
  /\ Goes(c, "entering")
  /\ UNCHANGED <<runFile, agents, batches, done>>

WriteBatch(c) ==
  /\ at[c] = "entering"
  /\ runFile' = Written(heldRun[c], TRUE)
  /\ agents' = [agents EXCEPT ![c] = NoAgents]
  /\ done' = done \cup StepsIn(runFile', {"completed"})
  /\ \/ Goes(c, "looping")
     \/ StepsIn(heldRun[c], {"pending"}) # {} /\ Goes(c, "resting")
  /\ UNCHANGED <<heldRun, batches>>

\* pause_after_step_count was reached with this batch: the call pauses its own copy
\* of the run, without reading the file again.
Rest(c) ==
  /\ at[c] = "resting"
  /\ runFile' = Written([heldRun[c] EXCEPT !.status = "paused"], TRUE)
  /\ Goes(c, "idle")
  /\ UNCHANGED <<heldRun, agents, batches, done>>

\* The process of a call ends; the agents it runs end with it.
CallDies(c) ==
  /\ at[c] # "idle"
  /\ Goes(c, "idle")
  /\ agents' = [agents EXCEPT ![c] = NoAgents]
  /\ UNCHANGED <<runFile, heldRun, batches, done>>

Progress(c) ==
  \/ WriteRecovered(c) \/ Pause(c) \/ Execute(c) \/ Round(c) \/ WriteRound(c)
  \/ LaunchBatch(c) \/ EndBatch(c) \/ WriteBatch(c) \/ Rest(c)

WorkflowNext ==
  \/ \E c \in Calls : StartCall(c) \/ Progress(c) \/ CallDies(c)
  \/ \E c \in Calls, s \in Steps, result \in {"completed", "failed"} : AgentEnds(c, s, result)

\* Calls go on and agents end.
WorkflowFairness ==
  \A c \in Calls :
    WF_workflowVars(Progress(c) \/ \E s \in Steps, result \in {"completed", "failed"} : AgentEnds(c, s, result))

WorkflowSpec == WorkflowInit /\ [][WorkflowNext]_workflowVars
WorkflowFairSpec == WorkflowSpec /\ WorkflowFairness

-----------------------------------------------------------------------------
RunShape ==
  [status : {"paused", "running", "completed", "completed_with_errors"}, pause : BOOLEAN,
   steps : [Steps -> {"pending", "running"} \cup RunEnded]]

WorkflowTypeOK ==
  /\ runFile \in RunShape /\ heldRun \in [Calls -> RunShape]
  /\ agents \in [Calls -> [Steps -> {"none", "launching", "running", "completed", "failed"}]]
  /\ batches \in 0 .. MaxBatches

\* A step is launched only after all its dependencies were recorded as completed.
DependenciesRan == \A c \in Calls : \A s \in Batch(c) : Needs[s] \subseteq done

OneExecutes == \A c, d \in Resumers : c = d

\* A run that is over stays over.  As long as one call at most executes it, no
\* other call changes it again either: of two, the slower one may still write its
\* own result over that of the faster.
OverStaysOver ==
  [][Over(runFile) => Over(runFile') /\ (OneExecutes => runFile' = runFile)]_workflowVars

\* A run goes through its plan in order and ends once, whoever writes its file.
WorkflowSafety == [](WorkflowTypeOK /\ DependenciesRan) /\ OverStaysOver

\* Every call on a run ends, unless the bound on batches stops it.
CallsReturn == \A c \in Calls : at[c] # "idle" ~> (at[c] = "idle" \/ batches = MaxBatches)
=============================================================================
