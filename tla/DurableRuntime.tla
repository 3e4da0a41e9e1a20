---------------------------- MODULE DurableRuntime ----------------------------
(***************************************************************************)
(* The execution core of the durable task runtime: one run with its tasks, *)
(* the owner process that drives it, its workers, and the user:             *)
(*   src/src/services/runtime/engine-core.ts  start, tick, #launch, #work,  *)
(*       #validate, #retryValidation, #recover, resume, #block,             *)
(*       #settleControl, #deliverInputs, #park, close, #fatal               *)
(*   src/src/services/runtime/commands.ts     the run and attempt commands  *)
(*   src/src/services/runtime/waits.ts        request, answer, consume      *)
(*   src/src/services/runtime/routing.ts      followup                      *)
(*                                                                         *)
(* A step is one transaction or one stretch of code without an await; what  *)
(* happens between two awaits of the same function are different steps.     *)
(* The queue of scheduling effects is used through its contract, WakeSlots; *)
(* the journal of tool calls is reduced to whether a task has an effect      *)
(* whose outcome is not known (see CallJournal).                            *)
(***************************************************************************)
EXTENDS Integers, FiniteSets

CONSTANTS
  Tasks,
  DependsOn,       \* [Tasks -> SUBSET Tasks], acyclic (validateGraph)
  MaxActive,       \* ExecutionPolicy.maxActiveAgents
  MaxRetries,      \* configuration.maxRetries
  MaxInputs,       \* bound: follow-up inputs per task
  MaxCrashes,      \* bound: deaths of the owner
  Errors,          \* ways a worker can fail: "busy", "transient", "fault"
  MayAct,          \* workers call tools that may not be replayed
  MayAsk,          \* workers call durable_wait
  MayExpire,       \* the deadline of the run can pass
  MayFailCleanup   \* WorkerResources.close can throw

Kinds == {"schedule", "wake"}
Keys == Kinds \X Tasks
TaskOf(k) == k[2]

ASSUME RuntimeAssumption ==
  /\ Tasks # {}
  /\ DependsOn \in [Tasks -> SUBSET Tasks]
  /\ MaxActive \in Nat \ {0}
  /\ {MaxRetries, MaxInputs, MaxCrashes} \subseteq Nat
  /\ Errors \subseteq {"busy", "transient", "fault"}
  /\ {MayAct, MayAsk, MayExpire, MayFailCleanup} \subseteq BOOLEAN

VARIABLES
  run,      \* status of the run
  late,     \* the deadline of the run has passed
  task,     \* the rows of the tasks, with their active attempt
  slot,     \* scheduling effects, one slot per key (WakeSlots)
  proc,     \* the owner process
  worker,   \* #running: what the process is doing for each task
  tick,     \* where #tick is
  batch,    \* the claimed effects #tick has still to process
  at,       \* the effect whose task is being admitted, if any, and the
            \* revision #tick read of that task
  todo,     \* tasks start or resume has still to recover (#recovering)
  crashes

vars == <<run, late, task, slot, proc, worker, tick, batch, at, todo, crashes>>
loop == <<tick, batch, at>>

RunStates == {"active", "pausing", "paused", "cancelling", "cancelled", "succeeded", "failed"}
TaskStates == {"ready", "running", "waiting", "reconciling", "validating", "paused", "succeeded", "failed", "cancelled"}
Terminal == {"succeeded", "failed", "cancelled"}

TaskRow ==
  [status: TaskStates,
   resumeTo: {"none", "waiting", "validating"},
   attempt: BOOLEAN,                       \* the current attempt is active
   effect: {"clear", "dispatched", "unknown"},
   wait: {"none", "open", "answered", "cancelled"},
   inputs: Nat,                            \* inputRevision
   given: Nat,                             \* follow-ups marked delivered
   seen: Nat,                              \* inputRevision of the candidate
   rejections: Nat,                        \* record "retries"
   retries: Nat]                           \* record "execution-retries"

WorkerState ==
  [phase: {"none", "prepare", "work", "deliver", "yield", "submit", "validate", "reject", "block", "cleanup", "leave"},
   aborted: BOOLEAN,
   upto: Nat,                              \* inputs the turn that starts will read
   observed: Nat,                          \* observedInputRevision; the task revision #validate read
   error: {"none", "busy", "transient", "fault"}]

Idle == [phase |-> "none", aborted |-> FALSE, upto |-> 0, observed |-> 0, error |-> "none"]

Accepted(tasks, t) == \A d \in DependsOn[t] : tasks[d].status = "succeeded"
Running(t) == worker[t].phase # "none"
Attempts == {t \in Tasks : task[t].attempt}
Unresolved(t) == task[t].effect # "clear"

Init ==
  /\ run = "active" /\ late = FALSE
  /\ task = [t \in Tasks |-> [status |-> IF DependsOn[t] = {} THEN "ready" ELSE "waiting",
       resumeTo |-> "none", attempt |-> FALSE, effect |-> "clear", wait |-> "none",
       inputs |-> 0, given |-> 0, seen |-> 0, rejections |-> 0, retries |-> 0]]
  /\ slot = [k \in Keys |-> IF k[1] = "schedule" /\ DependsOn[k[2]] = {} THEN "pending" ELSE "none"]
  /\ proc = "up" /\ tick = "idle" /\ batch = {} /\ at = {}
  /\ worker = [t \in Tasks |-> Idle]
  /\ todo = {}
  /\ crashes = 0

-----------------------------------------------------------------------------
(* Parts of transactions.                                                    *)

\* enqueue on each of the keys.
Enqueued(S) == [k \in Keys |-> IF k \notin S THEN slot[k]
                               ELSE CASE slot[k] = "none" -> "pending"
                                      [] slot[k] = "leased" -> "superseded"
                                      [] OTHER -> slot[k]]
Schedule(S) == slot' = Enqueued({"schedule"} \X S)
Wake(S) == slot' = Enqueued({"wake"} \X S)

\* Mutant: a claimed key that was enqueued again is removed as well.
SettleSlotAnyGeneration(k, retry) ==
  slot' = [slot EXCEPT ![k] = IF retry THEN "pending" ELSE "none"]

\* settleEffect for one claimed key; it has no effect when the lease ran out.
SettleSlot(k, retry) ==
  \/ slot' = [slot EXCEPT ![k] = IF retry \/ @ = "superseded" THEN "pending" ELSE "none"]
  \/ slot' = [slot EXCEPT ![k] = "pending"]

\* Mutant: dependencies need not be accepted.
WokenEarly(tasks) ==
  {t \in Tasks : /\ tasks[t].status = "waiting" /\ ~tasks[t].attempt
                 /\ tasks[t].wait = "answered" \/ (tasks[t].wait = "none" /\ DependsOn[t] # {})}

\* wakeWaiting on the given rows: tasks whose dependencies are accepted and
\* whose wait, if they have one, is over.
Woken(tasks) ==
  {t \in Tasks : /\ tasks[t].status = "waiting" /\ ~tasks[t].attempt
                 /\ Accepted(tasks, t)
                 /\ tasks[t].wait = "answered" \/ (tasks[t].wait = "none" /\ DependsOn[t] # {})}

Readied(tasks, S) == [t \in Tasks |-> IF t \in S THEN [tasks[t] EXCEPT !.status = "ready"] ELSE tasks[t]]

\* Store the rows, after wakeWaiting.
SaveAndWake(tasks) ==
  LET S == IF late THEN {} ELSE Woken(tasks) IN
  /\ task' = Readied(tasks, S)
  /\ Schedule(S)

\* refreshWaits of a run that is over or being cancelled.
WaitsCancelled(tasks) ==
  [t \in Tasks |-> IF tasks[t].wait = "open" THEN [tasks[t] EXCEPT !.wait = "cancelled"] ELSE tasks[t]]

Phase(t, p) == worker' = [worker EXCEPT ![t].phase = p]

\* An error of the worker of t ends in #block.  An aborted worker fails with the
\* reason of the abort, which is not worth a retry.
Fails(t, e) == worker' = [worker EXCEPT ![t].phase = "block", ![t].error = IF worker[t].aborted THEN "fault" ELSE e]

Aborting(w) == [t \in Tasks |-> IF w[t].phase = "none" THEN w[t] ELSE [w[t] EXCEPT !.aborted = TRUE]]

\* #fatal: dispatch stops until the owner is restarted.
Fatal(w) ==
  /\ proc' = IF proc = "up" THEN "stopped" ELSE proc
  /\ worker' = Aborting(w)

-----------------------------------------------------------------------------
(* The owner process: start, recovery, crash, close.                         *)

\* Mutant: a task that was running is taken for one that still runs.
ToRecoverIdle == {t \in Tasks : task[t].status \in {"reconciling", "validating"}}

ToRecover == {t \in Tasks : task[t].status \in {"running", "reconciling", "validating"}}

\* start: reclaimEffects, a run whose adapter is gone is paused, and every task
\* that was under way is to be recovered.
Start ==
  /\ proc = "down"
  /\ proc' = "starting"
  /\ slot' = [k \in Keys |-> IF slot[k] = "none" THEN "none" ELSE "pending"]
  /\ \/ run' = run
     \/ run = "active" /\ run' = IF Attempts = {} THEN "paused" ELSE "pausing"
  /\ todo' = ToRecover
  /\ UNCHANGED <<late, task, worker, loop, crashes>>

\* Mutant: a recovered task is rescheduled without a look at its effects.
RecoverBlindly(t) ==
  /\ t \in todo
  /\ todo' = todo \ {t}
  /\ task' = [task EXCEPT ![t].attempt = FALSE, ![t].status = IF run = "active" THEN "ready" ELSE "reconciling"]
  /\ IF run = "active" THEN Schedule({t}) ELSE UNCHANGED slot
  /\ UNCHANGED <<run, late, proc, worker, loop, crashes>>

\* #recover, for start and for resume.
Recover(t) ==
  /\ t \in todo
  /\ todo' = todo \ {t}
  /\ \/ /\ task[t].status = "validating"
        /\ task' = [task EXCEPT ![t].attempt = FALSE]
        /\ IF run = "active" THEN Wake({t}) ELSE UNCHANGED slot
        /\ UNCHANGED run
     \/ /\ task[t].status \in {"running", "reconciling"}
        /\ task' = [task EXCEPT ![t].attempt = FALSE,
             ![t].status = IF run = "active" /\ ~Unresolved(t) THEN "ready" ELSE "reconciling"]
        /\ IF run = "active" /\ ~Unresolved(t) THEN Schedule({t}) ELSE UNCHANGED slot
        /\ run' = IF run = "active" /\ Unresolved(t) THEN "paused" ELSE run
     \/ task[t].status \notin {"validating", "running", "reconciling"} /\ UNCHANGED <<task, slot, run>>
  /\ UNCHANGED <<late, proc, worker, loop, crashes>>

Started ==
  /\ proc = "starting" /\ todo = {}
  /\ proc' = "up"
  /\ IF run = "active" THEN SaveAndWake(task) ELSE UNCHANGED <<task, slot>>
  /\ UNCHANGED <<run, late, worker, loop, todo, crashes>>

Gone == /\ worker' = [t \in Tasks |-> Idle] /\ tick' = "idle" /\ batch' = {} /\ at' = {} /\ todo' = {}

Crash ==
  /\ proc # "down" /\ crashes < MaxCrashes
  /\ crashes' = crashes + 1
  /\ proc' = "down"
  /\ Gone
  /\ UNCHANGED <<run, late, task, slot>>

\* close: no further tick; a tick under way ends; then every worker is aborted.
Close ==
  /\ proc \in {"up", "stopped"} /\ crashes < MaxCrashes
  /\ crashes' = crashes + 1
  /\ proc' = "closing"
  /\ UNCHANGED <<run, late, task, slot, worker, loop, todo>>

CloseAborts ==
  /\ proc = "closing" /\ tick = "idle"
  /\ worker' = Aborting(worker)
  /\ worker' # worker
  /\ UNCHANGED <<run, late, task, slot, proc, loop, todo, crashes>>

Closed ==
  /\ proc = "closing" /\ tick = "idle"
  /\ \A t \in Tasks : ~Running(t)
  /\ proc' = "down"
  /\ Gone
  /\ UNCHANGED <<run, late, task, slot, crashes>>

-----------------------------------------------------------------------------
(* The scheduler, #tick.                                                     *)

\* The run, after a deadline that passed has paused it.
Overdue == run = "active" /\ late

RunNow == IF ~Overdue THEN run ELSE IF Attempts = {} THEN "paused" ELSE "pausing"

BeginTick == proc = "up" /\ tick = "idle" /\ tick' = "claim" /\ UNCHANGED <<late, proc, batch, at, todo, crashes>>

\* An active run: wake the tasks that wait for nothing any more.
TickScan ==
  /\ BeginTick
  /\ RunNow = "active"
  /\ SaveAndWake(task)
  /\ UNCHANGED <<run, worker>>

\* A run that must not go on: abort its workers.
TickAbort ==
  /\ BeginTick
  /\ RunNow \in {"paused", "pausing", "cancelling", "failed"}
  /\ \E t \in Tasks : Running(t)
  /\ run' = RunNow
  /\ worker' = Aborting(worker)
  /\ UNCHANGED <<task, slot>>

CancelledTask(t) == IF task[t].status \in Terminal THEN task[t] ELSE [task[t] EXCEPT !.status = "cancelled"]

\* Mutant: a task that is to be reconciled holds the control up.
MayDrainReconciled == Attempts = {} /\ \A t \in Tasks : task[t].status # "reconciling"

MayDrain == Attempts = {} /\ \A t \in Tasks : ~Unresolved(t)

\* No worker is left: #settleControl confirms the control, unless some effect is
\* unresolved.
TickDrain ==
  /\ BeginTick
  /\ \A t \in Tasks : ~Running(t)
  /\ RunNow \notin {"active"}
  /\ IF RunNow \in {"pausing", "cancelling"} /\ MayDrain
     THEN /\ run' = IF RunNow = "pausing" THEN "paused" ELSE "cancelled"
          /\ task' = IF RunNow = "cancelling" THEN [t \in Tasks |-> CancelledTask(t)] ELSE task
     ELSE run' = RunNow /\ UNCHANGED task
  /\ UNCHANGED <<slot, worker>>

\* claimEffects: due rows of an active run.
Claim(S) ==
  /\ tick = "claim"
  /\ \A k \in S : slot[k] = "pending" /\ run = "active"
  /\ slot' = [k \in Keys |-> IF k \in S THEN "leased" ELSE slot[k]]
  /\ batch' = S
  /\ tick' = IF S = {} THEN "idle" ELSE "effects"
  /\ UNCHANGED <<run, late, task, proc, worker, at, todo, crashes>>

\* Effect k is done with; the tick ends with the last one.
EffectDone(k, retry) ==
  /\ SettleSlot(k, retry)
  /\ batch' = batch \ {k}
  /\ at' = {}
  /\ tick' = IF batch = {k} THEN "idle" ELSE "effects"

Full == Cardinality({t \in Tasks : Running(t) /\ task[t].status = "running"}) >= MaxActive

\* The task cannot be looked at now: the effect is retried.
MustWait(t) == todo # {} \/ Running(t) \/ Full

\* An effect that needs no admission.
PassOver(k) ==
  /\ tick = "effects" /\ at = {} /\ k \in batch
  /\ LET t == TaskOf(k) IN
       \/ run # "active" /\ EffectDone(k, FALSE)
       \/ run = "active" /\ MustWait(t) /\ EffectDone(k, TRUE)
       \/ run = "active" /\ ~MustWait(t) /\ task[t].status \notin {"ready", "validating"} /\ EffectDone(k, FALSE)
  /\ UNCHANGED <<run, late, task, proc, worker, todo, crashes>>

\* The revision of a task that has no worker: nothing else of its row changes then.
Revision(t) == <<task[t].status, task[t].inputs>>

\* #tick awaits the resources of the task (#admit).
Admit(k) ==
  /\ tick = "effects" /\ at = {} /\ k \in batch
  /\ run = "active" /\ ~MustWait(TaskOf(k)) /\ ~Running(TaskOf(k))
  /\ task[TaskOf(k)].status \in {"ready", "validating"}
  /\ at' = {[key |-> k, revision |-> Revision(TaskOf(k)), stale |-> FALSE]}
  /\ UNCHANGED <<run, late, task, slot, proc, worker, tick, batch, todo, crashes>>

AdmitBusy(a) ==
  /\ ~a.stale
  /\ EffectDone(a.key, TRUE)
  /\ UNCHANGED <<run, late, task, proc, worker, todo, crashes>>

StillCurrent(a) == run = "active" /\ Revision(TaskOf(a.key)) = a.revision

\* Control or input changed during the admission: #tick releases the resources,
\* which it awaits ...
AdmitStale(a) ==
  /\ ~a.stale
  /\ ~StillCurrent(a) \/ todo # {}
  /\ at' = {[a EXCEPT !.stale = TRUE]}
  /\ UNCHANGED <<run, late, task, slot, proc, worker, tick, batch, todo, crashes>>

\* ... and then drops the effect.
DropStale(a) ==
  /\ a.stale
  /\ EffectDone(a.key, FALSE)
  /\ UNCHANGED <<run, late, task, proc, worker, todo, crashes>>

\* startAttempt: refused when the deadline has passed or no place is left.
MayStart(t) == run = "active" /\ ~late /\ Accepted(task, t) /\ Cardinality(Attempts) < MaxActive

\* A worker of t; one whose admission failed has nothing to do but to fail.
Starting(t, phase, error) ==
  worker' = [worker EXCEPT ![t] = [Idle EXCEPT
    !.phase = IF error = "none" THEN phase ELSE "block", !.error = error,
    !.observed = IF phase = "validate" THEN task[t].inputs ELSE 0]]

\* #launch, after an admission that succeeded or failed.
Launch(a) ==
  /\ ~a.stale /\ StillCurrent(a)
  /\ LET t == TaskOf(a.key) IN \E error \in Errors \cup {"none"} :
       /\ error # "none" \/ todo = {}
       /\ \/ /\ a.revision[1] = "ready" /\ MayStart(t)
             /\ task' = [task EXCEPT ![t].status = "running", ![t].attempt = TRUE]
             /\ Starting(t, "prepare", error)
          \/ /\ a.revision[1] = "validating"
             /\ Starting(t, "validate", error)
             /\ UNCHANGED task
  /\ EffectDone(a.key, FALSE)
  /\ UNCHANGED <<run, late, proc, todo, crashes>>

\* startAttempt throws: the effect is settled and the tick ends.  The engine stops,
\* unless resume started the tick and gets the error.  Effects claimed and not
\* processed stay leased.
LaunchRefused(a) ==
  /\ ~a.stale /\ StillCurrent(a) /\ a.revision[1] = "ready" /\ ~MayStart(TaskOf(a.key))
  /\ SettleSlot(a.key, FALSE)
  /\ Fatal(worker) \/ UNCHANGED <<proc, worker>>
  /\ tick' = "idle" /\ batch' = {} /\ at' = {}
  /\ UNCHANGED <<run, late, task, todo, crashes>>

\* The lease of an effect a refused tick left behind runs out.
LeaseExpires(k) ==
  /\ slot[k] \in {"leased", "superseded"} /\ k \notin batch
  /\ slot' = [slot EXCEPT ![k] = "pending"]
  /\ UNCHANGED <<run, late, task, proc, worker, loop, todo, crashes>>

-----------------------------------------------------------------------------
(* A worker, #work.                                                          *)

\* assertLive.
Live(t) == ~worker[t].aborted /\ run = "active" /\ task[t].attempt
At(t, p) == worker[t].phase = p
WorkerOnly == UNCHANGED <<run, late, task, slot, proc, loop, todo, crashes>>
TaskOnly == UNCHANGED <<run, late, slot, proc, loop, todo, crashes>>

\* Up to the agent loop: the journal is recovered, an answered wait is consumed,
\* an open one is yielded to.
Prepare(t) ==
  /\ At(t, "prepare")
  /\ \/ task[t].wait = "none" /\ UNCHANGED task
        /\ worker' = [worker EXCEPT ![t].phase = "work", ![t].observed = task[t].inputs]
     \/ task[t].wait = "open" /\ Phase(t, "yield") /\ UNCHANGED task
     \/ task[t].wait = "answered" /\ Live(t) /\ ~late
        /\ task' = [task EXCEPT ![t].wait = "none"]
        /\ worker' = [worker EXCEPT ![t].phase = "work", ![t].observed = task[t].inputs]
  /\ TaskOnly

\* beforeTurn takes the pending inputs (#deliverInputs) ...
TurnStart(t) ==
  /\ At(t, "work") /\ ~Unresolved(t) /\ Live(t)
  /\ worker[t].observed < task[t].inputs \/ task[t].given < task[t].inputs
  /\ worker' = [worker EXCEPT ![t].phase = "deliver", ![t].upto = task[t].inputs]
  /\ WorkerOnly

\* ... writes them to the transcript one by one ...
DeliverInput(t) ==
  /\ At(t, "deliver") /\ Live(t) /\ task[t].given < worker[t].upto
  /\ task' = [task EXCEPT ![t].given = @ + 1]
  /\ UNCHANGED worker /\ TaskOnly

\* ... and then notes the revision the turn works from.
TurnEnd(t) ==
  /\ At(t, "deliver") /\ task[t].given >= worker[t].upto
  /\ worker' = [worker EXCEPT ![t].phase = "work", ![t].observed = task[t].inputs, ![t].upto = 0]
  /\ WorkerOnly

\* A tool that must not be replayed is dispatched; the worker waits for it.
Dispatch(t) ==
  /\ MayAct /\ At(t, "work") /\ Live(t) /\ task[t].effect = "clear"
  /\ task' = [task EXCEPT ![t].effect = "dispatched"]
  /\ UNCHANGED worker /\ TaskOnly

\* It ends, known or not, whatever became of the authority of the worker.
SettleEffect(t) ==
  /\ At(t, "work") /\ task[t].effect = "dispatched"
  /\ \/ task' = [task EXCEPT ![t].effect = "clear"] /\ UNCHANGED worker
     \/ task' = [task EXCEPT ![t].effect = "unknown"] /\ Fails(t, "fault")
  /\ TaskOnly

\* durable_wait with a question: the turn yields after the tool.
AskUser(t) ==
  /\ MayAsk /\ At(t, "work") /\ Live(t) /\ ~late /\ ~Unresolved(t)
  /\ task[t].wait = "none"
  /\ task' = [task EXCEPT ![t].wait = "open"]
  /\ Phase(t, "yield")
  /\ TaskOnly

\* The run after finishAttempt ended the attempt of t.
RunDrained(t) == IF run = "pausing" /\ Attempts = {t} THEN "paused" ELSE run

Parked(t) ==
  CASE run = "cancelling" -> [task[t] EXCEPT !.attempt = FALSE, !.status = "reconciling"]
    [] run = "pausing" -> [task[t] EXCEPT !.attempt = FALSE, !.status = "paused", !.resumeTo = "waiting"]
    [] OTHER -> [task[t] EXCEPT !.attempt = FALSE, !.status = "waiting"]

\* #park: finishAttempt with next = "waiting".
Park(t) ==
  /\ At(t, "yield") /\ task[t].attempt
  /\ LET rows == [task EXCEPT ![t] = Parked(t)] IN
       IF run = "active" THEN SaveAndWake(rows) ELSE task' = rows /\ UNCHANGED slot
  /\ run' = RunDrained(t)
  /\ Phase(t, "cleanup")
  /\ UNCHANGED <<late, proc, loop, todo, crashes>>

\* The deliverable answers every input there is.
MayFinish(t) == Live(t) /\ worker[t].observed = task[t].inputs /\ task[t].given = task[t].inputs

Finish(t) ==
  /\ At(t, "work") /\ ~Unresolved(t) /\ MayFinish(t)
  /\ Phase(t, "submit")
  /\ WorkerOnly

\* TaskInputChanged: an input came during the last turn.
FinishTooEarly(t) ==
  /\ At(t, "work") /\ ~Unresolved(t) /\ Live(t) /\ ~MayFinish(t)
  /\ Fails(t, "busy")
  /\ WorkerOnly

Submitted(t) ==
  LET row == [task[t] EXCEPT !.attempt = FALSE, !.seen = worker[t].observed] IN
  CASE run = "cancelling" -> [row EXCEPT !.status = "reconciling"]
    [] run = "pausing" -> [row EXCEPT !.status = "paused", !.resumeTo = "validating"]
    [] OTHER -> [row EXCEPT !.status = "validating"]

\* finishAttempt with next = "validating".
Submit(t) ==
  /\ At(t, "submit") /\ task[t].attempt
  /\ task' = [task EXCEPT ![t] = Submitted(t)]
  /\ IF Submitted(t).status = "validating" THEN Wake({t}) ELSE UNCHANGED slot
  /\ run' = RunDrained(t)
  /\ Phase(t, "cleanup")
  /\ UNCHANGED <<late, proc, loop, todo, crashes>>

\* Anything a worker awaits can fail; one that has lost its authority does.
WorkerFails(t) ==
  /\ worker[t].phase \in {"prepare", "work", "deliver", "yield", "submit"}
  /\ task[t].effect # "dispatched"
  /\ \E e \in Errors \cup (IF Live(t) /\ ~late /\ task[t].wait # "cancelled" THEN {} ELSE {"fault"}) : Fails(t, e)
  /\ WorkerOnly

-----------------------------------------------------------------------------
(* Acceptance, #validate.                                                    *)

Current(t) == task[t].seen = task[t].inputs

\* Mutant: a candidate is accepted whatever input it answers.
AnyCandidate(t) == ~worker[t].aborted /\ run = "active" /\ task[t].status = "validating"

MayAccept(t) == Current(t) /\ ~worker[t].aborted /\ run = "active" /\ task[t].status = "validating"

\* The checks passed: the task is accepted and its dependants are woken.
Accept(t) ==
  /\ At(t, "validate") /\ MayAccept(t)
  /\ LET rows == [task EXCEPT ![t].status = "succeeded"] IN
       /\ SaveAndWake(rows)
       /\ run' = IF \A u \in Tasks : rows[u].status = "succeeded" THEN "succeeded" ELSE run
  /\ Phase(t, "cleanup")
  /\ UNCHANGED <<late, proc, loop, todo, crashes>>

\* The candidate does not answer the newest input: back to work, for free.
StaleInput(t) ==
  /\ At(t, "validate") /\ ~Current(t) /\ ~worker[t].aborted
  /\ \/ /\ run = "active" /\ task[t].status = "validating"
        /\ task' = [task EXCEPT ![t].status = "ready"]
        /\ Schedule({t})
        /\ Phase(t, "cleanup")
     \/ /\ run # "active" \/ task[t].status # "validating"
        /\ Fails(t, "fault")
        /\ UNCHANGED <<task, slot>>
  /\ UNCHANGED <<run, late, proc, loop, todo, crashes>>

\* The checks failed, or could not be made: #retryValidation first appends the
\* reason to the transcript.
CheckFails(t) ==
  /\ At(t, "validate") /\ ~worker[t].aborted
  /\ Phase(t, "reject")
  /\ WorkerOnly

\* An aborted acceptance fails; so can the append.
ValidationFails(t) ==
  /\ \/ At(t, "validate") /\ worker[t].aborted
     \/ At(t, "reject") /\ Errors # {}
  /\ Fails(t, "fault")
  /\ WorkerOnly

\* The rejection is committed, if the task is still the one that was validated.
Reject(t) ==
  /\ At(t, "reject")
  /\ run = "active" /\ worker[t].observed = task[t].inputs
  /\ LET spent == task[t].rejections + 1 > MaxRetries
         rows == [task EXCEPT ![t].status = IF spent THEN "failed" ELSE "ready", ![t].rejections = @ + 1] IN
       IF spent THEN run' = "failed" /\ task' = WaitsCancelled(rows) /\ UNCHANGED slot
       ELSE task' = rows /\ Schedule({t}) /\ UNCHANGED run
  /\ Phase(t, "cleanup")
  /\ UNCHANGED <<late, proc, loop, todo, crashes>>

\* "Validation authority changed", "Validation state changed".
RejectRefused(t) ==
  /\ At(t, "reject")
  /\ run # "active" \/ worker[t].observed # task[t].inputs
  /\ Fails(t, "fault")
  /\ WorkerOnly

-----------------------------------------------------------------------------
(* The end of a worker.                                                      *)

\* WorkerResources.close.
Cleanup(t) ==
  /\ At(t, "cleanup")
  /\ Phase(t, "leave") \/ (MayFailCleanup /\ Fails(t, "fault"))
  /\ WorkerOnly

\* Mutant: #block does not look at the state of the run.
OpenWhateverControl == proc # "closing"

\* #block may restart the task or pause the run.
Open == run = "active" /\ proc # "closing"

MayRetry(t) ==
  /\ ~Unresolved(t)
  /\ \/ worker[t].error = "busy"
     \/ worker[t].error = "transient" /\ task[t].retries < MaxRetries

\* #block: the attempt ends; an active run tries again or is paused.
Block(t) ==
  /\ At(t, "block")
  /\ \/ task[t].status \in Terminal
        /\ Phase(t, "leave")
        /\ UNCHANGED <<run, task, slot, proc>>
     \/ /\ task[t].status = "ready"        \* ready -> reconciling is not a transition
        /\ Fatal([worker EXCEPT ![t].phase = "leave"])
        /\ UNCHANGED <<run, task, slot>>
     \/ /\ task[t].status \notin Terminal \cup {"ready"}
        /\ LET row == [task[t] EXCEPT !.attempt = FALSE] IN
           IF Open /\ MayRetry(t)
           THEN /\ task' = [task EXCEPT ![t] = [row EXCEPT !.status = "ready",
                     !.retries = IF worker[t].error = "transient" THEN @ + 1 ELSE @]]
                /\ Schedule({t})
                /\ UNCHANGED run
           ELSE /\ task' = [task EXCEPT ![t] = [row EXCEPT !.status = "reconciling"]]
                /\ run' = IF Open THEN "paused" ELSE run
                /\ UNCHANGED slot
        /\ Phase(t, "leave")
        /\ UNCHANGED proc
  /\ UNCHANGED <<late, loop, todo, crashes>>

\* The resources of the task are released.
Leave(t) ==
  /\ At(t, "leave")
  /\ worker' = [worker EXCEPT ![t] = Idle]
  /\ WorkerOnly

-----------------------------------------------------------------------------
(* The user, through the commands of the runtime server.                     *)

Serving == proc \in {"up", "stopped"}

Pause ==
  /\ Serving /\ run = "active"
  /\ run' = IF Attempts = {} THEN "paused" ELSE "pausing"
  /\ UNCHANGED <<late, task, slot, proc, worker, loop, todo, crashes>>

Resumable == run = "paused" /\ ~late /\ todo = {} /\ Attempts = {}

Unpaused(row) ==
  IF row.status # "paused" THEN row
  ELSE [row EXCEPT !.status = IF row.resumeTo = "none" THEN "ready" ELSE row.resumeTo, !.resumeTo = "none"]

\* resume: resumeRun, after which the tasks that need it are recovered.
Resume ==
  /\ proc = "up" /\ Resumable
  /\ run' = "active"
  /\ LET rows == [t \in Tasks |-> Unpaused(task[t])]
         ready == {t \in Tasks : rows[t].status = "ready"} \cup Woken(rows)
         validating == {t \in Tasks : rows[t].status = "validating"} IN
       /\ task' = Readied(rows, ready)
       /\ slot' = Enqueued(({"schedule"} \X ready) \cup ({"wake"} \X validating))
       /\ todo' = {t \in Tasks : rows[t].status = "reconciling"}
  /\ UNCHANGED <<late, proc, worker, loop, crashes>>

Cancel ==
  /\ Serving /\ run \in {"active", "pausing", "paused"}
  /\ run' = "cancelling"
  /\ task' = WaitsCancelled(task)
  /\ UNCHANGED <<late, slot, proc, worker, loop, todo, crashes>>

TakesInput == Serving /\ run \in {"active", "paused", "pausing"} /\ ~late

\* answer: waking is left to the next scan of the owner.
Answer(t) ==
  /\ TakesInput /\ task[t].wait = "open"
  /\ task' = [task EXCEPT ![t].wait = "answered"]
  /\ UNCHANGED worker /\ TaskOnly

\* followup: the effect it enqueues has a key of its own and starts nothing.
Followup(t) ==
  /\ TakesInput /\ task[t].status \notin Terminal /\ task[t].inputs < MaxInputs
  /\ task' = [task EXCEPT ![t].inputs = @ + 1]
  /\ UNCHANGED worker /\ TaskOnly

\* reconcile: the operator supplies the outcome of an operation.
Reconcile(t) ==
  /\ Serving /\ run # "active" /\ ~Running(t) /\ Unresolved(t)
  /\ task' = [task EXCEPT ![t].effect = "clear"]
  /\ UNCHANGED worker /\ TaskOnly

\* updateLimits, with a later deadline.
Extend ==
  /\ Serving /\ run = "paused" /\ Attempts = {} /\ late
  /\ late' = FALSE
  /\ UNCHANGED <<run, task, slot, proc, worker, loop, todo, crashes>>

DeadlinePasses ==
  /\ MayExpire /\ ~late
  /\ late' = TRUE
  /\ UNCHANGED <<run, task, slot, proc, worker, loop, todo, crashes>>

-----------------------------------------------------------------------------
WorkerStep(t) ==
  \/ Prepare(t) \/ TurnStart(t) \/ DeliverInput(t) \/ TurnEnd(t)
  \/ Dispatch(t) \/ SettleEffect(t) \/ AskUser(t) \/ Park(t)
  \/ Finish(t) \/ FinishTooEarly(t) \/ Submit(t) \/ WorkerFails(t)
  \/ Accept(t) \/ StaleInput(t) \/ CheckFails(t) \/ ValidationFails(t)
  \/ Reject(t) \/ RejectRefused(t)
  \/ Cleanup(t) \/ Block(t) \/ Leave(t)

SchedulerStep ==
  \/ TickScan \/ TickAbort \/ TickDrain
  \/ \E S \in SUBSET Keys : Claim(S)
  \/ \E k \in Keys : PassOver(k) \/ Admit(k) \/ LeaseExpires(k)
  \/ \E a \in at : AdmitBusy(a) \/ AdmitStale(a) \/ DropStale(a) \/ Launch(a) \/ LaunchRefused(a)

OwnerStep ==
  \/ Start \/ \E t \in Tasks : Recover(t)
  \/ Started \/ Crash \/ Close \/ CloseAborts \/ Closed

UserStep ==
  \/ Pause \/ Resume \/ Cancel \/ Extend \/ DeadlinePasses
  \/ \E t \in Tasks : Answer(t) \/ Followup(t) \/ Reconcile(t)

Next == OwnerStep \/ SchedulerStep \/ UserStep \/ \E t \in Tasks : WorkerStep(t)

Spec == Init /\ [][Next]_vars

(***************************************************************************)
(* Fairness: the process goes on with what it has begun, and time passes.   *)
(* Tools and model requests end (they have timeouts and maxTurns), and the  *)
(* resources a task waits for are free from time to time, which takes the    *)
(* strong form.  Nothing is asked of the user, of crashes or of restarts.    *)
(***************************************************************************)
Ends(t) == Finish(t) \/ FinishTooEarly(t) \/ WorkerFails(t)

Fairness ==
  /\ WF_vars(\E t \in Tasks : Recover(t)) /\ WF_vars(Started)
  /\ WF_vars(TickScan) /\ WF_vars(TickAbort) /\ WF_vars(TickDrain)
  /\ WF_vars(\E S \in SUBSET Keys : Claim(S))
  /\ SF_vars(\E S \in SUBSET Keys : S = {k \in Keys : slot[k] = "pending"} /\ S # {} /\ Claim(S))
  /\ WF_vars(\E k \in Keys : PassOver(k) \/ Admit(k))
  /\ WF_vars(\E a \in at : AdmitBusy(a) \/ AdmitStale(a) \/ DropStale(a) \/ Launch(a) \/ LaunchRefused(a))
  /\ \A t \in Tasks :
       /\ SF_vars(\E a \in at : TaskOf(a.key) = t /\ Launch(a))
       /\ SF_vars(Ends(t))
       /\ WF_vars(Prepare(t)) /\ WF_vars(TurnStart(t) \/ DeliverInput(t) \/ TurnEnd(t))
       /\ WF_vars(SettleEffect(t)) /\ WF_vars(Park(t) \/ Submit(t))
       /\ WF_vars(Accept(t) \/ StaleInput(t) \/ CheckFails(t) \/ ValidationFails(t))
       /\ WF_vars(Reject(t) \/ RejectRefused(t) \/ ValidationFails(t))
       /\ WF_vars(Cleanup(t)) /\ WF_vars(Block(t)) /\ WF_vars(Leave(t))

FairSpec == Spec /\ Fairness

-----------------------------------------------------------------------------
(* What must hold.                                                           *)

\* Types of the rows, of the slots and of what the process keeps in memory.
TypeOK ==
  /\ run \in RunStates /\ late \in BOOLEAN
  /\ task \in [Tasks -> TaskRow]
  /\ slot \in [Keys -> {"none", "pending", "leased", "superseded"}]
  /\ proc \in {"up", "stopped", "closing", "down", "starting"}
  /\ worker \in [Tasks -> WorkerState]
  /\ tick \in {"idle", "claim", "effects"}
  /\ batch \in SUBSET Keys
  /\ at \in SUBSET [key: batch, revision: TaskStates \X Nat, stale: BOOLEAN]
  /\ todo \in SUBSET Tasks
  /\ crashes \in Nat

Working == {"prepare", "work", "deliver", "yield", "submit"}

\* An active attempt belongs to a running task and, once the owner has started,
\* to a worker that still drives it; a worker never drives a task that was taken
\* from it (startAttempt, finishAttempt, #block, #recover).
AttemptsAreDriven ==
  \A t \in Tasks :
    /\ task[t].attempt <=> task[t].status = "running"
    /\ worker[t].phase \in Working => task[t].attempt
    /\ worker[t].phase \in {"validate", "reject"} => task[t].status = "validating"
    /\ task[t].attempt /\ proc \notin {"down", "starting"} => worker[t].phase \in Working \cup {"block"}

\* A task whose effect is not known to be settled is being worked on or held for
\* reconciliation: it is never rescheduled, submitted, accepted or cancelled.
UnknownEffectsHold ==
  \A t \in Tasks : Unresolved(t) => task[t].status \in {"running", "reconciling"}

\* An accepted task was accepted for every input it was given, each of which
\* reached its transcript (#deliverInputs, #work, #validate).
AcceptedIsCurrent ==
  \A t \in Tasks : task[t].status = "succeeded" =>
    task[t].seen = task[t].inputs /\ task[t].given = task[t].inputs

\* A task has no life before the tasks it depends on are accepted, and the run
\* succeeded exactly if all its tasks did (wakeWaiting, the acceptance).
DependenciesFirst ==
  /\ \A t \in Tasks : task[t].status \notin {"waiting", "cancelled"} => Accepted(task, t)
  /\ run = "succeeded" <=> \A t \in Tasks : task[t].status = "succeeded"

\* A cancelled run has drained: every task has ended, nothing works on it and no
\* effect is open (#settleControl).
CancelledIsDrained ==
  run = "cancelled" =>
    /\ \A t \in Tasks : task[t].status \in Terminal /\ ~Unresolved(t)
    /\ \A t \in Tasks : worker[t].phase \notin Working \cup {"validate", "reject"}

\* Tasks and run keep to the order of the plan, from the first dependency to the
\* confirmed cancellation.
RuntimeSafety == TypeOK /\ DependenciesFirst /\ CancelledIsDrained

\* A task that can go on has a wake-up, a worker, or is about to be recovered.
Stranded(t) ==
  /\ ~Running(t) /\ t \notin todo
  /\ \/ task[t].status \in {"ready", "validating"} /\ \A kind \in Kinds : slot[<<kind, t>>] = "none"
     \/ task[t].status \in {"reconciling", "paused", "running"}

\* While its run is active no task is left without anybody who will come back
\* to it (claimEffects, #tick, #recover, #block, resumeRun).
NoneStranded == run = "active" /\ proc = "up" /\ ~late => \A t \in Tasks : ~Stranded(t)

\* What the user requested is not taken back by the runtime: a cancellation ends
\* in cancelled, a pause in paused unless the user cancels, an ended run stays.
ControlHolds ==
  [][/\ run = "cancelling" => run' \in {"cancelling", "cancelled"}
     /\ run = "pausing" => run' \in {"pausing", "paused", "cancelling"}
     /\ run \in {"cancelled", "succeeded", "failed"} => run' = run]_vars

\* A requested pause or cancellation is confirmed, unless the outcome of an effect
\* is missing or the owner stops (#tick aborts, #settleControl confirms).
ControlDrains ==
  run \in {"pausing", "cancelling"} ~>
    \/ run \notin {"pausing", "cancelling"}
    \/ proc # "up"
    \/ \E t \in Tasks : Unresolved(t)

\* A task that parked for an answer goes on once it has it (answer, scanWaiting,
\* wakeWaiting), however parking and answering are ordered.
AnswerResumes ==
  \A t \in Tasks :
    task[t].status = "waiting" /\ task[t].wait = "answered" ~>
      \/ task[t].status # "waiting" \/ run # "active" \/ late \/ proc # "up"

\* A run whose deadline passed is paused, also when the deadline passes between
\* the check of #tick and startAttempt.
OverdueStops == run = "active" /\ late ~> run # "active" \/ proc # "up"

\* Controls, answers and deadlines all take effect in the end.
RunsMoveOn == ControlDrains /\ AnswerResumes /\ OverdueStops

(* What the documentation says and the code does not keep.                   *)

\* "New requirements ... are carried out incrementally in the original task": a
\* task that is ready and has a new input is taken up (followup, #tick).
InputIsTakenUp ==
  \A t \in Tasks :
    task[t].status = "ready" /\ task[t].given < task[t].inputs ~>
      \/ task[t].status # "ready" \/ run # "active" \/ proc # "up"
=============================================================================
