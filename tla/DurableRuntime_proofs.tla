------------------------- MODULE DurableRuntime_proofs -------------------------
(***************************************************************************)
(* Theorems about DurableRuntime for any graph of tasks, any limits, any     *)
(* number of follow-ups and any number of crashes and restarts.              *)
(***************************************************************************)
EXTENDS DurableRuntime, FiniteSetTheorems, TLAPS

\* #tick looks at one task at a time, which has no worker then.
AtShape == at # {} => tick = "effects" /\ \A a \in at : ~Running(TaskOf(a.key))

\* An owner that is not up yet does nothing but recover.
DownShape == proc \in {"down", "starting"} => tick = "idle" /\ at = {} /\ \A t \in Tasks : ~Running(t)

-----------------------------------------------------------------------------
\* Slots keep their states whatever is enqueued, settled or reclaimed.
SlotStates == {"none", "pending", "leased", "superseded"}

LEMMA EnqueuedType == ASSUME TypeOK, NEW S PROVE Enqueued(S) \in [Keys -> SlotStates]
BY DEF TypeOK, Enqueued, SlotStates

LEMMA SettledType ==
  ASSUME TypeOK, NEW k \in Keys, NEW retry \in BOOLEAN, SettleSlot(k, retry) PROVE slot' \in [Keys -> SlotStates]
BY DEF TypeOK, SettleSlot, SlotStates

\* Rows keep their type when waiting tasks are woken.
LEMMA ReadiedType ==
  ASSUME NEW rows \in [Tasks -> TaskRow], NEW S PROVE Readied(rows, S) \in [Tasks -> TaskRow]
BY DEF Readied, TaskRow, TaskStates

LEMMA SavedType ==
  ASSUME TypeOK, NEW rows \in [Tasks -> TaskRow], SaveAndWake(rows)
  PROVE  task' \in [Tasks -> TaskRow] /\ slot' \in [Keys -> SlotStates]
BY ReadiedType, EnqueuedType DEF SaveAndWake, Schedule

LEMMA AbortingType == ASSUME NEW w \in [Tasks -> WorkerState] PROVE Aborting(w) \in [Tasks -> WorkerState]
BY DEF Aborting, WorkerState

LEMMA WaitsType == ASSUME NEW rows \in [Tasks -> TaskRow] PROVE WaitsCancelled(rows) \in [Tasks -> TaskRow]
BY DEF WaitsCancelled, TaskRow

LEMMA IdleType == Idle \in WorkerState
BY DEF Idle, WorkerState

Phases == {"none", "prepare", "work", "deliver", "yield", "submit", "validate", "reject", "block", "cleanup", "leave"}

\* A worker that moves on, or fails, stays otherwise as it is, and so do the others.
LEMMA PhaseIs ==
  ASSUME TypeOK, NEW t \in Tasks, NEW p \in Phases, Phase(t, p)
  PROVE  /\ worker' \in [Tasks -> WorkerState]
         /\ \A u \in Tasks : /\ worker'[u].phase = IF u = t THEN p ELSE worker[u].phase
                             /\ worker'[u].observed = worker[u].observed
                             /\ worker'[u].error = worker[u].error
BY DEF TypeOK, WorkerState, Phase, Phases

LEMMA FailsIs ==
  ASSUME TypeOK, NEW t \in Tasks, NEW e \in {"none", "busy", "transient", "fault"}, Fails(t, e)
  PROVE  /\ worker' \in [Tasks -> WorkerState]
         /\ \A u \in Tasks : /\ worker'[u].phase = IF u = t THEN "block" ELSE worker[u].phase
                             /\ worker'[u].observed = worker[u].observed
                             /\ u # t => worker'[u].error = worker[u].error
         /\ worker'[t].error \in {e, "fault"}
<1>1. PICK f \in {e, "fault"} : worker' = [worker EXCEPT ![t].phase = "block", ![t].error = f]
  BY DEF Fails
<1> QED
  BY <1>1 DEF TypeOK, WorkerState


LEMMA DoneType ==
  ASSUME TypeOK, NEW k \in Keys, NEW retry \in BOOLEAN, EffectDone(k, retry)
  PROVE  /\ slot' \in [Keys -> SlotStates] /\ tick' \in {"idle", "claim", "effects"} /\ batch' \in SUBSET Keys
         /\ at' = {}
BY SettledType DEF EffectDone, TypeOK

LEMMA AbortingIs ==
  ASSUME NEW w \in [Tasks -> WorkerState]
  PROVE  /\ Aborting(w) \in [Tasks -> WorkerState]
         /\ \A u \in Tasks : /\ Aborting(w)[u].phase = w[u].phase /\ Aborting(w)[u].observed = w[u].observed
                             /\ Aborting(w)[u].error = w[u].error
BY DEF Aborting, WorkerState

\* A row without its attempt, with the status s.
LEMMA DetachedRow ==
  ASSUME NEW r \in TaskRow, NEW s \in TaskStates PROVE [r EXCEPT !.attempt = FALSE, !.status = s] \in TaskRow
BY DEF TaskRow

LEMMA Detached ==
  ASSUME TypeOK, NEW t \in Tasks, NEW s \in TaskStates,
         task' = [task EXCEPT ![t].attempt = FALSE, ![t].status = s]
  PROVE  /\ task' \in [Tasks -> TaskRow]
         /\ \A u \in Tasks \ {t} : task'[u] = task[u]
         /\ ~task'[t].attempt /\ task'[t].status = s
         /\ task'[t].effect = task[t].effect /\ task'[t].inputs = task[t].inputs
         /\ task'[t].given = task[t].given /\ task'[t].seen = task[t].seen
         /\ task'[t].resumeTo = task[t].resumeTo /\ task'[t].wait = task[t].wait
<1>1. [task[t] EXCEPT !.attempt = FALSE, !.status = s] \in TaskRow
  BY DetachedRow DEF TypeOK
<1>2. task \in [Tasks -> TaskRow]
  BY DEF TypeOK
<1>3. task' = [task EXCEPT ![t] = [task[t] EXCEPT !.attempt = FALSE, !.status = s]]
  BY <1>2, Zenon
<1>4. task' \in [Tasks -> TaskRow]
  BY <1>1, <1>2, <1>3
<1> QED
  BY <1>4 DEF TypeOK, TaskRow

\* A recovered task has no attempt; what was running is ready or reconciling.
LEMMA RecoverIs ==
  ASSUME TypeOK, NEW t \in Tasks, Recover(t)
  PROVE  /\ task' \in [Tasks -> TaskRow]
         /\ \A u \in Tasks \ {t} : task'[u] = task[u]
         /\ task'[t].effect = task[t].effect /\ task'[t].inputs = task[t].inputs
         /\ task'[t].given = task[t].given /\ task'[t].seen = task[t].seen
         /\ task'[t].resumeTo = task[t].resumeTo /\ task'[t].wait = task[t].wait
         /\ ~task'[t].attempt \/ task' = task
         /\ \/ task'[t].status = task[t].status /\ task[t].status \notin {"running", "reconciling"}
            \/ /\ task[t].status \in {"running", "reconciling"} /\ ~task'[t].attempt
               /\ task'[t].status = "reconciling" \/ (task'[t].status = "ready" /\ ~Unresolved(t) /\ run = "active")
<1>1. CASE task[t].status = "validating" /\ task' = [task EXCEPT ![t].attempt = FALSE]
  <2>1. task' = [task EXCEPT ![t].attempt = FALSE, ![t].status = "validating"]
    <3>1. task \in [Tasks -> TaskRow] /\ task[t] = [task[t] EXCEPT !.status = "validating"]
      BY <1>1 DEF TypeOK, TaskRow
    <3> QED
      BY <1>1, <3>1 DEF TaskRow
  <2> QED
    BY <1>1, <2>1, Detached DEF TaskStates
<1>2. CASE task[t].status \notin {"validating", "running", "reconciling"} /\ task' = task
  BY <1>2 DEF TypeOK
<1>3. CASE task[t].status \in {"running", "reconciling"} /\ task' = [task EXCEPT ![t].attempt = FALSE,
             ![t].status = IF run = "active" /\ ~Unresolved(t) THEN "ready" ELSE "reconciling"]
  <2>1. CASE run = "active" /\ ~Unresolved(t)
    <3>1. task' = [task EXCEPT ![t].attempt = FALSE, ![t].status = "ready"]
      BY <1>3, <2>1
    <3> QED
      BY <1>3, <2>1, <3>1, Detached DEF TaskStates
  <2>2. CASE ~(run = "active" /\ ~Unresolved(t))
    <3>1. task' = [task EXCEPT ![t].attempt = FALSE, ![t].status = "reconciling"]
      BY <1>3, <2>2
    <3> QED
      BY <1>3, <2>2, <3>1, Detached DEF TaskStates
  <2> QED
    BY <2>1, <2>2
<1> QED
  BY <1>1, <1>2, <1>3 DEF Recover

LEMMA UnpausedType == ASSUME NEW r \in TaskRow PROVE Unpaused(r) \in TaskRow
<1>1. PICK s \in TaskStates : s = IF r.resumeTo = "none" THEN "ready" ELSE r.resumeTo
  BY DEF TaskRow, TaskStates
<1>2. [r EXCEPT !.status = s, !.resumeTo = "none"] \in TaskRow
  BY <1>1 DEF TaskRow
<1> QED
  BY <1>1, <1>2 DEF Unpaused

\* The worker of a task that starts.
LEMMA StartingIs ==
  ASSUME TypeOK, NEW t \in Tasks, NEW p \in {"prepare", "validate"}, NEW e \in Errors \cup {"none"}, Starting(t, p, e)
  PROVE  /\ worker' \in [Tasks -> WorkerState]
         /\ \A u \in Tasks \ {t} : worker'[u] = worker[u]
         /\ worker'[t].phase = IF e = "none" THEN p ELSE "block"
         /\ worker'[t].error = e
<1>1. PICK q \in {"prepare", "validate", "block"} : q = IF e = "none" THEN p ELSE "block"
  OBVIOUS
<1>2. PICK o \in Nat : o = IF p = "validate" THEN task[t].inputs ELSE 0
  BY DEF TypeOK, TaskRow
<1>3. e \in {"none", "busy", "transient", "fault"}
  BY RuntimeAssumption
<1>4. worker' = [worker EXCEPT ![t] = [Idle EXCEPT !.phase = q, !.error = e, !.observed = o]]
  BY <1>1, <1>2 DEF Starting
<1>5. /\ [Idle EXCEPT !.phase = q, !.error = e, !.observed = o] \in WorkerState
      /\ [Idle EXCEPT !.phase = q, !.error = e, !.observed = o].phase = q
      /\ [Idle EXCEPT !.phase = q, !.error = e, !.observed = o].error = e
  BY <1>3, IdleType DEF WorkerState
<1> QED
  BY <1>1, <1>4, <1>5 DEF TypeOK

-----------------------------------------------------------------------------
LEMMA TypeInit == Init => TypeOK
<1> SUFFICES ASSUME Init PROVE TypeOK
  OBVIOUS
<1>1. task \in [Tasks -> TaskRow]
  BY DEF Init, TaskRow, TaskStates
<1>2. slot \in [Keys -> SlotStates]
  BY DEF Init, SlotStates
<1>3. worker \in [Tasks -> WorkerState]
  BY IdleType DEF Init
<1> QED
  BY <1>1, <1>2, <1>3 DEF Init, TypeOK, RunStates, SlotStates

LEMMA TypeOwner == TypeOK /\ AtShape /\ OwnerStep => TypeOK'
<1> SUFFICES ASSUME TypeOK, OwnerStep PROVE TypeOK'
  OBVIOUS
<1> USE DEF TypeOK, SlotStates, loop
<1>1. CASE Start
  <2>1. run' \in RunStates
    BY <1>1 DEF Start, RunStates
  <2>2. slot' \in [Keys -> SlotStates]
    BY <1>1 DEF Start
  <2> QED
    BY <1>1, <2>1, <2>2 DEF Start, ToRecover
<1>2. ASSUME NEW t \in Tasks, Recover(t) PROVE TypeOK'
  <2>1. task' \in [Tasks -> TaskRow]
    BY <1>2, RecoverIs
  <2>2. slot' \in [Keys -> SlotStates]
    BY <1>2, EnqueuedType DEF Recover, Schedule, Wake
  <2>3. run' \in RunStates
    BY <1>2 DEF Recover, RunStates
  <2> QED
    BY <1>2, <2>1, <2>2, <2>3 DEF Recover
<1>3. CASE Started
  <2>1. task' \in [Tasks -> TaskRow] /\ slot' \in [Keys -> SlotStates]
    BY <1>3, SavedType DEF Started
  <2> QED
    BY <1>3, <2>1 DEF Started
<1>4. CASE Crash
  BY <1>4, IdleType DEF Crash, Gone
<1>5. CASE Close
  BY <1>5 DEF Close
<1>6. CASE CloseAborts
  BY <1>6, AbortingType DEF CloseAborts
<1>7. CASE Closed
  BY <1>7, IdleType DEF Closed, Gone
<1> QED
  BY <1>1, <1>2, <1>3, <1>4, <1>5, <1>6, <1>7 DEF OwnerStep

LEMMA TypeScheduler == TypeOK /\ AtShape /\ SchedulerStep => TypeOK'
<1> SUFFICES ASSUME TypeOK, AtShape, SchedulerStep PROVE TypeOK'
  OBVIOUS
<1> USE DEF TypeOK, SlotStates, loop
<1>1. CASE TickScan
  <2>1. task' \in [Tasks -> TaskRow] /\ slot' \in [Keys -> SlotStates]
    BY <1>1, SavedType DEF TickScan
  <2> QED
    BY <1>1, <2>1 DEF TickScan, BeginTick
<1>2. CASE TickAbort
  BY <1>2, AbortingType DEF TickAbort, BeginTick, RunNow, RunStates
<1>3. CASE TickDrain
  <2>1. run' \in RunStates
    BY <1>3 DEF TickDrain, RunNow, RunStates
  <2>2. task' \in [Tasks -> TaskRow]
    BY <1>3 DEF TickDrain, CancelledTask, TaskRow, TaskStates
  <2> QED
    BY <1>3, <2>1, <2>2 DEF TickDrain, BeginTick
<1>4. ASSUME NEW S \in SUBSET Keys, Claim(S) PROVE TypeOK'
  BY <1>4 DEF Claim, AtShape
<1>5. ASSUME NEW k \in Keys, PassOver(k) PROVE TypeOK'
  BY <1>5, DoneType DEF PassOver
<1>6. ASSUME NEW k \in Keys, Admit(k) PROVE TypeOK'
  <2>1. TaskOf(k) \in Tasks
    BY DEF TaskOf, Keys
  <2>2. Revision(TaskOf(k)) \in TaskStates \X Nat
    BY <2>1 DEF Revision, TaskRow
  <2> QED
    BY <1>6, <2>2 DEF Admit
<1>7. ASSUME NEW k \in Keys, LeaseExpires(k) PROVE TypeOK'
  BY <1>7 DEF LeaseExpires
<1>8. ASSUME NEW a \in at, AdmitBusy(a) \/ DropStale(a) PROVE TypeOK'
  BY <1>8, DoneType DEF AdmitBusy, DropStale
<1>9. ASSUME NEW a \in at, AdmitStale(a) PROVE TypeOK'
  BY <1>9 DEF AdmitStale
<1>10. ASSUME NEW a \in at, Launch(a) PROVE TypeOK'
  <2>1. a.key \in Keys
    OBVIOUS
  <2>2. TaskOf(a.key) \in Tasks
    BY <2>1 DEF TaskOf, Keys
  <2>3. slot' \in [Keys -> SlotStates] /\ tick' \in {"idle", "claim", "effects"} /\ batch' \in SUBSET Keys /\ at' = {}
    BY <1>10, <2>1, DoneType DEF Launch
  <2>4. task' \in [Tasks -> TaskRow]
    BY <1>10, <2>2 DEF Launch, TaskRow, TaskStates
  <2>5. worker' \in [Tasks -> WorkerState]
    <3>1. PICK p \in {"prepare", "validate"}, e \in Errors \cup {"none"} : Starting(TaskOf(a.key), p, e)
      BY <1>10 DEF Launch
    <3> QED
      BY <2>2, <3>1, StartingIs
  <2> QED
    BY <1>10, <2>3, <2>4, <2>5 DEF Launch
<1>11. ASSUME NEW a \in at, LaunchRefused(a) PROVE TypeOK'
  <2>1. a.key \in Keys
    OBVIOUS
  <2>2. slot' \in [Keys -> SlotStates]
    BY <1>11, <2>1, SettledType DEF LaunchRefused
  <2>3. worker' \in [Tasks -> WorkerState] /\ proc' \in {"up", "stopped", "closing", "down", "starting"}
    BY <1>11, AbortingType DEF LaunchRefused, Fatal
  <2> QED
    BY <1>11, <2>2, <2>3 DEF LaunchRefused
<1> QED
  BY <1>1, <1>2, <1>3, <1>4, <1>5, <1>6, <1>7, <1>8, <1>9, <1>10, <1>11 DEF SchedulerStep

LEMMA TypeUser == TypeOK /\ UserStep => TypeOK'
<1> SUFFICES ASSUME TypeOK, UserStep PROVE TypeOK'
  OBVIOUS
<1> USE DEF TypeOK, SlotStates, loop
<1>1. CASE Pause \/ Extend \/ DeadlinePasses
  BY <1>1 DEF Pause, Extend, DeadlinePasses, RunStates
<1>2. CASE Resume
  <2>1. [t \in Tasks |-> Unpaused(task[t])] \in [Tasks -> TaskRow]
    BY UnpausedType
  <2>2. task' \in [Tasks -> TaskRow]
    BY <1>2, <2>1, ReadiedType DEF Resume
  <2>3. slot' \in [Keys -> SlotStates]
    BY <1>2, EnqueuedType DEF Resume
  <2>4. todo' \subseteq Tasks
    BY <1>2 DEF Resume
  <2> QED
    BY <1>2, <2>2, <2>3, <2>4 DEF Resume, RunStates
<1>3. CASE Cancel
  BY <1>3, WaitsType DEF Cancel, RunStates
<1>4. ASSUME NEW t \in Tasks, Answer(t) \/ Followup(t) \/ Reconcile(t) PROVE TypeOK'
  <2>1. task' \in [Tasks -> TaskRow]
    BY <1>4 DEF Answer, Followup, Reconcile, TaskRow
  <2> QED
    BY <1>4, <2>1 DEF Answer, Followup, Reconcile, TaskOnly
<1> QED
  BY <1>1, <1>2, <1>3, <1>4 DEF UserStep


\* What ends an attempt leaves of the row: nothing but the status, the attempt and
\* the revision of the candidate is written.
Data(r, q) == r.effect = q.effect /\ r.inputs = q.inputs /\ r.given = q.given

\* The rows finishAttempt and #block write.
Ended(r, s) == [r EXCEPT !.attempt = FALSE, !.status = s]
EndedPaused(r, f) == [r EXCEPT !.attempt = FALSE, !.status = "paused", !.resumeTo = f]
Seen(r, n) == [r EXCEPT !.attempt = FALSE, !.seen = n]
WithStatus(r, s) == [r EXCEPT !.status = s]
Paused(r, f) == [r EXCEPT !.status = "paused", !.resumeTo = f]
Detach(r) == [r EXCEPT !.attempt = FALSE]
Retried(r, n) == [r EXCEPT !.status = "ready", !.retries = n]

LEMMA EndedRow ==
  ASSUME NEW r \in TaskRow, NEW s \in TaskStates
  PROVE  /\ Ended(r, s) \in TaskRow /\ ~Ended(r, s).attempt /\ Ended(r, s).status = s
         /\ Ended(r, s).resumeTo = r.resumeTo /\ Ended(r, s).seen = r.seen /\ Data(Ended(r, s), r)
BY DEF TaskRow, Data, Ended

LEMMA EndedPausedRow ==
  ASSUME NEW r \in TaskRow, NEW f \in {"none", "waiting", "validating"}
  PROVE  /\ EndedPaused(r, f) \in TaskRow /\ ~EndedPaused(r, f).attempt /\ EndedPaused(r, f).status = "paused"
         /\ EndedPaused(r, f).resumeTo = f /\ EndedPaused(r, f).seen = r.seen /\ Data(EndedPaused(r, f), r)
BY DEF TaskRow, TaskStates, Data, EndedPaused

LEMMA SeenRow ==
  ASSUME NEW r \in TaskRow, NEW n \in Nat
  PROVE  Seen(r, n) \in TaskRow /\ ~Seen(r, n).attempt /\ Seen(r, n).seen = n /\ Data(Seen(r, n), r)
BY DEF TaskRow, Data, Seen

LEMMA StatusRow ==
  ASSUME NEW r \in TaskRow, NEW s \in TaskStates
  PROVE  /\ WithStatus(r, s) \in TaskRow /\ (WithStatus(r, s).attempt <=> r.attempt) /\ WithStatus(r, s).status = s
         /\ WithStatus(r, s).resumeTo = r.resumeTo /\ WithStatus(r, s).seen = r.seen /\ Data(WithStatus(r, s), r)
BY DEF TaskRow, Data, WithStatus

LEMMA PausedRow ==
  ASSUME NEW r \in TaskRow, NEW f \in {"none", "waiting", "validating"}
  PROVE  /\ Paused(r, f) \in TaskRow /\ (Paused(r, f).attempt <=> r.attempt) /\ Paused(r, f).status = "paused"
         /\ Paused(r, f).resumeTo = f /\ Paused(r, f).seen = r.seen /\ Data(Paused(r, f), r)
BY DEF TaskRow, TaskStates, Data, Paused

LEMMA DetachRow ==
  ASSUME NEW r \in TaskRow
  PROVE  /\ Detach(r) \in TaskRow /\ ~Detach(r).attempt /\ Detach(r).status = r.status
         /\ Detach(r).resumeTo = r.resumeTo /\ Detach(r).seen = r.seen /\ Data(Detach(r), r)
BY DEF TaskRow, Data, Detach

LEMMA RetriedRow ==
  ASSUME NEW r \in TaskRow, NEW n \in Nat
  PROVE  /\ Retried(r, n) \in TaskRow /\ (Retried(r, n).attempt <=> r.attempt) /\ Retried(r, n).status = "ready"
         /\ Retried(r, n).resumeTo = r.resumeTo /\ Retried(r, n).seen = r.seen /\ Data(Retried(r, n), r)
BY DEF TaskRow, TaskStates, Data, Retried

LEMMA ParkedIs ==
  ASSUME TypeOK, NEW t \in Tasks
  PROVE  /\ Parked(t) \in TaskRow /\ ~Parked(t).attempt
         /\ Data(Parked(t), task[t]) /\ Parked(t).seen = task[t].seen
         /\ \/ run = "cancelling" /\ Parked(t).status = "reconciling"
            \/ run = "pausing" /\ Parked(t).status = "paused" /\ Parked(t).resumeTo = "waiting"
            \/ run \notin {"cancelling", "pausing"} /\ Parked(t).status = "waiting"
<1>1. task[t] \in TaskRow
  BY DEF TypeOK
<1>2. "waiting" \in TaskStates /\ "reconciling" \in TaskStates
  BY DEF TaskStates
<1>3. CASE run = "cancelling"
  <2>1. Parked(t) = Ended(task[t], "reconciling")
    BY <1>3 DEF Parked, Ended
  <2> QED
    BY <1>1, <1>2, <1>3, <2>1, EndedRow
<1>4. CASE run = "pausing"
  <2>1. Parked(t) = EndedPaused(task[t], "waiting")
    BY <1>4 DEF Parked, EndedPaused
  <2> QED
    BY <1>1, <1>4, <2>1, EndedPausedRow
<1>5. CASE run \notin {"cancelling", "pausing"}
  <2>1. Parked(t) = Ended(task[t], "waiting")
    BY <1>5 DEF Parked, Ended
  <2> QED
    BY <1>1, <1>2, <1>5, <2>1, EndedRow
<1> QED
  BY <1>3, <1>4, <1>5

LEMMA SubmittedIs ==
  ASSUME TypeOK, NEW t \in Tasks
  PROVE  /\ Submitted(t) \in TaskRow /\ ~Submitted(t).attempt
         /\ Data(Submitted(t), task[t]) /\ Submitted(t).seen = worker[t].observed
         /\ \/ run = "cancelling" /\ Submitted(t).status = "reconciling"
            \/ run = "pausing" /\ Submitted(t).status = "paused" /\ Submitted(t).resumeTo = "validating"
            \/ run \notin {"cancelling", "pausing"} /\ Submitted(t).status = "validating"
<1> DEFINE r == Seen(task[t], worker[t].observed)
<1>1. task[t] \in TaskRow /\ worker[t].observed \in Nat
  BY DEF TypeOK, WorkerState
<1>2. "validating" \in TaskStates /\ "reconciling" \in TaskStates
  BY DEF TaskStates
<1>3. r \in TaskRow /\ ~r.attempt /\ Data(r, task[t]) /\ r.seen = worker[t].observed
  BY <1>1, SeenRow
<1>4. Submitted(t) = CASE run = "cancelling" -> WithStatus(r, "reconciling")
                       [] run = "pausing" -> Paused(r, "validating")
                       [] OTHER -> WithStatus(r, "validating")
  BY Zenon DEF Submitted, Seen, WithStatus, Paused
<1> HIDE DEF r
<1>5. CASE run = "cancelling"
  <2>1. Submitted(t) = WithStatus(r, "reconciling")
    BY <1>4, <1>5
  <2> QED
    BY <1>2, <1>3, <1>5, <2>1, StatusRow DEF Data
<1>6. CASE run = "pausing"
  <2>1. Submitted(t) = Paused(r, "validating")
    BY <1>4, <1>6
  <2> QED
    BY <1>3, <1>6, <2>1, PausedRow DEF Data
<1>7. CASE run \notin {"cancelling", "pausing"}
  <2>1. Submitted(t) = WithStatus(r, "validating")
    BY <1>4, <1>7
  <2> QED
    BY <1>2, <1>3, <1>7, <2>1, StatusRow DEF Data
<1> QED
  BY <1>5, <1>6, <1>7

\* A worker at another phase, one that starts a turn, and a rejected row.
Moved(w, t, p) == [w EXCEPT ![t].phase = p]
Works(v, n) == [v EXCEPT !.phase = "work", !.observed = n]
Rejected(r, s, n) == [r EXCEPT !.status = s, !.rejections = n]

LEMMA MovedIs ==
  ASSUME NEW w \in [Tasks -> WorkerState], NEW t \in Tasks, NEW p \in Phases
  PROVE  /\ Moved(w, t, p) \in [Tasks -> WorkerState]
         /\ \A u \in Tasks : /\ Moved(w, t, p)[u].phase = IF u = t THEN p ELSE w[u].phase
                             /\ Moved(w, t, p)[u].observed = w[u].observed /\ Moved(w, t, p)[u].error = w[u].error
BY DEF Moved, WorkerState, Phases

LEMMA WorksIs ==
  ASSUME NEW v \in WorkerState, NEW n \in Nat
  PROVE  /\ Works(v, n) \in WorkerState /\ Works(v, n).phase = "work" /\ Works(v, n).observed = n
         /\ Works(v, n).error = v.error
BY DEF Works, WorkerState

LEMMA RejectedRow ==
  ASSUME NEW r \in TaskRow, NEW s \in TaskStates, NEW n \in Nat
  PROVE  /\ Rejected(r, s, n) \in TaskRow /\ (Rejected(r, s, n).attempt <=> r.attempt) /\ Rejected(r, s, n).status = s
         /\ Rejected(r, s, n).resumeTo = r.resumeTo /\ Rejected(r, s, n).seen = r.seen /\ Data(Rejected(r, s, n), r)
BY DEF TaskRow, Data, Rejected

\* A worker that begins to work, from the revision of its task.
LEMMA WorkBegins ==
  ASSUME TypeOK, NEW t \in Tasks, worker' = [worker EXCEPT ![t].phase = "work", ![t].observed = task[t].inputs]
  PROVE  /\ worker' \in [Tasks -> WorkerState]
         /\ \A u \in Tasks \ {t} : worker'[u] = worker[u]
         /\ worker'[t].phase = "work" /\ worker'[t].error = worker[t].error
<1>1. worker \in [Tasks -> WorkerState] /\ task[t].inputs \in Nat
  BY DEF TypeOK, TaskRow
<1>2. worker' = [worker EXCEPT ![t] = Works(worker[t], task[t].inputs)]
  BY <1>1, Zenon DEF Works
<1>3. worker[t] \in WorkerState
  BY DEF TypeOK
<1>4. PICK v \in WorkerState : v = Works(worker[t], task[t].inputs)
  BY <1>1, <1>3, WorksIs
<1>5. v.phase = "work" /\ v.error = worker[t].error
  BY <1>1, <1>3, <1>4, WorksIs
<1>6. worker' = [worker EXCEPT ![t] = v]
  BY <1>2, <1>4
<1>7. /\ worker' \in [Tasks -> WorkerState] /\ worker'[t] = v
      /\ \A u \in Tasks \ {t} : worker'[u] = worker[u]
  BY <1>1, <1>6
<1> QED
  BY <1>5, <1>7

\* A rejected candidate, before the waits of a failed run are cancelled.
Rejects(tasks, t, s) == [tasks EXCEPT ![t].status = s, ![t].rejections = @ + 1]

LEMMA RejectIs ==
  ASSUME TypeOK, NEW t \in Tasks, NEW s \in TaskStates, NEW rows, rows = Rejects(task, t, s)
  PROVE  /\ rows \in [Tasks -> TaskRow]
         /\ \A u \in Tasks \ {t} : rows[u] = task[u]
         /\ (rows[t].attempt <=> task[t].attempt) /\ rows[t].status = s
         /\ rows[t].resumeTo = task[t].resumeTo /\ rows[t].seen = task[t].seen /\ Data(rows[t], task[t])
<1>1. task \in [Tasks -> TaskRow]
  BY DEF TypeOK
<1>2. rows = [task EXCEPT ![t] = Rejected(task[t], s, task[t].rejections + 1)]
  BY <1>1, Zenon DEF Rejects, Rejected
<1>3. task[t] \in TaskRow /\ task[t].rejections + 1 \in Nat
  BY <1>1 DEF TaskRow
<1>4. PICK q \in TaskRow : q = Rejected(task[t], s, task[t].rejections + 1)
  BY <1>3, RejectedRow
<1>5. /\ (q.attempt <=> task[t].attempt) /\ q.status = s /\ q.resumeTo = task[t].resumeTo /\ q.seen = task[t].seen
      /\ Data(q, task[t])
  BY <1>3, <1>4, RejectedRow
<1>6. rows = [task EXCEPT ![t] = q]
  BY <1>2, <1>4
<1>7. rows \in [Tasks -> TaskRow] /\ rows[t] = q /\ \A u \in Tasks \ {t} : rows[u] = task[u]
  BY <1>1, <1>6
<1> QED
  BY <1>5, <1>7

\* #block ends the attempt: the task is tried again or waits for reconciliation,
\* unless it was over or ready already.
LEMMA BlockIs ==
  ASSUME TypeOK, NEW t \in Tasks, Block(t)
  PROVE  /\ TypeOK'
         /\ \A u \in Tasks \ {t} : task'[u] = task[u]
         /\ \/ task[t].status \in Terminal \cup {"ready"} /\ task' = task /\ run' = run
            \/ /\ task[t].status \notin Terminal \cup {"ready"}
               /\ ~task'[t].attempt /\ Data(task'[t], task[t]) /\ task'[t].seen = task[t].seen
               /\ task'[t].resumeTo = task[t].resumeTo
               /\ \/ run = "active" /\ run' = run /\ MayRetry(t) /\ task'[t].status = "ready"
                  \/ run' \in {run, "paused"} /\ (run' # run => run = "active") /\ task'[t].status = "reconciling"
         /\ \A u \in Tasks : /\ worker'[u].phase = IF u = t THEN "leave" ELSE worker[u].phase
                             /\ worker'[u].observed = worker[u].observed /\ worker'[u].error = worker[u].error
<1> USE DEF TypeOK, SlotStates, loop
<1>1. CASE task[t].status \in Terminal /\ Phase(t, "leave") /\ UNCHANGED <<run, task, slot, proc>>
  <2>1. worker' \in [Tasks -> WorkerState]
    BY <1>1, PhaseIs DEF Phases
  <2> QED
    BY <1>1, <2>1, PhaseIs DEF Block, Phases
<1>2. CASE task[t].status = "ready" /\ Fatal([worker EXCEPT ![t].phase = "leave"]) /\ UNCHANGED <<run, task, slot>>
  <2>1. PICK w \in [Tasks -> WorkerState] :
          /\ w = Moved(worker, t, "leave")
          /\ \A u \in Tasks : /\ w[u].phase = IF u = t THEN "leave" ELSE worker[u].phase
                              /\ w[u].observed = worker[u].observed /\ w[u].error = worker[u].error
    BY MovedIs DEF Phases
  <2>2. worker' = Aborting(w) /\ proc' \in {"up", "stopped", "closing", "down", "starting"}
    BY <1>2, <2>1 DEF Fatal, Moved
  <2>3. /\ worker' \in [Tasks -> WorkerState]
        /\ \A u \in Tasks : /\ worker'[u].phase = w[u].phase /\ worker'[u].observed = w[u].observed
                            /\ worker'[u].error = w[u].error
    BY <2>2, AbortingIs
  <2> QED
    BY <1>2, <2>1, <2>2, <2>3 DEF Block
<1>3. CASE /\ task[t].status \notin Terminal \cup {"ready"} /\ Phase(t, "leave") /\ UNCHANGED proc
           /\ Open /\ MayRetry(t) /\ Schedule({t}) /\ run' = run
           /\ task' = [task EXCEPT ![t] = [[task[t] EXCEPT !.attempt = FALSE] EXCEPT !.status = "ready",
                         !.retries = IF worker[t].error = "transient" THEN @ + 1 ELSE @]]
  <2>1. PICK n \in Nat : n = IF worker[t].error = "transient" THEN Detach(task[t]).retries + 1 ELSE Detach(task[t]).retries
    BY DetachRow DEF TaskRow
  <2>2. PICK q : q = Retried(Detach(task[t]), n)
    OBVIOUS
  <2>3. task' = [task EXCEPT ![t] = q]
    BY <1>3, <2>1, <2>2, Zenon DEF Retried, Detach
  <2>5. /\ q \in TaskRow /\ ~q.attempt /\ q.status = "ready" /\ q.resumeTo = task[t].resumeTo /\ q.seen = task[t].seen
        /\ Data(q, task[t])
    BY <2>2, DetachRow, RetriedRow DEF Data
  <2>6. /\ task' \in [Tasks -> TaskRow] /\ task'[t] = q
        /\ \A u \in Tasks \ {t} : task'[u] = task[u]
    BY <2>3, <2>5
  <2>7. slot' \in [Keys -> SlotStates]
    BY <1>3, EnqueuedType DEF Schedule
  <2>8. /\ worker' \in [Tasks -> WorkerState]
        /\ \A u \in Tasks : /\ worker'[u].phase = IF u = t THEN "leave" ELSE worker[u].phase
                            /\ worker'[u].observed = worker[u].observed /\ worker'[u].error = worker[u].error
    BY <1>3, PhaseIs DEF Phases
  <2>9. TypeOK'
    BY <1>3, <2>6, <2>7, <2>8 DEF Block
  <2>10. run = "active"
    BY <1>3 DEF Open
  <2> QED
    BY <1>3, <2>5, <2>6, <2>8, <2>9, <2>10
<1>4. CASE /\ task[t].status \notin Terminal \cup {"ready"} /\ Phase(t, "leave") /\ UNCHANGED proc /\ UNCHANGED slot
           /\ task' = [task EXCEPT ![t] = [[task[t] EXCEPT !.attempt = FALSE] EXCEPT !.status = "reconciling"]]
           /\ run' = IF Open THEN "paused" ELSE run
  <2>1. "reconciling" \in TaskStates
    BY DEF TaskStates
  <2>3. PICK q : q = WithStatus(Detach(task[t]), "reconciling")
    OBVIOUS
  <2>5. /\ q \in TaskRow /\ ~q.attempt /\ q.status = "reconciling" /\ q.resumeTo = task[t].resumeTo
        /\ q.seen = task[t].seen /\ Data(q, task[t])
    BY <2>1, <2>3, DetachRow, StatusRow DEF Data
  <2>6. task' = [task EXCEPT ![t] = q]
    BY <1>4, <2>3, Zenon DEF WithStatus, Detach
  <2>7. /\ task' \in [Tasks -> TaskRow] /\ task'[t] = q
        /\ \A u \in Tasks \ {t} : task'[u] = task[u]
    BY <2>5, <2>6
  <2>8. /\ worker' \in [Tasks -> WorkerState]
        /\ \A u \in Tasks : /\ worker'[u].phase = IF u = t THEN "leave" ELSE worker[u].phase
                            /\ worker'[u].observed = worker[u].observed /\ worker'[u].error = worker[u].error
    BY <1>4, PhaseIs DEF Phases
  <2>9. run' \in {run, "paused"} /\ run' \in RunStates /\ (run' # run => run = "active")
    BY <1>4 DEF Open, RunStates
  <2>10. TypeOK'
    BY <1>4, <2>7, <2>8, <2>9 DEF Block
  <2> QED
    BY <1>4, <2>5, <2>7, <2>8, <2>9, <2>10
<1>5. \/ task[t].status \in Terminal /\ Phase(t, "leave") /\ UNCHANGED <<run, task, slot, proc>>
      \/ task[t].status = "ready" /\ Fatal([worker EXCEPT ![t].phase = "leave"]) /\ UNCHANGED <<run, task, slot>>
      \/ /\ task[t].status \notin Terminal \cup {"ready"} /\ Phase(t, "leave") /\ UNCHANGED proc
         /\ Open /\ MayRetry(t) /\ Schedule({t}) /\ run' = run
         /\ task' = [task EXCEPT ![t] = [[task[t] EXCEPT !.attempt = FALSE] EXCEPT !.status = "ready",
                         !.retries = IF worker[t].error = "transient" THEN @ + 1 ELSE @]]
      \/ /\ task[t].status \notin Terminal \cup {"ready"} /\ Phase(t, "leave") /\ UNCHANGED proc /\ UNCHANGED slot
         /\ task' = [task EXCEPT ![t] = [[task[t] EXCEPT !.attempt = FALSE] EXCEPT !.status = "reconciling"]]
         /\ run' = IF Open THEN "paused" ELSE run
  BY Zenon DEF Block
<1> QED
  BY <1>1, <1>2, <1>3, <1>4, <1>5

LEMMA TypeWorker == ASSUME TypeOK, NEW t \in Tasks, WorkerStep(t) PROVE TypeOK'
<1> USE DEF TypeOK, SlotStates, loop, WorkerOnly, TaskOnly
<1>1. CASE Prepare(t)
  <2>1. task' \in [Tasks -> TaskRow]
    BY <1>1 DEF Prepare, TaskRow
  <2>2. worker' \in [Tasks -> WorkerState]
    <3>1. Phase(t, "yield") \/ worker' = [worker EXCEPT ![t].phase = "work", ![t].observed = task[t].inputs]
      BY <1>1, Zenon DEF Prepare
    <3> QED
      BY <3>1, PhaseIs, WorkBegins DEF Phases
  <2> QED
    BY <1>1, <2>1, <2>2 DEF Prepare
<1>2. CASE TurnStart(t) \/ TurnEnd(t)
  <2>1. worker' \in [Tasks -> WorkerState]
    BY <1>2 DEF TurnStart, TurnEnd, WorkerState, TaskRow
  <2> QED
    BY <1>2, <2>1 DEF TurnStart, TurnEnd
<1>3. CASE DeliverInput(t) \/ Dispatch(t)
  <2>1. task' \in [Tasks -> TaskRow]
    BY <1>3 DEF DeliverInput, Dispatch, TaskRow
  <2> QED
    BY <1>3, <2>1 DEF DeliverInput, Dispatch
<1>4. CASE SettleEffect(t)
  <2>1. task' \in [Tasks -> TaskRow]
    BY <1>4 DEF SettleEffect, TaskRow
  <2>2. worker' \in [Tasks -> WorkerState]
    BY <1>4, FailsIs DEF SettleEffect
  <2> QED
    BY <1>4, <2>1, <2>2 DEF SettleEffect
<1>5. CASE AskUser(t)
  <2>1. task' \in [Tasks -> TaskRow]
    BY <1>5 DEF AskUser, TaskRow
  <2>2. worker' \in [Tasks -> WorkerState]
    BY <1>5, PhaseIs DEF AskUser, Phases
  <2> QED
    BY <1>5, <2>1, <2>2 DEF AskUser
<1>6. CASE Park(t)
  <2>1. [task EXCEPT ![t] = Parked(t)] \in [Tasks -> TaskRow]
    BY ParkedIs
  <2>2. task' \in [Tasks -> TaskRow] /\ slot' \in [Keys -> SlotStates]
    BY <1>6, <2>1, SavedType DEF Park
  <2>3. worker' \in [Tasks -> WorkerState]
    BY <1>6, PhaseIs DEF Park, Phases
  <2> QED
    BY <1>6, <2>2, <2>3 DEF Park, RunDrained, RunStates
<1>7. CASE Finish(t)
  BY <1>7, PhaseIs DEF Finish, Phases
<1>8. CASE FinishTooEarly(t)
  BY <1>8, FailsIs DEF FinishTooEarly
<1>9. CASE Submit(t)
  <2>1. task' \in [Tasks -> TaskRow]
    BY <1>9, SubmittedIs DEF Submit
  <2>2. slot' \in [Keys -> SlotStates]
    BY <1>9, EnqueuedType DEF Submit, Wake
  <2>3. worker' \in [Tasks -> WorkerState]
    BY <1>9, PhaseIs DEF Submit, Phases
  <2> QED
    BY <1>9, <2>1, <2>2, <2>3 DEF Submit, RunDrained, RunStates
<1>10. CASE WorkerFails(t)
  <2>1. PICK e \in {"none", "busy", "transient", "fault"} : Fails(t, e)
    BY <1>10, RuntimeAssumption DEF WorkerFails
  <2> QED
    BY <1>10, <2>1, FailsIs DEF WorkerFails
<1>11. CASE Accept(t)
  <2>1. [task EXCEPT ![t].status = "succeeded"] \in [Tasks -> TaskRow]
    BY DEF TaskRow, TaskStates
  <2>2. task' \in [Tasks -> TaskRow] /\ slot' \in [Keys -> SlotStates]
    BY <1>11, <2>1, SavedType DEF Accept
  <2>3. worker' \in [Tasks -> WorkerState]
    BY <1>11, PhaseIs DEF Accept, Phases
  <2> QED
    BY <1>11, <2>2, <2>3 DEF Accept, RunStates
<1>12. CASE StaleInput(t)
  <2>1. task' \in [Tasks -> TaskRow] /\ slot' \in [Keys -> SlotStates]
    BY <1>12, EnqueuedType DEF StaleInput, TaskRow, TaskStates, Schedule
  <2>2. worker' \in [Tasks -> WorkerState]
    BY <1>12, PhaseIs, FailsIs DEF StaleInput, Phases
  <2> QED
    BY <1>12, <2>1, <2>2 DEF StaleInput
<1>13. CASE CheckFails(t)
  BY <1>13, PhaseIs DEF CheckFails, Phases
<1>14. CASE ValidationFails(t) \/ RejectRefused(t)
  BY <1>14, FailsIs DEF ValidationFails, RejectRefused
<1>15. CASE Reject(t)
  <2>1. PICK s \in TaskStates : s = IF task[t].rejections + 1 > MaxRetries THEN "failed" ELSE "ready"
    BY DEF TaskStates
  <2>2. PICK rows : rows = Rejects(task, t, s)
    OBVIOUS
  <2>3. rows \in [Tasks -> TaskRow]
    BY <2>2, RejectIs
  <2>4. \/ run' = "failed" /\ task' = WaitsCancelled(rows) /\ slot' = slot
        \/ task' = rows /\ Schedule({t}) /\ run' = run
    BY <1>15, <2>1, <2>2, Zenon DEF Reject, Rejects
  <2>5. task' \in [Tasks -> TaskRow] /\ slot' \in [Keys -> SlotStates] /\ run' \in RunStates
    BY <2>3, <2>4, WaitsType, EnqueuedType DEF Schedule, RunStates
  <2>6. worker' \in [Tasks -> WorkerState]
    BY <1>15, PhaseIs DEF Reject, Phases
  <2> QED
    BY <1>15, <2>5, <2>6 DEF Reject
<1>16. CASE Cleanup(t)
  BY <1>16, PhaseIs, FailsIs DEF Cleanup, Phases
<1>17. CASE Block(t)
  BY <1>17, BlockIs DEF Block
<1>18. CASE Leave(t)
  BY <1>18, IdleType DEF Leave
<1> QED
  BY <1>1, <1>2, <1>3, <1>4, <1>5, <1>6, <1>7, <1>8, <1>9, <1>10, <1>11, <1>12, <1>13, <1>14, <1>15, <1>16, <1>17, <1>18
  DEF WorkerStep
-----------------------------------------------------------------------------
(***************************************************************************)
(* The inductive invariant.  Fits relates the row of a task to what its      *)
(* worker does; it holds of one task at a time, so that a step has to be     *)
(* looked at for the task it touches only.                                   *)
(***************************************************************************)
Awake == proc \notin {"down", "starting"}

\* A row r that fits a worker at phase p, from revision o, with error e: the attempt
\* is driven, nothing unknown is left behind, a candidate answers what was given.
Shape(r, p, o, e, awake) ==
  /\ r.attempt <=> r.status = "running"
  /\ p \in Working => r.attempt
  /\ p \in {"validate", "reject"} => r.status = "validating"
  /\ r.attempt /\ awake => p \in Working \cup {"block"}
  /\ r.effect # "clear" => r.status \in {"running", "reconciling"}
  /\ p = "block" => r.status \in {"running", "validating"} \/ e = "fault"
  /\ p \in {"prepare", "deliver", "yield", "submit"} => r.effect = "clear"
  /\ p = "submit" => r.given = o
  /\ r.status = "validating" \/ (r.status = "paused" /\ r.resumeTo = "validating") => r.given = r.seen
  /\ r.status = "succeeded" => r.seen = r.inputs /\ r.given = r.inputs

Fits(t) == Shape(task[t], worker[t].phase, worker[t].observed, worker[t].error, Awake)

\* What is still to be recovered: every attempt of an owner that is starting, and
\* nothing that works once it is up.
TodoShape ==
  /\ proc = "starting" => \A t \in Tasks : task[t].attempt => t \in todo
  /\ proc # "starting" => \A t \in todo : task[t].status \in {"reconciling", "cancelled"}

\* A cancelled run has no worker left at all.
CancelShape == run = "cancelled" => \A t \in Tasks : task[t].status \in Terminal /\ ~Unresolved(t) /\ ~Running(t)

\* A worker exists for tasks only whose dependencies are accepted.
WorkersInOrder == \A t \in Tasks : Running(t) => Accepted(task, t)

IInv ==
  /\ TypeOK /\ AtShape /\ DownShape /\ TodoShape /\ CancelShape /\ WorkersInOrder
  /\ DependenciesFirst
  /\ \A t \in Tasks : Fits(t)

\* Rows that differ in their wait and their counters of retries at most.
SameRow(r, q) ==
  /\ r.status = q.status /\ (r.attempt <=> q.attempt) /\ r.resumeTo = q.resumeTo /\ r.seen = q.seen
  /\ Data(r, q)

\* How a step that is not an acceptance moves the statuses: no task starts before
\* its time, and neither a task nor the run begins or ceases to be accepted.
InOrder ==
  /\ \A t \in Tasks : /\ task'[t].status = "succeeded" <=> task[t].status = "succeeded"
                      /\ \/ task'[t].status \in {"waiting", "cancelled"}
                         \/ task[t].status \notin {"waiting", "cancelled"}
                         \/ Accepted(task, t)
  /\ run' = "succeeded" <=> run = "succeeded"

LEMMA Frame ==
  ASSUME NEW t \in Tasks, Fits(t), SameRow(task'[t], task[t]),
         worker'[t].phase = worker[t].phase, worker'[t].observed = worker[t].observed,
         worker'[t].error = worker[t].error, Awake' => Awake \/ ~task[t].attempt
  PROVE  Fits(t)'
BY DEF Fits, Shape, SameRow, Data, Awake

\* The step moved neither a row nor the status of the run, as far as InOrder goes.
LEMMA Still ==
  ASSUME \A t \in Tasks : SameRow(task'[t], task[t]), run' = "succeeded" <=> run = "succeeded"
  PROVE  InOrder
BY DEF InOrder, SameRow

LEMMA SameIsSame == ASSUME NEW r PROVE SameRow(r, r)
BY DEF SameRow, Data

\* Only the status of a waiting task changes when it is woken.
LEMMA SavedIs ==
  ASSUME TypeOK, NEW rows \in [Tasks -> TaskRow], SaveAndWake(rows), NEW u \in Tasks
  PROVE  \/ task'[u] = rows[u]
         \/ /\ rows[u].status = "waiting" /\ ~rows[u].attempt /\ Accepted(rows, u)
            /\ task'[u].status = "ready" /\ ~task'[u].attempt /\ task'[u].resumeTo = rows[u].resumeTo
            /\ task'[u].seen = rows[u].seen /\ Data(task'[u], rows[u])
<1>1. \/ task'[u] = rows[u]
      \/ u \in Woken(rows) /\ task'[u] = WithStatus(rows[u], "ready")
  BY DEF SaveAndWake, Readied, WithStatus
<1>2. rows[u] \in TaskRow /\ "ready" \in TaskStates
  BY DEF TaskStates
<1> QED
  BY <1>1, <1>2, StatusRow DEF Woken

LEMMA WaitsIs ==
  ASSUME NEW rows \in [Tasks -> TaskRow], NEW u \in Tasks
  PROVE  SameRow(WaitsCancelled(rows)[u], rows[u])
BY DEF WaitsCancelled, SameRow, TaskRow, Data

\* Waking the tasks that wait for nothing any more starts none before its time.
LEMMA WakeKeeps ==
  ASSUME TypeOK, \A t \in Tasks : Fits(t), SaveAndWake(task), run' = run,
         \A t \in Tasks : /\ worker'[t].phase = worker[t].phase /\ worker'[t].observed = worker[t].observed
                          /\ worker'[t].error = worker[t].error /\ (Awake' => Awake \/ ~task[t].attempt)
  PROVE  InOrder /\ \A t \in Tasks : Fits(t)'
<1> SUFFICES ASSUME NEW t \in Tasks
             PROVE  /\ task'[t].status = "succeeded" <=> task[t].status = "succeeded"
                    /\ \/ task'[t].status \in {"waiting", "cancelled"}
                       \/ task[t].status \notin {"waiting", "cancelled"}
                       \/ Accepted(task, t)
                    /\ Fits(t)'
  BY DEF InOrder
<1>1. task \in [Tasks -> TaskRow]
  BY DEF TypeOK
<1>2. CASE task'[t] = task[t]
  <2>1. Fits(t)'
    BY <1>2, Frame, SameIsSame
  <2> QED
    BY <1>2, <2>1
<1>3. CASE /\ task[t].status = "waiting" /\ ~task[t].attempt /\ Accepted(task, t)
           /\ task'[t].status = "ready" /\ ~task'[t].attempt /\ task'[t].resumeTo = task[t].resumeTo
           /\ task'[t].seen = task[t].seen /\ Data(task'[t], task[t])
  <2>1. Fits(t)
    OBVIOUS
  <2>2. Fits(t)'
    BY <1>3, <2>1 DEF Fits, Shape, Data
  <2> QED
    BY <1>3, <2>2
<1> QED
  BY <1>1, <1>2, <1>3, SavedIs

LEMMA OwnerKeeps == ASSUME IInv, OwnerStep PROVE InOrder /\ \A t \in Tasks : Fits(t)'
<1> USE DEF IInv
<1>1. CASE Start
  <2>1. (run' = "succeeded" <=> run = "succeeded") /\ ~Awake' /\ task' = task /\ worker' = worker
    BY <1>1 DEF Start, Awake
  <2> QED
    BY <2>1, Frame, Still, SameIsSame
<1>2. ASSUME NEW t \in Tasks, Recover(t) PROVE InOrder /\ \A u \in Tasks : Fits(u)'
  <2>1. /\ \A u \in Tasks \ {t} : task'[u] = task[u]
        /\ task'[t].inputs = task[t].inputs /\ task'[t].given = task[t].given /\ task'[t].effect = task[t].effect
        /\ task'[t].seen = task[t].seen /\ task'[t].resumeTo = task[t].resumeTo
        /\ ~task'[t].attempt \/ task' = task
        /\ \/ task'[t].status = task[t].status /\ task[t].status \notin {"running", "reconciling"}
           \/ /\ task[t].status \in {"running", "reconciling"} /\ ~task'[t].attempt
              /\ task'[t].status = "reconciling" \/ (task'[t].status = "ready" /\ ~Unresolved(t) /\ run = "active")
    BY <1>2, RecoverIs
  <2>2. worker' = worker /\ proc' = proc /\ t \in todo /\ (run' = "succeeded" <=> run = "succeeded")
    BY <1>2 DEF Recover
  <2>3. worker[t].phase \notin Working
    BY <2>2 DEF TodoShape, DownShape, Fits, Shape, Working, Running
  <2>4. worker[t].phase = "block" => task[t].status # "running"
    BY <2>2 DEF TodoShape, DownShape, Running
  <2>5. Fits(t)'
    <3>1. Fits(t)
      OBVIOUS
    <3>2. CASE task' = task
      BY <2>2, <3>2, Frame, SameIsSame DEF Awake
    <3>3. CASE ~task'[t].attempt /\ task'[t].status = task[t].status /\ task[t].status \notin {"running", "reconciling"}
      BY <2>1, <2>2, <2>3, <3>1, <3>3 DEF Fits, Shape, Working
    <3>4. CASE /\ task[t].status \in {"running", "reconciling"} /\ ~task'[t].attempt
               /\ task'[t].status = "reconciling" \/ (task'[t].status = "ready" /\ ~Unresolved(t))
      BY <2>1, <2>2, <2>3, <2>4, <3>1, <3>4 DEF Fits, Shape, Working, Unresolved
    <3> QED
      BY <2>1, <3>2, <3>3, <3>4
  <2>6. ASSUME NEW u \in Tasks, u # t PROVE Fits(u)'
    BY <2>1, <2>2, <2>6, Frame, SameIsSame DEF Awake
  <2>7. InOrder
    BY <2>1, <2>2 DEF InOrder
  <2> QED
    BY <2>5, <2>6, <2>7
<1>3. CASE Started
  <2>1. worker' = worker /\ run' = run /\ \A t \in Tasks : ~task[t].attempt
    BY <1>3 DEF Started, TodoShape
  <2>2. CASE run = "active"
    BY <1>3, <2>1, <2>2, WakeKeeps DEF Started
  <2>3. CASE run # "active"
    BY <1>3, <2>1, <2>3, Frame, Still, SameIsSame DEF Started
  <2> QED
    BY <2>2, <2>3
<1>4. CASE Crash \/ Closed
  <2>1. task' = task /\ run' = run /\ ~Awake' /\ \A t \in Tasks : worker'[t].phase = "none"
    BY <1>4 DEF Crash, Closed, Gone, Awake, Idle
  <2>2. ASSUME NEW t \in Tasks PROVE Fits(t)'
    BY <2>1, Fits(t) DEF Fits, Shape, Working
  <2> QED
    BY <2>1, <2>2, Still, SameIsSame
<1>5. CASE Close
  BY <1>5, Frame, Still, SameIsSame DEF Close, Awake
<1>6. CASE CloseAborts
  <2>1. \A t \in Tasks : /\ worker'[t].phase = worker[t].phase /\ worker'[t].observed = worker[t].observed
                         /\ worker'[t].error = worker[t].error
    BY <1>6, AbortingIs DEF CloseAborts, TypeOK
  <2>2. task' = task /\ run' = run /\ proc' = proc
    BY <1>6 DEF CloseAborts
  <2> QED
    BY <2>1, <2>2, Frame, Still, SameIsSame DEF Awake
<1> QED
  BY <1>1, <1>2, <1>3, <1>4, <1>5, <1>6 DEF OwnerStep

\* A step that leaves the rows and the work of every worker as they are.
LEMMA IdleStep ==
  ASSUME IInv, task' = task, run' = "succeeded" <=> run = "succeeded", Awake' => Awake,
         \A t \in Tasks : /\ worker'[t].phase = worker[t].phase /\ worker'[t].observed = worker[t].observed
                          /\ worker'[t].error = worker[t].error
  PROVE  InOrder /\ \A t \in Tasks : Fits(t)'
BY Frame, Still, SameIsSame DEF IInv

\* The dispatch of a task that is ready, and of one that is to be validated.
LEMMA LaunchIs ==
  ASSUME TypeOK, NEW a \in at, Launch(a)
  PROVE  /\ TaskOf(a.key) \in Tasks
         /\ run = "active" /\ run' = run /\ proc' = proc /\ todo' = todo
         /\ \A u \in Tasks \ {TaskOf(a.key)} : task'[u] = task[u] /\ worker'[u] = worker[u]
         /\ \/ /\ task[TaskOf(a.key)].status = "ready" /\ Accepted(task, TaskOf(a.key))
               /\ task'[TaskOf(a.key)].status = "running" /\ task'[TaskOf(a.key)].attempt
               /\ task'[TaskOf(a.key)].effect = task[TaskOf(a.key)].effect
               /\ worker'[TaskOf(a.key)].phase = "prepare" \/ (worker'[TaskOf(a.key)].phase = "block" /\ worker'[TaskOf(a.key)].error # "none")
            \/ /\ task[TaskOf(a.key)].status = "validating" /\ task' = task
               /\ worker'[TaskOf(a.key)].phase \in {"validate", "block"}
<1> DEFINE t == TaskOf(a.key)
<1>1. a.key \in Keys /\ t \in Tasks
  BY DEF TypeOK, Keys, TaskOf
<1>2. run = "active" /\ run' = run /\ proc' = proc /\ todo' = todo
  BY DEF Launch, StillCurrent
<1>3. Revision(t) = a.revision
  BY DEF Launch, StillCurrent
<1>4. task[t].status = a.revision[1]
  BY <1>3 DEF Revision
<1> HIDE DEF t
<1>5. PICK error \in Errors \cup {"none"} :
        \/ /\ a.revision[1] = "ready" /\ MayStart(t)
           /\ task' = [task EXCEPT ![t].status = "running", ![t].attempt = TRUE]
           /\ Starting(t, "prepare", error)
        \/ /\ a.revision[1] = "validating"
           /\ Starting(t, "validate", error)
           /\ UNCHANGED task
  BY DEF Launch, t
<1>6. CASE /\ a.revision[1] = "ready" /\ MayStart(t)
           /\ task' = [task EXCEPT ![t].status = "running", ![t].attempt = TRUE]
           /\ Starting(t, "prepare", error)
  <2>1. /\ task'[t].status = "running" /\ task'[t].attempt /\ task'[t].effect = task[t].effect
        /\ \A u \in Tasks \ {t} : task'[u] = task[u]
    BY <1>1, <1>6 DEF TypeOK, TaskRow
  <2>2. /\ \A u \in Tasks \ {t} : worker'[u] = worker[u]
        /\ worker'[t].phase = IF error = "none" THEN "prepare" ELSE "block"
        /\ worker'[t].error = error
    BY <1>1, <1>6, StartingIs
  <2>3. Accepted(task, t)
    BY <1>6 DEF MayStart
  <2> QED
    BY <1>1, <1>2, <1>4, <1>6, <2>1, <2>2, <2>3 DEF t
<1>7. CASE /\ a.revision[1] = "validating"
           /\ Starting(t, "validate", error)
           /\ UNCHANGED task
  <2>2. /\ \A u \in Tasks \ {t} : worker'[u] = worker[u]
        /\ worker'[t].phase = IF error = "none" THEN "validate" ELSE "block"
    BY <1>1, <1>7, StartingIs
  <2> QED
    BY <1>1, <1>2, <1>4, <1>7, <2>2 DEF t
<1> QED
  BY <1>5, <1>6, <1>7

LEMMA LaunchKeeps == ASSUME IInv, NEW a \in at, Launch(a) PROVE InOrder /\ \A t \in Tasks : Fits(t)'
<1>1. PICK t \in Tasks :
         /\ t = TaskOf(a.key)
         /\ run = "active" /\ run' = run /\ proc' = proc
         /\ \A u \in Tasks \ {t} : task'[u] = task[u] /\ worker'[u] = worker[u]
         /\ \/ /\ task[t].status = "ready" /\ Accepted(task, t)
               /\ task'[t].status = "running" /\ task'[t].attempt /\ task'[t].effect = task[t].effect
               /\ worker'[t].phase = "prepare" \/ (worker'[t].phase = "block" /\ worker'[t].error # "none")
            \/ /\ task[t].status = "validating" /\ task' = task
               /\ worker'[t].phase \in {"validate", "block"}
  BY LaunchIs DEF IInv
<1>2. Fits(t)
  BY DEF IInv
<1>3. Fits(t)'
  BY <1>1, <1>2 DEF Fits, Shape, Working, Awake
<1>4. ASSUME NEW u \in Tasks, u # t PROVE Fits(u)'
  BY <1>1, <1>4, Frame, SameIsSame DEF IInv, Awake
<1>5. InOrder
  BY <1>1 DEF InOrder
<1> QED
  BY <1>3, <1>4, <1>5

LEMMA DrainKeeps == ASSUME IInv, TickDrain PROVE InOrder /\ \A t \in Tasks : Fits(t)'
<1>1. /\ worker' = worker /\ proc' = proc /\ (run' = "succeeded" <=> run = "succeeded")
      /\ \A t \in Tasks : worker[t].phase = "none"
  BY DEF TickDrain, BeginTick, RunNow, Running, Overdue
<1>2. CASE task' = task
  BY <1>1, <1>2, IdleStep DEF Awake
<1>3. CASE MayDrain /\ task' = [t \in Tasks |-> CancelledTask(t)]
  <2>1. ASSUME NEW t \in Tasks
        PROVE  /\ task'[t].status = "succeeded" <=> task[t].status = "succeeded"
               /\ task'[t].status \in {"waiting", "cancelled"} \/ task[t].status \notin {"waiting", "cancelled"}
               /\ Fits(t)'
    <3>1. CASE task[t].status \in Terminal
      <4>1. task'[t] = task[t]
        BY <1>3, <3>1 DEF CancelledTask
      <4> QED
        BY <1>1, <4>1, Frame, SameIsSame DEF IInv, Awake
    <3>2. CASE task[t].status \notin Terminal
      <4>1. task[t] \in TaskRow /\ "cancelled" \in TaskStates
        BY DEF IInv, TypeOK, TaskStates
      <4>2. task'[t] = WithStatus(task[t], "cancelled")
        BY <1>3, <3>2 DEF CancelledTask, WithStatus
      <4>3. task'[t].status = "cancelled" /\ (task'[t].attempt <=> task[t].attempt) /\ Data(task'[t], task[t])
        BY <4>1, <4>2, StatusRow
      <4>4. ~task[t].attempt /\ task[t].effect = "clear"
        BY <1>3 DEF MayDrain, Attempts, Unresolved
      <4>5. Fits(t)'
        BY <1>1, <4>3, <4>4 DEF Fits, Shape, Data, Working
      <4> QED
        BY <3>2, <4>3, <4>5 DEF Terminal
    <3> QED
      BY <3>1, <3>2
  <2> QED
    BY <1>1, <2>1 DEF InOrder
<1> QED
  BY <1>2, <1>3 DEF TickDrain

LEMMA SchedulerKeeps == ASSUME IInv, SchedulerStep PROVE InOrder /\ \A t \in Tasks : Fits(t)'
<1> USE DEF loop
<1>1. CASE TickScan
  <2>1. run' = run /\ worker' = worker /\ proc' = proc /\ SaveAndWake(task)
    BY <1>1 DEF TickScan, BeginTick
  <2> QED
    BY <2>1, WakeKeeps DEF IInv, Awake
<1>2. CASE TickAbort
  <2>1. task' = task /\ proc' = proc /\ (run' = "succeeded" <=> run = "succeeded")
    BY <1>2 DEF TickAbort, BeginTick, RunNow, Overdue
  <2>2. \A t \in Tasks : /\ worker'[t].phase = worker[t].phase /\ worker'[t].observed = worker[t].observed
                         /\ worker'[t].error = worker[t].error
    BY <1>2, AbortingIs DEF TickAbort, IInv, TypeOK
  <2> QED
    BY <2>1, <2>2, IdleStep DEF Awake
<1>3. CASE TickDrain
  BY <1>3, DrainKeeps
<1>4. ASSUME NEW S \in SUBSET Keys, Claim(S) PROVE InOrder /\ \A t \in Tasks : Fits(t)'
  BY <1>4, IdleStep DEF Claim, Awake
<1>5. ASSUME NEW k \in Keys, PassOver(k) \/ Admit(k) \/ LeaseExpires(k) PROVE InOrder /\ \A t \in Tasks : Fits(t)'
  BY <1>5, IdleStep DEF PassOver, Admit, LeaseExpires, Awake
<1>6. ASSUME NEW a \in at, AdmitBusy(a) \/ AdmitStale(a) \/ DropStale(a) PROVE InOrder /\ \A t \in Tasks : Fits(t)'
  BY <1>6, IdleStep DEF AdmitBusy, AdmitStale, DropStale, Awake
<1>7. ASSUME NEW a \in at, Launch(a) PROVE InOrder /\ \A t \in Tasks : Fits(t)'
  BY <1>7, LaunchKeeps
<1>8. ASSUME NEW a \in at, LaunchRefused(a) PROVE InOrder /\ \A t \in Tasks : Fits(t)'
  <2>1. task' = task /\ run' = run /\ (Awake' => Awake)
    BY <1>8 DEF LaunchRefused, Fatal, Awake
  <2>2. \A t \in Tasks : /\ worker'[t].phase = worker[t].phase /\ worker'[t].observed = worker[t].observed
                         /\ worker'[t].error = worker[t].error
    BY <1>8, AbortingIs DEF LaunchRefused, Fatal, IInv, TypeOK
  <2> QED
    BY <2>1, <2>2, IdleStep
<1> QED
  BY <1>1, <1>2, <1>3, <1>4, <1>5, <1>6, <1>7, <1>8 DEF SchedulerStep

\* Where a paused task goes on.
Goes(r, s) == [r EXCEPT !.status = s, !.resumeTo = "none"]

LEMMA GoesRow ==
  ASSUME NEW r \in TaskRow, NEW s \in TaskStates
  PROVE  /\ Goes(r, s) \in TaskRow /\ (Goes(r, s).attempt <=> r.attempt) /\ Goes(r, s).status = s
         /\ Goes(r, s).resumeTo = "none" /\ Goes(r, s).seen = r.seen /\ Data(Goes(r, s), r)
BY DEF TaskRow, Data, Goes

LEMMA UnpausedIs ==
  ASSUME NEW r \in TaskRow
  PROVE  \/ r.status # "paused" /\ Unpaused(r) = r
         \/ /\ r.status = "paused"
            /\ Unpaused(r).status = IF r.resumeTo = "none" THEN "ready" ELSE r.resumeTo
            /\ (Unpaused(r).attempt <=> r.attempt) /\ Unpaused(r).resumeTo = "none"
            /\ Unpaused(r).seen = r.seen /\ Data(Unpaused(r), r)
<1>1. PICK s \in TaskStates : s = IF r.resumeTo = "none" THEN "ready" ELSE r.resumeTo
  BY DEF TaskRow, TaskStates
<1>2. CASE r.status = "paused"
  <2>1. Unpaused(r) = Goes(r, s)
    BY <1>1, <1>2 DEF Unpaused, Goes
  <2> QED
    BY <1>1, <1>2, <2>1, GoesRow
<1> QED
  BY <1>2 DEF Unpaused

\* A resumed task: ready, waiting or to be validated if it was paused, ready if its
\* turn has come meanwhile, otherwise as it was.
LEMMA ResumeIs ==
  ASSUME TypeOK, Resume, NEW t \in Tasks
  PROVE  /\ (task'[t].attempt <=> task[t].attempt) /\ task'[t].seen = task[t].seen /\ Data(task'[t], task[t])
         /\ \/ task'[t].status = task[t].status /\ task'[t].resumeTo = task[t].resumeTo
            \/ task[t].status = "paused" /\ task'[t].status \in {"ready", "waiting"}
            \/ task[t].status = "paused" /\ task[t].resumeTo = "validating" /\ task'[t].status = "validating"
            \/ task[t].status = "waiting" /\ Accepted(task, t) /\ task'[t].status = "ready"
<1> DEFINE rows == [u \in Tasks |-> Unpaused(task[u])]
           ready == {u \in Tasks : rows[u].status = "ready"} \cup Woken(rows)
<1>1. task[t] \in TaskRow /\ rows \in [Tasks -> TaskRow] /\ rows[t] \in TaskRow /\ "ready" \in TaskStates
  BY UnpausedType DEF TypeOK, TaskStates
<1>2. /\ rows[t] = Unpaused(task[t])
      /\ \A u \in Tasks : rows[u].status = "succeeded" => task[u].status = "succeeded"
  <2>1. \A u \in Tasks : task[u] \in TaskRow /\ rows[u] = Unpaused(task[u])
    BY DEF TypeOK
  <2>2. \A u \in Tasks : task[u].resumeTo # "succeeded"
    BY <2>1 DEF TaskRow
  <2> QED
    BY <2>1, <2>2, UnpausedIs
<1>3. Accepted(rows, t) => Accepted(task, t)
  BY <1>2, RuntimeAssumption DEF Accepted
<1>4. task' = Readied(rows, ready)
  BY DEF Resume
<1>5. t \in ready => rows[t].status = "ready" \/ (rows[t].status = "waiting" /\ ~rows[t].attempt /\ Accepted(rows, t))
  BY DEF Woken
<1>6. task'[t] = IF t \in ready THEN WithStatus(rows[t], "ready") ELSE rows[t]
  BY <1>4 DEF Readied, WithStatus
<1> HIDE DEF rows, ready
<1>7. /\ (task'[t].attempt <=> rows[t].attempt) /\ task'[t].seen = rows[t].seen /\ Data(task'[t], rows[t])
      /\ task'[t].resumeTo = rows[t].resumeTo
      /\ \/ task'[t].status = rows[t].status
         \/ task'[t].status = "ready" /\ rows[t].status = "waiting" /\ Accepted(rows, t)
  BY <1>1, <1>5, <1>6, StatusRow, SameIsSame DEF SameRow
<1>8. \/ task[t].status # "paused" /\ rows[t] = task[t]
      \/ /\ task[t].status = "paused"
         /\ rows[t].status = IF task[t].resumeTo = "none" THEN "ready" ELSE task[t].resumeTo
         /\ (rows[t].attempt <=> task[t].attempt)
         /\ rows[t].seen = task[t].seen /\ Data(rows[t], task[t])
  BY <1>1, <1>2, UnpausedIs
<1>9. task[t].resumeTo \in {"none", "waiting", "validating"}
  BY <1>1 DEF TaskRow
<1>10. CASE task[t].status # "paused" /\ rows[t] = task[t]
  BY <1>3, <1>7, <1>10
<1>11. CASE /\ task[t].status = "paused"
            /\ rows[t].status = IF task[t].resumeTo = "none" THEN "ready" ELSE task[t].resumeTo
            /\ (rows[t].attempt <=> task[t].attempt)
            /\ rows[t].seen = task[t].seen /\ Data(rows[t], task[t])
  <2>1. (task'[t].attempt <=> task[t].attempt) /\ task'[t].seen = task[t].seen /\ Data(task'[t], task[t])
    BY <1>7, <1>11 DEF Data
  <2>2. \/ task'[t].status \in {"ready", "waiting"}
        \/ task[t].resumeTo = "validating" /\ task'[t].status = "validating"
    BY <1>7, <1>9, <1>11
  <2> QED
    BY <1>11, <2>1, <2>2
<1> QED
  BY <1>8, <1>10, <1>11

LEMMA ResumeKeeps == ASSUME IInv, Resume PROVE InOrder /\ \A t \in Tasks : Fits(t)'
<1>1. worker' = worker /\ proc' = proc /\ run = "paused" /\ run' = "active"
  BY DEF Resume, Resumable
<1>2. ASSUME NEW t \in Tasks
      PROVE  /\ task'[t].status = "succeeded" <=> task[t].status = "succeeded"
             /\ \/ task'[t].status \in {"waiting", "cancelled"}
                \/ task[t].status \notin {"waiting", "cancelled"}
                \/ Accepted(task, t)
             /\ Fits(t)'
  <2>1. /\ (task'[t].attempt <=> task[t].attempt) /\ task'[t].seen = task[t].seen /\ Data(task'[t], task[t])
        /\ \/ task'[t].status = task[t].status /\ task'[t].resumeTo = task[t].resumeTo
           \/ task[t].status = "paused" /\ task'[t].status \in {"ready", "waiting"}
           \/ task[t].status = "paused" /\ task[t].resumeTo = "validating" /\ task'[t].status = "validating"
           \/ task[t].status = "waiting" /\ Accepted(task, t) /\ task'[t].status = "ready"
    BY ResumeIs DEF IInv
  <2>2. Fits(t)
    BY DEF IInv
  <2>3. CASE task'[t].status = task[t].status /\ task'[t].resumeTo = task[t].resumeTo
    <3>1. Fits(t)'
      BY <1>1, <2>1, <2>2, <2>3, Frame DEF SameRow, Awake
    <3> QED
      BY <2>3, <3>1
  <2>4. CASE task[t].status = "paused" /\ task'[t].status \in {"ready", "waiting"}
    <3>1. Fits(t)'
      BY <1>1, <2>1, <2>2, <2>4 DEF Fits, Shape, Data, Working, Awake
    <3> QED
      BY <2>4, <3>1
  <2>5. CASE task[t].status = "paused" /\ task[t].resumeTo = "validating" /\ task'[t].status = "validating"
    <3>1. Fits(t)'
      BY <1>1, <2>1, <2>2, <2>5 DEF Fits, Shape, Data, Working, Awake
    <3> QED
      BY <2>5, <3>1
  <2>6. CASE task[t].status = "waiting" /\ Accepted(task, t) /\ task'[t].status = "ready"
    <3>1. Fits(t)'
      BY <1>1, <2>1, <2>2, <2>6 DEF Fits, Shape, Data, Working, Awake
    <3> QED
      BY <2>6, <3>1
  <2> QED
    BY <2>1, <2>3, <2>4, <2>5, <2>6
<1> QED
  BY <1>1, <1>2 DEF InOrder

LEMMA UserKeeps == ASSUME IInv, UserStep PROVE InOrder /\ \A t \in Tasks : Fits(t)'
<1> USE DEF loop
<1>1. CASE Pause \/ Extend \/ DeadlinePasses
  BY <1>1, IdleStep DEF Pause, Extend, DeadlinePasses, Awake
<1>2. CASE Resume
  BY <1>2, ResumeKeeps
<1>3. CASE Cancel
  <2>1. /\ worker' = worker /\ proc' = proc /\ (run' = "succeeded" <=> run = "succeeded")
        /\ \A t \in Tasks : SameRow(task'[t], task[t])
    BY <1>3, WaitsIs DEF Cancel, IInv, TypeOK
  <2> QED
    BY <2>1, Frame, Still DEF IInv, Awake
<1>4. ASSUME NEW t \in Tasks, Answer(t) PROVE InOrder /\ \A u \in Tasks : Fits(u)'
  <2>1. \A u \in Tasks : SameRow(task'[u], task[u])
    BY <1>4 DEF Answer, SameRow, Data, IInv, TypeOK, TaskRow
  <2> QED
    BY <1>4, <2>1, Frame, Still DEF Answer, TaskOnly, IInv, Awake
<1>5. ASSUME NEW t \in Tasks, Followup(t) \/ Reconcile(t) PROVE InOrder /\ \A u \in Tasks : Fits(u)'
  <2>1. worker' = worker /\ proc' = proc /\ run' = run
    BY <1>5 DEF Followup, Reconcile, TaskOnly
  <2>2. /\ \A u \in Tasks \ {t} : task'[u] = task[u]
        /\ task'[t].status = task[t].status /\ (task'[t].attempt <=> task[t].attempt)
        /\ task'[t].resumeTo = task[t].resumeTo /\ task'[t].seen = task[t].seen /\ task'[t].given = task[t].given
        /\ task'[t].effect \in {task[t].effect, "clear"}
        /\ task'[t].status = "succeeded" => task'[t].inputs = task[t].inputs
    BY <1>5 DEF Followup, Reconcile, Terminal, IInv, TypeOK, TaskRow
  <2>3. Fits(t)
    BY DEF IInv
  <2>4. Fits(t)'
    BY <2>1, <2>2, <2>3 DEF Fits, Shape, Awake
  <2>5. ASSUME NEW u \in Tasks, u # t PROVE Fits(u)'
    BY <2>1, <2>2, <2>5, Frame, SameIsSame DEF IInv, Awake
  <2>6. InOrder
    BY <2>1, <2>2 DEF InOrder
  <2> QED
    BY <2>4, <2>5, <2>6
<1> QED
  BY <1>1, <1>2, <1>3, <1>4, <1>5 DEF UserStep

\* A step of the worker of t leaves every other task and worker alone.
LEMMA OneWorks ==
  ASSUME IInv, NEW t \in Tasks, Running(t), Fits(t)',
         \A u \in Tasks \ {t} : /\ task'[u] = task[u] /\ worker'[u].phase = worker[u].phase
                                /\ worker'[u].observed = worker[u].observed /\ worker'[u].error = worker[u].error
  PROVE  \A u \in Tasks : Fits(u)'
<1>1. Awake
  BY DEF IInv, DownShape, Awake
<1> QED
  BY <1>1, Frame, SameIsSame DEF IInv

\* The same for a step that moves the phase of t and leaves the rows as they are.
LEMMA OneMoves ==
  ASSUME IInv, NEW t \in Tasks, Running(t), Fits(t)', run' = run, task' = task,
         \A u \in Tasks \ {t} : /\ worker'[u].phase = worker[u].phase
                                /\ worker'[u].observed = worker[u].observed /\ worker'[u].error = worker[u].error
  PROVE  InOrder /\ \A u \in Tasks : Fits(u)'
BY OneWorks, Still, SameIsSame

LEMMA TurnKeeps ==
  ASSUME IInv, NEW t \in Tasks, Prepare(t) \/ TurnStart(t) \/ DeliverInput(t) \/ TurnEnd(t)
  PROVE  InOrder /\ \A u \in Tasks : Fits(u)'
<1>1. /\ run' = run /\ Running(t) /\ proc' = proc
      /\ worker[t].phase \in {"prepare", "work", "deliver"}
  BY DEF Prepare, TurnStart, DeliverInput, TurnEnd, TaskOnly, WorkerOnly, At, Running
<1>2. /\ \A u \in Tasks \ {t} : worker'[u] = worker[u] \/ (worker'[u].phase = worker[u].phase
           /\ worker'[u].observed = worker[u].observed /\ worker'[u].error = worker[u].error)
      /\ \/ worker'[t].phase = "work"
         \/ worker'[t].phase = "yield" /\ worker[t].phase = "prepare"
         \/ worker'[t].phase = "deliver" /\ ~Unresolved(t)
         \/ worker'[t].phase = "deliver" /\ worker[t].phase = "deliver"
  <2>1. CASE Prepare(t)
    <3>1. Phase(t, "yield") \/ worker' = [worker EXCEPT ![t].phase = "work", ![t].observed = task[t].inputs]
      BY <2>1, Zenon DEF Prepare
    <3> QED
      BY <2>1, <3>1, PhaseIs, WorkBegins DEF Phases, Prepare, At, IInv
  <2>2. CASE TurnStart(t)
    BY <2>2 DEF TurnStart, IInv, TypeOK, WorkerState
  <2>3. CASE DeliverInput(t)
    BY <2>3 DEF DeliverInput, At
  <2>4. CASE TurnEnd(t)
    BY <2>4 DEF TurnEnd, IInv, TypeOK, WorkerState
  <2> QED
    BY <2>1, <2>2, <2>3, <2>4
<1>3. /\ \A u \in Tasks \ {t} : task'[u] = task[u]
      /\ task'[t].status = task[t].status /\ (task'[t].attempt <=> task[t].attempt)
      /\ task'[t].effect = task[t].effect
  BY DEF Prepare, TurnStart, DeliverInput, TurnEnd, WorkerOnly, IInv, TypeOK, TaskRow
<1>4. Fits(t)'
  BY <1>1, <1>2, <1>3, Fits(t) DEF IInv, Fits, Shape, Working, Unresolved, Awake
<1>5. \A u \in Tasks : Fits(u)'
  BY <1>1, <1>2, <1>3, <1>4, OneWorks
<1>6. InOrder
  BY <1>1, <1>3 DEF InOrder
<1> QED
  BY <1>5, <1>6

LEMMA ToolKeeps ==
  ASSUME IInv, NEW t \in Tasks, Dispatch(t) \/ SettleEffect(t) \/ AskUser(t)
  PROVE  InOrder /\ \A u \in Tasks : Fits(u)'
<1>1. /\ run' = run /\ Running(t) /\ proc' = proc /\ worker[t].phase = "work"
  BY DEF Dispatch, SettleEffect, AskUser, TaskOnly, At, Running
<1>2. /\ \A u \in Tasks \ {t} : worker'[u].phase = worker[u].phase
           /\ worker'[u].observed = worker[u].observed /\ worker'[u].error = worker[u].error
      /\ \/ worker'[t].phase = "work"
         \/ worker'[t].phase = "yield" /\ task'[t].effect = "clear"
         \/ worker'[t].phase = "block"
  <2>1. CASE Dispatch(t)
    BY <1>1, <2>1 DEF Dispatch
  <2>2. CASE SettleEffect(t)
    BY <1>1, <2>2, FailsIs DEF SettleEffect, IInv
  <2>3. CASE AskUser(t)
    BY <2>3, PhaseIs DEF Phases, AskUser, Unresolved, IInv, TypeOK, TaskRow
  <2> QED
    BY <2>1, <2>2, <2>3
<1>3. /\ \A u \in Tasks \ {t} : task'[u] = task[u]
      /\ task'[t].status = task[t].status /\ (task'[t].attempt <=> task[t].attempt)
  BY DEF Dispatch, SettleEffect, AskUser, IInv, TypeOK, TaskRow
<1>4. Fits(t)'
  BY <1>1, <1>2, <1>3, Fits(t) DEF IInv, Fits, Shape, Working, Awake
<1>5. \A u \in Tasks : Fits(u)'
  BY <1>1, <1>2, <1>3, <1>4, OneWorks
<1>6. InOrder
  BY <1>1, <1>3 DEF InOrder
<1> QED
  BY <1>5, <1>6

\* Steps that only move the worker on.
LEMMA MoveKeeps ==
  ASSUME IInv, NEW t \in Tasks,
         Finish(t) \/ FinishTooEarly(t) \/ WorkerFails(t) \/ CheckFails(t) \/ ValidationFails(t) \/ RejectRefused(t)
           \/ Cleanup(t) \/ Leave(t)
  PROVE  InOrder /\ \A u \in Tasks : Fits(u)'
<1>1. Running(t) /\ run' = run /\ task' = task /\ proc' = proc
  BY DEF Finish, FinishTooEarly, WorkerFails, CheckFails, ValidationFails, RejectRefused, Cleanup, Leave, WorkerOnly,
         At, Running
<1>2. Fits(t) /\ Awake
  BY <1>1 DEF IInv, DownShape, Awake
<1> USE <1>1, <1>2 DEF IInv, At
<1>3. CASE Finish(t)
  BY <1>3, PhaseIs, OneMoves DEF Finish, MayFinish, Phases, Fits, Shape, Working, Unresolved, Awake
<1>4. CASE FinishTooEarly(t)
  BY <1>4, FailsIs, OneMoves DEF FinishTooEarly, Fits, Shape, Working, Awake
<1>5. CASE WorkerFails(t)
  <2>1. PICK e \in {"none", "busy", "transient", "fault"} : Fails(t, e)
    BY <1>5, RuntimeAssumption DEF WorkerFails
  <2> QED
    BY <1>5, <2>1, FailsIs, OneMoves DEF WorkerFails, Fits, Shape, Working, Awake
<1>6. CASE CheckFails(t)
  BY <1>6, PhaseIs, OneMoves DEF CheckFails, Phases, Fits, Shape, Working, Awake
<1>7. CASE ValidationFails(t) \/ RejectRefused(t)
  BY <1>7, FailsIs, OneMoves DEF ValidationFails, RejectRefused, Fits, Shape, Working, Awake
<1>8. CASE Cleanup(t)
  BY <1>8, PhaseIs, FailsIs, OneMoves DEF Cleanup, Phases, Fits, Shape, Working, Awake
<1>9. CASE Leave(t)
  BY <1>9, OneMoves DEF Leave, TypeOK, Idle, Fits, Shape, Working, Awake
<1> QED
  BY <1>3, <1>4, <1>5, <1>6, <1>7, <1>8, <1>9

\* finishAttempt ends the attempt of t; parking wakes the tasks whose turn has come.
LEMMA ParkKeeps == ASSUME IInv, NEW t \in Tasks, Park(t) PROVE InOrder /\ \A u \in Tasks : Fits(u)'
<1> DEFINE rows == [task EXCEPT ![t] = Parked(t)]
<1>1. /\ Running(t) /\ proc' = proc /\ (run' = "succeeded" <=> run = "succeeded")
      /\ worker[t].phase = "yield" /\ task[t].attempt
      /\ SaveAndWake(rows) \/ task' = rows
  BY DEF Park, RunDrained, At, Running
<1>2. /\ \A u \in Tasks : /\ worker'[u].phase = IF u = t THEN "cleanup" ELSE worker[u].phase
                          /\ worker'[u].observed = worker[u].observed /\ worker'[u].error = worker[u].error
  BY PhaseIs DEF Park, IInv, Phases
<1>3. /\ Parked(t) \in TaskRow /\ ~Parked(t).attempt /\ Data(Parked(t), task[t])
      /\ \/ Parked(t).status = "reconciling"
         \/ Parked(t).status = "paused" /\ Parked(t).resumeTo = "waiting"
         \/ Parked(t).status = "waiting"
  BY ParkedIs DEF IInv
<1>4. Fits(t) /\ Awake
  BY <1>1 DEF IInv, DownShape, Awake
<1>5. task[t].effect = "clear" /\ task[t].status = "running" /\ Accepted(task, t)
  BY <1>1, <1>4 DEF Fits, Shape, IInv, DependenciesFirst
<1>6. rows \in [Tasks -> TaskRow] /\ rows[t] = Parked(t) /\ \A u \in Tasks \ {t} : rows[u] = task[u]
  BY <1>3 DEF IInv, TypeOK
<1> HIDE DEF rows
<1>7. \A u \in Tasks : Accepted(rows, u) => Accepted(task, u)
  BY <1>3, <1>6, RuntimeAssumption DEF Accepted
<1>8. ASSUME NEW u \in Tasks
      PROVE  \/ task'[u] = rows[u]
             \/ /\ rows[u].status = "waiting" /\ ~rows[u].attempt /\ Accepted(task, u)
                /\ task'[u].status = "ready" /\ ~task'[u].attempt /\ task'[u].resumeTo = rows[u].resumeTo
                /\ task'[u].seen = rows[u].seen /\ Data(task'[u], rows[u])
  BY <1>1, <1>6, <1>7, SavedIs DEF IInv
<1>9. /\ ~task'[t].attempt /\ task'[t].effect = "clear"
      /\ task'[t].status \in {"reconciling", "paused", "waiting", "ready"}
      /\ task'[t].status = "paused" => task'[t].resumeTo = "waiting"
  BY <1>3, <1>5, <1>6, <1>8 DEF Data
<1>10. Fits(t)'
  BY <1>2, <1>9 DEF Fits, Shape, Working
<1>11. ASSUME NEW u \in Tasks, u # t
       PROVE  /\ Fits(u)' /\ (task'[u].status = "succeeded" <=> task[u].status = "succeeded")
              /\ task'[u].status = task[u].status \/ Accepted(task, u)
  <2>1. Fits(u) /\ rows[u] = task[u]
    BY <1>6, <1>11 DEF IInv
  <2>2. CASE task'[u] = task[u]
    BY <1>2, <1>4, <1>11, <2>2, Frame, SameIsSame DEF IInv
  <2>3. CASE /\ task[u].status = "waiting" /\ ~task[u].attempt /\ Accepted(task, u)
             /\ task'[u].status = "ready" /\ ~task'[u].attempt /\ task'[u].resumeTo = task[u].resumeTo
             /\ task'[u].seen = task[u].seen /\ Data(task'[u], task[u])
    <3>1. Fits(u)'
      BY <1>2, <1>11, <2>1, <2>3 DEF Fits, Shape, Data
    <3> QED
      BY <2>3, <3>1
  <2> QED
    BY <1>8, <2>1, <2>2, <2>3
<1>12. InOrder
  BY <1>1, <1>5, <1>9, <1>11 DEF InOrder
<1> QED
  BY <1>10, <1>11, <1>12

LEMMA SubmitKeeps == ASSUME IInv, NEW t \in Tasks, Submit(t) PROVE InOrder /\ \A u \in Tasks : Fits(u)'
<1>1. /\ Running(t) /\ proc' = proc /\ (run' = "succeeded" <=> run = "succeeded")
      /\ worker[t].phase = "submit" /\ task[t].attempt /\ task' = [task EXCEPT ![t] = Submitted(t)]
  BY DEF Submit, RunDrained, At, Running
<1>2. /\ \A u \in Tasks : /\ worker'[u].phase = IF u = t THEN "cleanup" ELSE worker[u].phase
                          /\ worker'[u].observed = worker[u].observed /\ worker'[u].error = worker[u].error
  BY PhaseIs DEF Submit, IInv, Phases
<1>3. /\ Submitted(t) \in TaskRow /\ ~Submitted(t).attempt /\ Data(Submitted(t), task[t])
      /\ Submitted(t).seen = worker[t].observed
      /\ Submitted(t).status \in {"reconciling", "paused", "validating"}
  BY SubmittedIs DEF IInv
<1>4. Fits(t)
  BY DEF IInv
<1>5. task[t].effect = "clear" /\ task[t].status = "running" /\ task[t].given = worker[t].observed
  BY <1>1, <1>4 DEF Fits, Shape
<1>6. task'[t] = Submitted(t) /\ \A u \in Tasks \ {t} : task'[u] = task[u]
  BY <1>1 DEF IInv, TypeOK
<1>7. Fits(t)'
  BY <1>2, <1>3, <1>5, <1>6 DEF Fits, Shape, Data, Working
<1>8. \A u \in Tasks : Fits(u)'
  BY <1>1, <1>2, <1>6, <1>7, OneWorks
<1>9. InOrder
  BY <1>1, <1>3, <1>5, <1>6 DEF InOrder
<1> QED
  BY <1>8, <1>9

LEMMA StaleKeeps == ASSUME IInv, NEW t \in Tasks, StaleInput(t) PROVE InOrder /\ \A u \in Tasks : Fits(u)'
<1>1. Running(t) /\ proc' = proc /\ run' = run /\ worker[t].phase = "validate"
  BY DEF StaleInput, At, Running
<1>2. Fits(t)
  BY DEF IInv
<1>3. task[t].status = "validating" /\ task[t].effect = "clear" /\ ~task[t].attempt
  BY <1>1, <1>2 DEF Fits, Shape
<1>4. CASE Phase(t, "cleanup") /\ task' = [task EXCEPT ![t].status = "ready"]
  <2>1. /\ \A u \in Tasks : /\ worker'[u].phase = IF u = t THEN "cleanup" ELSE worker[u].phase
                            /\ worker'[u].observed = worker[u].observed /\ worker'[u].error = worker[u].error
    BY <1>4, PhaseIs DEF IInv, Phases
  <2>2. /\ task'[t].status = "ready" /\ ~task'[t].attempt /\ task'[t].effect = "clear"
        /\ \A u \in Tasks \ {t} : task'[u] = task[u]
    BY <1>3, <1>4 DEF IInv, TypeOK, TaskRow
  <2>3. Fits(t)'
    BY <2>1, <2>2 DEF Fits, Shape, Working
  <2>4. \A u \in Tasks : Fits(u)'
    BY <1>1, <2>1, <2>2, <2>3, OneWorks
  <2>5. InOrder
    BY <1>1, <1>3, <2>2 DEF InOrder
  <2> QED
    BY <2>4, <2>5
<1>5. CASE Fails(t, "fault") /\ task' = task
  BY <1>1, <1>2, <1>3, <1>5, FailsIs, OneMoves DEF IInv, Fits, Shape, Working
<1> QED
  BY <1>4, <1>5 DEF StaleInput

LEMMA RejectKeeps == ASSUME IInv, NEW t \in Tasks, Reject(t) PROVE InOrder /\ \A u \in Tasks : Fits(u)'
<1>1. Running(t) /\ proc' = proc /\ run = "active" /\ worker[t].phase = "reject"
  BY DEF Reject, At, Running
<1>2. Fits(t)
  BY DEF IInv
<1>3. task[t].status = "validating" /\ task[t].effect = "clear" /\ ~task[t].attempt
  BY <1>1, <1>2 DEF Fits, Shape
<1>4. \A u \in Tasks : /\ worker'[u].phase = IF u = t THEN "cleanup" ELSE worker[u].phase
                       /\ worker'[u].observed = worker[u].observed /\ worker'[u].error = worker[u].error
  BY PhaseIs DEF Reject, IInv, Phases
<1>5. PICK s \in TaskStates : s = IF task[t].rejections + 1 > MaxRetries THEN "failed" ELSE "ready"
  BY DEF TaskStates
<1>6. PICK rows : rows = Rejects(task, t, s)
  OBVIOUS
<1>7. /\ rows \in [Tasks -> TaskRow]
      /\ \A u \in Tasks \ {t} : rows[u] = task[u]
      /\ (rows[t].attempt <=> task[t].attempt) /\ rows[t].status = s /\ Data(rows[t], task[t])
  BY <1>6, RejectIs DEF IInv
<1>8. \/ run' = "failed" /\ task' = WaitsCancelled(rows)
      \/ task' = rows /\ run' = run
  BY <1>5, <1>6, Zenon DEF Reject, Rejects
<1>9. \A u \in Tasks : SameRow(task'[u], rows[u])
  BY <1>7, <1>8, WaitsIs, SameIsSame
<1>10. /\ task'[t].status \in {"failed", "ready"} /\ ~task'[t].attempt /\ task'[t].effect = "clear"
       /\ \A u \in Tasks \ {t} : SameRow(task'[u], task[u])
  BY <1>3, <1>5, <1>7, <1>9 DEF SameRow, Data
<1>11. Fits(t)'
  BY <1>4, <1>10 DEF Fits, Shape, Working
<1>12. \A u \in Tasks \ {t} : Fits(u)'
  BY <1>1, <1>4, <1>10, Frame DEF IInv, Awake
<1>13. InOrder
  BY <1>1, <1>3, <1>8, <1>10 DEF InOrder, SameRow
<1> QED
  BY <1>11, <1>12, <1>13

LEMMA BlockKeeps == ASSUME IInv, NEW t \in Tasks, Block(t) PROVE InOrder /\ \A u \in Tasks : Fits(u)'
<1>1. Running(t) /\ worker[t].phase = "block"
  BY DEF Block, At, Running
<1>2. Fits(t) /\ Accepted(task, t)
  BY <1>1 DEF IInv, WorkersInOrder
<1>3. /\ \A u \in Tasks \ {t} : task'[u] = task[u]
      /\ \/ task[t].status \in Terminal \cup {"ready"} /\ task' = task /\ run' = run
         \/ /\ task[t].status \notin Terminal \cup {"ready"}
            /\ ~task'[t].attempt /\ Data(task'[t], task[t])
            /\ \/ run = "active" /\ run' = run /\ MayRetry(t) /\ task'[t].status = "ready"
               \/ run' \in {run, "paused"} /\ (run' # run => run = "active") /\ task'[t].status = "reconciling"
      /\ \A u \in Tasks : /\ worker'[u].phase = IF u = t THEN "leave" ELSE worker[u].phase
                          /\ worker'[u].observed = worker[u].observed /\ worker'[u].error = worker[u].error
  BY BlockIs DEF IInv
<1>4. CASE task[t].status \in Terminal \cup {"ready"} /\ task' = task /\ run' = run
  <2>1. Fits(t)'
    BY <1>2, <1>3, <1>4 DEF Fits, Shape, Working, Terminal
  <2> QED
    BY <1>1, <1>3, <1>4, <2>1, OneMoves
<1>5. CASE /\ task[t].status \notin Terminal \cup {"ready"}
           /\ ~task'[t].attempt /\ Data(task'[t], task[t])
           /\ \/ run = "active" /\ run' = run /\ MayRetry(t) /\ task'[t].status = "ready"
              \/ run' \in {run, "paused"} /\ (run' # run => run = "active") /\ task'[t].status = "reconciling"
  <2>1. Fits(t)'
    BY <1>2, <1>3, <1>5 DEF Fits, Shape, Working, Data, MayRetry, Unresolved
  <2>2. \A u \in Tasks : Fits(u)'
    BY <1>1, <1>3, <2>1, OneWorks
  <2>3. InOrder
    BY <1>2, <1>3, <1>5 DEF InOrder, Terminal
  <2> QED
    BY <2>2, <2>3
<1> QED
  BY <1>3, <1>4, <1>5

\* An acceptance: the task answers every input it was given, and the run is over
\* when it was the last one.
LEMMA AcceptKeeps ==
  ASSUME IInv, NEW t \in Tasks, Accept(t)
  PROVE  DependenciesFirst' /\ \A u \in Tasks : Fits(u)' /\ (task[u].status = "succeeded" => task'[u].status = "succeeded")
<1> DEFINE rows == [task EXCEPT ![t].status = "succeeded"]
<1>1. /\ Running(t) /\ proc' = proc /\ run = "active" /\ worker[t].phase = "validate"
      /\ SaveAndWake(rows) /\ task[t].status = "validating" /\ task[t].seen = task[t].inputs
      /\ run' = IF \A u \in Tasks : rows[u].status = "succeeded" THEN "succeeded" ELSE run
  BY DEF Accept, At, Running, MayAccept, Current
<1>2. \A u \in Tasks : /\ worker'[u].phase = IF u = t THEN "cleanup" ELSE worker[u].phase
                       /\ worker'[u].observed = worker[u].observed /\ worker'[u].error = worker[u].error
  BY PhaseIs DEF Accept, IInv, Phases
<1>3. Fits(t) /\ Accepted(task, t)
  BY <1>1 DEF IInv, WorkersInOrder
<1>4. /\ rows \in [Tasks -> TaskRow] /\ rows[t].status = "succeeded" /\ ~rows[t].attempt /\ rows[t].effect = "clear"
      /\ rows[t].seen = rows[t].inputs /\ rows[t].given = rows[t].inputs
      /\ \A u \in Tasks \ {t} : rows[u] = task[u]
  <2>1. /\ rows \in [Tasks -> TaskRow] /\ rows[t] = WithStatus(task[t], "succeeded")
        /\ \A u \in Tasks \ {t} : rows[u] = task[u]
    BY DEF IInv, TypeOK, TaskRow, TaskStates, WithStatus
  <2>2. task[t] \in TaskRow /\ "succeeded" \in TaskStates
    BY DEF IInv, TypeOK, TaskStates
  <2>3. ~task[t].attempt /\ task[t].effect = "clear" /\ task[t].given = task[t].seen
    BY <1>1, <1>3 DEF Fits, Shape
  <2> HIDE DEF rows
  <2> QED
    BY <1>1, <2>1, <2>2, <2>3, StatusRow DEF Data
<1> HIDE DEF rows
<1>5. ASSUME NEW u \in Tasks
      PROVE  \/ task'[u] = rows[u]
             \/ /\ rows[u].status = "waiting" /\ ~rows[u].attempt /\ Accepted(rows, u)
                /\ task'[u].status = "ready" /\ ~task'[u].attempt /\ task'[u].resumeTo = rows[u].resumeTo
                /\ task'[u].seen = rows[u].seen /\ Data(task'[u], rows[u])
  BY <1>1, <1>4, SavedIs DEF IInv
<1>6. task'[t] = rows[t]
  BY <1>4, <1>5
<1>7. Fits(t)'
  BY <1>2, <1>4, <1>6 DEF Fits, Shape, Working
<1>8. ASSUME NEW u \in Tasks, u # t
      PROVE  Fits(u)' /\ (task'[u].status = "succeeded" <=> task[u].status = "succeeded")
  <2>1. Fits(u) /\ rows[u] = task[u]
    BY <1>4, <1>8 DEF IInv
  <2>2. CASE task'[u] = task[u]
    BY <1>1, <1>2, <1>8, <2>2, Frame, SameIsSame DEF IInv, Awake
  <2>3. CASE /\ task[u].status = "waiting" /\ ~task[u].attempt
             /\ task'[u].status = "ready" /\ ~task'[u].attempt /\ task'[u].resumeTo = task[u].resumeTo
             /\ task'[u].seen = task[u].seen /\ Data(task'[u], task[u])
    <3>1. Fits(u)'
      BY <1>2, <1>8, <2>1, <2>3 DEF Fits, Shape, Data
    <3> QED
      BY <2>3, <3>1
  <2> QED
    BY <1>5, <2>1, <2>2, <2>3
<1>9. \A u \in Tasks : rows[u].status = "succeeded" <=> task'[u].status = "succeeded"
  BY <1>5
<1>10. ASSUME NEW u \in Tasks, task'[u].status \notin {"waiting", "cancelled"} PROVE Accepted(task', u)
  <2>1. CASE u = t
    BY <1>3, <1>6, <1>4, <1>8, <2>1, RuntimeAssumption DEF Accepted
  <2>2. CASE u # t /\ task'[u] = rows[u]
    <3>1. Accepted(task, u)
      BY <1>4, <1>10, <2>2 DEF IInv, DependenciesFirst
    <3> QED
      BY <1>4, <1>6, <1>8, <3>1, RuntimeAssumption DEF Accepted
  <2>3. CASE Accepted(rows, u)
    BY <1>9, <2>3, RuntimeAssumption DEF Accepted
  <2> QED
    BY <1>5, <2>1, <2>2, <2>3
<1>11. run' = "succeeded" <=> \A u \in Tasks : task'[u].status = "succeeded"
  BY <1>1, <1>9
<1>12. DependenciesFirst'
  BY <1>10, <1>11 DEF DependenciesFirst
<1> QED
  BY <1>1, <1>7, <1>8, <1>12

LEMMA WorkerKeeps ==
  ASSUME IInv, NEW t \in Tasks, WorkerStep(t), ~Accept(t) PROVE InOrder /\ \A u \in Tasks : Fits(u)'
BY TurnKeeps, ToolKeeps, MoveKeeps, ParkKeeps, SubmitKeeps, StaleKeeps, RejectKeeps, BlockKeeps DEF WorkerStep

\* Steps in order keep the order of the plan.
LEMMA OrderKept == ASSUME DependenciesFirst, InOrder PROVE DependenciesFirst'
<1>1. \A t \in Tasks : Accepted(task, t) => Accepted(task', t)
  BY RuntimeAssumption DEF InOrder, Accepted
<1>2. ASSUME NEW t \in Tasks, task'[t].status \notin {"waiting", "cancelled"} PROVE Accepted(task', t)
  BY <1>1, <1>2 DEF InOrder, DependenciesFirst
<1>3. run' = "succeeded" <=> \A t \in Tasks : task'[t].status = "succeeded"
  BY DEF InOrder, DependenciesFirst
<1> QED
  BY <1>2, <1>3 DEF DependenciesFirst

-----------------------------------------------------------------------------
(* The rest of the inductive invariant: what the loop, the recovery and the     *)
(* control of the run are sure of.                                             *)

Shapes == AtShape /\ DownShape /\ TodoShape /\ CancelShape /\ WorkersInOrder

NoNewWorker == \A t \in Tasks : Running(t)' => Running(t)

\* What is to be reconciled or was cancelled stays so while nobody recovers it.
Held == \A t \in Tasks : task[t].status \in {"reconciling", "cancelled"} => task'[t].status \in {"reconciling", "cancelled"}

LEMMA WorkersStay ==
  ASSUME WorkersInOrder, NoNewWorker, \A t \in Tasks : task[t].status = "succeeded" => task'[t].status = "succeeded"
  PROVE  WorkersInOrder'
<1>1. \A t \in Tasks : Accepted(task, t) => Accepted(task', t)
  BY RuntimeAssumption DEF Accepted
<1> QED
  BY <1>1 DEF WorkersInOrder, NoNewWorker

\* A step of the worker of t is one of a task that has a worker, and moves no other.
LEMMA WorkerAlone ==
  ASSUME IInv, NEW t \in Tasks, WorkerStep(t)
  PROVE  Running(t) /\ \A u \in Tasks \ {t} : worker'[u].phase = worker[u].phase
<1>1. Running(t)
  BY DEF WorkerStep, Prepare, TurnStart, DeliverInput, TurnEnd, Dispatch, SettleEffect, AskUser, Park, Finish,
         FinishTooEarly, Submit, WorkerFails, Accept, StaleInput, CheckFails, ValidationFails, Reject, RejectRefused,
         Cleanup, Block, Leave, At, Running
<1> USE DEF IInv
<1>2. CASE Prepare(t)
  <2>1. Phase(t, "yield") \/ worker' = [worker EXCEPT ![t].phase = "work", ![t].observed = task[t].inputs]
    BY <1>2, Zenon DEF Prepare
  <2> QED
    BY <1>1, <2>1, PhaseIs, WorkBegins DEF Phases
<1>3. CASE TurnStart(t) \/ DeliverInput(t) \/ TurnEnd(t) \/ Dispatch(t) \/ Leave(t)
  BY <1>1, <1>3 DEF TurnStart, DeliverInput, TurnEnd, Dispatch, Leave, TypeOK, WorkerState
<1>4. CASE SettleEffect(t) \/ FinishTooEarly(t) \/ ValidationFails(t) \/ RejectRefused(t)
  BY <1>1, <1>4, FailsIs DEF SettleEffect, FinishTooEarly, ValidationFails, RejectRefused
<1>5. CASE AskUser(t) \/ Park(t) \/ Finish(t) \/ Submit(t) \/ Accept(t) \/ CheckFails(t) \/ Reject(t)
  BY <1>1, <1>5, PhaseIs DEF AskUser, Park, Finish, Submit, Accept, CheckFails, Reject, Phases
<1>6. CASE StaleInput(t) \/ Cleanup(t)
  BY <1>1, <1>6, PhaseIs, FailsIs DEF StaleInput, Cleanup, Phases
<1>7. CASE WorkerFails(t)
  <2>1. PICK e \in {"none", "busy", "transient", "fault"} : Fails(t, e)
    BY <1>7, RuntimeAssumption DEF WorkerFails
  <2> QED
    BY <1>1, <2>1, FailsIs
<1>8. CASE Block(t)
  BY <1>1, <1>8, BlockIs
<1> QED
  BY <1>1, <1>2, <1>3, <1>4, <1>5, <1>6, <1>7, <1>8 DEF WorkerStep

LEMMA WorkerOthers ==
  ASSUME IInv, NEW t \in Tasks, WorkerStep(t)
  PROVE  NoNewWorker
BY WorkerAlone DEF NoNewWorker, Running

\* A woken task was waiting.
LEMMA WokenHeld ==
  ASSUME TypeOK, NEW rows \in [Tasks -> TaskRow], SaveAndWake(rows), NEW u \in Tasks,
         rows[u].status \in {"reconciling", "cancelled"}
  PROVE  task'[u].status \in {"reconciling", "cancelled"}
BY SavedIs

LEMMA WorkerHeld == ASSUME IInv, NEW t \in Tasks, WorkerStep(t) PROVE Held
<1> USE DEF IInv, Held
<1>1. Fits(t)
  OBVIOUS
<1>2. CASE \/ Prepare(t) \/ TurnStart(t) \/ DeliverInput(t) \/ TurnEnd(t) \/ Dispatch(t) \/ SettleEffect(t) \/ AskUser(t)
           \/ Finish(t) \/ FinishTooEarly(t) \/ WorkerFails(t) \/ CheckFails(t) \/ ValidationFails(t) \/ RejectRefused(t)
           \/ Cleanup(t) \/ Leave(t)
  BY <1>2 DEF Prepare, TurnStart, DeliverInput, TurnEnd, Dispatch, SettleEffect, AskUser, Finish, FinishTooEarly,
              WorkerFails, CheckFails, ValidationFails, RejectRefused, Cleanup, Leave, WorkerOnly, TypeOK, TaskRow
<1>3. CASE Park(t)
  <2>1. task[t].status = "running"
    BY <1>1, <1>3 DEF Park, Fits, Shape
  <2>2. PICK rows : rows = [task EXCEPT ![t] = Parked(t)]
    OBVIOUS
  <2>3. rows \in [Tasks -> TaskRow] /\ \A u \in Tasks \ {t} : rows[u] = task[u]
    BY <2>2, ParkedIs DEF TypeOK
  <2>4. SaveAndWake(rows) \/ task' = rows
    BY <1>3, <2>2 DEF Park
  <2> QED
    BY <2>1, <2>3, <2>4, WokenHeld
<1>4. CASE Submit(t)
  BY <1>1, <1>4 DEF Submit, Fits, Shape, TypeOK
<1>5. CASE Accept(t)
  <2>1. task[t].status = "validating"
    BY <1>5 DEF Accept, MayAccept
  <2>2. PICK rows : rows = [task EXCEPT ![t].status = "succeeded"]
    OBVIOUS
  <2>3. rows \in [Tasks -> TaskRow] /\ \A u \in Tasks \ {t} : rows[u] = task[u]
    BY <2>2 DEF TypeOK, TaskRow, TaskStates
  <2>4. SaveAndWake(rows)
    BY <1>5, <2>2 DEF Accept
  <2> QED
    BY <2>1, <2>3, <2>4, WokenHeld
<1>6. CASE StaleInput(t)
  BY <1>6 DEF StaleInput, TypeOK, TaskRow
<1>7. CASE Reject(t)
  <2>1. task[t].status = "validating"
    BY <1>1, <1>7 DEF Reject, Fits, Shape, At
  <2>2. PICK s \in TaskStates : s = IF task[t].rejections + 1 > MaxRetries THEN "failed" ELSE "ready"
    BY DEF TaskStates
  <2>3. PICK rows : rows = Rejects(task, t, s)
    OBVIOUS
  <2>4. rows \in [Tasks -> TaskRow] /\ \A u \in Tasks \ {t} : rows[u] = task[u]
    BY <2>3, RejectIs
  <2>5. task' = WaitsCancelled(rows) \/ task' = rows
    BY <1>7, <2>2, <2>3, Zenon DEF Reject, Rejects
  <2>6. \A u \in Tasks : task'[u].status = rows[u].status
    BY <2>4, <2>5, WaitsIs DEF SameRow
  <2> QED
    BY <2>1, <2>4, <2>6
<1>8. CASE Block(t)
  <2>1. /\ \A u \in Tasks \ {t} : task'[u] = task[u]
        /\ \/ task' = task
           \/ /\ task[t].status \notin Terminal \cup {"ready"}
              /\ MayRetry(t) \/ task'[t].status = "reconciling"
    BY <1>8, BlockIs
  <2>2. worker[t].phase = "block"
    BY <1>8 DEF Block, At
  <2>3. task[t].status \in {"reconciling", "cancelled"} => ~MayRetry(t)
    BY <1>1, <2>2 DEF Fits, Shape, MayRetry
  <2> QED
    BY <2>1, <2>3 DEF Terminal
<1> QED
  BY <1>2, <1>3, <1>4, <1>5, <1>6, <1>7, <1>8 DEF WorkerStep

LEMMA WorkerShapes ==
  ASSUME IInv, NEW t \in Tasks, WorkerStep(t),
         \A u \in Tasks : task[u].status = "succeeded" => task'[u].status = "succeeded"
  PROVE  Shapes'
<1>1. NoNewWorker /\ Held
  BY WorkerOthers, WorkerHeld
<1>2. Running(t) /\ at' = at /\ tick' = tick /\ todo' = todo
  BY DEF WorkerStep, Prepare, TurnStart, DeliverInput, TurnEnd, Dispatch, SettleEffect, AskUser, Park, Finish,
         FinishTooEarly, Submit, WorkerFails, Accept, StaleInput, CheckFails, ValidationFails, Reject, RejectRefused,
         Cleanup, Block, Leave, WorkerOnly, TaskOnly, loop, At, Running
<1>3. run' \in {run, "paused", "succeeded", "failed"}
  BY DEF WorkerStep, Prepare, TurnStart, DeliverInput, TurnEnd, Dispatch, SettleEffect, AskUser, Park, Finish,
         FinishTooEarly, Submit, WorkerFails, Accept, StaleInput, CheckFails, ValidationFails, Reject, RejectRefused,
         Cleanup, Block, Leave, WorkerOnly, TaskOnly, RunDrained
<1>4. proc' = proc \/ (proc = "up" /\ proc' = "stopped")
  BY DEF WorkerStep, Prepare, TurnStart, DeliverInput, TurnEnd, Dispatch, SettleEffect, AskUser, Park, Finish,
         FinishTooEarly, Submit, WorkerFails, Accept, StaleInput, CheckFails, ValidationFails, Reject, RejectRefused,
         Cleanup, Block, Leave, WorkerOnly, TaskOnly, Fatal
<1>5. run # "cancelled" /\ proc \notin {"down", "starting"}
  BY <1>2 DEF IInv, CancelShape, DownShape
<1>6. AtShape' /\ DownShape'
  BY <1>1, <1>2, <1>4, <1>5 DEF IInv, AtShape, DownShape, NoNewWorker, TypeOK, TaskOf, Keys
<1>7. TodoShape'
  BY <1>1, <1>2, <1>4, <1>5 DEF IInv, TodoShape, Held, TypeOK
<1>8. CancelShape'
  BY <1>3, <1>5 DEF CancelShape
<1>9. WorkersInOrder'
  BY <1>1, WorkersStay DEF IInv
<1> QED
  BY <1>6, <1>7, <1>8, <1>9 DEF Shapes

LEMMA OwnerShapes == ASSUME IInv, OwnerStep, InOrder PROVE Shapes'
<1> USE DEF IInv, loop
<1>1. ASSUME NoNewWorker PROVE WorkersInOrder'
  BY <1>1, WorkersStay DEF InOrder
<1>2. CASE Start
  <2>1. /\ proc = "down" /\ proc' = "starting" /\ task' = task /\ worker' = worker /\ tick' = tick /\ at' = at
        /\ todo' = ToRecover /\ (run' = "cancelled" => run = "cancelled")
    BY <1>2 DEF Start
  <2>2. TodoShape'
    BY <2>1 DEF TodoShape, ToRecover, Fits, Shape
  <2> QED
    BY <1>1, <2>1, <2>2 DEF Shapes, AtShape, DownShape, CancelShape, NoNewWorker, Running, Unresolved
<1>3. ASSUME NEW t \in Tasks, Recover(t) PROVE Shapes'
  <2>1. /\ \A u \in Tasks \ {t} : task'[u] = task[u]
        /\ \/ task'[t].status = task[t].status /\ task[t].status \notin {"running", "reconciling"}
           \/ task[t].status \in {"running", "reconciling"} /\ ~task'[t].attempt
        /\ ~task'[t].attempt \/ task' = task
        /\ task'[t].effect = task[t].effect
    BY <1>3, RecoverIs
  <2>2. /\ worker' = worker /\ proc' = proc /\ t \in todo /\ todo' = todo \ {t} /\ at' = at /\ tick' = tick
        /\ run' \in {run, "paused"}
    BY <1>3 DEF Recover
  <2>3. TodoShape'
    <3>1. task[t].status # "running" => ~task[t].attempt
      BY DEF Fits, Shape
    <3>2. ~task'[t].attempt
      BY <2>1, <3>1
    <3> QED
      BY <2>1, <2>2, <3>2 DEF TodoShape, TypeOK
  <2>4. CancelShape'
    BY <2>1, <2>2 DEF CancelShape, Running, Unresolved, Terminal
  <2> QED
    BY <1>1, <2>2, <2>3, <2>4 DEF Shapes, AtShape, DownShape, NoNewWorker, Running
<1>4. CASE Started
  <2>1. /\ proc = "starting" /\ proc' = "up" /\ todo = {} /\ todo' = {} /\ worker' = worker /\ run' = run
        /\ at' = at /\ tick' = tick
        /\ run # "active" => task' = task
    BY <1>4 DEF Started
  <2> QED
    BY <1>1, <2>1 DEF Shapes, AtShape, DownShape, TodoShape, CancelShape, NoNewWorker, Running, Unresolved
<1>5. CASE Crash \/ Closed
  <2>1. /\ proc' = "down" /\ at' = {} /\ tick' = "idle" /\ todo' = {} /\ task' = task /\ run' = run
        /\ \A t \in Tasks : worker'[t].phase = "none"
    BY <1>5 DEF Crash, Closed, Gone, Idle
  <2> QED
    BY <1>1, <2>1 DEF Shapes, AtShape, DownShape, TodoShape, CancelShape, NoNewWorker, Running, Unresolved
<1>6. CASE Close
  BY <1>1, <1>6 DEF Close, Shapes, AtShape, DownShape, TodoShape, CancelShape, NoNewWorker, Running, Unresolved
<1>7. CASE CloseAborts
  <2>1. /\ proc = "closing" /\ proc' = proc /\ task' = task /\ run' = run /\ todo' = todo /\ at' = at /\ tick' = tick
        /\ \A t \in Tasks : worker'[t].phase = worker[t].phase
    BY <1>7, AbortingIs DEF CloseAborts, TypeOK
  <2> QED
    BY <1>1, <2>1 DEF Shapes, AtShape, DownShape, TodoShape, CancelShape, NoNewWorker, Running, Unresolved, TypeOK, TaskOf, Keys
<1> QED
  BY <1>2, <1>3, <1>4, <1>5, <1>6, <1>7 DEF OwnerStep

LEMMA UserShapes == ASSUME IInv, UserStep, InOrder PROVE Shapes'
<1> USE DEF IInv, loop
<1>1. /\ worker' = worker /\ proc' = proc /\ at' = at /\ tick' = tick
      /\ \/ proc \in {"up", "stopped"}
         \/ task' = task /\ todo' = todo /\ run' = run
  BY DEF UserStep, Pause, Extend, DeadlinePasses, Resume, Cancel, Answer, Followup, Reconcile, TaskOnly, Serving, TakesInput
<1>2. WorkersInOrder' /\ AtShape' /\ DownShape'
  <2>1. WorkersInOrder'
    BY <1>1, WorkersStay DEF NoNewWorker, Running, InOrder
  <2> QED
    BY <1>1, <2>1 DEF AtShape, DownShape, Running
<1>3. TodoShape' /\ CancelShape'
  <2>1. CASE Pause \/ Extend \/ DeadlinePasses
    BY <1>1, <2>1 DEF Pause, Extend, DeadlinePasses, TodoShape, CancelShape, Running, Unresolved
  <2>2. CASE Resume
    <3>1. run' = "active" /\ proc' = "up"
      BY <2>2 DEF Resume
    <3>2. ASSUME NEW t \in todo' PROVE task'[t].status = "reconciling"
      <4>1. t \in Tasks /\ Unpaused(task[t]).status = "reconciling"
        BY <2>2 DEF Resume
      <4>2. [u \in Tasks |-> Unpaused(task[u])][t] = Unpaused(task[t])
        BY <4>1
      <4>3. t \notin ({u \in Tasks : [v \in Tasks |-> Unpaused(task[v])][u].status = "ready"}
                         \cup Woken([v \in Tasks |-> Unpaused(task[v])]))
        BY <4>1, <4>2 DEF Woken
      <4>4. task'[t] = Unpaused(task[t])
        BY <2>2, <4>1, <4>3 DEF Resume, Readied
      <4> QED
        BY <4>1, <4>4
    <3> QED
      BY <3>1, <3>2 DEF TodoShape, CancelShape
  <2>3. CASE Cancel
    <3>1. \A t \in Tasks : task'[t].status = task[t].status
      BY <2>3, WaitsIs DEF Cancel, TypeOK, SameRow
    <3> QED
      BY <1>1, <2>3, <3>1 DEF Cancel, Serving, TodoShape, CancelShape, TypeOK
  <2>4. ASSUME NEW t \in Tasks, Answer(t) \/ Followup(t) PROVE TodoShape' /\ CancelShape'
    <3>1. run' = run /\ run # "cancelled" /\ todo' = todo /\ proc' = proc /\ proc \in {"up", "stopped"}
      BY <2>4 DEF Answer, Followup, TakesInput, TaskOnly, Serving
    <3>2. \A u \in Tasks : task'[u].status = task[u].status
      BY <2>4 DEF Answer, Followup, TypeOK, TaskRow
    <3> QED
      BY <3>1, <3>2 DEF TodoShape, CancelShape, TypeOK
  <2>5. ASSUME NEW t \in Tasks, Reconcile(t) PROVE TodoShape' /\ CancelShape'
    <3>1. run' = run /\ Unresolved(t) /\ todo' = todo /\ proc' = proc /\ proc \in {"up", "stopped"}
      BY <2>5 DEF Reconcile, TaskOnly, Serving
    <3>2. \A u \in Tasks : task'[u].status = task[u].status
      BY <2>5 DEF Reconcile, TypeOK, TaskRow
    <3> QED
      BY <3>1, <3>2 DEF TodoShape, CancelShape, TypeOK
  <2> QED
    BY <2>1, <2>2, <2>3, <2>4, <2>5 DEF UserStep
<1> QED
  BY <1>2, <1>3 DEF Shapes

LEMMA SchedulerShapes == ASSUME IInv, SchedulerStep, InOrder PROVE Shapes'
<1> USE DEF IInv, loop
<1>1. ASSUME NoNewWorker PROVE WorkersInOrder'
  BY <1>1, WorkersStay DEF InOrder
<1>2. CASE TickScan
  <2>1. /\ proc = "up" /\ proc' = "up" /\ (at = {} \/ tick = "effects")
        /\ tick = "idle" /\ run' = run /\ run = "active" /\ worker' = worker /\ todo' = todo /\ at' = at
        /\ SaveAndWake(task)
    BY <1>2 DEF TickScan, BeginTick, RunNow, Overdue, AtShape
  <2>2. TodoShape'
    <3>1. \A t \in todo : task'[t].status \in {"reconciling", "cancelled"}
      BY <2>1, WokenHeld DEF TodoShape, TypeOK
    <3> QED
      BY <2>1, <3>1 DEF TodoShape
  <2> QED
    BY <1>1, <2>1, <2>2 DEF Shapes, AtShape, DownShape, CancelShape, NoNewWorker, Running
<1>3. CASE TickAbort
  <2>1. /\ proc = "up" /\ proc' = "up" /\ tick = "idle" /\ task' = task /\ todo' = todo /\ at' = at
        /\ run' \in {"paused", "pausing", "cancelling", "failed"}
        /\ \A t \in Tasks : worker'[t].phase = worker[t].phase
    BY <1>3, AbortingIs DEF TickAbort, BeginTick, RunNow, Overdue, TypeOK
  <2> QED
    BY <1>1, <2>1 DEF Shapes, AtShape, DownShape, TodoShape, CancelShape, NoNewWorker, Running, TypeOK, TaskOf, Keys
<1>4. CASE TickDrain
  <2>1. /\ proc = "up" /\ proc' = "up" /\ tick = "idle" /\ todo' = todo /\ at' = at /\ worker' = worker
        /\ \A t \in Tasks : ~Running(t)
        /\ \/ task' = task /\ (run' = "cancelled" => run = "cancelled")
           \/ /\ task' = [t \in Tasks |-> CancelledTask(t)] /\ MayDrain
    BY <1>4 DEF TickDrain, BeginTick, RunNow, Overdue
  <2>2. CASE task' = task /\ (run' = "cancelled" => run = "cancelled")
    BY <1>1, <2>1, <2>2 DEF Shapes, AtShape, DownShape, TodoShape, CancelShape, NoNewWorker, Running, Unresolved
  <2>3. CASE task' = [t \in Tasks |-> CancelledTask(t)] /\ MayDrain
    <3>1. ASSUME NEW t \in Tasks
          PROVE  /\ task'[t].status \in Terminal /\ task'[t].effect = "clear"
                 /\ task[t].status \in {"reconciling", "cancelled"} => task'[t].status = "cancelled"
      <4>1. task[t] \in TaskRow /\ task[t].effect = "clear" /\ "cancelled" \in TaskStates
        BY <2>3 DEF TypeOK, MayDrain, Unresolved, TaskStates
      <4>2. (task'[t] = task[t] /\ task[t].status \in Terminal) \/ task'[t] = WithStatus(task[t], "cancelled")
        BY <2>3 DEF CancelledTask, WithStatus
      <4> QED
        BY <4>1, <4>2, StatusRow DEF Terminal, Data
    <3>2. TodoShape' /\ CancelShape'
      BY <2>1, <3>1 DEF TodoShape, CancelShape, Running, Unresolved, TypeOK
    <3> QED
      BY <1>1, <2>1, <3>2 DEF Shapes, AtShape, DownShape, NoNewWorker, Running
  <2> QED
    BY <2>1, <2>2, <2>3
<1>5. ASSUME NEW S \in SUBSET Keys, Claim(S) PROVE Shapes'
  BY <1>1, <1>5 DEF Claim, Shapes, AtShape, DownShape, TodoShape, CancelShape, NoNewWorker, Running, Unresolved
<1>6. ASSUME NEW k \in Keys, PassOver(k) \/ LeaseExpires(k) PROVE Shapes'
  BY <1>1, <1>6 DEF PassOver, LeaseExpires, EffectDone, Shapes, AtShape, DownShape, TodoShape, CancelShape, NoNewWorker,
       Running, Unresolved
<1>7. ASSUME NEW k \in Keys, Admit(k) PROVE Shapes'
  <2>1. /\ task' = task /\ worker' = worker /\ run' = run /\ proc' = proc /\ todo' = todo /\ tick' = tick /\ tick = "effects"
        /\ ~Running(TaskOf(k)) /\ at' = {[key |-> k, revision |-> Revision(TaskOf(k)), stale |-> FALSE]}
    BY <1>7 DEF Admit
  <2>2. AtShape'
    BY <2>1 DEF AtShape, Running
  <2> QED
    BY <1>1, <2>1, <2>2 DEF Shapes, DownShape, TodoShape, CancelShape, NoNewWorker, Running, Unresolved
<1>8. ASSUME NEW a \in at, AdmitBusy(a) \/ DropStale(a) PROVE Shapes'
  BY <1>1, <1>8 DEF AdmitBusy, DropStale, EffectDone, Shapes, AtShape, DownShape, TodoShape, CancelShape, NoNewWorker,
       Running, Unresolved
<1>9. ASSUME NEW a \in at, AdmitStale(a) PROVE Shapes'
  <2>1. /\ task' = task /\ worker' = worker /\ run' = run /\ proc' = proc /\ todo' = todo /\ tick' = tick
        /\ \A b \in at' : b.key = a.key
    BY <1>9 DEF AdmitStale, TypeOK
  <2>2. AtShape'
    BY <2>1 DEF AtShape, Running
  <2> QED
    BY <1>1, <2>1, <2>2 DEF Shapes, DownShape, TodoShape, CancelShape, NoNewWorker, Running, Unresolved
<1>10. ASSUME NEW a \in at, Launch(a) PROVE Shapes'
  <2>1. PICK t \in Tasks :
         /\ run = "active" /\ run' = run /\ proc' = proc /\ todo' = todo
         /\ \A u \in Tasks \ {t} : task'[u] = task[u] /\ worker'[u] = worker[u]
         /\ task[t].status \in {"ready", "validating"}
    BY <1>10, LaunchIs
  <2>2. at' = {} /\ proc \notin {"down", "starting"}
    BY <1>10 DEF Launch, EffectDone, DownShape
  <2>3. TodoShape'
    BY <2>1, <2>2 DEF TodoShape, TypeOK
  <2>4. Accepted(task, t)
    BY <2>1 DEF DependenciesFirst
  <2>5. WorkersInOrder'
    <3>1. \A u \in Tasks : Accepted(task, u) => Accepted(task', u)
      BY RuntimeAssumption DEF Accepted, InOrder
    <3> QED
      BY <2>1, <2>4, <3>1 DEF WorkersInOrder, Running
  <2> QED
    BY <2>1, <2>2, <2>3, <2>5 DEF Shapes, AtShape, DownShape, CancelShape
<1>11. ASSUME NEW a \in at, LaunchRefused(a) PROVE Shapes'
  <2>1. /\ task' = task /\ run' = run /\ todo' = todo /\ at' = {} /\ tick' = "idle"
        /\ proc' = proc \/ (proc = "up" /\ proc' = "stopped")
        /\ \A t \in Tasks : worker'[t].phase = worker[t].phase
    BY <1>11, AbortingIs DEF LaunchRefused, Fatal, TypeOK
  <2> QED
    BY <1>1, <2>1 DEF Shapes, AtShape, DownShape, TodoShape, CancelShape, NoNewWorker, Running, Unresolved
<1> QED
  BY <1>2, <1>3, <1>4, <1>5, <1>6, <1>7, <1>8, <1>9, <1>10, <1>11 DEF SchedulerStep

-----------------------------------------------------------------------------
LEMMA IInvInit == Init => IInv
<1> SUFFICES ASSUME Init PROVE IInv
  OBVIOUS
<1>1. TypeOK
  BY TypeInit
<1>2. \A t \in Tasks : /\ task[t].status = IF DependsOn[t] = {} THEN "ready" ELSE "waiting"
                       /\ task[t].effect = "clear" /\ ~task[t].attempt
                       /\ worker[t].phase = "none"
  BY DEF Init, Idle
<1>3. \A t \in Tasks : Fits(t)
  BY <1>2 DEF Fits, Shape, Working
<1>4. DependenciesFirst
  <2>1. \A t \in Tasks : task[t].status # "succeeded"
    BY <1>2
  <2>2. run # "succeeded" /\ Tasks # {}
    BY RuntimeAssumption DEF Init
  <2>3. ASSUME NEW t \in Tasks, task[t].status \notin {"waiting", "cancelled"} PROVE Accepted(task, t)
    BY <1>2, <2>3 DEF Accepted
  <2> QED
    BY <2>1, <2>2, <2>3 DEF DependenciesFirst
<1>5. AtShape /\ DownShape /\ TodoShape /\ CancelShape /\ WorkersInOrder
  BY <1>2 DEF Init, AtShape, DownShape, TodoShape, CancelShape, WorkersInOrder, Running
<1> QED
  BY <1>1, <1>3, <1>4, <1>5 DEF IInv

LEMMA IInvNext == IInv /\ [Next]_vars => IInv'
<1> SUFFICES ASSUME IInv, [Next]_vars PROVE IInv'
  OBVIOUS
<1>1. TypeOK /\ AtShape /\ DependenciesFirst
  BY DEF IInv
<1>2. CASE OwnerStep
  <2>1. TypeOK'
    BY <1>1, <1>2, TypeOwner
  <2>2. InOrder /\ \A t \in Tasks : Fits(t)'
    BY <1>2, OwnerKeeps
  <2>3. Shapes' /\ DependenciesFirst'
    BY <1>1, <1>2, <2>2, OwnerShapes, OrderKept
  <2> QED
    BY <2>1, <2>2, <2>3 DEF IInv, Shapes
<1>3. CASE SchedulerStep
  <2>1. TypeOK'
    BY <1>1, <1>3, TypeScheduler
  <2>2. InOrder /\ \A t \in Tasks : Fits(t)'
    BY <1>3, SchedulerKeeps
  <2>3. Shapes' /\ DependenciesFirst'
    BY <1>1, <1>3, <2>2, SchedulerShapes, OrderKept
  <2> QED
    BY <2>1, <2>2, <2>3 DEF IInv, Shapes
<1>4. CASE UserStep
  <2>1. TypeOK'
    BY <1>1, <1>4, TypeUser
  <2>2. InOrder /\ \A t \in Tasks : Fits(t)'
    BY <1>4, UserKeeps
  <2>3. Shapes' /\ DependenciesFirst'
    BY <1>1, <1>4, <2>2, UserShapes, OrderKept
  <2> QED
    BY <2>1, <2>2, <2>3 DEF IInv, Shapes
<1>5. ASSUME NEW t \in Tasks, WorkerStep(t) PROVE IInv'
  <2>1. TypeOK'
    BY <1>1, <1>5, TypeWorker
  <2>2. CASE Accept(t)
    <3>1. /\ DependenciesFirst' /\ \A u \in Tasks : Fits(u)'
          /\ \A u \in Tasks : task[u].status = "succeeded" => task'[u].status = "succeeded"
      BY <2>2, AcceptKeeps
    <3>2. Shapes'
      BY <1>5, <3>1, WorkerShapes
    <3> QED
      BY <2>1, <3>1, <3>2 DEF IInv, Shapes
  <2>3. CASE ~Accept(t)
    <3>1. InOrder /\ \A u \in Tasks : Fits(u)'
      BY <1>5, <2>3, WorkerKeeps
    <3>2. \A u \in Tasks : task[u].status = "succeeded" => task'[u].status = "succeeded"
      BY <3>1 DEF InOrder
    <3>3. Shapes' /\ DependenciesFirst'
      BY <1>1, <1>5, <3>1, <3>2, WorkerShapes, OrderKept
    <3> QED
      BY <2>1, <3>1, <3>3 DEF IInv, Shapes
  <2> QED
    BY <2>2, <2>3
<1>6. CASE UNCHANGED vars
  BY <1>6 DEF vars, IInv, TypeOK, AtShape, DownShape, TodoShape, CancelShape, WorkersInOrder, DependenciesFirst, Accepted,
              Fits, Awake, Running, Unresolved
<1> QED
  BY <1>2, <1>3, <1>4, <1>5, <1>6 DEF Next

THEOREM Invariance == Spec => []IInv
<1> QED
  BY IInvInit, IInvNext, PTL DEF Spec

\* Rows, slots, workers and the loop of the owner keep their types.
THEOREM TypeCorrect == Spec => []TypeOK
<1>1. IInv => TypeOK
  BY DEF IInv
<1> QED
  BY <1>1, Invariance, PTL

\* However crashes, controls, retries and validations interleave, a task counts as
\* running exactly while it has an attempt, and that attempt has one worker.
THEOREM AttemptsDriven == Spec => []AttemptsAreDriven
<1>1. IInv => AttemptsAreDriven
  BY DEF IInv, AttemptsAreDriven, Fits, Shape, Awake
<1> QED
  BY <1>1, Invariance, PTL

\* A task with an effect whose outcome nobody knows is held: no crash, resumption,
\* retry or cancellation lets it run again, be submitted or be accepted.
THEOREM UnknownHeld == Spec => []UnknownEffectsHold
<1>1. IInv => UnknownEffectsHold
  BY DEF IInv, UnknownEffectsHold, Unresolved, Fits, Shape
<1> QED
  BY <1>1, Invariance, PTL

\* What is accepted answers every follow-up, and every follow-up reached the
\* transcript.
THEOREM AcceptedCurrent == Spec => []AcceptedIsCurrent
<1>1. IInv => AcceptedIsCurrent
  BY DEF IInv, AcceptedIsCurrent, Fits, Shape
<1> QED
  BY <1>1, Invariance, PTL

\* Tasks and run keep to the order of the plan, from the first dependency to the
\* confirmed cancellation.
THEOREM RuntimeSafe == Spec => []RuntimeSafety
<1>1. IInv => RuntimeSafety
  BY DEF IInv, RuntimeSafety, CancelledIsDrained, CancelShape, Running, Working
<1> QED
  BY <1>1, Invariance, PTL

\* The runtime never takes back what the user requested.
THEOREM ControlKept == Spec => ControlHolds
<1>1. ASSUME TypeOK, [Next]_vars
      PROVE  [/\ run = "cancelling" => run' \in {"cancelling", "cancelled"}
              /\ run = "pausing" => run' \in {"pausing", "paused", "cancelling"}
              /\ run \in {"cancelled", "succeeded", "failed"} => run' = run]_vars
  <2>1. ASSUME OwnerStep \/ SchedulerStep \/ UserStep
        PROVE  /\ run = "cancelling" => run' \in {"cancelling", "cancelled"}
               /\ run = "pausing" => run' \in {"pausing", "paused", "cancelling"}
               /\ run \in {"cancelled", "succeeded", "failed"} => run' = run
    <3>1. CASE OwnerStep
      BY <3>1 DEF OwnerStep, Start, Recover, Started, Crash, Close, CloseAborts, Closed
    <3>2. CASE SchedulerStep
      BY <3>2 DEF SchedulerStep, TickScan, TickAbort, TickDrain, BeginTick, RunNow, Overdue, Claim, PassOver, Admit,
           LeaseExpires, AdmitBusy, AdmitStale, DropStale, Launch, LaunchRefused
    <3>3. CASE UserStep
      BY <3>3 DEF UserStep, Pause, Resume, Resumable, Cancel, Extend, DeadlinePasses, Answer, Followup, Reconcile, TaskOnly
    <3> QED
      BY <2>1, <3>1, <3>2, <3>3
  <2>2. ASSUME NEW t \in Tasks, WorkerStep(t)
        PROVE  /\ run = "cancelling" => run' \in {"cancelling", "cancelled"}
               /\ run = "pausing" => run' \in {"pausing", "paused", "cancelling"}
               /\ run \in {"cancelled", "succeeded", "failed"} => run' = run
    BY <2>2 DEF WorkerStep, Prepare, TurnStart, DeliverInput, TurnEnd, Dispatch, SettleEffect, AskUser, Park, RunDrained,
         Finish, FinishTooEarly, Submit, WorkerFails, Accept, MayAccept, StaleInput, CheckFails, ValidationFails, Reject,
         RejectRefused, Cleanup, Block, Open, Leave, TaskOnly, WorkerOnly
  <2> QED
    BY <1>1, <2>1, <2>2 DEF Next
<1>2. Spec => []TypeOK
  BY TypeCorrect
<1> QED
  BY <1>1, <1>2, PTL DEF Spec, ControlHolds

-----------------------------------------------------------------------------
(***************************************************************************)
(* No task is left behind. A wake-up is lost in one way only: a follow-up   *)
(* that comes while the tick awaits the admission of its task. As long as   *)
(* none does, what the tick drops as stale has been enqueued again.         *)
(***************************************************************************)

\* The step does not give a follow-up to a task whose admission is awaited.
InputsSpareAdmissions == \A a \in at : task'[TaskOf(a.key)].inputs = task[TaskOf(a.key)].inputs

HasSlot(t) == \E kind \in Kinds : slot[<<kind, t>>] # "none"

\* A task has a slot besides the key k, or k was enqueued again after its claim.
Refreshed(t, k) ==
  \E kind \in Kinds : slot[<<kind, t>>] # "none" /\ (<<kind, t>> = k => slot[k] = "superseded")

\* What the tick has claimed and not processed is leased.
BatchFits == (tick # "effects" => batch = {}) /\ \A k \in batch : slot[k] \in {"leased", "superseded"}

\* While an admission is awaited its task is as it was read and a place is left
\* for it; what became stale and is wanted again was enqueued again.
AdmissionFits ==
  /\ IsFiniteSet(Attempts)
  /\ at # {} => Cardinality(Attempts) < MaxActive
  /\ \A a \in at :
       /\ a.key \in batch
       /\ task[TaskOf(a.key)].status \in {"ready", "validating"}
       /\ a.revision = Revision(TaskOf(a.key))
       /\ run = "active" /\ (a.stale \/ todo # {}) => Refreshed(TaskOf(a.key), a.key)

\* An active run has no task that is paused, and recovers those to be reconciled.
HeldFits ==
  run = "active" => \A t \in Tasks :
    /\ task[t].status # "paused"
    /\ proc \notin {"down", "closing"} /\ task[t].status = "reconciling" => t \in todo

\* Phases in which a worker does nothing for its task any more.
Rests == {"none", "cleanup", "leave"}

\* What is ready, or to be validated by nobody yet, has a slot.
WakeFits ==
  run = "active" /\ ~late => \A t \in Tasks :
    /\ task[t].status = "ready" => HasSlot(t)
    /\ task[t].status = "validating" /\ worker[t].phase \in Rests /\ proc # "down" /\ t \notin todo => HasSlot(t)

WakeInv == IInv /\ BatchFits /\ AdmissionFits /\ HeldFits /\ WakeFits

-----------------------------------------------------------------------------
\* Slots are enqueued at most.
SlotsStay ==
  \A k \in Keys :
    /\ slot[k] # "none" => slot'[k] # "none"
    /\ slot[k] \in {"leased", "superseded"} => slot'[k] \in {"leased", "superseded"}
    /\ slot[k] = "superseded" => slot'[k] = "superseded"

LEMMA EnqueuedStays ==
  ASSUME TypeOK, NEW S, slot' = Enqueued(S)
  PROVE  /\ SlotsStay
         /\ \A k \in Keys : k \in S => slot'[k] # "none" /\ (slot[k] \in {"leased", "superseded"} => slot'[k] = "superseded")
BY DEF TypeOK, Enqueued, SlotsStay

LEMMA SameSlots == slot' = slot => SlotsStay
BY DEF SlotsStay

LEMMA KeyIs == ASSUME NEW t \in Tasks PROVE <<"schedule", t>> \in Keys /\ <<"wake", t>> \in Keys
BY DEF Keys, Kinds

LEMMA SlotKept == ASSUME SlotsStay, NEW t \in Tasks, HasSlot(t) PROVE HasSlot(t)'
BY DEF SlotsStay, HasSlot, Keys

LEMMA RefreshKept == ASSUME SlotsStay, NEW t \in Tasks, NEW k \in Keys, Refreshed(t, k) PROVE Refreshed(t, k)'
BY DEF SlotsStay, Refreshed, Keys

LEMMA Scheduled ==
  ASSUME TypeOK, NEW S, Schedule(S) PROVE SlotsStay /\ \A t \in Tasks : t \in S => HasSlot(t)'
<1>1. slot' = Enqueued({"schedule"} \X S)
  BY DEF Schedule
<1>2. \A t \in Tasks : t \in S => slot'[<<"schedule", t>>] # "none"
  BY <1>1, EnqueuedStays, KeyIs
<1> QED
  BY <1>1, <1>2, EnqueuedStays DEF HasSlot, Kinds

LEMMA Waked ==
  ASSUME TypeOK, NEW S, Wake(S) PROVE SlotsStay /\ \A t \in Tasks : t \in S => HasSlot(t)'
<1>1. slot' = Enqueued({"wake"} \X S)
  BY DEF Wake
<1>2. \A t \in Tasks : t \in S => slot'[<<"wake", t>>] # "none"
  BY <1>1, EnqueuedStays, KeyIs
<1> QED
  BY <1>1, <1>2, EnqueuedStays DEF HasSlot, Kinds

\* A task that SaveAndWake changes was waiting, and has a slot then.
LEMMA SavedWakes ==
  ASSUME TypeOK, NEW rows \in [Tasks -> TaskRow], SaveAndWake(rows)
  PROVE  /\ SlotsStay
         /\ \A u \in Tasks : /\ (task'[u].attempt <=> rows[u].attempt) /\ task'[u].inputs = rows[u].inputs
                             /\ \/ task'[u].status = rows[u].status
                                \/ rows[u].status = "waiting" /\ task'[u].status = "ready" /\ HasSlot(u)'
<1>1. PICK S : S \subseteq Woken(rows) /\ task' = Readied(rows, S) /\ Schedule(S)
  BY DEF SaveAndWake
<1>2. SlotsStay /\ \A u \in Tasks : u \in S => HasSlot(u)'
  BY <1>1, Scheduled
<1>3. ASSUME NEW u \in Tasks
      PROVE  /\ (task'[u].attempt <=> rows[u].attempt) /\ task'[u].inputs = rows[u].inputs
             /\ task'[u].status = rows[u].status \/ (u \in S /\ rows[u].status = "waiting" /\ task'[u].status = "ready")
  <2>1. rows[u] \in TaskRow /\ "ready" \in TaskStates
    BY DEF TaskStates
  <2>2. task'[u] = IF u \in S THEN WithStatus(rows[u], "ready") ELSE rows[u]
    BY <1>1 DEF Readied, WithStatus
  <2>3. u \in S => rows[u].status = "waiting"
    BY <1>1 DEF Woken
  <2> QED
    BY <2>1, <2>2, <2>3, StatusRow DEF Data
<1> QED
  BY <1>2, <1>3

\* The step leaves u a slot if it needs one, and does not hold it up.
Provided(u) ==
  /\ task'[u].status = "ready" => HasSlot(u)' \/ (task[u].status = "ready" /\ ~HasSlot(u))
  /\ task'[u].status = "validating" /\ worker'[u].phase \in Rests =>
       HasSlot(u)' \/ (task[u].status = "validating" /\ worker[u].phase \in Rests /\ ~HasSlot(u))
  /\ run' = "active" /\ task'[u].status = "paused" => task[u].status = "paused"
  /\ run' = "active" /\ proc' \notin {"down", "closing"} /\ task'[u].status = "reconciling" => task[u].status = "reconciling"

LEMMA ProvidedStays ==
  ASSUME HeldFits, WakeFits, \A u \in Tasks : Provided(u), todo' = todo, run' = "active" => run = "active", late => late',
         proc' \notin {"down", "closing"} => proc \notin {"down", "closing"}, proc' # "down" => proc # "down"
  PROVE  HeldFits' /\ WakeFits'
BY DEF HeldFits, WakeFits, Provided

LEMMA NotActive == run' # "active" => HeldFits' /\ WakeFits'
BY DEF HeldFits, WakeFits

\* A step that does not touch u.
LEMMA Untouched ==
  ASSUME SlotsStay, NEW u \in Tasks, task'[u].status = task[u].status,
         worker'[u].phase \in Rests => worker[u].phase \in Rests
  PROVE  Provided(u)
BY SlotKept DEF Provided

\* A step that awaits no other admission and changes nothing for this one.
LEMMA AdmissionStays ==
  ASSUME TypeOK, AdmissionFits, SlotsStay, at' = at, batch' = batch, todo' \subseteq todo, run' = "active" => run = "active",
         \A u \in Tasks : task'[u].attempt => task[u].attempt,
         \A a \in at : /\ task'[TaskOf(a.key)].status = task[TaskOf(a.key)].status
                       /\ task'[TaskOf(a.key)].inputs = task[TaskOf(a.key)].inputs
  PROVE  AdmissionFits'
<1>1. Attempts' \subseteq Attempts /\ IsFiniteSet(Attempts)
  BY DEF Attempts, AdmissionFits
<1>2. /\ IsFiniteSet(Attempts') /\ Cardinality(Attempts') <= Cardinality(Attempts)
      /\ Cardinality(Attempts) \in Nat /\ Cardinality(Attempts') \in Nat
  BY <1>1, FS_Subset, FS_CardinalityType
<1>3. at' # {} => Cardinality(Attempts') < MaxActive
  BY <1>2, RuntimeAssumption DEF AdmissionFits
<1>4. ASSUME NEW a \in at
      PROVE  /\ a.key \in batch' /\ task'[TaskOf(a.key)].status \in {"ready", "validating"}
             /\ a.revision = Revision(TaskOf(a.key))'
             /\ run' = "active" /\ (a.stale \/ todo' # {}) => Refreshed(TaskOf(a.key), a.key)'
  <2>1. a.key \in Keys /\ TaskOf(a.key) \in Tasks
    BY DEF TypeOK, Keys, TaskOf
  <2> QED
    BY <2>1, RefreshKept DEF AdmissionFits, Revision
<1>5. IsFiniteSet(Attempts)'
  BY <1>2
<1> QED
  BY <1>3, <1>4, <1>5 DEF AdmissionFits

\* No admission is awaited after the step, and at most one attempt began.
LEMMA NoAdmission ==
  ASSUME AdmissionFits, at' = {}, NEW t, Attempts' \subseteq Attempts \cup {t} PROVE AdmissionFits'
<1>1. IsFiniteSet(Attempts \cup {t})
  BY FS_AddElement DEF AdmissionFits
<1>2. IsFiniteSet(Attempts')
  BY <1>1, FS_Subset
<1> QED
  BY <1>2 DEF AdmissionFits

LEMMA BatchStays ==
  ASSUME BatchFits, TypeOK, SlotsStay, batch' \subseteq batch, tick' = tick \/ batch' = {} PROVE BatchFits'
BY DEF BatchFits, TypeOK, SlotsStay

-----------------------------------------------------------------------------
\* What every step of the worker of t amounts to.
Calm(t) ==
  /\ SlotsStay
  /\ \A u \in Tasks : (task'[u].attempt => task[u].attempt) /\ Provided(u)
  /\ \A u \in Tasks \ {t} :
       /\ task[u].status # "waiting" => task'[u].status = task[u].status
       /\ task'[u].inputs = task[u].inputs
  /\ run' = "active" => run = "active"

\* Steps that only move the worker on, or touch data of the row.
LEMMA MoveCalm ==
  ASSUME IInv, NEW t \in Tasks,
         \/ Prepare(t) \/ TurnStart(t) \/ DeliverInput(t) \/ TurnEnd(t) \/ Dispatch(t) \/ SettleEffect(t) \/ AskUser(t)
         \/ Finish(t) \/ FinishTooEarly(t) \/ WorkerFails(t) \/ CheckFails(t) \/ ValidationFails(t) \/ RejectRefused(t)
         \/ Cleanup(t) \/ Leave(t)
  PROVE  Calm(t)
<1>1. /\ slot' = slot /\ run' = run
      /\ \A u \in Tasks : /\ task'[u].status = task[u].status /\ (task'[u].attempt <=> task[u].attempt)
                          /\ task'[u].inputs = task[u].inputs
  BY DEF Prepare, TurnStart, DeliverInput, TurnEnd, Dispatch, SettleEffect, AskUser, Finish, FinishTooEarly, WorkerFails,
         CheckFails, ValidationFails, RejectRefused, Cleanup, Leave, WorkerOnly, TaskOnly, IInv, TypeOK, TaskRow
<1>2. WorkerStep(t)
  BY DEF WorkerStep
<1>3. \A u \in Tasks \ {t} : worker'[u].phase = worker[u].phase
  BY <1>2, WorkerAlone
<1>4. \/ worker[t].phase \in Working
      \/ worker[t].phase \in Rests
      \/ worker'[t].phase \in {"reject", "block"}
  <2>1. CASE CheckFails(t)
    BY <2>1, PhaseIs DEF CheckFails, IInv, Phases
  <2>2. CASE ValidationFails(t) \/ RejectRefused(t)
    BY <2>2, FailsIs DEF ValidationFails, RejectRefused, IInv
  <2> QED
    BY <2>1, <2>2 DEF Prepare, TurnStart, DeliverInput, TurnEnd, Dispatch, SettleEffect, AskUser, Finish, FinishTooEarly,
         WorkerFails, Cleanup, Leave, At, Working, Rests
<1>5. worker[t].phase \in Working => task[t].status = "running"
  BY DEF IInv, Fits, Shape
<1>6. Provided(t)
  <2>1. CASE worker[t].phase \in Working
    BY <1>1, <1>5, <2>1 DEF Provided
  <2>2. CASE worker[t].phase \in Rests \/ worker'[t].phase \in {"reject", "block"}
    BY <1>1, <2>2, SameSlots, Untouched DEF Rests
  <2> QED
    BY <1>4, <2>1, <2>2
<1>7. ASSUME NEW u \in Tasks, u # t PROVE Provided(u)
  BY <1>1, <1>3, <1>7, SameSlots, Untouched
<1> QED
  BY <1>1, <1>6, <1>7, SameSlots DEF Calm

\* Steps that save rows and wake the tasks whose turn has come.
LEMMA SaveCalm ==
  ASSUME IInv, NEW t \in Tasks, WorkerStep(t), NEW rows \in [Tasks -> TaskRow], SaveAndWake(rows),
         \A u \in Tasks \ {t} : rows[u] = task[u], ~rows[t].attempt, rows[t].status \in {"waiting", "succeeded"},
         run' = "active" => run = "active"
  PROVE  Calm(t)
<1>1. /\ SlotsStay
      /\ \A u \in Tasks : /\ (task'[u].attempt <=> rows[u].attempt) /\ task'[u].inputs = rows[u].inputs
                          /\ \/ task'[u].status = rows[u].status
                             \/ rows[u].status = "waiting" /\ task'[u].status = "ready" /\ HasSlot(u)'
  BY SavedWakes DEF IInv
<1>2. \A u \in Tasks \ {t} : worker'[u].phase = worker[u].phase
  BY WorkerAlone
<1>3. Provided(t)
  BY <1>1 DEF Provided
<1>4. ASSUME NEW u \in Tasks, u # t PROVE Provided(u)
  <2>1. CASE task'[u].status = task[u].status
    BY <1>1, <1>2, <1>4, <2>1, Untouched
  <2>2. CASE task'[u].status = "ready" /\ HasSlot(u)'
    BY <2>2 DEF Provided
  <2> QED
    BY <1>1, <1>4, <2>1, <2>2
<1> QED
  BY <1>1, <1>3, <1>4 DEF Calm

\* Steps that save the row of t alone.
LEMMA RowCalm ==
  ASSUME IInv, NEW t \in Tasks, WorkerStep(t), SlotsStay,
         \A u \in Tasks \ {t} : task'[u].status = task[u].status /\ (task'[u].attempt => task[u].attempt)
                               /\ task'[u].inputs = task[u].inputs,
         ~task'[t].attempt, Provided(t), run' = "active" => run = "active"
  PROVE  Calm(t)
<1>1. \A u \in Tasks \ {t} : worker'[u].phase = worker[u].phase
  BY WorkerAlone
<1>2. ASSUME NEW u \in Tasks, u # t PROVE Provided(u)
  BY <1>1, <1>2, Untouched
<1> QED
  BY <1>2 DEF Calm

LEMMA ParkCalm == ASSUME IInv, NEW t \in Tasks, Park(t) PROVE Calm(t)
<1>1. WorkerStep(t)
  BY DEF WorkerStep
<1> DEFINE rows == [task EXCEPT ![t] = Parked(t)]
<1>2. IF run = "active" THEN SaveAndWake(rows) ELSE task' = rows /\ slot' = slot
  BY DEF Park
<1>3. /\ rows \in [Tasks -> TaskRow] /\ rows[t] = Parked(t) /\ \A u \in Tasks \ {t} : rows[u] = task[u]
      /\ ~rows[t].attempt
  BY ParkedIs DEF IInv, TypeOK
<1> HIDE DEF rows
<1>4. run' = "active" => run = "active"
  BY DEF Park, RunDrained
<1>5. CASE run = "active"
  <2>1. SaveAndWake(rows)
    BY <1>2, <1>5
  <2>2. rows[t].status \in {"waiting", "succeeded"}
    BY <1>3, <1>5, ParkedIs DEF IInv
  <2> QED
    BY <1>1, <1>3, <1>4, <2>1, <2>2, SaveCalm
<1>6. CASE run # "active"
  <2>1. task' = rows /\ slot' = slot
    BY <1>2, <1>6
  <2>2. task'[t].status \in {"reconciling", "paused", "waiting"} /\ ~task'[t].attempt
    BY <1>3, <2>1, ParkedIs DEF IInv
  <2>3. Provided(t)
    BY <1>4, <1>6, <2>2 DEF Provided
  <2> QED
    BY <1>1, <1>3, <1>4, <2>1, <2>2, <2>3, SameSlots, RowCalm
<1> QED
  BY <1>5, <1>6

LEMMA SubmitCalm == ASSUME IInv, NEW t \in Tasks, Submit(t) PROVE Calm(t)
<1>1. WorkerStep(t)
  BY DEF WorkerStep
<1>2. /\ task'[t] = Submitted(t) /\ \A u \in Tasks \ {t} : task'[u] = task[u]
      /\ run' = "active" => run = "active"
  BY DEF Submit, IInv, TypeOK, RunDrained
<1>3. /\ ~task'[t].attempt
      /\ \/ run \in {"cancelling", "pausing"} /\ task'[t].status \in {"reconciling", "paused"}
         \/ task'[t].status = "validating"
  BY <1>2, SubmittedIs DEF IInv
<1>4. SlotsStay /\ (task'[t].status = "validating" => HasSlot(t)')
  <2>1. CASE task'[t].status = "validating"
    BY <1>2, <2>1, Waked DEF Submit, IInv
  <2>2. CASE task'[t].status # "validating"
    BY <1>2, <2>2, SameSlots DEF Submit
  <2> QED
    BY <2>1, <2>2
<1>5. Provided(t)
  BY <1>2, <1>3, <1>4 DEF Provided
<1> QED
  BY <1>1, <1>2, <1>3, <1>4, <1>5, RowCalm

LEMMA AcceptCalm == ASSUME IInv, NEW t \in Tasks, Accept(t) PROVE Calm(t)
<1>1. WorkerStep(t)
  BY DEF WorkerStep
<1>2. PICK rows : rows = [task EXCEPT ![t].status = "succeeded"]
  OBVIOUS
<1>3. task[t].status = "validating" /\ ~task[t].attempt
  <2>1. Fits(t)
    BY DEF IInv
  <2> QED
    BY <2>1 DEF Accept, MayAccept, Fits, Shape
<1>4. rows \in [Tasks -> TaskRow] /\ ~rows[t].attempt /\ rows[t].status = "succeeded" /\ \A u \in Tasks \ {t} : rows[u] = task[u]
  BY <1>2, <1>3 DEF IInv, TypeOK, TaskRow, TaskStates
<1>5. SaveAndWake(rows) /\ (run' = "active" => run = "active")
  BY <1>2 DEF Accept
<1> QED
  BY <1>1, <1>4, <1>5, SaveCalm

LEMMA StaleCalm == ASSUME IInv, NEW t \in Tasks, StaleInput(t) PROVE Calm(t)
<1>1. WorkerStep(t) /\ run' = run
  BY DEF WorkerStep, StaleInput
<1>2. task[t].status = "validating" /\ ~task[t].attempt
  <2>1. Fits(t)
    BY DEF IInv
  <2> QED
    BY <2>1 DEF StaleInput, At, Fits, Shape
<1>3. CASE task' = [task EXCEPT ![t].status = "ready"] /\ Schedule({t})
  <2>1. task'[t].status = "ready" /\ ~task'[t].attempt /\ \A u \in Tasks \ {t} : task'[u] = task[u]
    BY <1>2, <1>3 DEF IInv, TypeOK, TaskRow
  <2>2. SlotsStay /\ HasSlot(t)'
    BY <1>3, Scheduled DEF IInv
  <2> QED
    BY <1>1, <2>1, <2>2, RowCalm DEF Provided
<1>4. CASE Fails(t, "fault") /\ task' = task /\ slot' = slot
  <2>1. worker'[t].phase = "block"
    BY <1>4, FailsIs DEF IInv
  <2>2. Provided(t)
    BY <1>2, <1>4, <2>1 DEF Provided, Rests
  <2> QED
    BY <1>1, <1>2, <1>4, <2>2, SameSlots, RowCalm
<1> QED
  BY <1>3, <1>4 DEF StaleInput

LEMMA RejectCalm == ASSUME IInv, NEW t \in Tasks, Reject(t) PROVE Calm(t)
<1>1. WorkerStep(t)
  BY DEF WorkerStep
<1>2. ~task[t].attempt
  <2>1. Fits(t)
    BY DEF IInv
  <2> QED
    BY <2>1 DEF Reject, At, Fits, Shape
<1>3. PICK s \in TaskStates : s = IF task[t].rejections + 1 > MaxRetries THEN "failed" ELSE "ready"
  BY DEF TaskStates
<1>4. PICK rows : rows = Rejects(task, t, s)
  OBVIOUS
<1>5. /\ rows \in [Tasks -> TaskRow] /\ \A u \in Tasks \ {t} : rows[u] = task[u]
      /\ ~rows[t].attempt /\ rows[t].status = s
  BY <1>2, <1>4, RejectIs DEF IInv
<1>6. \/ s = "failed" /\ run' = "failed" /\ task' = WaitsCancelled(rows) /\ slot' = slot
      \/ s = "ready" /\ task' = rows /\ Schedule({t}) /\ run' = run
  BY <1>3, <1>4, Zenon DEF Reject, Rejects
<1>7. CASE s = "failed" /\ run' = "failed" /\ task' = WaitsCancelled(rows) /\ slot' = slot
  <2>1. \A u \in Tasks : /\ task'[u].status = rows[u].status /\ (task'[u].attempt <=> rows[u].attempt)
                        /\ task'[u].inputs = rows[u].inputs
    BY <1>5, <1>7, WaitsIs DEF SameRow, Data
  <2>2. Provided(t)
    BY <1>5, <1>7, <2>1 DEF Provided
  <2> QED
    BY <1>1, <1>5, <1>7, <2>1, <2>2, SameSlots, RowCalm
<1>8. CASE s = "ready" /\ task' = rows /\ Schedule({t}) /\ run' = run
  <2>1. SlotsStay /\ HasSlot(t)'
    BY <1>8, Scheduled DEF IInv
  <2>2. Provided(t)
    BY <1>5, <1>8, <2>1 DEF Provided
  <2> QED
    BY <1>1, <1>5, <1>8, <2>1, <2>2, RowCalm
<1> QED
  BY <1>6, <1>7, <1>8

LEMMA BlockCalm == ASSUME IInv, NEW t \in Tasks, Block(t) PROVE Calm(t)
<1>1. WorkerStep(t)
  BY DEF WorkerStep
<1>2. /\ \A u \in Tasks \ {t} : task'[u] = task[u]
      /\ \/ task[t].status \in Terminal \cup {"ready"} /\ task' = task
         \/ task[t].status \notin Terminal \cup {"ready"} /\ ~task'[t].attempt /\ task'[t].status \in {"ready", "reconciling"}
  BY BlockIs DEF IInv
<1>3. CASE task[t].status \in Terminal \cup {"ready"} /\ task' = task
  <2>1. ~task[t].attempt
    <3>1. Fits(t)
      BY DEF IInv
    <3> QED
      BY <1>3, <3>1 DEF Fits, Shape, Terminal
  <2>2. slot' = slot /\ run' = run
    BY <1>3 DEF Block
  <2>3. Provided(t)
    BY <1>3, <2>2 DEF Provided, Terminal, HasSlot
  <2> QED
    BY <1>1, <1>2, <1>3, <2>1, <2>2, <2>3, SameSlots, RowCalm
<1>4. CASE task[t].status \notin Terminal \cup {"ready"} /\ ~task'[t].attempt /\ task'[t].status \in {"ready", "reconciling"}
  <2>1. \/ Schedule({t}) /\ run' = run /\ task'[t].status = "ready"
        \/ slot' = slot /\ run' = (IF Open THEN "paused" ELSE run) /\ proc' = proc /\ task'[t].status = "reconciling"
    <3>1. task[t] \in TaskRow /\ task \in [Tasks -> TaskRow]
      BY DEF IInv, TypeOK
    <3>2. CASE Open /\ MayRetry(t)
      <4>1. /\ Schedule({t}) /\ run' = run
            /\ task' = [task EXCEPT ![t] = [[task[t] EXCEPT !.attempt = FALSE] EXCEPT !.status = "ready",
                          !.retries = IF worker[t].error = "transient" THEN @ + 1 ELSE @]]
        BY <1>4, <3>2, Zenon DEF Block, Terminal
      <4> QED
        BY <3>1, <4>1 DEF TaskRow
    <3>3. CASE ~(Open /\ MayRetry(t))
      <4>1. /\ slot' = slot /\ run' = (IF Open THEN "paused" ELSE run) /\ proc' = proc
            /\ task' = [task EXCEPT ![t] = [[task[t] EXCEPT !.attempt = FALSE] EXCEPT !.status = "reconciling"]]
        BY <1>4, <3>3, Zenon DEF Block, Terminal
      <4> QED
        BY <3>1, <4>1 DEF TaskRow
    <3> QED
      BY <3>2, <3>3
  <2>2. CASE Schedule({t}) /\ run' = run /\ task'[t].status = "ready"
    <3>1. SlotsStay /\ HasSlot(t)'
      BY <2>2, Scheduled DEF IInv
    <3>2. Provided(t)
      BY <2>2, <3>1 DEF Provided
    <3> QED
      BY <1>1, <1>2, <1>4, <2>2, <3>1, <3>2, RowCalm
  <2>3. CASE slot' = slot /\ run' = (IF Open THEN "paused" ELSE run) /\ proc' = proc /\ task'[t].status = "reconciling"
    <3>1. Provided(t)
      BY <2>3 DEF Provided, Open
    <3>2. run' = "active" => run = "active"
      BY <2>3
    <3> QED
      BY <1>1, <1>2, <1>4, <2>3, <3>1, <3>2, SameSlots, RowCalm
  <2> QED
    BY <2>1, <2>2, <2>3
<1> QED
  BY <1>2, <1>3, <1>4

LEMMA WorkerWakes == ASSUME WakeInv, NEW t \in Tasks, WorkerStep(t) PROVE BatchFits' /\ AdmissionFits' /\ HeldFits' /\ WakeFits'
<1>1. Calm(t)
  BY MoveCalm, ParkCalm, SubmitCalm, AcceptCalm, StaleCalm, RejectCalm, BlockCalm DEF WorkerStep, WakeInv
<1>2. Running(t) /\ TypeOK /\ proc \notin {"down", "starting"}
  BY WorkerAlone DEF WakeInv, IInv, DownShape
<1>3. late' = late /\ tick' = tick /\ batch' = batch /\ at' = at /\ todo' = todo /\ (proc' = proc \/ (proc = "up" /\ proc' = "stopped"))
  BY DEF WorkerStep, Prepare, TurnStart, DeliverInput, TurnEnd, Dispatch, SettleEffect, AskUser, Park, Finish,
         FinishTooEarly, Submit, WorkerFails, Accept, StaleInput, CheckFails, ValidationFails, Reject, RejectRefused,
         Cleanup, Block, Fatal, Leave, WorkerOnly, TaskOnly, loop
<1>4. BatchFits'
  BY <1>1, <1>2, <1>3, BatchStays DEF WakeInv, Calm
<1>5. HeldFits' /\ WakeFits'
  BY <1>1, <1>3, ProvidedStays DEF WakeInv, Calm
<1>6. ASSUME NEW a \in at
      PROVE  /\ task'[TaskOf(a.key)].status = task[TaskOf(a.key)].status
             /\ task'[TaskOf(a.key)].inputs = task[TaskOf(a.key)].inputs
  <2>1. TaskOf(a.key) \in Tasks \ {t} /\ task[TaskOf(a.key)].status \in {"ready", "validating"}
    BY <1>2 DEF WakeInv, IInv, TypeOK, AtShape, AdmissionFits, Keys, TaskOf
  <2> QED
    BY <1>1, <2>1 DEF Calm
<1>7. AdmissionFits'
  BY <1>1, <1>2, <1>3, <1>6, AdmissionStays DEF WakeInv, Calm
<1> QED
  BY <1>4, <1>5, <1>7

-----------------------------------------------------------------------------
\* The scheduler. Whether a tick goes through effects, it is idle otherwise.
LEMMA TickWakes == ASSUME WakeInv, TickScan \/ TickAbort \/ TickDrain PROVE BatchFits' /\ AdmissionFits' /\ HeldFits' /\ WakeFits'
<1>1. /\ TypeOK /\ at = {} /\ batch = {} /\ at' = {} /\ batch' = {} /\ todo' = todo /\ late' = late /\ proc' = proc
  BY DEF TickScan, TickAbort, TickDrain, BeginTick, WakeInv, IInv, AtShape, BatchFits
<1>2. BatchFits'
  BY <1>1 DEF BatchFits
<1>3. CASE TickScan
  <2>1. run = "active" /\ run' = run /\ worker' = worker /\ SaveAndWake(task) /\ task \in [Tasks -> TaskRow]
    BY <1>1, <1>3 DEF TickScan, RunNow, Overdue, TypeOK
  <2>2. /\ SlotsStay
        /\ \A u \in Tasks : /\ (task'[u].attempt <=> task[u].attempt)
                            /\ \/ task'[u].status = task[u].status
                               \/ task[u].status = "waiting" /\ task'[u].status = "ready" /\ HasSlot(u)'
    BY <1>1, <2>1, SavedWakes
  <2>3. Attempts' \subseteq Attempts \cup {{}}
    BY <2>2 DEF Attempts
  <2>4. ASSUME NEW u \in Tasks PROVE Provided(u)
    <3>1. CASE task'[u].status = task[u].status
      BY <2>1, <2>2, <3>1, Untouched
    <3>2. CASE task'[u].status = "ready" /\ HasSlot(u)'
      BY <3>2 DEF Provided
    <3> QED
      BY <2>2, <3>1, <3>2
  <2> QED
    BY <1>1, <1>2, <2>1, <2>3, <2>4, NoAdmission, ProvidedStays DEF WakeInv
<1>4. CASE TickAbort \/ TickDrain
  <2>1. run' # "active"
    BY <1>4 DEF TickAbort, TickDrain, RunNow, Overdue
  <2>2. \A u \in Tasks : task'[u].attempt => task[u].attempt
    <3>1. CASE task' = task
      BY <3>1
    <3>2. CASE task' = [t \in Tasks |-> CancelledTask(t)]
      BY <1>1, <3>2 DEF CancelledTask, TypeOK, TaskRow
    <3> QED
      BY <1>4, <3>1, <3>2 DEF TickAbort, TickDrain
  <2>3. Attempts' \subseteq Attempts \cup {{}}
    BY <2>2 DEF Attempts
  <2> QED
    BY <1>1, <1>2, <2>1, <2>3, NoAdmission, NotActive DEF WakeInv
<1> QED
  BY <1>3, <1>4

\* What is claimed keeps its slot; so does what is enqueued again.
LEMMA ClaimWakes == ASSUME WakeInv, NEW S \in SUBSET Keys, Claim(S) PROVE BatchFits' /\ AdmissionFits' /\ HeldFits' /\ WakeFits'
<1>1. /\ TypeOK /\ at = {} /\ at' = {} /\ batch' = S /\ tick' = IF S = {} THEN "idle" ELSE "effects"
      /\ \A k \in S : slot[k] = "pending"
      /\ slot' = [k \in Keys |-> IF k \in S THEN "leased" ELSE slot[k]]
      /\ run' = run /\ late' = late /\ task' = task /\ proc' = proc /\ worker' = worker /\ todo' = todo
  BY DEF Claim, WakeInv, IInv, AtShape
<1>2. BatchFits'
  BY <1>1 DEF BatchFits
<1>3. \A u \in Tasks : HasSlot(u) => HasSlot(u)'
  BY <1>1 DEF HasSlot, Keys
<1>4. \A u \in Tasks : Provided(u)
  BY <1>1, <1>3 DEF Provided
<1>5. Attempts' \subseteq Attempts \cup {{}}
  BY <1>1 DEF Attempts
<1> QED
  BY <1>1, <1>2, <1>4, <1>5, NoAdmission, ProvidedStays DEF WakeInv

\* An effect is settled: its key is pending again or gone, the others stay.
LEMMA SettledIs ==
  ASSUME TypeOK, NEW k \in Keys, NEW retry \in BOOLEAN, SettleSlot(k, retry)
  PROVE  /\ \A j \in Keys : j # k => slot'[j] = slot[j]
         /\ retry \/ slot[k] = "superseded" => slot'[k] # "none"
BY DEF TypeOK, SettleSlot

LEMMA DoneFits ==
  ASSUME WakeInv, NEW k \in Keys, NEW retry \in BOOLEAN, EffectDone(k, retry)
  PROVE  BatchFits' /\ at' = {}
<1>1. /\ batch' = batch \ {k} /\ at' = {} /\ tick' = (IF batch = {k} THEN "idle" ELSE "effects")
      /\ \A j \in Keys : j # k => slot'[j] = slot[j]
      /\ batch \subseteq Keys
  BY SettledIs DEF EffectDone, WakeInv, IInv, TypeOK
<1> QED
  BY <1>1 DEF BatchFits, WakeInv

\* Everything but the slots stays: nobody needs the slot that was settled.
LEMMA SettleWakes ==
  ASSUME WakeInv, NEW k \in Keys, NEW retry \in BOOLEAN, SettleSlot(k, retry),
         run' = run, late' = late, task' = task, todo' = todo,
         \A u \in Tasks : worker'[u].phase = worker[u].phase,
         proc' = proc \/ (proc = "up" /\ proc' = "stopped"),
         \/ run # "active" \/ late \/ retry \/ task[TaskOf(k)].status \notin {"ready", "validating"}
         \/ Refreshed(TaskOf(k), k)
  PROVE  HeldFits' /\ WakeFits'
<1>1. /\ TaskOf(k) \in Tasks
      /\ \A j \in Keys : j # k => slot'[j] = slot[j]
      /\ retry \/ slot[k] = "superseded" => slot'[k] # "none"
  BY SettledIs DEF WakeInv, IInv, Keys, TaskOf
<1>2. CASE run # "active"
  BY <1>2, NotActive
<1>3. HeldFits'
  BY DEF WakeInv, HeldFits
<1>4. CASE late
  BY <1>3, <1>4 DEF WakeFits
<1>5. ASSUME NEW u \in Tasks, u # TaskOf(k), HasSlot(u) PROVE HasSlot(u)'
  BY <1>1, <1>5 DEF HasSlot, Keys, TaskOf
<1>6. CASE retry \/ Refreshed(TaskOf(k), k)
  <2>1. HasSlot(TaskOf(k))'
    <3>1. PICK kind \in Kinds : k = <<kind, TaskOf(k)>>
      BY DEF Keys, TaskOf
    <3>2. CASE retry
      BY <1>1, <3>1, <3>2 DEF HasSlot
    <3>3. CASE Refreshed(TaskOf(k), k)
      <4>1. PICK other \in Kinds : /\ slot[<<other, TaskOf(k)>>] # "none"
                                   /\ <<other, TaskOf(k)>> = k => slot[k] = "superseded"
        BY <3>3 DEF Refreshed
      <4>2. <<other, TaskOf(k)>> \in Keys
        BY <1>1 DEF Keys
      <4>3. slot'[<<other, TaskOf(k)>>] # "none"
        BY <1>1, <4>1, <4>2
      <4> QED
        BY <4>3 DEF HasSlot
    <3> QED
      BY <1>6, <3>2, <3>3
  <2> QED
    BY <1>3, <1>5, <2>1 DEF WakeInv, WakeFits
<1>7. CASE task[TaskOf(k)].status \notin {"ready", "validating"}
  BY <1>3, <1>5, <1>7 DEF WakeInv, WakeFits
<1> QED
  BY <1>2, <1>4, <1>6, <1>7

LEMMA PassOverWakes == ASSUME WakeInv, NEW k \in Keys, PassOver(k) PROVE BatchFits' /\ AdmissionFits' /\ HeldFits' /\ WakeFits'
<1>1. PICK retry \in BOOLEAN :
        /\ EffectDone(k, retry)
        /\ run # "active" \/ retry \/ task[TaskOf(k)].status \notin {"ready", "validating"}
  BY DEF PassOver
<1>2. run' = run /\ late' = late /\ task' = task /\ todo' = todo /\ proc' = proc /\ worker' = worker
  BY DEF PassOver
<1>3. BatchFits' /\ at' = {}
  BY <1>1, DoneFits
<1>4. HeldFits' /\ WakeFits'
  BY <1>1, <1>2, SettleWakes DEF EffectDone
<1>5. Attempts' \subseteq Attempts \cup {{}}
  BY <1>2 DEF Attempts
<1> QED
  BY <1>3, <1>4, <1>5, NoAdmission DEF WakeInv

LEMMA LeaseWakes == ASSUME WakeInv, NEW k \in Keys, LeaseExpires(k) PROVE BatchFits' /\ AdmissionFits' /\ HeldFits' /\ WakeFits'
<1>1. /\ TypeOK /\ k \notin batch
      /\ \A j \in Keys : slot'[j] = IF j = k THEN "pending" ELSE slot[j]
      /\ run' = run /\ late' = late /\ task' = task /\ proc' = proc /\ worker' = worker /\ todo' = todo
      /\ at' = at /\ batch' = batch /\ tick' = tick
  BY DEF LeaseExpires, WakeInv, IInv, TypeOK, loop
<1>2. BatchFits'
  BY <1>1 DEF WakeInv, BatchFits, TypeOK
<1>3. \A u \in Tasks : HasSlot(u) => HasSlot(u)'
  BY <1>1 DEF HasSlot, Keys
<1>4. \A u \in Tasks : Provided(u)
  BY <1>1, <1>3 DEF Provided
<1>5. ASSUME NEW a \in at, Refreshed(TaskOf(a.key), a.key) PROVE Refreshed(TaskOf(a.key), a.key)'
  <2>1. a.key \in Keys /\ a.key # k /\ TaskOf(a.key) \in Tasks
    BY <1>1 DEF TypeOK, WakeInv, AdmissionFits, Keys, TaskOf
  <2> QED
    BY <1>1, <1>5, <2>1 DEF Refreshed, Keys
<1>6. AdmissionFits'
  BY <1>1, <1>5 DEF WakeInv, AdmissionFits, Attempts, Revision
<1> QED
  BY <1>1, <1>2, <1>4, <1>6, ProvidedStays DEF WakeInv

\* The tick looks at a task: there is a place for it, since every attempt has a
\* worker and every worker at work an attempt.
LEMMA AdmitWakes == ASSUME WakeInv, NEW k \in Keys, Admit(k) PROVE BatchFits' /\ AdmissionFits' /\ HeldFits' /\ WakeFits'
<1>1. /\ run' = run /\ late' = late /\ task' = task /\ proc' = proc /\ worker' = worker /\ todo' = todo
      /\ slot' = slot /\ batch' = batch /\ tick' = tick /\ tick = "effects" /\ k \in batch
      /\ todo = {} /\ ~Full
      /\ task[TaskOf(k)].status \in {"ready", "validating"}
      /\ at' = {[key |-> k, revision |-> Revision(TaskOf(k)), stale |-> FALSE]}
  BY DEF Admit, MustWait
<1>2. BatchFits'
  BY <1>1 DEF WakeInv, BatchFits
<1>3. HeldFits' /\ WakeFits'
  BY <1>1 DEF WakeInv, HeldFits, WakeFits, HasSlot
<1>4. {t \in Tasks : Running(t) /\ task[t].status = "running"} = Attempts
  <2>1. proc \notin {"down", "starting"}
    BY <1>1 DEF WakeInv, IInv, DownShape
  <2>2. ASSUME NEW t \in Tasks
        PROVE  Running(t) /\ task[t].status = "running" <=> task[t].attempt
    BY <2>1 DEF WakeInv, IInv, Fits, Shape, Awake, Running, Working
  <2> QED
    BY <2>2 DEF Attempts
<1>5. IsFiniteSet(Attempts) /\ Cardinality(Attempts) \in Nat
  BY FS_CardinalityType DEF WakeInv, AdmissionFits
<1>6. Cardinality(Attempts) < MaxActive
  BY <1>1, <1>4, <1>5, RuntimeAssumption DEF Full
<1>7. IsFiniteSet(Attempts)' /\ Cardinality(Attempts') < MaxActive
  BY <1>1, <1>5, <1>6 DEF Attempts
<1>8. ASSUME NEW a \in at'
      PROVE  /\ a.key \in batch' /\ task'[TaskOf(a.key)].status \in {"ready", "validating"}
             /\ a.revision = Revision(TaskOf(a.key))' /\ ~a.stale /\ todo' = {}
  BY <1>1, <1>8 DEF Revision
<1>9. AdmissionFits'
  BY <1>7, <1>8 DEF AdmissionFits
<1> QED
  BY <1>2, <1>3, <1>9

LEMMA AdmissionEnds == ASSUME WakeInv, NEW a \in at, AdmitBusy(a) \/ DropStale(a) PROVE BatchFits' /\ AdmissionFits' /\ HeldFits' /\ WakeFits'
<1>1. a.key \in Keys
  BY DEF WakeInv, IInv, TypeOK
<1>2. PICK retry \in BOOLEAN :
        /\ EffectDone(a.key, retry)
        /\ retry \/ a.stale
  BY DEF AdmitBusy, DropStale
<1>3. run' = run /\ late' = late /\ task' = task /\ todo' = todo /\ proc' = proc /\ worker' = worker
  BY DEF AdmitBusy, DropStale
<1>4. run # "active" \/ retry \/ Refreshed(TaskOf(a.key), a.key)
  BY <1>2 DEF WakeInv, AdmissionFits
<1>5. BatchFits' /\ at' = {}
  BY <1>1, <1>2, DoneFits
<1>6. HeldFits' /\ WakeFits'
  BY <1>1, <1>2, <1>3, <1>4, SettleWakes DEF EffectDone
<1>7. Attempts' \subseteq Attempts \cup {{}}
  BY <1>3 DEF Attempts
<1> QED
  BY <1>5, <1>6, <1>7, NoAdmission DEF WakeInv

\* What makes an admission stale, other than a follow-up, is a run that is not
\* active or was resumed meanwhile.
LEMMA AdmitStaleWakes == ASSUME WakeInv, NEW a \in at, AdmitStale(a) PROVE BatchFits' /\ AdmissionFits' /\ HeldFits' /\ WakeFits'
<1>1. /\ run' = run /\ late' = late /\ task' = task /\ todo' = todo /\ proc' = proc /\ worker' = worker
      /\ slot' = slot /\ batch' = batch /\ tick' = tick
      /\ ~StillCurrent(a) \/ todo # {}
      /\ at' = {[a EXCEPT !.stale = TRUE]}
  BY DEF AdmitStale
<1>2. BatchFits' /\ HeldFits' /\ WakeFits'
  BY <1>1 DEF WakeInv, BatchFits, HeldFits, WakeFits, HasSlot
<1>3. /\ IsFiniteSet(Attempts) /\ Cardinality(Attempts) < MaxActive
      /\ a.key \in batch /\ task[TaskOf(a.key)].status \in {"ready", "validating"}
      /\ a.revision = Revision(TaskOf(a.key))
      /\ run = "active" => Refreshed(TaskOf(a.key), a.key)
  BY <1>1 DEF WakeInv, AdmissionFits, StillCurrent
<1>4. ASSUME NEW b \in at' PROVE b.key = a.key /\ b.revision = a.revision
  BY <1>1, <1>4 DEF WakeInv, IInv, TypeOK
<1>5. AdmissionFits'
  BY <1>1, <1>3, <1>4 DEF AdmissionFits, Attempts, Revision, Refreshed
<1> QED
  BY <1>2, <1>5

\* A task that is launched needs its slot no more.
LEMMA LaunchWakes == ASSUME WakeInv, NEW a \in at, Launch(a) PROVE BatchFits' /\ AdmissionFits' /\ HeldFits' /\ WakeFits'
<1>1. PICK t \in Tasks :
         /\ t = TaskOf(a.key) /\ a.key \in Keys
         /\ run = "active" /\ run' = run /\ proc' = proc /\ todo' = todo
         /\ \A u \in Tasks \ {t} : task'[u] = task[u] /\ worker'[u] = worker[u]
         /\ \/ task'[t].status = "running"
            \/ task'[t].status = "validating" /\ worker'[t].phase \in {"validate", "block"}
  BY LaunchIs DEF WakeInv, IInv, TypeOK
<1>2. late' = late /\ EffectDone(a.key, FALSE)
  BY DEF Launch
<1>3. BatchFits' /\ at' = {}
  BY <1>1, <1>2, DoneFits
<1>4. ASSUME NEW u \in Tasks, u # t, HasSlot(u) PROVE HasSlot(u)'
  <2>1. \A j \in Keys : j # a.key => slot'[j] = slot[j]
    BY <1>1, <1>2, SettledIs DEF EffectDone, WakeInv, IInv
  <2> QED
    BY <1>1, <1>4, <2>1 DEF HasSlot, Keys, TaskOf
<1>5. HeldFits' /\ WakeFits'
  BY <1>1, <1>2, <1>4 DEF WakeInv, HeldFits, WakeFits, Rests
<1>6. Attempts' \subseteq Attempts \cup {t}
  BY <1>1 DEF Attempts
<1> QED
  BY <1>3, <1>5, <1>6, NoAdmission DEF WakeInv

\* A start is refused in one case only: the deadline passed.
LEMMA RefusedWakes == ASSUME WakeInv, NEW a \in at, LaunchRefused(a) PROVE BatchFits' /\ AdmissionFits' /\ HeldFits' /\ WakeFits'
<1>1. /\ run' = run /\ late' = late /\ task' = task /\ todo' = todo /\ at' = {} /\ batch' = {} /\ tick' = "idle"
      /\ proc' = proc \/ (proc = "up" /\ proc' = "stopped")
      /\ SettleSlot(a.key, FALSE) /\ a.key \in Keys /\ TaskOf(a.key) \in Tasks
      /\ \A u \in Tasks : worker'[u].phase = worker[u].phase
  BY AbortingIs DEF LaunchRefused, Fatal, WakeInv, IInv, TypeOK, Keys, TaskOf
<1>2. late
  <2>1. run = "active" /\ task[TaskOf(a.key)].status = "ready" /\ ~MayStart(TaskOf(a.key))
    BY DEF LaunchRefused, StillCurrent, Revision
  <2>2. Accepted(task, TaskOf(a.key))
    BY <1>1, <2>1 DEF WakeInv, IInv, DependenciesFirst
  <2>3. Cardinality(Attempts) < MaxActive
    BY DEF WakeInv, AdmissionFits
  <2> QED
    BY <2>1, <2>2, <2>3 DEF MayStart
<1>3. HeldFits' /\ WakeFits'
  BY <1>1, <1>2, SettleWakes
<1>4. Attempts' \subseteq Attempts \cup {{}}
  BY <1>1 DEF Attempts
<1> QED
  BY <1>1, <1>3, <1>4, NoAdmission DEF WakeInv, BatchFits

-----------------------------------------------------------------------------
\* The owner.
LEMMA StartWakes == ASSUME WakeInv, Start PROVE BatchFits' /\ AdmissionFits' /\ HeldFits' /\ WakeFits'
<1>1. /\ task' = task /\ worker' = worker /\ late' = late /\ at' = {} /\ batch' = {} /\ tick' = tick
      /\ (run' = "active" => run = "active") /\ proc' = "starting" /\ todo' = ToRecover
      /\ \A k \in Keys : slot[k] # "none" => slot'[k] # "none"
  BY DEF Start, loop, WakeInv, IInv, DownShape, BatchFits
<1>2. \A u \in Tasks : HasSlot(u) => HasSlot(u)'
  BY <1>1 DEF HasSlot, Keys
<1>3. HeldFits' /\ WakeFits'
  BY <1>1, <1>2 DEF WakeInv, HeldFits, WakeFits, ToRecover
<1>4. Attempts' \subseteq Attempts \cup {{}}
  BY <1>1 DEF Attempts
<1> QED
  BY <1>1, <1>3, <1>4, NoAdmission DEF WakeInv, BatchFits

\* A recovered task gets a slot if the run is active still.
LEMMA RecoverWakes == ASSUME WakeInv, NEW t \in Tasks, Recover(t) PROVE BatchFits' /\ AdmissionFits' /\ HeldFits' /\ WakeFits'
<1>1. /\ t \in todo /\ todo' = todo \ {t} /\ late' = late /\ proc' = proc /\ worker' = worker
      /\ at' = at /\ batch' = batch /\ tick' = tick
      /\ run' \in {run, "paused"} /\ TypeOK
  BY DEF Recover, loop, WakeInv, IInv
<1>2. /\ \A u \in Tasks \ {t} : task'[u] = task[u]
      /\ task'[t].inputs = task[t].inputs
      /\ ~task'[t].attempt \/ task' = task
      /\ \/ task'[t].status = task[t].status /\ task[t].status \notin {"running", "reconciling"}
         \/ /\ task[t].status \in {"running", "reconciling"}
            /\ task'[t].status = "reconciling" \/ (task'[t].status = "ready" /\ ~Unresolved(t) /\ run = "active")
  BY <1>1, RecoverIs
<1>3. /\ SlotsStay
      /\ run' = "active" /\ task'[t].status = "ready" => HasSlot(t)' \/ task[t].status = "ready"
      /\ run' = "active" /\ task'[t].status = "validating" => HasSlot(t)'
      /\ run' = "active" => task'[t].status # "reconciling"
  <2>1. CASE task[t].status = "validating" /\ run = "active" /\ Wake({t})
    BY <1>1, <1>2, <2>1, Waked
  <2>2. CASE run # "active" /\ slot' = slot
    BY <1>1, <2>2, SameSlots
  <2>3. CASE /\ task[t].status \in {"running", "reconciling"} /\ run = "active" /\ ~Unresolved(t)
             /\ task' = [task EXCEPT ![t].attempt = FALSE, ![t].status = "ready"] /\ Schedule({t})
    <3>1. SlotsStay /\ HasSlot(t)'
      BY <1>1, <2>3, Scheduled
    <3>2. task'[t].status = "ready"
      BY <1>1, <2>3 DEF TypeOK, TaskRow
    <3> QED
      BY <3>1, <3>2
  <2>4. CASE task[t].status \in {"running", "reconciling"} /\ run' = "paused" /\ slot' = slot
    BY <2>4, SameSlots
  <2>5. CASE task[t].status \notin {"validating", "running", "reconciling"} /\ task' = task /\ slot' = slot
    BY <2>5, SameSlots
  <2> QED
    BY <2>1, <2>2, <2>3, <2>4, <2>5 DEF Recover
<1>4. \A u \in Tasks : HasSlot(u) => HasSlot(u)'
  BY <1>3, SlotKept
<1>5. HeldFits'
  BY <1>1, <1>2, <1>3 DEF WakeInv, HeldFits
<1>6. WakeFits'
  BY <1>1, <1>2, <1>3, <1>4 DEF WakeInv, WakeFits
<1>7. BatchFits'
  BY <1>1, <1>3, BatchStays DEF WakeInv
<1>8. ASSUME NEW a \in at
      PROVE  /\ task'[TaskOf(a.key)].status = task[TaskOf(a.key)].status
             /\ task'[TaskOf(a.key)].inputs = task[TaskOf(a.key)].inputs
  <2>1. proc # "starting"
    BY DEF WakeInv, IInv, DownShape
  <2>2. task[t].status \in {"reconciling", "cancelled"}
    BY <1>1, <2>1 DEF WakeInv, IInv, TodoShape
  <2>3. TaskOf(a.key) \in Tasks /\ task[TaskOf(a.key)].status \in {"ready", "validating"}
    BY <1>1 DEF WakeInv, AdmissionFits, TypeOK, Keys, TaskOf
  <2> QED
    BY <1>2, <2>2, <2>3
<1>9. AdmissionFits'
  <2>1. \A u \in Tasks : task'[u].attempt => task[u].attempt
    BY <1>2
  <2> QED
    BY <1>1, <1>3, <1>8, <2>1, AdmissionStays DEF WakeInv
<1> QED
  BY <1>5, <1>6, <1>7, <1>9

LEMMA StartedWakes == ASSUME WakeInv, Started PROVE BatchFits' /\ AdmissionFits' /\ HeldFits' /\ WakeFits'
<1>1. /\ worker' = worker /\ late' = late /\ run' = run /\ at' = {} /\ batch' = {} /\ tick' = tick /\ todo' = todo
      /\ proc = "starting" /\ proc' = "up" /\ TypeOK /\ task \in [Tasks -> TaskRow]
  BY DEF Started, loop, WakeInv, IInv, DownShape, BatchFits, TypeOK
<1>2. ASSUME NEW u \in Tasks PROVE (task'[u].attempt => task[u].attempt) /\ Provided(u)
  <2>1. CASE run = "active"
    <3>1. /\ SlotsStay /\ (task'[u].attempt <=> task[u].attempt)
          /\ \/ task'[u].status = task[u].status
             \/ task[u].status = "waiting" /\ task'[u].status = "ready" /\ HasSlot(u)'
      BY <1>1, <2>1, SavedWakes DEF Started
    <3>2. CASE task'[u].status = task[u].status
      BY <1>1, <3>1, <3>2, Untouched
    <3>3. CASE task'[u].status = "ready" /\ HasSlot(u)'
      BY <3>1, <3>3 DEF Provided
    <3> QED
      BY <3>1, <3>2, <3>3
  <2>2. CASE run # "active"
    <3>1. task' = task /\ slot' = slot
      BY <2>2 DEF Started
    <3> QED
      BY <1>1, <3>1, SameSlots, Untouched
  <2> QED
    BY <2>1, <2>2
<1>3. HeldFits' /\ WakeFits'
  BY <1>1, <1>2, ProvidedStays DEF WakeInv
<1>4. Attempts' \subseteq Attempts \cup {{}}
  BY <1>2 DEF Attempts
<1> QED
  BY <1>1, <1>3, <1>4, NoAdmission DEF WakeInv, BatchFits

LEMMA OwnerWakes == ASSUME WakeInv, OwnerStep PROVE BatchFits' /\ AdmissionFits' /\ HeldFits' /\ WakeFits'
<1>1. CASE Crash \/ Closed
  <2>1. /\ batch' = {} /\ at' = {} /\ tick' = "idle" /\ proc' = "down"
        /\ run' = run /\ late' = late /\ task' = task /\ slot' = slot
    BY <1>1 DEF Crash, Closed, Gone
  <2>2. Attempts' \subseteq Attempts \cup {{}}
    BY <2>1 DEF Attempts
  <2> QED
    BY <2>1, <2>2, NoAdmission DEF WakeInv, BatchFits, HeldFits, WakeFits, HasSlot
<1>2. CASE Close \/ CloseAborts
  <2>1. /\ run' = run /\ late' = late /\ task' = task /\ slot' = slot /\ todo' = todo
        /\ at' = at /\ batch' = batch /\ tick' = tick /\ proc # "down" /\ proc' = "closing"
        /\ \A u \in Tasks : worker'[u].phase = worker[u].phase
    BY <1>2, AbortingIs DEF Close, CloseAborts, loop, WakeInv, IInv, TypeOK
  <2>2. HeldFits' /\ WakeFits'
    BY <2>1 DEF WakeInv, HeldFits, WakeFits, HasSlot
  <2>3. BatchFits' /\ AdmissionFits'
    BY <2>1, SameSlots, BatchStays, AdmissionStays DEF WakeInv, IInv
  <2> QED
    BY <2>2, <2>3
<1> QED
  BY <1>1, <1>2, StartWakes, RecoverWakes, StartedWakes DEF OwnerStep

-----------------------------------------------------------------------------
\* The user.
LEMMA ControlWakes ==
  ASSUME WakeInv, Pause \/ Cancel \/ Extend \/ DeadlinePasses PROVE BatchFits' /\ AdmissionFits' /\ HeldFits' /\ WakeFits'
<1>1. /\ slot' = slot /\ proc' = proc /\ worker' = worker /\ todo' = todo /\ at' = at /\ batch' = batch /\ tick' = tick
      /\ run' = "active" => run = "active"
      /\ run' # "active" \/ late'
  BY DEF Pause, Cancel, Extend, DeadlinePasses, loop
<1>2. \A u \in Tasks : /\ task'[u].status = task[u].status /\ (task'[u].attempt <=> task[u].attempt)
                      /\ task'[u].inputs = task[u].inputs
  BY WaitsIs DEF Pause, Cancel, Extend, DeadlinePasses, WakeInv, IInv, TypeOK, SameRow, Data
<1>3. HeldFits' /\ WakeFits'
  BY <1>1, <1>2 DEF WakeInv, HeldFits, WakeFits
<1>4. \A a \in at : TaskOf(a.key) \in Tasks
  BY DEF WakeInv, IInv, TypeOK, Keys, TaskOf
<1> QED
  BY <1>1, <1>2, <1>3, <1>4, SameSlots, BatchStays, AdmissionStays DEF WakeInv, IInv

LEMMA InputWakes ==
  ASSUME WakeInv, InputsSpareAdmissions, NEW t \in Tasks, Answer(t) \/ Followup(t) \/ Reconcile(t)
  PROVE  BatchFits' /\ AdmissionFits' /\ HeldFits' /\ WakeFits'
<1>1. /\ slot' = slot /\ proc' = proc /\ worker' = worker /\ todo' = todo /\ at' = at /\ batch' = batch /\ tick' = tick
      /\ run' = run /\ late' = late
  BY DEF Answer, Followup, Reconcile, TaskOnly, loop
<1>2. \A u \in Tasks : task'[u].status = task[u].status /\ (task'[u].attempt <=> task[u].attempt)
  <2>1. CASE Answer(t)
    BY <2>1 DEF Answer, WakeInv, IInv, TypeOK, TaskRow
  <2>2. CASE Followup(t)
    BY <2>2 DEF Followup, WakeInv, IInv, TypeOK, TaskRow
  <2>3. CASE Reconcile(t)
    BY <2>3 DEF Reconcile, WakeInv, IInv, TypeOK, TaskRow
  <2> QED
    BY <2>1, <2>2, <2>3
<1>3. HeldFits' /\ WakeFits'
  BY <1>1, <1>2 DEF WakeInv, HeldFits, WakeFits, HasSlot
<1>4. \A a \in at : TaskOf(a.key) \in Tasks
  BY DEF WakeInv, IInv, TypeOK, Keys, TaskOf
<1> QED
  BY <1>1, <1>2, <1>3, <1>4, SameSlots, BatchStays, AdmissionStays DEF WakeInv, IInv, InputsSpareAdmissions

EnqueuedAgain(k) == slot'[k] # "none" /\ (slot[k] \in {"leased", "superseded"} => slot'[k] = "superseded")

\* What can go on is enqueued again, what is to be reconciled will be recovered.
LEMMA ResumedIs ==
  ASSUME TypeOK, Resume, NEW t \in Tasks
  PROVE  /\ task'[t].status # "paused" /\ (task'[t].attempt <=> task[t].attempt) /\ task'[t].inputs = task[t].inputs
         /\ task[t].status \in {"ready", "validating"} => task'[t].status = task[t].status
         /\ task'[t].status = "reconciling" => t \in todo'
         /\ SlotsStay
         /\ task'[t].status = "ready" => EnqueuedAgain(<<"schedule", t>>)
         /\ task'[t].status = "validating" => EnqueuedAgain(<<"wake", t>>)
<1> DEFINE rows == [u \in Tasks |-> Unpaused(task[u])]
           ready == {u \in Tasks : rows[u].status = "ready"} \cup Woken(rows)
           validating == {u \in Tasks : rows[u].status = "validating"}
<1>1. task[t] \in TaskRow /\ rows[t] \in TaskRow /\ "ready" \in TaskStates /\ rows[t] = Unpaused(task[t])
  BY UnpausedType DEF TypeOK, TaskStates
<1>2. /\ task' = Readied(rows, ready)
      /\ slot' = Enqueued(({"schedule"} \X ready) \cup ({"wake"} \X validating))
      /\ todo' = {u \in Tasks : rows[u].status = "reconciling"}
  BY DEF Resume
<1>3. task'[t] = IF t \in ready THEN WithStatus(rows[t], "ready") ELSE rows[t]
  BY <1>2 DEF Readied, WithStatus
<1>4. /\ t \in ready => rows[t].status \in {"ready", "waiting"}
      /\ rows[t].status = "ready" => t \in ready
      /\ rows[t].status = "validating" => t \in validating
      /\ t \in todo' <=> rows[t].status = "reconciling"
  BY <1>2 DEF Woken
<1>5. PICK S : S = ({"schedule"} \X ready) \cup ({"wake"} \X validating)
  OBVIOUS
<1>6. (t \in ready => <<"schedule", t>> \in S) /\ (t \in validating => <<"wake", t>> \in S)
  BY <1>5
<1>7. slot' = Enqueued(S)
  BY <1>2, <1>5
<1> HIDE DEF rows, ready, validating
<1>8. /\ rows[t].status # "paused" /\ (rows[t].attempt <=> task[t].attempt) /\ rows[t].inputs = task[t].inputs
      /\ task[t].status # "paused" => rows[t].status = task[t].status
  <2>1. task[t].resumeTo \in {"none", "waiting", "validating"}
    BY <1>1 DEF TaskRow
  <2> QED
    BY <1>1, <2>1, UnpausedIs DEF Data
<1>9. /\ (task'[t].attempt <=> rows[t].attempt) /\ task'[t].inputs = rows[t].inputs
      /\ task'[t].status = IF t \in ready THEN "ready" ELSE rows[t].status
  BY <1>1, <1>3, StatusRow DEF Data
<1>10. SlotsStay /\ \A k \in Keys : k \in S => EnqueuedAgain(k)
  BY <1>7, EnqueuedStays DEF EnqueuedAgain
<1>11. task'[t].status = "ready" => t \in ready
  BY <1>4, <1>9
<1>12. task'[t].status = "validating" => t \in validating
  BY <1>4, <1>9
<1> QED
  BY <1>4, <1>6, <1>8, <1>9, <1>10, <1>11, <1>12, KeyIs

LEMMA ResumeWakes == ASSUME WakeInv, Resume PROVE BatchFits' /\ AdmissionFits' /\ HeldFits' /\ WakeFits'
<1>1. TypeOK /\ at' = at /\ batch' = batch /\ tick' = tick /\ Attempts = {}
  BY DEF Resume, Resumable, loop, WakeInv, IInv
<1>2. ASSUME NEW u \in Tasks
      PROVE  /\ task'[u].status # "paused" /\ (task'[u].status = "reconciling" => u \in todo')
             /\ task'[u].status \in {"ready", "validating"} => HasSlot(u)'
             /\ ~task'[u].attempt
  <2>1. ~task[u].attempt
    BY <1>1 DEF Attempts
  <2> QED
    BY <1>1, <2>1, ResumedIs DEF HasSlot, Kinds, EnqueuedAgain
<1>3. HeldFits' /\ WakeFits'
  BY <1>2 DEF HeldFits, WakeFits
<1>4. SlotsStay
  BY <1>1, ResumedIs, RuntimeAssumption
<1>5. BatchFits'
  BY <1>1, <1>4, BatchStays DEF WakeInv
<1>6. ASSUME NEW a \in at
      PROVE  /\ a.key \in batch' /\ task'[TaskOf(a.key)].status \in {"ready", "validating"}
             /\ a.revision = Revision(TaskOf(a.key))'
             /\ Refreshed(TaskOf(a.key), a.key)'
  <2>1. PICK u \in Tasks : u = TaskOf(a.key)
    BY <1>1 DEF TypeOK, Keys, TaskOf
  <2>2. a.key \in batch /\ slot[a.key] \in {"leased", "superseded"} /\ task[u].status \in {"ready", "validating"} /\ a.revision = Revision(u)
    BY <2>1 DEF WakeInv, AdmissionFits, BatchFits
  <2>3. task'[u].status = task[u].status /\ task'[u].inputs = task[u].inputs
    BY <1>1, <2>2, ResumedIs
  <2>4. PICK kind \in Kinds : EnqueuedAgain(<<kind, u>>)
    BY <1>1, <2>2, <2>3, ResumedIs DEF Kinds
  <2>5. Refreshed(u, a.key)'
    BY <2>2, <2>4 DEF Refreshed, EnqueuedAgain
  <2> QED
    BY <1>1, <2>1, <2>2, <2>3, <2>5 DEF Revision
<1>7. IsFiniteSet(Attempts)' /\ (at' # {} => Cardinality(Attempts') < MaxActive)
  <2>1. Attempts' = Attempts
    BY <1>1, <1>2 DEF Attempts
  <2> QED
    BY <1>1, <2>1 DEF WakeInv, AdmissionFits
<1> QED
  BY <1>1, <1>3, <1>5, <1>6, <1>7 DEF AdmissionFits

-----------------------------------------------------------------------------
LEMMA WakeInit == Init => WakeInv
<1> SUFFICES ASSUME Init PROVE WakeInv
  OBVIOUS
<1>1. IInv
  BY IInvInit
<1>2. \A t \in Tasks : /\ task[t].status = IF DependsOn[t] = {} THEN "ready" ELSE "waiting"
                       /\ ~task[t].attempt
                       /\ DependsOn[t] = {} => slot[<<"schedule", t>>] = "pending"
  BY KeyIs DEF Init
<1>3. Attempts = {}
  BY <1>2 DEF Attempts
<1>4. BatchFits /\ AdmissionFits
  BY <1>3, FS_EmptySet DEF Init, BatchFits, AdmissionFits
<1>5. HeldFits /\ WakeFits
  BY <1>2 DEF HeldFits, WakeFits, HasSlot, Kinds
<1> QED
  BY <1>1, <1>4, <1>5 DEF WakeInv

LEMMA WakeNext == WakeInv /\ [Next /\ InputsSpareAdmissions]_vars => WakeInv'
<1> SUFFICES ASSUME WakeInv, [Next /\ InputsSpareAdmissions]_vars PROVE WakeInv'
  OBVIOUS
<1>1. IInv'
  BY IInvNext DEF WakeInv
<1>2. CASE OwnerStep
  BY <1>1, <1>2, OwnerWakes DEF WakeInv
<1>3. CASE SchedulerStep
  BY <1>1, <1>3, TickWakes, ClaimWakes, PassOverWakes, AdmitWakes, LeaseWakes, AdmissionEnds, AdmitStaleWakes,
     LaunchWakes, RefusedWakes DEF WakeInv, SchedulerStep
<1>4. CASE UserStep /\ InputsSpareAdmissions
  BY <1>1, <1>4, ControlWakes, InputWakes, ResumeWakes DEF WakeInv, UserStep
<1>5. ASSUME NEW t \in Tasks, WorkerStep(t) PROVE WakeInv'
  BY <1>1, <1>5, WorkerWakes DEF WakeInv
<1>6. CASE UNCHANGED vars
  BY <1>1, <1>6 DEF vars, WakeInv, BatchFits, AdmissionFits, HeldFits, WakeFits, HasSlot, Refreshed, Attempts, Revision
<1> QED
  BY <1>2, <1>3, <1>4, <1>5, <1>6 DEF Next

LEMMA WakeSuffices == WakeInv => NoneStranded
<1> SUFFICES ASSUME WakeInv, run = "active", proc = "up", ~late, NEW t \in Tasks, ~Running(t), t \notin todo
             PROVE  ~Stranded(t)
  BY DEF NoneStranded, Stranded
<1>1. worker[t].phase = "none"
  BY DEF Running
<1>2. task[t].status \in {"ready", "validating"} => HasSlot(t)
  BY <1>1 DEF WakeInv, WakeFits, Rests
<1>3. task[t].status \notin {"reconciling", "paused"}
  BY DEF WakeInv, HeldFits
<1>4. task[t].status # "running"
  BY <1>1 DEF WakeInv, IInv, Fits, Shape, Awake, Working
<1> QED
  BY <1>2, <1>3, <1>4 DEF Stranded, HasSlot

\* Whatever is claimed, dropped, refused, left behind, crashed, paused and resumed,
\* an active run comes back to each of its tasks, provided that no follow-up arrives
\* between the moment #tick reads a task and the launch of it.
THEOREM NobodyStranded == Spec /\ [][InputsSpareAdmissions]_vars => []NoneStranded
<1>1. WakeInv /\ [Next]_vars /\ [InputsSpareAdmissions]_vars => WakeInv'
  BY WakeNext
<1> QED
  BY <1>1, WakeInit, WakeSuffices, PTL DEF Spec
=============================================================================
