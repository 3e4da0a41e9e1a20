----------------------------- MODULE ScheduleStore -----------------------------
(***************************************************************************)
(* The durable jobs of a project,                                           *)
(*   src/src/services/scheduler/manager.ts  ScheduleManager                 *)
(* Every process has its own copy of the file.  It merges the copy into the *)
(* file under a lock and then takes over what it wrote, while its tools and *)
(* its timer go on changing the copy.                                       *)
(***************************************************************************)
EXTENDS Integers, Sequences, FiniteSets, FiniteSetsExt

CONSTANTS
  Jobs,
  Managers,            \* processes with a ScheduleManager on the file
  MaxJobs,             \* MAX_SCHEDULED_JOBS
  MaxAge,              \* RECURRING_MAX_AGE_MS
  MaxTime,             \* bound: the clock
  MaxTrouble           \* bound: crashes and locks that cannot be had

ASSUME ScheduleAssumption == {MaxJobs, MaxAge, MaxTime, MaxTrouble} \subseteq Nat

NoJob == -1
Free == "free"
ASSUME FreeAssumption == Free \notin Managers

VARIABLES
  time,
  disk,       \* the file: [last |-> lastFiredAt ?? createdAt of every job, gone |-> deletedTasks]
  copy,       \* durable and deletedDurable of a process
  born,       \* createdAt
  once,       \* jobs with recurring: FALSE
  queue,      \* persist() calls of a process and what waits for them
  lock, step, merged,
  ticking, working,
  asked,      \* jobs that were to be removed, bound
  hitches

scheduleVars == <<time, disk, copy, born, once, queue, lock, step, merged, ticking, working, asked, hitches>>
lockVars == <<lock, step, merged>>

Empty == [last |-> [j \in Jobs |-> NoJob], gone |-> {}]
JobsIn(file) == {j \in Jobs : file.last[j] # NoJob}
Without(file, js) ==
  [last |-> [j \in Jobs |-> IF j \in js THEN NoJob ELSE file.last[j]], gone |-> file.gone \cup js]

ScheduleInit ==
  /\ time = 0 /\ disk = Empty
  /\ copy = [m \in Managers |-> Empty]
  /\ born = [j \in Jobs |-> NoJob] /\ once = {}
  /\ queue = [m \in Managers |-> <<>>]
  /\ lock = Free /\ step = "none" /\ merged = Empty
  /\ ticking = {} /\ working = Managers /\ asked = {}
  /\ hitches = 0

Persist(m, what, j) == queue' = [queue EXCEPT ![m] = Append(@, <<what, j>>)]

Pass ==
  /\ time < MaxTime /\ time' = time + 1
  /\ UNCHANGED <<disk, copy, born, once, queue, lockVars, ticking, working, asked, hitches>>

Create(m, j) ==
  /\ m \in working /\ born[j] = NoJob
  /\ Cardinality(JobsIn(copy[m])) < MaxJobs
  /\ born' = [born EXCEPT ![j] = time]
  /\ once' \in {once, once \cup {j}}
  /\ copy' = [copy EXCEPT ![m].last[j] = time]
  /\ Persist(m, "create", j)
  /\ UNCHANGED <<time, disk, lockVars, ticking, working, asked, hitches>>

\* remove() first takes over what other processes have written.
RemoveJob(m, j) ==
  /\ m \in working /\ born[j] # NoJob /\ j \notin asked
  /\ asked' = asked \cup {j}
  /\ Persist(m, "look", j)
  /\ UNCHANGED <<time, disk, copy, born, once, lockVars, ticking, working, hitches>>

Expired(m) == {j \in JobsIn(copy[m]) \ once : time - born[j] >= MaxAge}
Due(m) == {j \in JobsIn(copy[m]) : time > copy[m].last[j]} \ Expired(m)

\* One tick emits what is due, deletes what is done, and saves.
Tick(m) ==
  /\ m \in working \ ticking
  /\ Due(m) \cup Expired(m) # {}
  /\ LET left == Without(copy[m], Expired(m) \cup (Due(m) \cap once))
     IN copy' = [copy EXCEPT ![m] =
          [left EXCEPT !.last = [j \in Jobs |-> IF j \in Due(m) \ once THEN time ELSE @[j]]]]
  /\ Persist(m, "tick", NoJob)
  /\ ticking' = ticking \cup {m}
  /\ UNCHANGED <<time, disk, born, once, lockVars, working, asked, hitches>>

\* Mutant: the file is written without being read.
MergeOwn(file, own) == own

\* mergeScheduledFiles
Merge(file, own) ==
  LET gone == file.gone \cup own.gone IN
  [gone |-> gone,
   last |-> [j \in Jobs |-> IF j \in gone THEN NoJob ELSE Max({file.last[j], own.last[j]})]]

\* The calls of one process queue up; the processes compete for the file lock.
Lock(m) ==
  /\ lock = Free /\ queue[m] # <<>>
  /\ lock' = m /\ step' = "read"
  /\ merged' = Merge(disk, copy[m])
  /\ UNCHANGED <<time, disk, copy, born, once, queue, ticking, working, asked, hitches>>

\* rename() and adopt(): what the copy learnt meanwhile is dropped.
WriteFile(m) ==
  /\ lock = m /\ step = "read"
  /\ disk' = merged
  /\ copy' = [copy EXCEPT ![m] = merged]
  /\ step' = "written"
  /\ UNCHANGED <<time, born, once, queue, lock, merged, ticking, working, asked, hitches>>

\* A persist is over and its caller goes on.
GoOn(m, done) ==
  LET what == Head(queue[m])[1]
      j == Head(queue[m])[2]
      found == done /\ what = "look" /\ j \in JobsIn(copy[m])
  IN
  /\ queue' = [queue EXCEPT ![m] = IF found THEN Append(Tail(@), <<"remove", j>>) ELSE Tail(@)]
  /\ copy' = IF found THEN [copy EXCEPT ![m] = Without(@, {j})] ELSE copy
  /\ ticking' = IF what = "tick" THEN ticking \ {m} ELSE ticking

Unlock(m) ==
  /\ lock = m /\ step = "written"
  /\ lock' = Free /\ step' = "none" /\ merged' = Empty
  /\ GoOn(m, TRUE)
  /\ UNCHANGED <<time, disk, born, once, working, asked, hitches>>

\* Ten attempts at the lock were in vain: the caller gets an error.
LockFails(m) ==
  /\ lock \notin {Free, m} /\ queue[m] # <<>>
  /\ hitches < MaxTrouble /\ hitches' = hitches + 1
  /\ GoOn(m, FALSE)
  /\ UNCHANGED <<time, disk, born, once, lockVars, working, asked>>

\* close(): no more ticks, one last persist.
CloseManager(m) ==
  /\ m \in working
  /\ working' = working \ {m}
  /\ Persist(m, "close", NoJob)
  /\ UNCHANGED <<time, disk, copy, born, once, lockVars, ticking, asked, hitches>>

\* A crash before or after the rename, and the next initialize().
Restart(m) ==
  /\ hitches < MaxTrouble /\ hitches' = hitches + 1
  /\ copy' = [copy EXCEPT ![m] = disk]
  /\ queue' = [queue EXCEPT ![m] = <<>>]
  /\ ticking' = ticking \ {m}
  /\ working' = working \cup {m}
  /\ IF lock = m
     THEN lock' = Free /\ step' = "none" /\ merged' = Empty
     ELSE UNCHANGED lockVars
  /\ UNCHANGED <<time, disk, born, once, asked>>

ScheduleNext ==
  \/ Pass
  \/ \E m \in Managers :
       \/ Tick(m) \/ Lock(m) \/ WriteFile(m) \/ Unlock(m) \/ LockFails(m) \/ CloseManager(m) \/ Restart(m)
       \/ \E j \in Jobs : Create(m, j) \/ RemoveJob(m, j)

ScheduleSpec == ScheduleInit /\ [][ScheduleNext]_scheduleVars

-----------------------------------------------------------------------------
ScheduleTypeOK ==
  /\ time \in 0 .. MaxTime
  /\ \A f \in {disk, merged} \cup {copy[m] : m \in Managers} :
       f.last \in [Jobs -> NoJob .. MaxTime] /\ f.gone \subseteq Jobs \ JobsIn(f)
  /\ born \in [Jobs -> NoJob .. MaxTime]
  /\ lock \in Managers \cup {Free} /\ step \in {"none", "read", "written"}
  /\ ticking \cup working \subseteq Managers /\ once \subseteq Jobs

\* A job leaves the file only when it was deleted, and its last run is never
\* set back, however stale the copies are that are merged into the file.
KeptUntilDeleted ==
  [][\A j \in Jobs : disk'.last[j] < disk.last[j] => j \in disk'.gone]_scheduleVars

\* A job whose deletion has reached the file never returns to it.
DeletedStaysDeleted ==
  [][\A j \in disk.gone : j \in disk'.gone /\ disk'.last[j] = NoJob]_scheduleVars

\* The file forgets neither jobs nor deletions, whichever process writes it.
ScheduleSafety == []ScheduleTypeOK /\ KeptUntilDeleted /\ DeletedStaysDeleted

=============================================================================
