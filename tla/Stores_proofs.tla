---------------------------- MODULE Stores_proofs ----------------------------
(***************************************************************************)
(* What holds of the parts whose writers must agree on what a file or a     *)
(* database says: the jobs of the scheduler (ScheduleStore), the events,    *)
(* runs and tickets of a thread (Collaboration), the notices that go back   *)
(* to it (NoticeOutbox) and the conversation of a session with its call     *)
(* journal (AgentLoop), for every number of managers, jobs, events,         *)
(* notices, replies, crashes and closings.                                  *)
(***************************************************************************)
EXTENDS ScheduleStore, Collaboration, NoticeOutbox, AgentLoop, FiniteSetTheorems,
  SequenceTheorems, TLAPS

-----------------------------------------------------------------------------
(***************************************************************************)
(* The jobs. Every copy of the file, on disk, merged or in a manager's      *)
(* memory, is a state of the file; what is about to be written was merged   *)
(* with the file as it still is, so that no writer forgets what another has *)
(* written.                                                                 *)
(***************************************************************************)

Files == [last : [Jobs -> NoJob .. MaxTime], gone : SUBSET Jobs]

\* A file, or a copy of one: what is deleted has no last run, and only what was
\* created is there or deleted.
FileFits(f, created) ==
  /\ f \in Files
  /\ \A j \in f.gone : f.last[j] = NoJob
  /\ \A j \in Jobs : f.last[j] # NoJob \/ j \in f.gone => created[j] # NoJob

\* A later state of a file: it forgets no deletion, and no run of what remains.
Follows(old, new) ==
  /\ old.gone \subseteq new.gone
  /\ \A j \in Jobs \ new.gone : old.last[j] <= new.last[j]

\* What is about to be written was merged with the file as it still is.
MergedFollows == step = "read" => Follows(disk, merged)

ScheduleShape ==
  /\ time \in 0 .. MaxTime
  /\ born \in [Jobs -> NoJob .. MaxTime]
  /\ copy \in [Managers -> Files]
  /\ lock \in Managers \cup {Free} /\ step \in {"none", "read", "written"}
  /\ ticking \subseteq Managers /\ working \subseteq Managers /\ once \subseteq Jobs

ScheduleInv ==
  /\ ScheduleShape /\ MergedFollows
  /\ FileFits(disk, born) /\ FileFits(merged, born)
  /\ \A m \in Managers : FileFits(copy[m], born)

LEMMA MaxOfTwo ==
  ASSUME NEW a \in Int, NEW b \in Int
  PROVE  Max({a, b}) \in {a, b} /\ Max({a, b}) >= a /\ Max({a, b}) >= b
<1>1. \E x \in {a, b} : \A y \in {a, b} : x >= y
  <2>1. CASE a >= b
    BY <2>1
  <2>2. CASE b >= a
    BY <2>2
  <2> QED BY <2>1, <2>2
<1>2. Max({a, b}) \in {a, b} /\ \A y \in {a, b} : Max({a, b}) >= y
  BY <1>1, Zenon DEF Max
<1> QED BY <1>2

\* A merge of two files keeps what either says.
LEMMA MergeFits ==
  ASSUME NEW created, NEW file, NEW own, FileFits(file, created), FileFits(own, created)
  PROVE  FileFits(Merge(file, own), created) /\ Follows(file, Merge(file, own))
<1> DEFINE gone == file.gone \cup own.gone
           last == [j \in Jobs |-> IF j \in gone THEN NoJob ELSE Max({file.last[j], own.last[j]})]
<1>1. Merge(file, own) = [gone |-> gone, last |-> last]
  BY DEF Merge
<1>2. file \in Files /\ own \in Files
  BY DEF FileFits
<1>3. ASSUME NEW j \in Jobs
      PROVE  /\ last[j] \in NoJob .. MaxTime
             /\ j \in gone => last[j] = NoJob
             /\ j \notin gone => last[j] >= file.last[j] /\ last[j] \in {file.last[j], own.last[j]}
  <2>1. file.last[j] \in NoJob .. MaxTime /\ own.last[j] \in NoJob .. MaxTime
    BY <1>2 DEF Files
  <2>2. file.last[j] \in Int /\ own.last[j] \in Int
    BY <2>1, ScheduleAssumption DEF NoJob
  <2>3. /\ Max({file.last[j], own.last[j]}) \in {file.last[j], own.last[j]}
        /\ Max({file.last[j], own.last[j]}) >= file.last[j]
    BY <2>2, MaxOfTwo
  <2>4. NoJob \in NoJob .. MaxTime
    BY ScheduleAssumption DEF NoJob
  <2> QED BY <2>1, <2>3, <2>4
<1>4. last \in [Jobs -> NoJob .. MaxTime] /\ gone \subseteq Jobs
  BY <1>2, <1>3 DEF Files
<1> HIDE DEF last
<1>5. Merge(file, own) \in Files /\ Merge(file, own).last = last /\ Merge(file, own).gone = gone
  BY <1>1, <1>4 DEF Files
<1>6. \A j \in Jobs : last[j] # NoJob \/ j \in gone => created[j] # NoJob
  BY <1>3 DEF FileFits
<1> QED BY <1>3, <1>4, <1>5, <1>6 DEF FileFits, Follows

\* Jobs taken out of a file.
LEMMA WithoutFits ==
  ASSUME NEW created, NEW file, NEW js \in SUBSET JobsIn(file), FileFits(file, created)
  PROVE  FileFits(Without(file, js), created)
<1>1. NoJob \in NoJob .. MaxTime
  BY ScheduleAssumption DEF NoJob
<1> QED BY <1>1 DEF Without, FileFits, Files, JobsIn

LEMMA InitSchedule == ScheduleInit => ScheduleInv
<1> SUFFICES ASSUME ScheduleInit PROVE ScheduleInv
  OBVIOUS
<1>1. NoJob \in NoJob .. MaxTime /\ 0 \in 0 .. MaxTime
  BY ScheduleAssumption DEF NoJob
<1>2. FileFits(Empty, born)
  BY <1>1 DEF Empty, FileFits, Files
<1> QED BY <1>1, <1>2 DEF ScheduleInit, ScheduleInv, ScheduleShape, MergedFollows, FileFits

\* A step that leaves file and merge alone changes one copy at most.
LEMMA CopyFits ==
  ASSUME ScheduleInv, NEW m \in Managers, NEW f, FileFits(f, born'),
         copy' = [copy EXCEPT ![m] = f], born' = born
  PROVE  copy' \in [Managers -> Files] /\ \A p \in Managers : FileFits(copy'[p], born')
BY DEF ScheduleInv, ScheduleShape, FileFits

LEMMA CreateFits == ASSUME ScheduleInv, NEW m \in Managers, NEW j \in Jobs, Create(m, j) PROVE ScheduleInv'
<1> USE DEF ScheduleInv, ScheduleShape
<1>1. time \in NoJob .. MaxTime /\ time # NoJob
  BY ScheduleAssumption DEF NoJob
<1>2. /\ born' = [born EXCEPT ![j] = time] /\ born' \in [Jobs -> NoJob .. MaxTime]
      /\ \A i \in Jobs : born[i] # NoJob => born'[i] # NoJob
      /\ born'[j] # NoJob
  BY <1>1 DEF Create
<1>3. ASSUME NEW f, FileFits(f, born) PROVE FileFits(f, born')
  BY <1>2, <1>3 DEF FileFits
<1>4. j \notin copy[m].gone
  BY DEF Create, FileFits
<1>5. PICK f : f = [copy[m] EXCEPT !.last = [copy[m].last EXCEPT ![j] = time]]
  OBVIOUS
<1>6. copy' = [copy EXCEPT ![m] = f]
  BY <1>5 DEF Create
<1>7. f \in Files /\ f.gone = copy[m].gone /\ f.last = [copy[m].last EXCEPT ![j] = time]
  BY <1>1, <1>5 DEF Files
<1>8. FileFits(f, born')
  BY <1>2, <1>4, <1>7 DEF FileFits, Files
<1>9. copy' \in [Managers -> Files] /\ \A p \in Managers : FileFits(copy'[p], born')
  BY <1>3, <1>6, <1>7, <1>8
<1>10. /\ disk' = disk /\ merged' = merged /\ step' = step /\ lock' = lock /\ time' = time
       /\ ticking' = ticking /\ working' = working /\ once' \subseteq Jobs
  BY DEF Create, lockVars
<1> QED BY <1>2, <1>3, <1>9, <1>10 DEF MergedFollows

LEMMA TickFits == ASSUME ScheduleInv, NEW m \in Managers, Tick(m) PROVE ScheduleInv'
<1> USE DEF ScheduleInv, ScheduleShape
<1> DEFINE left == Without(copy[m], Expired(m) \cup (Due(m) \cap once))
           last == [j \in Jobs |-> IF j \in Due(m) \ once THEN time ELSE left.last[j]]
<1>1. time \in NoJob .. MaxTime /\ time # NoJob
  BY ScheduleAssumption DEF NoJob
<1>2. /\ copy' = [copy EXCEPT ![m] = [left EXCEPT !.last = last]]
      /\ disk' = disk /\ merged' = merged /\ step' = step /\ lock' = lock /\ time' = time
      /\ born' = born /\ working' = working /\ once' = once /\ ticking' = ticking \cup {m}
  BY DEF Tick, lockVars
<1>3. /\ Expired(m) \cup (Due(m) \cap once) \subseteq JobsIn(copy[m])
      /\ Due(m) \subseteq JobsIn(copy[m])
      /\ (Due(m) \ once) \cap (Expired(m) \cup (Due(m) \cap once)) = {}
  BY DEF Due, Expired
<1>4. FileFits(left, born)
  BY <1>3, WithoutFits
<1>5. left.gone \cap (Due(m) \ once) = {}
  <2>1. left.gone = copy[m].gone \cup (Expired(m) \cup (Due(m) \cap once))
    BY DEF Without
  <2>2. copy[m].gone \cap JobsIn(copy[m]) = {}
    BY DEF FileFits, JobsIn
  <2> QED BY <1>3, <2>1, <2>2
<1>6. \A j \in Due(m) : j \in Jobs /\ born[j] # NoJob
  BY <1>3 DEF FileFits, JobsIn
<1> HIDE DEF left
<1>7. PICK f : f = [left EXCEPT !.last = last]
  OBVIOUS
<1>8. last \in [Jobs -> NoJob .. MaxTime]
  BY <1>1, <1>4 DEF FileFits, Files
<1>9. f \in Files /\ f.last = last /\ f.gone = left.gone
  BY <1>4, <1>7, <1>8 DEF FileFits, Files
<1>10. FileFits(f, born')
  <2>1. ASSUME NEW j \in Jobs
        PROVE  f.last[j] = IF j \in Due(m) \ once THEN time ELSE left.last[j]
    BY <1>9
  <2>2. left.gone \subseteq Jobs /\ born' = born
    BY <1>2, <1>4 DEF FileFits, Files
  <2>3. ASSUME NEW j \in f.gone PROVE f.last[j] = NoJob
    BY <1>4, <1>5, <1>9, <2>1, <2>2 DEF FileFits
  <2>4. ASSUME NEW j \in Jobs, f.last[j] # NoJob \/ j \in f.gone PROVE born[j] # NoJob
    BY <1>4, <1>6, <1>9, <2>1, <2>4 DEF FileFits
  <2> HIDE DEF last
  <2> QED BY ONLY <1>9, <2>2, <2>3, <2>4 DEF FileFits
<1> HIDE DEF last
<1>11. copy' = [copy EXCEPT ![m] = f]
  BY <1>2, <1>7
<1>12. copy' \in [Managers -> Files] /\ \A p \in Managers : FileFits(copy'[p], born')
  BY <1>2, <1>10, <1>11, CopyFits
<1> QED BY <1>2, <1>12 DEF MergedFollows

\* A caller that goes on may delete a job from its copy.
LEMMA GoOnFits ==
  ASSUME ScheduleInv, NEW m \in Managers, NEW done \in BOOLEAN, GoOn(m, done), born' = born
  PROVE  /\ copy' \in [Managers -> Files] /\ \A p \in Managers : FileFits(copy'[p], born')
         /\ ticking' \subseteq ticking
<1> DEFINE j == Head(queue[m])[2]
<1>1. CASE copy' = copy
  BY <1>1 DEF ScheduleInv, ScheduleShape, GoOn
<1>2. CASE j \in JobsIn(copy[m]) /\ copy' = [copy EXCEPT ![m] = Without(copy[m], {j})]
  <2>1. FileFits(Without(copy[m], {j}), born')
    BY <1>2, WithoutFits DEF ScheduleInv
  <2>2. ticking' \subseteq ticking
    BY DEF GoOn
  <2> HIDE DEF j
  <2> QED BY <1>2, <2>1, <2>2, CopyFits
<1>3. \/ copy' = copy
      \/ j \in JobsIn(copy[m]) /\ copy' = [copy EXCEPT ![m] = Without(copy[m], {j})]
  BY Zenon DEF GoOn
<1> QED BY <1>1, <1>2, <1>3

\* What a step does to the file: it stays, or what follows it is written.
FileGoesOn == disk' = disk \/ (Follows(disk, disk') /\ FileFits(disk', born'))

LEMMA NextSchedule == ScheduleInv /\ [ScheduleNext]_scheduleVars => ScheduleInv' /\ FileGoesOn
<1> SUFFICES ASSUME ScheduleInv, [ScheduleNext]_scheduleVars PROVE ScheduleInv' /\ FileGoesOn
  OBVIOUS
<1> USE DEF FileGoesOn
<1>1. CASE Pass
  BY <1>1, ScheduleAssumption DEF Pass, ScheduleInv, ScheduleShape, MergedFollows, lockVars
<1>2. ASSUME NEW m \in Managers, Tick(m) PROVE ScheduleInv' /\ FileGoesOn
  BY <1>2, TickFits DEF Tick
<1>3. ASSUME NEW m \in Managers, Lock(m) PROVE ScheduleInv' /\ FileGoesOn
  <2>1. FileFits(merged', born) /\ Follows(disk, merged')
    BY <1>3, MergeFits DEF Lock, ScheduleInv
  <2> QED BY <1>3, <2>1 DEF Lock, ScheduleInv, ScheduleShape, MergedFollows
<1>4. ASSUME NEW m \in Managers, WriteFile(m) PROVE ScheduleInv' /\ FileGoesOn
  <2>1. /\ disk' = merged /\ merged' = merged /\ born' = born /\ FileFits(merged, born)
        /\ step' = "written" /\ Follows(disk, merged)
    BY <1>4 DEF WriteFile, ScheduleInv, MergedFollows
  <2>2. copy' \in [Managers -> Files] /\ \A p \in Managers : FileFits(copy'[p], born')
    BY <1>4, <2>1, CopyFits DEF WriteFile
  <2> QED BY <1>4, <2>1, <2>2 DEF WriteFile, ScheduleInv, ScheduleShape, MergedFollows
<1>5. ASSUME NEW m \in Managers, Unlock(m) PROVE ScheduleInv' /\ FileGoesOn
  <2>1. copy' \in [Managers -> Files] /\ \A p \in Managers : FileFits(copy'[p], born')
    BY <1>5, GoOnFits DEF Unlock
  <2>2. ticking' \subseteq ticking
    BY <1>5, GoOnFits DEF Unlock
  <2>3. FileFits(Empty, born)
    BY ScheduleAssumption DEF Empty, FileFits, Files, NoJob
  <2> QED BY <1>5, <2>1, <2>2, <2>3 DEF Unlock, ScheduleInv, ScheduleShape, MergedFollows
<1>6. ASSUME NEW m \in Managers, LockFails(m) PROVE ScheduleInv' /\ FileGoesOn
  <2>1. /\ copy' \in [Managers -> Files] /\ \A p \in Managers : FileFits(copy'[p], born')
        /\ ticking' \subseteq ticking
    BY <1>6, GoOnFits DEF LockFails
  <2> QED BY <1>6, <2>1 DEF LockFails, ScheduleInv, ScheduleShape, MergedFollows, lockVars
<1>7. ASSUME NEW m \in Managers, CloseManager(m) PROVE ScheduleInv' /\ FileGoesOn
  BY <1>7 DEF CloseManager, ScheduleInv, ScheduleShape, MergedFollows, lockVars
<1>8. ASSUME NEW m \in Managers, Restart(m) PROVE ScheduleInv' /\ FileGoesOn
  <2>1. copy' \in [Managers -> Files] /\ \A p \in Managers : FileFits(copy'[p], born')
    BY <1>8, CopyFits DEF Restart, ScheduleInv
  <2>2. FileFits(Empty, born)
    BY ScheduleAssumption DEF Empty, FileFits, Files, NoJob
  <2> QED BY <1>8, <2>1, <2>2 DEF Restart, ScheduleInv, ScheduleShape, MergedFollows, lockVars
<1>9. ASSUME NEW m \in Managers, NEW j \in Jobs, Create(m, j) PROVE ScheduleInv' /\ FileGoesOn
  BY <1>9, CreateFits DEF Create
<1>10. ASSUME NEW m \in Managers, NEW j \in Jobs, RemoveJob(m, j) PROVE ScheduleInv' /\ FileGoesOn
  BY <1>10 DEF RemoveJob, ScheduleInv, ScheduleShape, MergedFollows, lockVars
<1>11. CASE UNCHANGED scheduleVars
  BY <1>11 DEF scheduleVars, ScheduleInv, ScheduleShape, MergedFollows
<1> QED
  BY <1>1, <1>2, <1>3, <1>4, <1>5, <1>6, <1>7, <1>8, <1>9, <1>10, <1>11, Zenon DEF ScheduleNext

\* The scheduled jobs of a project: whichever process writes the file, from a copy
\* however stale (mergeScheduledFiles, adopt), a job leaves it only when deleted, is
\* not set back to an earlier run, and does not return once deleted.
THEOREM ScheduleIsSafe == ScheduleSpec => ScheduleSafety
<1>1. ScheduleInv => ScheduleTypeOK
  BY DEF ScheduleInv, ScheduleShape, ScheduleTypeOK, FileFits, Files, JobsIn
<1>2. ScheduleInv /\ [ScheduleNext]_scheduleVars
        => [\A j \in Jobs : disk'.last[j] < disk.last[j] => j \in disk'.gone]_scheduleVars
  <2> SUFFICES ASSUME ScheduleInv, [ScheduleNext]_scheduleVars, NEW j \in Jobs,
                      disk'.last[j] < disk.last[j]
               PROVE  j \in disk'.gone
    BY Zenon
  <2>1. disk.last[j] \in Int /\ disk'.last[j] \in Int
    BY NextSchedule, ScheduleAssumption DEF ScheduleInv, FileFits, Files, NoJob
  <2> QED BY <2>1, NextSchedule DEF FileGoesOn, Follows
<1>3. ScheduleInv /\ [ScheduleNext]_scheduleVars
        => [\A j \in disk.gone : j \in disk'.gone /\ disk'.last[j] = NoJob]_scheduleVars
  BY NextSchedule DEF FileGoesOn, Follows, ScheduleInv, FileFits
<1>4. ScheduleSpec => []ScheduleInv
  BY InitSchedule, NextSchedule, PTL DEF ScheduleSpec
<1> QED BY <1>1, <1>2, <1>3, <1>4, PTL DEF ScheduleSpec, ScheduleSafety, KeptUntilDeleted, DeletedStaysDeleted

-----------------------------------------------------------------------------
(***************************************************************************)
(* The events. The scan that is in flight stores what lies behind it; the   *)
(* event that is executed is pending, and past its command it has the       *)
(* receipt of it; the revision a control is pinned to is the one it saw     *)
(* first.                                                                   *)
(***************************************************************************)

EventStates == {"none", "pending", "ignored", "clarify", "processed", "blocked"}

\* Where the readers are.  What a scan has behind it is stored, as is what lies
\* before the watermark; the scan awaits the admission of the event it is at.
Stored(n) == \A i \in 1 .. n : event[feed[i]] # "none"

IntakeFits ==
  /\ feed \in Seq(Incoming)
  /\ cursor \in 0 .. Len(feed)
  /\ poll \in Nat \X Nat /\ poll[2] <= Len(feed) /\ poll[1] <= poll[2] + 1
  /\ reading \in [Readers -> Incoming \cup {NoEvent}]
  /\ reading["poll"] # NoEvent => poll[1] \in 1 .. poll[2] /\ reading["poll"] = feed[poll[1]]
  /\ \A o \in Readers : reading[o] # NoEvent => reading[o] \in admitted
  /\ Stored(cursor) /\ Stored(poll[1] - 1)

\* The events as rows, and the notices about them.
EventsFit ==
  /\ event \in [Incoming -> EventStates]
  /\ target \in [Incoming -> RunEvents \cup {NoEvent}]
  /\ \A e \in Incoming : event[e] # "none" => e \in admitted
  /\ told \subseteq Notices

\* What is executed is pending, and past its command it has the receipt of it.
ExecutionFits ==
  /\ executing \in (Incoming \X {"create", "link", "apply", "mark"}) \cup {Nothing}
  /\ \A e \in Incoming :
       /\ At(e, "create") \/ At(e, "link") => e \in RunEvents
       /\ At(e, "apply") \/ At(e, "mark") => e \notin RunEvents
       /\ executing[1] = e => event[e] = "pending"
       /\ At(e, "link") \/ At(e, "mark") => receipt[e] = "done"

\* A command changed the runtime exactly if it has a receipt that says so.
CommandsFit ==
  /\ receipt \in [Incoming -> {"none", "done", "refused"}]
  /\ applied \in [Incoming -> {0, 1}]
  /\ \A e \in Incoming : applied[e] = 1 <=> receipt[e] = "done"
  /\ \A e \in Incoming : event[e] = "processed" => receipt[e] = "done"
  /\ \A r \in RunEvents : receipt[r] # "refused"

\* A run has a ticket, or the event it came with can still be linked to it.
RunsFit ==
  /\ DOMAIN run = RunEvents /\ DOMAIN ticket = RunEvents
  /\ RunsHaveTickets

\* The revision a control is pinned to is the one it saw first.
PinsFit ==
  /\ DOMAIN prepared = Incoming /\ DOMAIN aimed = Incoming
  /\ \A e \in Controls : prepared[e] = aimed[e]

CollabInv == IntakeFits /\ EventsFit /\ ExecutionFits /\ CommandsFit /\ RunsFit /\ PinsFit

LEMMA Kinds == RunEvents \subseteq Incoming /\ Controls \subseteq Incoming /\ Controls \cap RunEvents = {}
BY DEF RunEvents, Controls

LEMMA InitCollab == CollabInit => CollabInv
<1> SUFFICES ASSUME CollabInit PROVE CollabInv
  OBVIOUS
<1> USE DEF CollabInit
<1>1. feed \in Seq(Incoming)
  BY CollaborationAssumption
<1>2. IntakeFits
  BY <1>1 DEF IntakeFits, Stored, Readers
<1>3. EventsFit
  BY DEF EventsFit, EventStates
<1>4. ExecutionFits
  BY CollaborationAssumption DEF ExecutionFits, Nothing, At
<1>5. CommandsFit
  BY DEF CommandsFit, RunEvents
<1>6. RunsFit
  BY DEF RunsFit, RunsHaveTickets
<1>7. PinsFit
  BY Kinds DEF PinsFit
<1> QED BY <1>2, <1>3, <1>4, <1>5, <1>6, <1>7 DEF CollabInv

\* The rows of the events go on: none that is stored disappears.
EventsGoOn == \A e \in Incoming : event[e] # "none" => event'[e] # "none"

\* A step outside the intake leaves it in order.
LEMMA IntakeRests ==
  ASSUME IntakeFits, EventsGoOn, UNCHANGED intakeVars PROVE IntakeFits'
<1>1. feed' = feed /\ cursor' = cursor /\ poll' = poll /\ reading' = reading /\ admitted' = admitted
  BY DEF intakeVars
<1>2. \A i \in 1 .. Len(feed) : feed[i] \in Incoming
  BY DEF IntakeFits
<1>3. ASSUME NEW n \in Int, n <= Len(feed), Stored(n) PROVE Stored(n)'
  BY <1>1, <1>2, <1>3 DEF Stored, EventsGoOn, IntakeFits
<1>4. Stored(cursor)' /\ Stored(poll[1] - 1)'
  <2>1. cursor \in Int /\ cursor <= Len(feed) /\ poll[1] - 1 \in Int /\ poll[1] - 1 <= Len(feed)
    BY DEF IntakeFits
  <2>2. Stored(cursor) /\ Stored(poll[1] - 1)
    BY DEF IntakeFits
  <2> QED BY <1>1, <1>3, <2>1, <2>2 DEF Stored
<1> QED BY <1>1, <1>4 DEF IntakeFits

LEMMA PollBeginFits == ASSUME CollabInv, PollBegin PROVE CollabInv'
<1> USE DEF CollabInv, PollBegin, intakeVars, eventVars, runtimeVars, lifeVars
<1>1. IntakeFits'
  BY DEF IntakeFits, Stored
<1>2. EventsFit' /\ ExecutionFits' /\ CommandsFit' /\ RunsFit' /\ PinsFit'
  BY DEF EventsFit, ExecutionFits, At, CommandsFit, RunsFit, RunsHaveTickets, PinsFit
<1> QED BY <1>1, <1>2

LEMMA AdmitFits ==
  ASSUME CollabInv, PollAdmits \/ (\E e \in Incoming : HookAdmits(e)) PROVE CollabInv'
<1> USE DEF CollabInv, PollAdmits, HookAdmits, Admit, intakeVars, eventVars, runtimeVars, lifeVars
<1>1. IntakeFits'
  <2>1. CASE PollAdmits
    BY <2>1 DEF IntakeFits, Stored, Readers
  <2>2. ASSUME NEW e \in Incoming, HookAdmits(e) PROVE IntakeFits'
    BY <2>2 DEF IntakeFits, Stored, Readers
  <2> QED BY <2>1, <2>2
<1>2. EventsFit' /\ ExecutionFits' /\ CommandsFit' /\ RunsFit' /\ PinsFit'
  BY DEF EventsFit, ExecutionFits, At, CommandsFit, RunsFit, RunsHaveTickets, PinsFit
<1> QED BY <1>1, <1>2

\* The state in which an event is stored, and the ticket it names.
LEMMA VerdictIs ==
  ASSUME NEW e \in Incoming
  PROVE  /\ Verdict(e) \in {"pending", "ignored", "clarify"}
         /\ Cardinality(Tickets) = 1 => (CHOOSE r \in Tickets : TRUE) \in RunEvents
<1>1. Verdict(e) \in {"pending", "ignored", "clarify"}
  BY DEF Verdict
<1>2. ASSUME Cardinality(Tickets) = 1 PROVE (CHOOSE r \in Tickets : TRUE) \in RunEvents
  <2>1. Tickets # {}
    BY <1>2, FS_EmptySet
  <2> QED BY <2>1 DEF Tickets
<1> QED BY <1>1, <1>2

LEMMA StoreFits == ASSUME CollabInv, NEW o \in Readers, Store(o) PROVE CollabInv'
<1> USE DEF CollabInv, intakeVars, eventVars, runtimeVars, lifeVars
<1> DEFINE e == reading[o]
<1>1. e \in Incoming /\ e \in admitted
  BY DEF Store, IntakeFits
<1>2. /\ feed' = feed /\ cursor' = cursor /\ admitted' = admitted
      /\ prepared' = prepared /\ aimed' = aimed /\ executing' = executing
      /\ receipt' = receipt /\ applied' = applied /\ run' = run /\ ticket' = ticket
      /\ reading' = [reading EXCEPT ![o] = NoEvent]
      /\ poll' = IF o = "poll" THEN <<poll[1] + 1, poll[2]>> ELSE poll
  BY DEF Store
<1>3. \/ event[e] # "none" /\ event' = event /\ target' = target /\ told' = told
      \/ /\ event[e] = "none" /\ event' = [event EXCEPT ![e] = Verdict(e)]
         /\ target' = [target EXCEPT ![e] = IF TargetOf[e] = NoEvent /\ Cardinality(Tickets) = 1
                                            THEN CHOOSE r \in Tickets : TRUE ELSE TargetOf[e]]
         /\ told' = told \cup (IF Verdict(e) = "clarify" THEN {<<e, "clarify">>} ELSE {})
  BY Zenon DEF Store, Tell
<1>4. Verdict(e) \in {"pending", "ignored", "clarify"}
  BY <1>1, VerdictIs
<1>5. /\ EventsFit' /\ EventsGoOn /\ event'[e] # "none"
      /\ \A d \in Incoming : event[d] # "none" => event'[d] = event[d]
      /\ \A d \in Incoming : event[d] = "none" => event'[d] \in {"none", "pending", "ignored", "clarify"}
  <2>1. CASE event[e] # "none" /\ event' = event /\ target' = target /\ told' = told
    BY <1>1, <1>2, <2>1 DEF EventsFit, EventsGoOn
  <2>2. CASE /\ event[e] = "none" /\ event' = [event EXCEPT ![e] = Verdict(e)]
             /\ target' = [target EXCEPT ![e] = IF TargetOf[e] = NoEvent /\ Cardinality(Tickets) = 1
                                                THEN CHOOSE r \in Tickets : TRUE ELSE TargetOf[e]]
             /\ told' = told \cup (IF Verdict(e) = "clarify" THEN {<<e, "clarify">>} ELSE {})
    <3>1. target' \in [Incoming -> RunEvents \cup {NoEvent}]
      <4>1. TargetOf[e] \in RunEvents \cup {NoEvent}
        BY <1>1, CollaborationAssumption
      <4> HIDE DEF e
      <4> QED BY <1>1, <2>2, <4>1, VerdictIs DEF EventsFit
    <3>2. told' \subseteq Notices
      BY <1>1, <2>2 DEF EventsFit, Notices
    <3> HIDE DEF e
    <3>3. /\ event' \in [Incoming -> EventStates] /\ event'[e] = Verdict(e)
          /\ \A d \in Incoming : d # e => event'[d] = event[d]
      BY <1>1, <1>4, <2>2 DEF EventsFit, EventStates
    <3> QED BY <1>1, <1>2, <1>4, <2>2, <3>1, <3>2, <3>3 DEF EventsFit, EventsGoOn
  <2> QED BY <1>3, <2>1, <2>2
<1>6. IntakeFits'
  <2>1. \A i \in 1 .. Len(feed) : feed[i] \in Incoming
    BY DEF IntakeFits
  <2>2. ASSUME NEW n \in Int, n <= Len(feed), Stored(n) PROVE \A i \in 1 .. n : event'[feed[i]] # "none"
    BY <1>5, <2>1, <2>2 DEF Stored, EventsGoOn, IntakeFits
  <2>3. Stored(cursor)'
    BY <1>2, <2>2 DEF IntakeFits, Stored
  <2>4. /\ reading' \in [Readers -> Incoming \cup {NoEvent}] /\ reading'[o] = NoEvent
        /\ \A p \in Readers \ {o} : reading'[p] = reading[p]
    BY <1>2 DEF IntakeFits
  <2>5. CASE o = "poll"
    <3>1. poll' = <<poll[1] + 1, poll[2]>> /\ poll[1] \in 1 .. poll[2] /\ e = feed[poll[1]]
      BY <1>2, <2>5 DEF IntakeFits, Store
    <3>2. \A i \in 1 .. poll[1] - 1 : event'[feed[i]] # "none"
      BY <2>2, <3>1 DEF IntakeFits
    <3>3. Stored(poll[1] - 1)'
      BY <1>2, <1>5, <3>1, <3>2 DEF Stored, IntakeFits
    <3> QED BY <1>2, <2>3, <2>4, <2>5, <3>1, <3>3 DEF IntakeFits
  <2>6. CASE o # "poll"
    <3>1. poll' = poll /\ reading'["poll"] = reading["poll"]
      BY <1>2, <2>4, <2>6 DEF Readers
    <3>5. \A i \in 1 .. poll[1] - 1 : event'[feed[i]] # "none"
      BY <2>2 DEF IntakeFits
    <3>2. Stored(poll[1] - 1)'
      BY ONLY <1>2, <3>1, <3>5 DEF Stored
    <3>3. \A p \in Readers : reading'[p] # NoEvent => reading'[p] \in admitted'
      BY <1>2, <2>4 DEF IntakeFits
    <3>4. /\ feed \in Seq(Incoming) /\ cursor \in 0 .. Len(feed)
          /\ poll \in Nat \X Nat /\ poll[2] <= Len(feed) /\ poll[1] <= poll[2] + 1
          /\ reading["poll"] # NoEvent => poll[1] \in 1 .. poll[2] /\ reading["poll"] = feed[poll[1]]
      BY DEF IntakeFits
    <3> QED BY ONLY <1>2, <2>3, <2>4, <3>1, <3>2, <3>3, <3>4 DEF IntakeFits
  <2> QED BY <2>5, <2>6
<1>7. ExecutionFits' /\ CommandsFit' /\ RunsFit' /\ PinsFit'
  BY <1>2, <1>5, Kinds DEF EventsFit, EventStates, ExecutionFits, At, CommandsFit, RunsFit, RunsHaveTickets, PinsFit
<1> QED BY <1>5, <1>6, <1>7

LEMMA PollEndsFits == ASSUME CollabInv, PollEnds PROVE CollabInv'
<1> USE DEF CollabInv, PollEnds, intakeVars, eventVars, runtimeVars, lifeVars
<1>1. IntakeFits'
  BY DEF IntakeFits, Stored
<1>2. EventsFit' /\ ExecutionFits' /\ CommandsFit' /\ RunsFit' /\ PinsFit'
  BY DEF EventsFit, ExecutionFits, At, CommandsFit, RunsFit, RunsHaveTickets, PinsFit
<1> QED BY <1>1, <1>2

\* A step outside the intake that goes on with an event or none.
LEMMA EventOnly ==
  ASSUME CollabInv, NEW e \in Incoming, NEW state \in EventStates \ {"none"}, event[e] # "none",
         event' = [event EXCEPT ![e] = state], UNCHANGED intakeVars
  PROVE  /\ IntakeFits' /\ event' \in [Incoming -> EventStates] /\ event'[e] = state
         /\ \A d \in Incoming : d # e => event'[d] = event[d]
         /\ \A d \in Incoming : event'[d] # "none" => d \in admitted'
<1>1. /\ event' \in [Incoming -> EventStates] /\ event'[e] = state
      /\ \A d \in Incoming : d # e => event'[d] = event[d]
  BY DEF CollabInv, EventsFit
<1>2. EventsGoOn
  BY <1>1 DEF EventsGoOn
<1>3. \A d \in Incoming : event'[d] # "none" => d \in admitted'
  BY <1>1 DEF CollabInv, EventsFit, intakeVars
<1> QED BY <1>1, <1>2, <1>3, IntakeRests DEF CollabInv

LEMMA IntakeOnly == ASSUME CollabInv, event' = event, UNCHANGED intakeVars PROVE IntakeFits'
BY IntakeRests DEF CollabInv, EventsGoOn

LEMMA BeginFits == ASSUME CollabInv, NEW e \in Incoming, Begin(e) PROVE CollabInv'
<1> USE DEF Begin, eventVars, runtimeVars, lifeVars
<1>1. IntakeFits'
  BY IntakeOnly
<1>2. ExecutionFits'
  BY DEF CollabInv, ExecutionFits, At, Nothing
<1>3. EventsFit' /\ CommandsFit' /\ RunsFit' /\ PinsFit'
  BY DEF CollabInv, EventsFit, intakeVars, CommandsFit, RunsFit, RunsHaveTickets, PinsFit
<1> QED BY <1>1, <1>2, <1>3 DEF CollabInv

LEMMA SubmitFits == ASSUME CollabInv, NEW e \in RunEvents, Submit(e) PROVE CollabInv' /\ (\A c \in Controls : applied'[c] = applied[c])
<1> USE DEF Submit, At, eventVars, lifeVars
<1>1. e \in Incoming /\ executing = <<e, "create">> /\ event[e] = "pending"
  BY Kinds DEF CollabInv, ExecutionFits
<1>2. IntakeFits'
  BY IntakeOnly
<1>3. receipt[e] \in {"none", "done"}
  BY <1>1 DEF CollabInv, CommandsFit
<1>4. /\ receipt' \in [Incoming -> {"none", "done", "refused"}] /\ receipt'[e] = "done"
      /\ applied' \in [Incoming -> {0, 1}] /\ applied'[e] = 1
      /\ \A d \in Incoming : d # e => receipt'[d] = receipt[d] /\ applied'[d] = applied[d]
      /\ DOMAIN run' = RunEvents /\ \A r \in RunEvents : r # e => run'[r] = run[r]
  <2>1. CASE Unreceipted(e)
    <3>1. applied[e] = 0
      BY <1>1, <2>1 DEF Unreceipted, CollabInv, CommandsFit
    <3> QED BY <1>1, <2>1, <3>1 DEF CollabInv, CommandsFit, RunsFit
  <2>2. CASE ~Unreceipted(e)
    BY <1>1, <1>3, <2>2 DEF Unreceipted, CollabInv, CommandsFit, RunsFit
  <2> QED BY <2>1, <2>2
<1>5. /\ event' = event /\ ticket' = ticket /\ executing' = <<e, "link">>
      /\ target' = target /\ prepared' = prepared /\ aimed' = aimed /\ told' = told /\ admitted' = admitted
  BY DEF intakeVars
<1>6. EventsFit' /\ PinsFit'
  BY <1>5 DEF CollabInv, EventsFit, PinsFit
<1>7. ExecutionFits'
  BY <1>1, <1>4, <1>5 DEF CollabInv, ExecutionFits
<1>8. CommandsFit'
  BY <1>4, <1>5, Kinds DEF CollabInv, CommandsFit
<1>9. RunsFit'
  BY <1>1, <1>4, <1>5 DEF CollabInv, RunsFit, RunsHaveTickets
<1> QED BY <1>2, <1>4, <1>6, <1>7, <1>8, <1>9, Kinds DEF CollabInv

LEMMA LinkFits == ASSUME CollabInv, NEW e \in RunEvents, Link(e) PROVE CollabInv'
<1> USE DEF Link, At, Tell, runtimeVars, lifeVars
<1>1. e \in Incoming /\ executing = <<e, "link">> /\ event[e] = "pending" /\ receipt[e] = "done"
  BY Kinds DEF CollabInv, ExecutionFits
<1>2. /\ IntakeFits' /\ event' \in [Incoming -> EventStates] /\ event'[e] = "processed"
      /\ \A d \in Incoming : d # e => event'[d] = event[d]
      /\ \A d \in Incoming : event'[d] # "none" => d \in admitted'
  BY <1>1, EventOnly DEF EventStates
<1>3. /\ DOMAIN ticket' = RunEvents /\ ticket'[e] # "none"
      /\ \A r \in RunEvents : r # e => ticket'[r] = ticket[r]
  BY DEF CollabInv, RunsFit
<1>4. /\ receipt' = receipt /\ applied' = applied /\ run' = run /\ executing' = Nothing
      /\ target' = target /\ prepared' = prepared /\ aimed' = aimed
  OBVIOUS
<1>5. told' \subseteq Notices
  BY DEF CollabInv, EventsFit, Notices
<1>6. EventsFit' /\ PinsFit'
  BY <1>2, <1>4, <1>5 DEF CollabInv, EventsFit, PinsFit
<1>7. ExecutionFits'
  BY <1>4, CollaborationAssumption DEF ExecutionFits, Nothing
<1>8. CommandsFit'
  BY <1>1, <1>2, <1>4 DEF CollabInv, CommandsFit
<1>9. RunsFit'
  BY <1>2, <1>3, <1>4, Kinds DEF CollabInv, RunsFit, RunsHaveTickets
<1> QED BY <1>2, <1>6, <1>7, <1>8, <1>9 DEF CollabInv

LEMMA MarkFits == ASSUME CollabInv, NEW e \in Incoming, Mark(e) PROVE CollabInv'
<1> USE DEF Mark, At, runtimeVars, lifeVars
<1>1. executing = <<e, "mark">> /\ event[e] = "pending" /\ receipt[e] = "done" /\ e \notin RunEvents
  BY DEF CollabInv, ExecutionFits
<1>2. /\ IntakeFits' /\ event' \in [Incoming -> EventStates] /\ event'[e] = "processed"
      /\ \A d \in Incoming : d # e => event'[d] = event[d]
      /\ \A d \in Incoming : event'[d] # "none" => d \in admitted'
  BY <1>1, EventOnly DEF EventStates
<1>3. /\ receipt' = receipt /\ applied' = applied /\ run' = run /\ ticket' = ticket /\ executing' = Nothing
      /\ target' = target /\ prepared' = prepared /\ aimed' = aimed /\ told' = told
  OBVIOUS
<1>4. EventsFit' /\ PinsFit'
  BY <1>2, <1>3 DEF CollabInv, EventsFit, PinsFit
<1>5. ExecutionFits'
  BY <1>3, CollaborationAssumption DEF ExecutionFits, Nothing
<1>6. CommandsFit'
  BY <1>1, <1>2, <1>3 DEF CollabInv, CommandsFit
<1>7. RunsFit'
  BY <1>1, <1>2, <1>3, Kinds DEF CollabInv, RunsFit, RunsHaveTickets
<1> QED BY <1>2, <1>4, <1>5, <1>6, <1>7 DEF CollabInv

\* A pin writes down what the control saw, once.
LEMMA PinFits ==
  ASSUME PinsFit, NEW e \in Incoming, Pin(e)
  PROVE  PinsFit' /\ (e \in Controls => aimed'[e] = Pinned(e))
BY Kinds DEF PinsFit, Pin, Pinned
\* The command of an event is given once, and a control acts on what it saw.
LEMMA ApplyFits ==
  ASSUME CollabInv, NEW e \in Incoming, Apply(e)
  PROVE  CollabInv' /\ (\A c \in Controls : applied'[c] > applied[c] => aimed'[c] = rev[target[c]])
<1> DEFINE r == target[e]
<1>1. executing = <<e, "apply">> /\ event[e] = "pending" /\ e \notin RunEvents
  BY DEF Apply, At, CollabInv, ExecutionFits
<1>2. r \in RunEvents /\ ticket[r] # "none"
  BY DEF Apply, Targeted, CollabInv, EventsFit
<1>3. /\ event' = event /\ target' = target /\ ticket' = ticket /\ told' = told
      /\ executing' = <<e, "mark">> /\ admitted' = admitted /\ UNCHANGED intakeVars
  BY DEF Apply, intakeVars
<1>4. \/ /\ receipt[e] = "done" /\ receipt' = receipt /\ applied' = applied /\ run' = run
         /\ prepared' = prepared /\ aimed' = aimed
      \/ Takes(e) /\ receipt[e] = "none" /\ Pin(e) /\ Command(e)
  BY Zenon DEF Apply, Unreceipted, runtimeVars
<1> HIDE DEF r
<1>5. IntakeFits'
  BY <1>3, IntakeOnly
<1>6. /\ receipt' \in [Incoming -> {"none", "done", "refused"}] /\ receipt'[e] = "done"
      /\ applied' \in [Incoming -> {0, 1}] /\ applied'[e] = 1
      /\ \A d \in Incoming : d # e => receipt'[d] = receipt[d] /\ applied'[d] = applied[d]
  <2>1. CASE receipt[e] = "done" /\ receipt' = receipt /\ applied' = applied
    BY <2>1 DEF CollabInv, CommandsFit
  <2>2. CASE receipt[e] = "none" /\ Command(e)
    <3>1. applied[e] = 0
      BY <2>2 DEF CollabInv, CommandsFit
    <3>2. receipt' = [receipt EXCEPT ![e] = "done"] /\ applied' = [applied EXCEPT ![e] = @ + 1]
      BY <2>2 DEF Command
    <3> QED BY <3>1, <3>2 DEF CollabInv, CommandsFit
  <2> QED BY <1>4, <2>1, <2>2
<1>7. DOMAIN run' = RunEvents /\ \A q \in RunEvents : q # r => run'[q] = run[q]
  <2>1. CASE run' = run
    BY <2>1 DEF CollabInv, RunsFit
  <2>2. CASE Command(e)
    <3>1. run' = [run EXCEPT ![r] = Changed(e)]
      BY <2>2 DEF Command, r
    <3> QED BY <3>1 DEF CollabInv, RunsFit
  <2> QED BY <1>4, <2>1, <2>2
<1>8. PinsFit' /\ (Takes(e) /\ Pin(e) /\ e \in Controls => aimed'[e] = Pinned(e))
  BY <1>4, PinFits DEF CollabInv, PinsFit
<1>9. EventsFit'
  BY <1>3 DEF CollabInv, EventsFit
<1>10. ExecutionFits'
  BY <1>1, <1>3, <1>6 DEF CollabInv, ExecutionFits, At
<1>11. CommandsFit'
  BY <1>1, <1>3, <1>6, Kinds DEF CollabInv, CommandsFit
<1>12. RunsFit'
  BY <1>2, <1>3, <1>7 DEF CollabInv, RunsFit, RunsHaveTickets
<1>13. ASSUME NEW c \in Controls, applied'[c] > applied[c] PROVE aimed'[c] = rev[target[c]]
  <2>1. c \in Incoming
    BY Kinds
  <2>2. applied[c] \in {0, 1} /\ applied'[c] \in {0, 1}
    BY <1>6, <2>1 DEF CollabInv, CommandsFit
  <2>3. c = e /\ applied' # applied
    BY <1>6, <1>13, <2>1, <2>2
  <2>4. Takes(e) /\ Pin(e)
    BY <1>4, <2>3
  <2>5. rev[target[e]] = Pinned(e)
    BY <2>3, <2>4 DEF Takes, Controls
  <2> QED BY <1>8, <2>3, <2>4, <2>5
<1> QED BY <1>5, <1>8, <1>9, <1>10, <1>11, <1>12, <1>13 DEF CollabInv

LEMMA PinResumeFits == ASSUME CollabInv, NEW e \in Incoming, PinResume(e) PROVE CollabInv'
<1> USE DEF PinResume, runtimeVars, lifeVars
<1>1. IntakeFits' /\ PinsFit'
  BY IntakeOnly, PinFits DEF CollabInv
<1>2. EventsFit' /\ ExecutionFits' /\ CommandsFit' /\ RunsFit'
  BY DEF CollabInv, EventsFit, intakeVars, ExecutionFits, At, CommandsFit, RunsFit, RunsHaveTickets
<1> QED BY <1>1, <1>2 DEF CollabInv

LEMMA BlockedFits == ASSUME CollabInv, NEW e \in Incoming, Blocked(e) PROVE CollabInv'
<1>1. /\ executing[1] = e /\ event[e] = "pending" /\ executing' = Nothing
      /\ At(e, "apply") => e \notin RunEvents
  BY DEF Blocked, CollabInv, ExecutionFits
<1>2. \/ At(e, "create") /\ ~At(e, "apply") /\ receipt[e] = "none"
      \/ At(e, "apply") /\ ~Targeted(e)
      \/ At(e, "apply") /\ Targeted(e) /\ receipt[e] # "done"
  BY DEF Blocked, At, Unreceipted
<1>3. /\ target' = target /\ applied' = applied /\ run' = run /\ ticket' = ticket
      /\ admitted' = admitted /\ UNCHANGED intakeVars
  BY DEF Blocked, intakeVars
<1>4. \/ At(e, "apply") /\ Targeted(e) /\ Pin(e)
         /\ receipt' = [receipt EXCEPT ![e] = IF ActionOf[e] = "followup" THEN "refused" ELSE @]
      \/ prepared' = prepared /\ aimed' = aimed /\ receipt' = receipt
  BY Zenon DEF Blocked
<1>5. \/ event' = event /\ told' = told
      \/ event' = [event EXCEPT ![e] = "blocked"] /\ told' = told \cup {<<e, "blocked">>}
  BY Zenon DEF Blocked, Tell
<1>6. /\ IntakeFits' /\ event' \in [Incoming -> EventStates] /\ event'[e] \in {"pending", "blocked"}
      /\ \A d \in Incoming : d # e => event'[d] = event[d]
      /\ \A d \in Incoming : event'[d] # "none" => d \in admitted'
  <2>1. CASE event' = event
    BY <1>1, <1>3, <2>1, IntakeOnly DEF CollabInv, EventsFit
  <2>2. CASE event' = [event EXCEPT ![e] = "blocked"]
    BY <1>1, <1>3, <2>2, EventOnly DEF EventStates
  <2> QED BY <1>5, <2>1, <2>2
<1>7. told' \subseteq Notices
  BY <1>5 DEF CollabInv, EventsFit, Notices
<1>8. EventsFit'
  BY <1>3, <1>6, <1>7 DEF CollabInv, EventsFit
<1>9. PinsFit'
  BY <1>4, PinFits DEF CollabInv, PinsFit
<1>10. ExecutionFits'
  BY <1>1, CollaborationAssumption DEF ExecutionFits, At, Nothing
<1>11. /\ receipt' \in [Incoming -> {"none", "done", "refused"}]
       /\ \A d \in Incoming : receipt'[d] = "done" <=> receipt[d] = "done"
       /\ \A d \in RunEvents : receipt'[d] = receipt[d]
  <2>1. CASE At(e, "apply") /\ Targeted(e)
    <3>1. receipt[e] # "done" /\ e \notin RunEvents
      BY <1>1, <1>2, <2>1
    <3> QED BY <1>4, <3>1, Kinds DEF CollabInv, CommandsFit
  <2>2. CASE receipt' = receipt
    BY <2>2 DEF CollabInv, CommandsFit
  <2> QED BY <1>4, <2>1, <2>2
<1>12. CommandsFit'
  BY <1>3, <1>6, <1>11, Kinds DEF CollabInv, CommandsFit
<1>13. RunsFit'
  BY <1>1, <1>3, <1>6, Kinds DEF CollabInv, RunsFit, RunsHaveTickets
<1> QED BY <1>6, <1>8, <1>9, <1>10, <1>12, <1>13 DEF CollabInv

LEMMA ProjectFits == ASSUME CollabInv, NEW r \in RunEvents, Project(r) PROVE CollabInv'
<1>1. /\ event' = event /\ target' = target /\ prepared' = prepared /\ aimed' = aimed
      /\ executing' = executing /\ receipt' = receipt /\ applied' = applied /\ run' = run
      /\ admitted' = admitted /\ UNCHANGED intakeVars
  BY DEF Project, intakeVars, eventVars, runtimeVars
<1>2. \A q \in RunEvents : ticket[q] # "none" => ticket'[q] # "none"
  BY DEF Project, CollabInv, RunsFit
<1>3. DOMAIN ticket' = RunEvents
  BY DEF Project, CollabInv, RunsFit
<1>4. told' \subseteq Notices
  BY DEF Project, Tell, CollabInv, EventsFit, Notices
<1>5. IntakeFits'
  BY <1>1, IntakeOnly
<1>6. EventsFit' /\ ExecutionFits' /\ CommandsFit' /\ PinsFit'
  BY <1>1, <1>4 DEF CollabInv, EventsFit, ExecutionFits, At, CommandsFit, PinsFit
<1>7. RunsFit'
  BY <1>1, <1>2, <1>3 DEF CollabInv, RunsFit, RunsHaveTickets
<1> QED BY <1>5, <1>6, <1>7 DEF CollabInv

LEMMA HostFits ==
  ASSUME CollabInv, HostStarts \/ HostCloses \/ HostClosed PROVE CollabInv'
<1>1. /\ event' = event /\ UNCHANGED <<intakeVars, eventVars, executing, runtimeVars, ticket, told>>
  BY DEF HostStarts, HostCloses, HostClosed, eventVars
<1>2. IntakeFits'
  BY <1>1, IntakeOnly
<1>3. EventsFit' /\ ExecutionFits' /\ CommandsFit' /\ RunsFit' /\ PinsFit'
  BY <1>1 DEF CollabInv, EventsFit, intakeVars, eventVars, runtimeVars, ExecutionFits, At, CommandsFit, RunsFit,
              RunsHaveTickets, PinsFit
<1> QED BY <1>2, <1>3 DEF CollabInv

LEMMA HostDiesFits == ASSUME CollabInv, HostDies PROVE CollabInv'
<1>1. /\ executing' = Nothing /\ poll' = <<0, 0>> /\ reading' = [o \in Readers |-> NoEvent]
      /\ feed' = feed /\ cursor' = cursor /\ admitted' = admitted /\ event' = event /\ target' = target
      /\ receipt' = receipt /\ applied' = applied /\ run' = run /\ ticket' = ticket /\ told' = told
  BY DEF HostDies, runtimeVars
<1>2. IntakeFits'
  BY <1>1 DEF CollabInv, IntakeFits, Stored, Readers
<1>3. PinsFit'
  BY PinFits, Kinds DEF HostDies, CollabInv, PinsFit
<1>4. ExecutionFits'
  BY <1>1, CollaborationAssumption DEF ExecutionFits, At, Nothing
<1>5. EventsFit' /\ CommandsFit' /\ RunsFit'
  BY <1>1 DEF CollabInv, EventsFit, CommandsFit, RunsFit, RunsHaveTickets
<1> QED BY <1>2, <1>3, <1>4, <1>5 DEF CollabInv

LEMMA RunMovesFits == ASSUME CollabInv, NEW r \in RunEvents, RunMoves(r) PROVE CollabInv'
<1>1. /\ event' = event /\ target' = target /\ prepared' = prepared /\ aimed' = aimed
      /\ executing' = executing /\ receipt' = receipt /\ applied' = applied /\ ticket' = ticket
      /\ told' = told /\ admitted' = admitted /\ UNCHANGED intakeVars
  BY DEF RunMoves, intakeVars, eventVars
<1>2. /\ DOMAIN run' = RunEvents
      /\ \A q \in RunEvents : run'[q] # "none" => run[q] # "none"
  BY DEF RunMoves, CollabInv, RunsFit
<1>3. IntakeFits'
  BY <1>1, IntakeOnly
<1>4. EventsFit' /\ ExecutionFits' /\ CommandsFit' /\ PinsFit'
  BY <1>1 DEF CollabInv, EventsFit, ExecutionFits, At, CommandsFit, PinsFit
<1>5. RunsFit'
  BY <1>1, <1>2 DEF CollabInv, RunsFit, RunsHaveTickets
<1> QED BY <1>3, <1>4, <1>5 DEF CollabInv

LEMMA ReopenFits == ASSUME CollabInv, NEW e \in Incoming, Reopen(e) PROVE CollabInv'
<1>1. /\ event[e] \in {"blocked", "clarify"} /\ event' = [event EXCEPT ![e] = "pending"]
      /\ prepared' = prepared /\ aimed' = aimed /\ executing' = executing
      /\ receipt' = receipt /\ applied' = applied /\ run' = run /\ ticket' = ticket
      /\ told' = told /\ UNCHANGED intakeVars
  BY DEF Reopen, runtimeVars
<1>2. /\ IntakeFits' /\ event' \in [Incoming -> EventStates] /\ event'[e] = "pending"
      /\ \A d \in Incoming : d # e => event'[d] = event[d]
      /\ \A d \in Incoming : event'[d] # "none" => d \in admitted'
  BY <1>1, EventOnly DEF EventStates
<1>3. target' \in [Incoming -> RunEvents \cup {NoEvent}]
  BY DEF Reopen, Tickets, CollabInv, EventsFit
<1>4. EventsFit' /\ PinsFit'
  BY <1>1, <1>2, <1>3 DEF CollabInv, EventsFit, PinsFit
<1>5. ExecutionFits'
  BY <1>1, <1>2 DEF CollabInv, ExecutionFits, At
<1>6. CommandsFit' /\ RunsFit'
  BY <1>1, <1>2, Kinds DEF CollabInv, CommandsFit, RunsFit, RunsHaveTickets
<1> QED BY <1>2, <1>4, <1>5, <1>6 DEF CollabInv

\* Every step keeps the invariant, and a control that is given acts on what it saw.
LEMMA CollabSteps ==
  ASSUME CollabInv, [CollabNext]_collabVars
  PROVE  CollabInv' /\ (\A c \in Controls : applied'[c] > applied[c] => aimed'[c] = rev[target[c]])
<1> DEFINE Aim == \A c \in Controls : applied'[c] > applied[c] => aimed'[c] = rev[target[c]]
<1> SUFFICES CollabInv' /\ Aim
  OBVIOUS
<1>1. ASSUME \A c \in Controls : applied'[c] = applied[c] PROVE Aim
  <2> TAKE c \in Controls
  <2>1. applied[c] \in {0, 1}
    BY Kinds DEF CollabInv, CommandsFit
  <2> QED BY <1>1, <2>1
<1>2. CASE UNCHANGED collabVars
  <2>1. /\ event' = event /\ applied' = applied
        /\ UNCHANGED <<intakeVars, eventVars, executing, runtimeVars, ticket, told>>
    BY <1>2 DEF collabVars, intakeVars, eventVars, runtimeVars
  <2>2. IntakeFits'
    BY <2>1, IntakeOnly
  <2>3. EventsFit' /\ ExecutionFits' /\ CommandsFit' /\ RunsFit' /\ PinsFit'
    BY <2>1 DEF CollabInv, EventsFit, intakeVars, eventVars, runtimeVars, ExecutionFits, At, CommandsFit, RunsFit,
                RunsHaveTickets, PinsFit
  <2> QED BY <1>1, <2>1, <2>2, <2>3 DEF CollabInv
<1>3. CASE PollBegin
  BY <1>1, <1>3, PollBeginFits DEF PollBegin, runtimeVars
<1>4. CASE PollAdmits
  BY <1>1, <1>4, AdmitFits DEF PollAdmits, runtimeVars
<1>5. CASE PollEnds
  BY <1>1, <1>5, PollEndsFits DEF PollEnds, runtimeVars
<1>6. ASSUME NEW e \in Incoming, HookAdmits(e) PROVE CollabInv' /\ Aim
  BY <1>1, <1>6, AdmitFits DEF HookAdmits, runtimeVars
<1>7. ASSUME NEW e \in Incoming, Begin(e) PROVE CollabInv' /\ Aim
  BY <1>1, <1>7, BeginFits DEF Begin, runtimeVars
<1>8. ASSUME NEW e \in Incoming, Apply(e) PROVE CollabInv' /\ Aim
  BY <1>8, ApplyFits
<1>9. ASSUME NEW e \in Incoming, PinResume(e) PROVE CollabInv' /\ Aim
  BY <1>1, <1>9, PinResumeFits DEF PinResume, runtimeVars
<1>10. ASSUME NEW e \in Incoming, Mark(e) PROVE CollabInv' /\ Aim
  BY <1>1, <1>10, MarkFits DEF Mark, runtimeVars
<1>11. ASSUME NEW e \in Incoming, Blocked(e) PROVE CollabInv' /\ Aim
  BY <1>1, <1>11, BlockedFits DEF Blocked
<1>12. ASSUME NEW e \in Incoming, Reopen(e) PROVE CollabInv' /\ Aim
  BY <1>1, <1>12, ReopenFits DEF Reopen, runtimeVars
<1>13. ASSUME NEW o \in Readers, Store(o) PROVE CollabInv' /\ Aim
  BY <1>1, <1>13, StoreFits DEF Store, runtimeVars
<1>14. ASSUME NEW r \in RunEvents, Submit(r) PROVE CollabInv' /\ Aim
  BY <1>1, <1>14, SubmitFits
<1>15. ASSUME NEW r \in RunEvents, Link(r) PROVE CollabInv' /\ Aim
  BY <1>1, <1>15, LinkFits DEF Link, runtimeVars
<1>16. ASSUME NEW r \in RunEvents, Project(r) PROVE CollabInv' /\ Aim
  BY <1>1, <1>16, ProjectFits DEF Project, runtimeVars
<1>17. ASSUME NEW r \in RunEvents, RunMoves(r) PROVE CollabInv' /\ Aim
  BY <1>1, <1>17, RunMovesFits DEF RunMoves
<1>18. CASE HostStarts \/ HostCloses \/ HostClosed
  BY <1>1, <1>18, HostFits DEF HostStarts, HostCloses, HostClosed, runtimeVars
<1>19. CASE HostDies
  BY <1>1, <1>19, HostDiesFits DEF HostDies, runtimeVars
<1> HIDE DEF Aim
<1> QED
  BY <1>2, <1>3, <1>4, <1>5, <1>6, <1>7, <1>8, <1>9, <1>10, <1>11, <1>12, <1>13, <1>14, <1>15, <1>16, <1>17, <1>18,
     <1>19 DEF CollabNext

\* What the invariant says of the events: applied once, and answered for.
LEMMA IntakeFollows == CollabInv => IntakeSafety
<1> SUFFICES ASSUME CollabInv PROVE IntakeSafety
  OBVIOUS
<1>1. CollabTypeOK
  BY DEF CollabInv, IntakeFits, EventsFit, EventStates, CollabTypeOK
<1>2. EventsApplyOnce
  BY DEF CollabInv, CommandsFit, EventsApplyOnce
<1>3. RunsHaveTickets
  BY DEF CollabInv, RunsFit
<1>4. WatermarkCovers
  BY DEF CollabInv, IntakeFits, Stored, WatermarkCovers
<1> QED BY <1>1, <1>2, <1>3, <1>4 DEF IntakeSafety

\* An event that people sent takes effect at most once, however often it is
\* delivered, executed again after a crash, or retried by hand; a run that was
\* begun for somebody keeps a ticket or an event that will link it; and no crash
\* or stop in a scan makes the watermark skip an event that is not stored.
THEOREM IntakeIsSafe == CollabSpec => []IntakeSafety
<1>1. CollabInit => CollabInv
  BY InitCollab
<1>2. CollabInv /\ [CollabNext]_collabVars => CollabInv'
  BY CollabSteps
<1> QED BY <1>1, <1>2, IntakeFollows, PTL DEF CollabSpec

\* A control acts on the run only in the revision it saw when it was first
\* tried: one that the run or another user overtook is never forced through.
THEOREM ControlsAreAimed == CollabSpec => ControlsHitWhatTheySaw
<1>1. CollabInit => CollabInv
  BY InitCollab
<1>2. CollabInv /\ [CollabNext]_collabVars => CollabInv'
  BY CollabSteps
<1>3. CollabInv /\ [CollabNext]_collabVars
        => [\A e \in Controls : applied'[e] > applied[e] => aimed'[e] = rev[target[e]]]_collabVars
  BY CollabSteps
<1> QED BY <1>1, <1>2, <1>3, PTL DEF CollabSpec, ControlsHitWhatTheySaw

-----------------------------------------------------------------------------
(***************************************************************************)
(* The notices. A notice goes out once for each decision that it should:    *)
(* whatever may still be sent, because it is pending or in flight, was sent *)
(* less often.                                                              *)
(***************************************************************************)

\* What is in flight was dispatched by this host; a look into the channel may
\* have settled it meanwhile.
FlightIsDispatched ==
  /\ \A n \in flight : notice[n] \in {"dispatched", "sent"}
  /\ ~hosting => flight = {}

\* A send that may still happen is paid for by a decision not yet used.
SendsArePaid ==
  \A n \in Rows :
    /\ sends[n] <= 1 + retries[n]
    /\ notice[n] \in {"none", "pending"} \/ n \in flight => sends[n] <= retries[n]

NoticeInv == NoticeTypeOK /\ FlightIsDispatched /\ SendsArePaid /\ OneInFlight

LEMMA InitNotice == NoticeInit => NoticeInv
<1> SUFFICES ASSUME NoticeInit PROVE NoticeInv
  OBVIOUS
<1>1. NoticeTypeOK
  BY DEF NoticeInit, NoticeTypeOK
<1>2. FlightIsDispatched /\ SendsArePaid /\ OneInFlight
  BY DEF NoticeInit, FlightIsDispatched, SendsArePaid, OneInFlight
<1> QED BY <1>1, <1>2 DEF NoticeInv

LEMMA StepNotice == NoticeInv /\ [NoticeNext]_noticeVars => NoticeInv'
<1> SUFFICES ASSUME NoticeInv, [NoticeNext]_noticeVars PROVE NoticeInv'
  OBVIOUS
<1> USE DEF NoticeInv, NoticeTypeOK
<1>1. CASE Deliver
  <2>1. NoticeTypeOK' /\ FlightIsDispatched'
    BY <1>1 DEF Deliver, Idle, Selected, FlightIsDispatched
  <2>2. SendsArePaid'
    BY <1>1 DEF Deliver, Idle, Selected, SendsArePaid
  <2>3. OneInFlight'
    <3>1. flight' \subseteq Selected
      BY <1>1 DEF Deliver, Idle
    <3>2. \A n, k \in Selected : ThreadOf[n] = ThreadOf[k] => n = k
      <4> SUFFICES ASSUME NEW n \in Selected, NEW k \in Selected, ThreadOf[n] = ThreadOf[k] PROVE n = k
        OBVIOUS
      <4>1. n \in Int /\ k \in Int
        BY NoticeAssumption DEF Selected
      <4>2. ~(k < n) /\ ~(n < k)
        BY DEF Selected, Thread
      <4> QED BY <4>1, <4>2
    <3> QED BY <3>1, <3>2 DEF OneInFlight
  <2> QED BY <2>1, <2>2, <2>3
<1>2. CASE HostBegins
  BY <1>2 DEF HostBegins, AfterStop, FlightIsDispatched, SendsArePaid, OneInFlight
<1>3. CASE HostStops
  <2>1. PICK carried \in SUBSET flight :
          sends' = [n \in Rows |-> IF n \in carried THEN sends[n] + 1 ELSE sends[n]]
    BY <1>3 DEF HostStops
  <2>2. hosting' = FALSE /\ flight' = {} /\ looking' = {} /\ notice' = notice /\ retries' = retries
    BY <1>3 DEF HostStops
  <2>3. \A n \in Rows : sends'[n] = sends[n] \/ (n \in flight /\ sends'[n] = sends[n] + 1)
    BY <2>1
  <2>4. sends' \in [Rows -> Nat]
    <3>1. \A n \in Rows : (IF n \in carried THEN sends[n] + 1 ELSE sends[n]) \in Nat
      OBVIOUS
    <3> QED BY <2>1, <3>1
  <2>5. NoticeTypeOK'
    BY <2>2, <2>4
  <2>6. SendsArePaid'
    <3> SUFFICES ASSUME NEW n \in Rows
                 PROVE  /\ sends'[n] <= 1 + retries[n]
                        /\ notice[n] \in {"none", "pending"} => sends'[n] <= retries[n]
      BY <2>2 DEF SendsArePaid
    <3>1. sends[n] \in Nat /\ retries[n] \in Nat
      OBVIOUS
    <3>2. sends[n] <= 1 + retries[n] /\ (n \in flight => sends[n] <= retries[n])
      BY DEF SendsArePaid
    <3>3. notice[n] \in {"none", "pending"} => n \notin flight /\ sends[n] <= retries[n]
      BY DEF SendsArePaid, FlightIsDispatched
    <3> QED BY <2>3, <3>1, <3>2, <3>3
  <2>7. FlightIsDispatched' /\ OneInFlight'
    BY <2>2 DEF FlightIsDispatched, OneInFlight
  <2> QED BY <2>5, <2>6, <2>7
<1>4. ASSUME NEW n \in Rows, Enqueue(n) PROVE NoticeInv'
  BY <1>4 DEF Enqueue, FlightIsDispatched, SendsArePaid, OneInFlight
<1>5. ASSUME NEW n \in Rows, QuestionCloses(n) PROVE NoticeInv'
  BY <1>5 DEF QuestionCloses, FlightIsDispatched, SendsArePaid, OneInFlight
<1>6. ASSUME NEW n \in Rows, SendEnds(n) PROVE NoticeInv'
  BY <1>6 DEF SendEnds, Carried, FlightIsDispatched, SendsArePaid, OneInFlight
<1>7. ASSUME NEW n \in Rows, Look(n) PROVE NoticeInv'
  BY <1>7 DEF Look, FlightIsDispatched, SendsArePaid, OneInFlight
<1>8. ASSUME NEW n \in Rows, Found(n) PROVE NoticeInv'
  BY <1>8 DEF Found, FlightIsDispatched, SendsArePaid, OneInFlight
<1>9. ASSUME NEW n \in Rows, Resolve(n) PROVE NoticeInv'
  BY <1>9 DEF Resolve, FlightIsDispatched, SendsArePaid, OneInFlight
<1>10. CASE UNCHANGED noticeVars
  BY <1>10 DEF noticeVars, FlightIsDispatched, SendsArePaid, OneInFlight
<1> QED BY <1>1, <1>2, <1>3, <1>4, <1>5, <1>6, <1>7, <1>8, <1>9, <1>10 DEF NoticeNext

LEMMA NoticeInvariant == NoticeSpec => []NoticeInv
  BY InitNotice, StepNotice, PTL DEF NoticeSpec

\* A notice is carried out once, and once more for each decision of the operator:
\* for every number of notices, crashes, failed sends and looks into the channel.
THEOREM NoticesAreNotRepeated == NoticeSpec => []NoSilentResend
<1>1. NoticeInv => NoSilentResend
  BY DEF NoticeInv, SendsArePaid, NoSilentResend
<1> QED BY <1>1, NoticeInvariant, PTL

\* A thread never has two notices in flight.
THEOREM ThreadsAreInOrder == NoticeSpec => []OneInFlight
<1>1. NoticeInv => OneInFlight
  BY DEF NoticeInv
<1> QED BY <1>1, NoticeInvariant, PTL

\* What a thread is told is told once and one thing at a time.
THEOREM NoticesAreSafe == NoticeSpec => []NoticeSafety
<1>1. NoSilentResend /\ OneInFlight => NoticeSafety
  BY DEF NoticeSafety
<1> QED BY <1>1, NoticesAreNotRepeated, ThreadsAreInOrder, PTL

-----------------------------------------------------------------------------
(***************************************************************************)
(* The conversation. An entry of the journal names the place of the         *)
(* conversation where its call was made. A conversation only grows, or      *)
(* begins a new age with a compaction, so that a place that was reached is  *)
(* never come to again by a new reply: the invariant orders places by age   *)
(* and length.                                                              *)
(***************************************************************************)

Messages == [what : {"user", "text", "calls", "results", "summary"}, n : Nat, outcomes : Seq({"ran", "refused"})]
Entries == [call : Nat, scope : Seq(Messages), state : {"intended", "dispatched", "settled"},
            outcome : {"none", "ran", "refused"}]

\* Every compaction begins a new age of the conversation.
Age(ms) == IF ms # <<>> /\ ms[1].what = "summary" THEN ms[1].n + 1 ELSE 0

\* A place of the conversation that was reached before now, or is now.
Reached(ms, now) == Age(ms) < Age(now) \/ (Age(ms) = Age(now) /\ Len(ms) <= Len(now))

Open(ms) == ms # <<>> /\ ms[Len(ms)].what = "calls"

\* The conversation on disk.
KeptFits ==
  /\ kept \in Seq(Messages) /\ incidents \in Nat /\ Age(kept) <= incidents
  /\ RoundsAreClosed /\ ResultsAreTrue

\* What was executed and what is noted of it: a call has one entry at its place
\* of the conversation, and a settled one tells the truth.
LedgerFits ==
  /\ ledger \in Seq(Entries) /\ ran \subseteq Seq(Messages) \X Nat
  /\ \A i, j \in DOMAIN ledger : ledger[i].call = ledger[j].call /\ ledger[i].scope = ledger[j].scope => i = j
  /\ \A i \in DOMAIN ledger :
       /\ Reached(ledger[i].scope, kept)
       /\ ledger[i].state = "settled" =>
            /\ ledger[i].outcome # "none"
            /\ ledger[i].outcome = "ran" <=> <<ledger[i].scope, ledger[i].call>> \in ran
  /\ \A p \in ran : Reached(p[1], kept)

Before == {"idle", "recover", "prompt", "turn", "fold", "ask"}
Quiet == {"turn", "fold", "ask"}
Working == {"intended", "dispatched", "done", "failed", "hooked"}
Ended == {"done", "failed", "hooked"}
Stages == Before \cup {"said", "call", "results"} \cup Working

\* The run: what it says is what is kept, and only in a round is one open.
RunFits ==
  /\ stage \in Stages /\ reply \in Replies \cup {NoReply} /\ results \in Seq({"ran", "refused"})
  /\ stopped \in BOOLEAN /\ repeated = FALSE
  /\ counters \in [turn : 0 .. MaxTurns, more : 0 .. MaxContinuations, shrunk : 0 .. MaxShrinks]
  /\ stage \notin {"idle", "recover", "prompt", "turn"} => counters.turn < MaxTurns
  /\ stage # "idle" => said = kept
  /\ stage = "idle" => said = <<>>
  /\ stage \in Quiet => ~Open(kept)
  /\ stage \in Before => reply = NoReply
  /\ stage \notin Before => reply \in Replies
  /\ stage \in Before \cup {"said"} => results = <<>>

OpenFor(n) == kept # <<>> /\ kept[Len(kept)].what = "calls" /\ kept[Len(kept)].n = n

\* The round that is worked on.
RoundFits ==
  /\ stage = "said" =>
       /\ IF KeepsCalls(reply) THEN OpenFor(reply.calls) ELSE ~Open(kept)
       /\ KeepsCalls(reply) => \A i \in DOMAIN ledger : ledger[i].scope # kept
       /\ KeepsCalls(reply) => \A p \in ran : p[1] # kept
  /\ stage \in Working \cup {"call", "results"} =>
       /\ OpenFor(reply.calls)
       /\ IF stage = "results" THEN Len(results) = reply.calls ELSE Len(results) < reply.calls
       /\ \A c \in DOMAIN results : results[c] = "ran" <=> <<kept, c>> \in ran
       /\ \A p \in ran : p[1] = kept => p[2] \in DOMAIN results \/ (p[2] = Use /\ stage \in Ended)
       /\ \A i \in DOMAIN ledger : ledger[i].scope = kept =>
            ledger[i].call \in DOMAIN results \/ (i = Len(ledger) /\ stage \in Working)
  /\ stage \in Ended => <<kept, Use>> \in ran
  /\ stage \in Working =>
       /\ ledger # <<>> /\ ledger[Len(ledger)].scope = kept /\ ledger[Len(ledger)].call = Use
       /\ stage # "hooked" => ledger[Len(ledger)].state # "settled"

LoopInv == KeptFits /\ LedgerFits /\ RunFits /\ RoundFits

LEMMA Bounds ==
  MaxTurns \in Nat /\ MaxContinuations \in Nat /\ MaxShrinks \in Nat /\ (\A r \in Replies : r.calls \in Nat)
BY AgentLoopAssumption

LEMMA MessageIs ==
  ASSUME NEW m \in Messages
  PROVE  /\ m.what \in {"user", "text", "calls", "results", "summary"}
         /\ m.n \in Nat /\ m.outcomes \in Seq({"ran", "refused"})
BY DEF Messages

LEMMA EntryIs ==
  ASSUME NEW e \in Entries
  PROVE  /\ e.call \in Nat /\ e.scope \in Seq(Messages) /\ e.state \in {"intended", "dispatched", "settled"}
         /\ e.outcome \in {"none", "ran", "refused"}
BY DEF Entries

LEMMA AgeIs == ASSUME NEW ms \in Seq(Messages) PROVE Age(ms) \in Nat
<1>1. CASE ms # <<>>
  <2>1. ms[1] \in Messages
    BY <1>1
  <2> QED BY <2>1, MessageIs DEF Age
<1> QED BY <1>1 DEF Age

LEMMA InitLoop == LoopInit => LoopInv
<1> SUFFICES ASSUME LoopInit PROVE LoopInv
  OBVIOUS
<1> USE DEF LoopInit
<1>1. KeptFits
  BY DEF KeptFits, Age, RoundsAreClosed, ResultsAreTrue
<1>2. LedgerFits
  BY DEF LedgerFits
<1>3. RunFits
  <2>1. counters \in [turn : 0 .. MaxTurns, more : 0 .. MaxContinuations, shrunk : 0 .. MaxShrinks]
    BY Bounds DEF Fresh
  <2>2. stage \in Stages /\ stage \in Before /\ stage \notin Quiet /\ stage = "idle" /\ repeated = FALSE
    BY DEF Stages, Before, Quiet
  <2>3. reply = NoReply /\ results = <<>> /\ results \in Seq({"ran", "refused"}) /\ said = <<>>
    OBVIOUS
  <2>4. stopped \in BOOLEAN
    BY Zenon
  <2> QED BY ONLY <2>1, <2>2, <2>3, <2>4 DEF RunFits
<1>4. RoundFits
  BY DEF RoundFits, Working, Ended
<1> QED BY <1>1, <1>2, <1>3, <1>4 DEF LoopInv

\* What was said stays said: a conversation that grows has the same beginnings.
LEMMA Grows ==
  ASSUME kept \in Seq(Messages), NEW m \in Messages, m.what # "summary", kept' = Append(kept, m)
  PROVE  /\ kept' \in Seq(Messages) /\ Len(kept') = Len(kept) + 1 /\ Len(kept) \in Nat
         /\ kept'[Len(kept')] = m /\ kept' # <<>>
         /\ \A i \in 1 .. Len(kept) : kept'[i] = kept[i]
         /\ \A i \in 1 .. Len(kept) + 1 : SubSeq(kept', 1, i - 1) = SubSeq(kept, 1, i - 1)
         /\ SubSeq(kept', 1, Len(kept)) = kept
         /\ Age(kept') = Age(kept) /\ Age(kept) \in Nat
<1>1. /\ kept' \in Seq(Messages) /\ Len(kept') = Len(kept) + 1 /\ Len(kept) \in Nat
      /\ kept'[Len(kept')] = m /\ kept' # <<>>
      /\ \A i \in 1 .. Len(kept) : kept'[i] = kept[i]
  BY AppendProperties
<1>2. ASSUME NEW i \in 1 .. Len(kept) + 1 PROVE SubSeq(kept', 1, i - 1) = SubSeq(kept, 1, i - 1)
  <2>1. i - 1 \in Int /\ (\A j \in 1 .. i - 1 : kept[j] \in Messages /\ kept'[j] \in Messages)
    BY <1>1
  <2>2. /\ SubSeq(kept, 1, i - 1) \in Seq(Messages) /\ Len(SubSeq(kept, 1, i - 1)) = i - 1
        /\ SubSeq(kept', 1, i - 1) \in Seq(Messages) /\ Len(SubSeq(kept', 1, i - 1)) = i - 1
        /\ \A j \in 1 .. i - 1 : SubSeq(kept, 1, i - 1)[j] = kept[j] /\ SubSeq(kept', 1, i - 1)[j] = kept'[j]
    BY <1>1, <2>1
  <2> QED BY <1>1, <2>2, SeqEqual
<1>3. SubSeq(kept', 1, Len(kept)) = kept
  <2>1. SubSeq(kept', 1, Len(kept)) = SubSeq(kept, 1, Len(kept))
    BY <1>1, <1>2
  <2> QED BY <2>1, SubSeqFull
<1>4. Age(kept) \in Nat
  BY AgeIs
<1>5. Age(kept') = Age(kept)
  <2>1. CASE kept = <<>>
    BY <1>1, <2>1 DEF Age
  <2>2. CASE kept # <<>>
    <3>1. Len(kept) >= 1 /\ kept'[1] = kept[1]
      BY <1>1, <2>2
    <3> QED BY <1>1, <2>2, <3>1 DEF Age
  <2> QED BY <2>1, <2>2
<1> QED BY <1>1, <1>2, <1>3, <1>4, <1>5

\* A message is added that closes the open round, if there is one: nothing was
\* called or noted at the place of the conversation that this makes.
LEMMA SayFits ==
  ASSUME KeptFits, LedgerFits, NEW m \in Messages, m.what # "summary", kept' = Append(kept, m),
         ledger' = ledger, ran' = ran, incidents' \in Nat, incidents' >= incidents,
         Open(kept) => m.what = "results" /\ Len(m.outcomes) = kept[Len(kept)].n,
         m.what = "results" => \A c \in DOMAIN m.outcomes : m.outcomes[c] = "ran" <=> <<kept, c>> \in ran
  PROVE  /\ KeptFits' /\ LedgerFits'
         /\ kept'[Len(kept')] = m /\ kept' # <<>>
         /\ \A i \in DOMAIN ledger : ledger[i].scope # kept'
         /\ \A p \in ran : p[1] # kept'
<1>1. /\ kept \in Seq(Messages)
      /\ kept' \in Seq(Messages) /\ Len(kept') = Len(kept) + 1 /\ Len(kept) \in Nat
      /\ kept'[Len(kept')] = m /\ kept' # <<>>
      /\ \A i \in 1 .. Len(kept) : kept'[i] = kept[i]
      /\ \A i \in 1 .. Len(kept) + 1 : SubSeq(kept', 1, i - 1) = SubSeq(kept, 1, i - 1)
      /\ SubSeq(kept', 1, Len(kept)) = kept
      /\ Age(kept') = Age(kept) /\ Age(kept) \in Nat
  BY Grows DEF KeptFits
<1>2. ASSUME NEW ms \in Seq(Messages), Reached(ms, kept) PROVE Reached(ms, kept') /\ ms # kept'
  <2>1. Age(ms) \in Nat /\ Len(ms) \in Nat
    BY AgeIs
  <2>2. Reached(ms, kept')
    BY ONLY <1>1, <1>2, <2>1 DEF Reached
  <2>3. ms # kept'
    BY ONLY <1>1, <1>2, <2>1 DEF Reached
  <2> QED BY <2>2, <2>3
<1>3. RoundsAreClosed'
  <2> SUFFICES ASSUME NEW i \in 1 .. Len(kept) + 1, kept'[i].what = "calls"
               PROVE  i = Len(kept') \/ (kept'[i + 1].what = "results" /\ Len(kept'[i + 1].outcomes) = kept'[i].n)
    BY <1>1 DEF RoundsAreClosed
  <2>1. CASE i = Len(kept) + 1
    BY <1>1, <2>1
  <2>2. CASE i = Len(kept)
    <3>1. kept'[i] = kept[i] /\ kept # <<>> /\ i + 1 = Len(kept')
      BY <1>1, <2>2
    <3>2. Open(kept)
      BY <2>2, <3>1 DEF Open
    <3>3. m.what = "results" /\ Len(m.outcomes) = kept[i].n
      BY <2>2, <3>2
    <3> QED BY ONLY <1>1, <3>1, <3>3
  <2>3. CASE i < Len(kept)
    <3>1. kept[i].what = "calls" /\ i \in DOMAIN kept /\ kept'[i] = kept[i] /\ kept'[i + 1] = kept[i + 1]
      BY <1>1, <2>3
    <3> QED BY <1>1, <2>3, <3>1 DEF KeptFits, RoundsAreClosed
  <2>5. i \in 1 .. Len(kept) + 1 /\ Len(kept) \in Nat
    BY <1>1
  <2>4. i = Len(kept) + 1 \/ i = Len(kept) \/ i < Len(kept)
    BY ONLY <2>5
  <2> QED BY ONLY <2>1, <2>2, <2>3, <2>4
<1>4. ResultsAreTrue'
  <2>3. DOMAIN kept' = 1 .. Len(kept) + 1
    BY ONLY <1>1
  <2> SUFFICES ASSUME NEW i \in 1 .. Len(kept) + 1, kept'[i].what = "results", NEW c \in DOMAIN kept'[i].outcomes
               PROVE  kept'[i].outcomes[c] = "ran" <=> <<SubSeq(kept', 1, i - 1), c>> \in ran
    BY <2>3, Zenon DEF ResultsAreTrue
  <2>1. CASE i = Len(kept) + 1
    BY <1>1, <2>1
  <2>2. CASE i \in 1 .. Len(kept)
    <3>1. kept'[i] = kept[i] /\ i \in DOMAIN kept
      BY <1>1, <2>2
    <3>2. SubSeq(kept', 1, i - 1) = SubSeq(kept, 1, i - 1)
      BY <1>1
    <3> QED BY <3>1, <3>2 DEF KeptFits, ResultsAreTrue
  <2> QED BY <1>1, <2>1, <2>2
<1>5. KeptFits'
  BY <1>1, <1>3, <1>4 DEF KeptFits
<1>6. \A i \in DOMAIN ledger : ledger[i].scope \in Seq(Messages) /\ Reached(ledger[i].scope, kept)
  <2> TAKE i \in DOMAIN ledger
  <2>1. ledger[i] \in Entries
    BY DEF LedgerFits
  <2> QED BY <2>1, EntryIs DEF LedgerFits
<1>7. \A p \in ran : p[1] \in Seq(Messages) /\ Reached(p[1], kept)
  BY DEF LedgerFits
<1>8. \A i \in DOMAIN ledger : Reached(ledger[i].scope, kept') /\ ledger[i].scope # kept'
  BY <1>2, <1>6
<1>9. \A p \in ran : Reached(p[1], kept') /\ p[1] # kept'
  BY <1>2, <1>7
<1>10. LedgerFits'
  BY <1>8, <1>9 DEF LedgerFits
<1> QED BY <1>1, <1>5, <1>8, <1>9, <1>10

\* A compaction begins a new age.
LEMMA FoldFits ==
  ASSUME KeptFits, LedgerFits, Fold, ledger' = ledger, ran' = ran
  PROVE  KeptFits' /\ LedgerFits' /\ ~Open(kept)' /\ said' = kept'
<1>1. /\ incidents \in Nat /\ incidents' = incidents + 1
      /\ kept' = <<Message("summary", incidents, <<>>)>> /\ said' = kept'
  BY DEF Fold, Incident, KeptFits
<1>2. Message("summary", incidents, <<>>) \in Messages /\ Message("summary", incidents, <<>>).what = "summary"
      /\ Message("summary", incidents, <<>>).n = incidents
  BY <1>1 DEF Message, Messages
<1> HIDE DEF Message
<1>3. kept' \in Seq(Messages) /\ Len(kept') = 1 /\ kept'[1].what = "summary" /\ kept'[1].n = incidents
  BY <1>1, <1>2
<1>4. Age(kept') = incidents + 1 /\ Age(kept) <= incidents /\ Age(kept) \in Int
  <2>1. Age(kept') = incidents + 1
    <3>1. kept' # <<>>
      BY <1>1
    <3> QED BY ONLY <1>3, <3>1 DEF Age
  <2>2. Age(kept) <= incidents /\ Age(kept) \in Int
    BY AgeIs DEF KeptFits
  <2> QED BY <2>1, <2>2
<1>5. KeptFits' /\ ~Open(kept)'
  BY <1>1, <1>3, <1>4 DEF KeptFits, RoundsAreClosed, ResultsAreTrue, Open
<1>6. ASSUME NEW ms \in Seq(Messages), Reached(ms, kept) PROVE Reached(ms, kept')
  <2>1. Age(ms) \in Int
    BY AgeIs
  <2> QED BY <1>1, <1>4, <1>6, <2>1 DEF Reached
<1>7. \A i \in DOMAIN ledger : Reached(ledger[i].scope, kept')
  <2> TAKE i \in DOMAIN ledger
  <2>1. ledger[i] \in Entries
    BY DEF LedgerFits
  <2> QED BY <1>6, <2>1, EntryIs DEF LedgerFits
<1>8. \A p \in ran : Reached(p[1], kept')
  BY <1>6 DEF LedgerFits
<1>9. LedgerFits'
  BY <1>7, <1>8 DEF LedgerFits
<1> QED BY <1>1, <1>5, <1>9

\* Nothing is said or executed.
LEMMA KeptStill ==
  ASSUME KeptFits, kept' = kept, ran' = ran, incidents' \in Nat, incidents' >= incidents PROVE KeptFits'
<1>1. Age(kept') = Age(kept) /\ Age(kept) \in Int
  BY AgeIs DEF KeptFits
<1> QED BY <1>1 DEF KeptFits, RoundsAreClosed, ResultsAreTrue

\* And nothing is noted.
LEMMA StillFits ==
  ASSUME KeptFits, LedgerFits, kept' = kept, ledger' = ledger, ran' = ran, incidents' \in Nat, incidents' >= incidents
  PROVE  KeptFits' /\ LedgerFits'
<1>1. KeptFits'
  BY KeptStill
<1>2. LedgerFits'
  BY DEF LedgerFits
<1> QED BY <1>1, <1>2

LEMMA IncidentIs == ASSUME KeptFits, Incident PROVE incidents' \in Nat /\ incidents' >= incidents
BY DEF KeptFits, Incident

\* The end of a run, wherever it comes.
LEMMA OverFits ==
  ASSUME LoopInv, Over, kept' = kept, ledger' = ledger, ran' = ran, repeated' = repeated,
         incidents' = incidents \/ Incident
  PROVE  LoopInv'
<1>1. incidents' \in Nat /\ incidents' >= incidents
  BY IncidentIs DEF LoopInv, KeptFits
<1>2. KeptFits' /\ LedgerFits'
  BY <1>1, StillFits DEF LoopInv
<1>3. RunFits'
  <2>1. counters' \in [turn : 0 .. MaxTurns, more : 0 .. MaxContinuations, shrunk : 0 .. MaxShrinks]
    BY Bounds DEF Over, Fresh
  <2>2. stage' \in Stages /\ stage' \in Before /\ stage' \notin Quiet /\ stage' = "idle"
    BY DEF Over, Stages, Before, Quiet
  <2>3. reply' = NoReply /\ results' = <<>> /\ results' \in Seq({"ran", "refused"}) /\ said' = <<>>
    BY DEF Over
  <2>4. stopped' \in BOOLEAN /\ repeated' = FALSE
    BY Zenon DEF Over, LoopInv, RunFits
  <2> QED BY ONLY <2>1, <2>2, <2>3, <2>4 DEF RunFits
<1>4. RoundFits'
  BY DEF Over, RoundFits, Working, Ended
<1> QED BY <1>2, <1>3, <1>4 DEF LoopInv

\* The top of the next turn, with the round closed.
LEMMA NextTurnFits ==
  ASSUME RunFits, counters.turn < MaxTurns, NEW k \in {0, 1}, counters.more + k <= MaxContinuations,
         NextTurn(k), said' = kept', ~Open(kept)', repeated' = repeated
  PROVE  RunFits' /\ RoundFits'
<1>1. counters' \in [turn : 0 .. MaxTurns, more : 0 .. MaxContinuations, shrunk : 0 .. MaxShrinks]
  <2>1. PICK t \in 0 .. MaxTurns, more \in 0 .. MaxContinuations, s \in 0 .. MaxShrinks :
          counters = [turn |-> t, more |-> more, shrunk |-> s]
    BY DEF RunFits
  <2>2. counters' = [turn |-> t + 1, more |-> more + k, shrunk |-> s]
    BY <2>1, Zenon DEF NextTurn
  <2> QED BY <2>1, <2>2, Bounds
<1>2. RunFits'
  BY <1>1 DEF RunFits, NextTurn, Stages, Before, Quiet
<1>3. RoundFits'
  BY DEF NextTurn, RoundFits, Working, Ended
<1> QED BY <1>2, <1>3

LEMMA Saying ==
  /\ User \in Messages /\ User.what = "user" /\ Text \in Messages /\ Text.what = "text"
  /\ \A n \in Nat : Calls(n) \in Messages /\ Calls(n).what = "calls" /\ Calls(n).n = n
  /\ \A o \in Seq({"ran", "refused"}) : Results(o) \in Messages /\ Results(o).what = "results" /\ Results(o).outcomes = o
BY DEF User, Text, Calls, Results, Message, Messages

\* A run that asks nothing of its calls.
LEMMA QuietFits ==
  ASSUME LoopInv, stage \in Before, stage' \in Before \ {"idle"}, said' = kept',
         reply' = reply, results' = results, stopped' = stopped, repeated' = repeated,
         counters' \in [turn : 0 .. MaxTurns, more : 0 .. MaxContinuations, shrunk : 0 .. MaxShrinks],
         stage' \in {"fold", "ask"} => counters'.turn < MaxTurns,
         stage' \in Quiet => ~Open(kept)'
  PROVE  RunFits' /\ RoundFits'
<1>1. /\ stage' \in Stages /\ stage' # "idle"
      /\ stage' \notin {"recover", "prompt", "turn"} => stage' \in {"fold", "ask"}
  BY DEF Stages, Before
<1>2. reply' = NoReply /\ results' = <<>> /\ results' \in Seq({"ran", "refused"})
  BY DEF LoopInv, RunFits
<1>3. stopped' \in BOOLEAN /\ repeated' = FALSE
  BY Zenon DEF LoopInv, RunFits
<1>4. RunFits'
  BY ONLY <1>1, <1>2, <1>3, stage' \in Before \ {"idle"}, said' = kept',
          counters' \in [turn : 0 .. MaxTurns, more : 0 .. MaxContinuations, shrunk : 0 .. MaxShrinks],
          stage' \in {"fold", "ask"} => counters'.turn < MaxTurns, stage' \in Quiet => ~Open(kept)' DEF RunFits
<1>5. RoundFits'
  BY DEF Before, RoundFits, Working, Ended
<1> QED BY <1>4, <1>5

LEMMA CountersRest ==
  ASSUME LoopInv, counters' = counters
  PROVE  counters' \in [turn : 0 .. MaxTurns, more : 0 .. MaxContinuations, shrunk : 0 .. MaxShrinks]
BY DEF LoopInv, RunFits

LEMMA StartRunFits == ASSUME LoopInv, StartRun PROVE LoopInv'
<1>1. KeptFits' /\ LedgerFits'
  BY StillFits DEF LoopInv, KeptFits, StartRun
<1>2. RunFits' /\ RoundFits'
  BY QuietFits, CountersRest DEF StartRun, runVars, Before, Quiet
<1> QED BY <1>1, <1>2 DEF LoopInv

\* What the journal knows of a call is what it has done.
LEMMA OutcomeIs ==
  ASSUME LedgerFits, NEW c \in Nat, Outcome(kept, c) # "unknown"
  PROVE  Outcome(kept, c) \in {"ran", "refused"} /\ (Outcome(kept, c) = "ran" <=> <<kept, c>> \in ran)
<1> DEFINE found == Intents(kept, c)
<1> DEFINE last == CHOOSE i \in found : \A j \in found : j <= i
<1>1. found # {} /\ ledger[last].state = "settled" /\ Outcome(kept, c) = ledger[last].outcome
  BY DEF Outcome
<1>2. \A i \in found : i \in DOMAIN ledger /\ ledger[i].call = c /\ ledger[i].scope = kept
  BY DEF Intents
<1>3. PICK i \in found : TRUE
  BY <1>1
<1>4. \A j \in found : j = i
  BY <1>2, <1>3 DEF LedgerFits
<1>5. i \in Nat
  BY <1>2, <1>3 DEF LedgerFits
<1>6. \A j \in found : j <= i
  BY <1>4, <1>5
<1>7. last \in found
  BY <1>3, <1>6
<1> HIDE DEF last, found
<1>8. last \in DOMAIN ledger /\ ledger[last] \in Entries
  BY <1>2, <1>7 DEF LedgerFits
<1>9. ledger[last].outcome \in {"ran", "refused"}
  BY <1>1, <1>8, EntryIs DEF LedgerFits
<1>10. ledger[last].outcome = "ran" <=> <<kept, c>> \in ran
  BY <1>1, <1>2, <1>7, <1>8, Zenon DEF LedgerFits
<1> QED BY <1>1, <1>9, <1>10

LEMMA RecoverFits == ASSUME LoopInv, Recover PROVE LoopInv'
<1> DEFINE n == kept[Len(kept)].n
<1> DEFINE outcomes == [c \in 1 .. n |-> Recovered(kept, c)]
<1>1. /\ stage = "recover" /\ said = kept /\ ledger' = ledger /\ ran' = ran /\ repeated' = repeated
      /\ incidents' = incidents /\ incidents \in Nat
  BY DEF Recover, boundVars, LoopInv, RunFits, KeptFits
<1>2. \/ ~Open(kept) /\ stage' = "prompt" /\ UNCHANGED <<kept, said, runVars>>
      \/ /\ Open(kept) /\ \A c \in DOMAIN outcomes : outcomes[c] # "unknown"
         /\ Say(Results(outcomes)) /\ stage' = "prompt" /\ UNCHANGED runVars
      \/ Over /\ UNCHANGED kept
  BY <1>1 DEF Recover, Open
<1>3. CASE ~Open(kept) /\ stage' = "prompt" /\ UNCHANGED <<kept, said, runVars>>
  <2>1. KeptFits' /\ LedgerFits'
    BY <1>1, <1>3, StillFits DEF LoopInv
  <2>2. RunFits' /\ RoundFits'
    BY <1>1, <1>3, QuietFits, CountersRest DEF runVars, Before, Quiet
  <2> QED BY <2>1, <2>2 DEF LoopInv
<1>4. CASE /\ Open(kept) /\ \A c \in DOMAIN outcomes : outcomes[c] # "unknown"
           /\ Say(Results(outcomes)) /\ stage' = "prompt" /\ UNCHANGED runVars
  <2>1. n \in Nat
    <3>1. kept \in Seq(Messages) /\ kept # <<>>
      BY <1>4 DEF LoopInv, KeptFits, Open
    <3>2. kept[Len(kept)] \in Messages
      BY <3>1
    <3> QED BY <3>2, MessageIs
  <2>2. \A c \in 1 .. n : /\ outcomes[c] \in {"ran", "refused"}
                          /\ outcomes[c] = "ran" <=> <<kept, c>> \in ran
    <3> TAKE c \in 1 .. n
    <3>3. DOMAIN outcomes = 1 .. n /\ outcomes[c] = Recovered(kept, c)
      OBVIOUS
    <3> HIDE DEF outcomes, n
    <3>4. outcomes[c] # "unknown" /\ c \in Nat
      BY <1>4, <2>1, <3>3
    <3>1. outcomes[c] = Outcome(kept, c) /\ outcomes[c] # "unknown" /\ c \in Nat
      BY <3>3, <3>4 DEF Recovered
    <3> QED BY <3>1, OutcomeIs DEF LoopInv
  <2>3. outcomes \in Seq({"ran", "refused"}) /\ Len(outcomes) = n /\ DOMAIN outcomes = 1 .. n
    <3>1. DOMAIN outcomes = 1 .. n
      OBVIOUS
    <3> HIDE DEF outcomes
    <3>2. outcomes \in [1 .. n -> {"ran", "refused"}]
      BY <2>1, <2>2, <3>1 DEF outcomes
    <3> HIDE DEF n
    <3> QED BY <2>1, <3>1, <3>2
  <2> HIDE DEF outcomes
  <2>4. /\ Results(outcomes) \in Messages /\ Results(outcomes).what = "results"
        /\ Results(outcomes).outcomes = outcomes
    BY <2>3, Saying
  <2>5. kept' = Append(kept, Results(outcomes)) /\ said' = kept'
    BY <1>1, <1>4 DEF Say
  <2>6. KeptFits' /\ LedgerFits'
    <3>1. /\ Results(outcomes).what # "summary"
          /\ Open(kept) => Results(outcomes).what = "results" /\ Len(Results(outcomes).outcomes) = kept[Len(kept)].n
      BY <2>3, <2>4
    <3>2. \A c \in DOMAIN Results(outcomes).outcomes : Results(outcomes).outcomes[c] = "ran" <=> <<kept, c>> \in ran
      BY <2>2, <2>3, <2>4
    <3>3. incidents' \in Nat /\ incidents' >= incidents
      BY <1>1
    <3> QED BY <1>1, <2>4, <2>5, <3>1, <3>2, <3>3, SayFits DEF LoopInv
  <2>7. RunFits' /\ RoundFits'
    BY <1>1, <1>4, <2>5, QuietFits, CountersRest DEF runVars, Before, Quiet
  <2> QED BY <2>6, <2>7 DEF LoopInv
<1>5. CASE Over /\ UNCHANGED kept
  BY <1>1, <1>5, OverFits
<1> QED BY <1>2, <1>3, <1>4, <1>5

\* Something is said while no round is open.
LEMMA SaysFits ==
  ASSUME LoopInv, said = kept, ~Open(kept), NEW m \in Messages, m.what \notin {"summary", "results"}, Say(m),
         ledger' = ledger, ran' = ran, incidents' = incidents \/ Incident
  PROVE  /\ KeptFits' /\ LedgerFits' /\ said' = kept' /\ kept' # <<>> /\ kept'[Len(kept')] = m
         /\ m.what # "calls" => ~Open(kept)'
         /\ \A i \in DOMAIN ledger : ledger[i].scope # kept'
         /\ \A p \in ran : p[1] # kept'
<1>1. incidents' \in Nat /\ incidents' >= incidents
  BY IncidentIs DEF LoopInv, KeptFits
<1>2. kept' = Append(kept, m) /\ said' = kept'
  BY DEF Say
<1>3. /\ KeptFits' /\ LedgerFits' /\ kept'[Len(kept')] = m /\ kept' # <<>>
      /\ \A i \in DOMAIN ledger : ledger[i].scope # kept'
      /\ \A p \in ran : p[1] # kept'
  BY <1>1, <1>2, SayFits DEF LoopInv
<1> QED BY <1>2, <1>3 DEF Open

LEMMA PromptFits == ASSUME LoopInv, Prompt PROVE LoopInv'
<1>1. /\ stage = "prompt" /\ said = kept /\ ledger' = ledger /\ ran' = ran /\ repeated' = repeated
      /\ incidents' = incidents
  BY DEF Prompt, boundVars, LoopInv, RunFits
<1>2. CASE Balanced(said)
  <2>1. ~Open(kept)
    <3>1. kept \in Seq(Messages)
      BY DEF LoopInv, KeptFits
    <3>2. kept # <<>> => Len(kept) \in DOMAIN kept /\ Len(kept) \in Nat
      BY <3>1
    <3> QED BY <1>1, <1>2, <3>2 DEF Balanced, Open
  <2>2. Say(User) /\ stage' = "turn" /\ UNCHANGED runVars
    BY <1>2 DEF Prompt
  <2>3. KeptFits' /\ LedgerFits' /\ said' = kept' /\ ~Open(kept)'
    BY <1>1, <2>1, <2>2, SaysFits, Saying
  <2>4. RunFits' /\ RoundFits'
    BY <1>1, <2>2, <2>3, QuietFits, CountersRest DEF runVars, Before, Quiet
  <2> QED BY <2>3, <2>4 DEF LoopInv
<1>3. CASE ~Balanced(said)
  BY <1>1, <1>3, OverFits DEF Prompt
<1> QED BY <1>2, <1>3

LEMMA TurnFits == ASSUME LoopInv, Turn PROVE LoopInv'
<1>1. /\ stage = "turn" /\ said = kept /\ ledger' = ledger /\ ran' = ran /\ repeated' = repeated
      /\ ~Open(kept)
  BY DEF Turn, LoopInv, RunFits, Quiet
<1>2. \/ Over /\ kept' = kept /\ incidents' = incidents
      \/ /\ counters.turn # MaxTurns /\ stage' = "fold" /\ UNCHANGED runVars
         /\ Aside \/ UNCHANGED <<said, kept, incidents>>
  BY DEF Turn
<1>3. CASE Over /\ kept' = kept /\ incidents' = incidents
  BY <1>1, <1>3, OverFits
<1>4. CASE /\ counters.turn # MaxTurns /\ stage' = "fold" /\ UNCHANGED runVars
           /\ Aside \/ UNCHANGED <<said, kept, incidents>>
  <2>1. KeptFits' /\ LedgerFits' /\ said' = kept' /\ ~Open(kept)'
    <3>1. CASE Aside
      BY <1>1, <3>1, SaysFits, Saying DEF Aside
    <3>2. CASE UNCHANGED <<said, kept, incidents>>
      BY <1>1, <3>2, StillFits DEF LoopInv, KeptFits, Open
    <3> QED BY <1>4, <3>1, <3>2
  <2>2. counters'.turn < MaxTurns
    BY <1>4, Bounds DEF runVars, LoopInv, RunFits
  <2>3. RunFits' /\ RoundFits'
    BY <1>1, <1>4, <2>1, <2>2, QuietFits, CountersRest DEF runVars, Before, Quiet
  <2> QED BY <2>1, <2>3 DEF LoopInv
<1> QED BY <1>2, <1>3, <1>4

LEMMA ThresholdFits == ASSUME LoopInv, Threshold PROVE LoopInv'
<1>1. /\ stage = "fold" /\ stage' = "ask" /\ said = kept /\ ledger' = ledger /\ ran' = ran
      /\ repeated' = repeated /\ ~Open(kept) /\ UNCHANGED runVars
  BY DEF Threshold, LoopInv, RunFits, Quiet
<1>2. KeptFits' /\ LedgerFits' /\ said' = kept' /\ ~Open(kept)'
  <2>1. CASE Fold
    BY <1>1, <2>1, FoldFits DEF LoopInv
  <2>2. CASE UNCHANGED <<said, kept, incidents>>
    BY <1>1, <2>2, StillFits DEF LoopInv, KeptFits, Open
  <2> QED BY <2>1, <2>2 DEF Threshold
<1>3. counters'.turn < MaxTurns
  BY <1>1 DEF runVars, LoopInv, RunFits
<1>4. RunFits' /\ RoundFits'
  BY <1>1, <1>2, <1>3, QuietFits, CountersRest DEF runVars, Before, Quiet
<1> QED BY <1>2, <1>4 DEF LoopInv

LEMMA OverflowFits == ASSUME LoopInv, Overflow PROVE LoopInv'
<1>1. /\ stage = "ask" /\ stage' = "ask" /\ ledger' = ledger /\ ran' = ran /\ reply' = reply
      /\ repeated' = repeated /\ results' = results /\ stopped' = stopped /\ Fold
      /\ counters.shrunk < MaxShrinks /\ counters' = [counters EXCEPT !.shrunk = @ + 1]
  BY DEF Overflow
<1>2. KeptFits' /\ LedgerFits' /\ said' = kept' /\ ~Open(kept)'
  BY <1>1, FoldFits DEF LoopInv
<1>3. /\ counters' \in [turn : 0 .. MaxTurns, more : 0 .. MaxContinuations, shrunk : 0 .. MaxShrinks]
      /\ counters'.turn < MaxTurns
  BY <1>1, Bounds DEF LoopInv, RunFits
<1>4. RunFits' /\ RoundFits'
  BY <1>1, <1>2, <1>3, QuietFits DEF Before, Quiet
<1> QED BY <1>2, <1>4 DEF LoopInv

\* The reply is said before it is acted on; its calls are new to the journal.
LEMMA ReplyFits == ASSUME LoopInv, NEW r \in Replies, Reply(r) PROVE LoopInv'
<1>1. /\ stage = "ask" /\ said = kept /\ ~Open(kept) /\ results = <<>>
      /\ stage' = "said" /\ reply' = r /\ counters' = [counters EXCEPT !.shrunk = 0]
      /\ ledger' = ledger /\ ran' = ran /\ repeated' = repeated /\ results' = results /\ stopped' = stopped
      /\ incidents' = incidents
  BY DEF Reply, boundVars, LoopInv, RunFits, Quiet, Before
<1>2. r.calls \in Nat
  BY Bounds
<1>3. \/ KeepsCalls(r) /\ Say(Calls(r.calls))
      \/ ~KeepsCalls(r) /\ Say(Text)
      \/ ~KeepsCalls(r) /\ UNCHANGED <<said, kept>>
  BY Zenon DEF Reply
<1>4. /\ KeptFits' /\ LedgerFits' /\ said' = kept'
      /\ KeepsCalls(r) => /\ kept' # <<>> /\ kept'[Len(kept')].what = "calls" /\ kept'[Len(kept')].n = r.calls
                          /\ \A i \in DOMAIN ledger : ledger[i].scope # kept'
                          /\ \A p \in ran : p[1] # kept'
      /\ ~KeepsCalls(r) => ~Open(kept)'
  <2>1. CASE KeepsCalls(r) /\ Say(Calls(r.calls))
    <3>1. Calls(r.calls) \in Messages /\ Calls(r.calls).what = "calls" /\ Calls(r.calls).n = r.calls
      BY <1>2, Saying
    <3> QED BY <1>1, <2>1, <3>1, SaysFits
  <2>2. CASE ~KeepsCalls(r) /\ Say(Text)
    BY <1>1, <2>2, SaysFits, Saying
  <2>3. CASE ~KeepsCalls(r) /\ UNCHANGED <<said, kept>>
    BY <1>1, <2>3, StillFits DEF LoopInv, KeptFits, Open
  <2> QED BY <1>3, <2>1, <2>2, <2>3
<1>5. /\ counters' \in [turn : 0 .. MaxTurns, more : 0 .. MaxContinuations, shrunk : 0 .. MaxShrinks]
      /\ counters'.turn < MaxTurns
  BY <1>1, Bounds DEF LoopInv, RunFits
<1>6. results' = <<>> /\ results' \in Seq({"ran", "refused"}) /\ stopped' \in BOOLEAN /\ repeated' = FALSE
  <2>1. stopped' \in BOOLEAN /\ repeated' = FALSE
    BY <1>1, Zenon DEF LoopInv, RunFits
  <2> QED BY <1>1, <2>1
<1>7. stage' \in Stages /\ stage' \notin Quiet /\ stage' \notin Before /\ stage' # "idle" /\ stage' = "said"
  BY <1>1 DEF Stages, Quiet, Before
<1>8. RunFits'
  BY ONLY <1>1, <1>4, <1>5, <1>6, <1>7, r \in Replies DEF RunFits
<1>9. RoundFits'
  BY <1>1, <1>4 DEF RoundFits, OpenFor, Working, Ended, KeepsCalls
<1> QED BY <1>4, <1>8, <1>9 DEF LoopInv

LEMMA AbortedFits == ASSUME LoopInv, Aborted PROVE LoopInv'
BY OverFits DEF Aborted, boundVars

LEMMA ContinueFits == ASSUME LoopInv, Continue PROVE LoopInv'
<1>1. /\ stage = "said" /\ said = kept /\ reply.reason = "max-tokens" /\ counters.more < MaxContinuations
      /\ counters.turn < MaxTurns /\ Say(User) /\ NextTurn(1)
      /\ ledger' = ledger /\ ran' = ran /\ repeated' = repeated /\ incidents' = incidents
  BY DEF Continue, CutOff, boundVars, LoopInv, RunFits
<1>2. ~Open(kept)
  BY <1>1 DEF LoopInv, RoundFits, KeepsCalls
<1>3. KeptFits' /\ LedgerFits' /\ said' = kept' /\ ~Open(kept)'
  BY <1>1, <1>2, SaysFits, Saying
<1>4. counters.more + 1 <= MaxContinuations
  BY <1>1, Bounds DEF LoopInv, RunFits
<1>5. RunFits' /\ RoundFits'
  BY <1>1, <1>3, <1>4, NextTurnFits DEF LoopInv
<1> QED BY <1>3, <1>5 DEF LoopInv

LEMMA StoppingFits == ASSUME LoopInv, Stopping PROVE LoopInv'
<1>1. /\ stage = "said" /\ said = kept /\ reply.reason # "tool-use" /\ reply \in Replies
      /\ counters.turn < MaxTurns
      /\ ledger' = ledger /\ ran' = ran /\ repeated' = repeated
  BY DEF Stopping, LoopInv, RunFits, Before
<1>2. ~Open(kept)
  <2>1. ~KeepsCalls(reply)
    BY <1>1, AgentLoopAssumption DEF KeepsCalls
  <2> QED BY <1>1, <2>1 DEF LoopInv, RoundFits
<1>3. CASE Aside /\ NextTurn(0)
  <2>1. KeptFits' /\ LedgerFits' /\ said' = kept' /\ ~Open(kept)'
    BY <1>1, <1>2, <1>3, SaysFits, Saying DEF Aside
  <2>2. counters.more + 0 <= MaxContinuations
    BY Bounds DEF LoopInv, RunFits
  <2>3. RunFits' /\ RoundFits'
    BY <1>1, <1>3, <2>1, <2>2, NextTurnFits DEF LoopInv
  <2> QED BY <2>1, <2>3 DEF LoopInv
<1>4. CASE Over /\ UNCHANGED <<kept, incidents>>
  BY <1>1, <1>4, OverFits
<1> QED BY <1>3, <1>4 DEF Stopping

LEMMA CallToolsFits == ASSUME LoopInv, CallTools PROVE LoopInv'
<1>1. /\ stage = "said" /\ reply.reason = "tool-use" /\ reply \in Replies
      /\ kept' = kept /\ ledger' = ledger /\ ran' = ran /\ repeated' = repeated /\ incidents' = incidents
  BY DEF CallTools, boundVars, LoopInv, RunFits, Before
<1>2. CASE reply.calls = 0
  BY <1>1, <1>2, OverFits DEF CallTools
<1>3. CASE reply.calls # 0
  <2>1. /\ stage' = "call" /\ results' = <<>> /\ said' = said /\ reply' = reply /\ counters' = counters
        /\ stopped' = stopped
    BY <1>3 DEF CallTools
  <2>2. reply.calls \in Nat /\ KeepsCalls(reply)
    BY <1>1, <1>3, Bounds DEF KeepsCalls
  <2>3. KeptFits' /\ LedgerFits'
    BY <1>1, StillFits DEF LoopInv, KeptFits
  <2>4. stage' \in Stages /\ stage' \notin Before /\ stage' \notin Quiet /\ stage' # "said"
    BY <2>1 DEF Stages, Before, Quiet
  <2>5. results' \in Seq({"ran", "refused"}) /\ stage \notin Before /\ stage # "idle"
    BY <1>1, <2>1 DEF Before
  <2>6. RunFits'
    BY <1>1, <2>1, <2>4, <2>5, Zenon DEF LoopInv, RunFits
  <2>7. RoundFits'
    BY <1>1, <1>3, <2>1, <2>2 DEF LoopInv, RoundFits, OpenFor, Working, Ended
  <2> QED BY <2>3, <2>6, <2>7 DEF LoopInv
<1> QED BY <1>2, <1>3

\* What holds of a run in a round, whatever it does next.
LEMMA InRound ==
  ASSUME LoopInv, stage \in Working \cup {"call", "results"}
  PROVE  /\ said = kept /\ reply \in Replies /\ reply.calls \in Nat /\ Len(results) \in Nat
         /\ results \in Seq({"ran", "refused"}) /\ DOMAIN results = 1 .. Len(results)
         /\ stopped \in BOOLEAN /\ repeated = FALSE
         /\ counters \in [turn : 0 .. MaxTurns, more : 0 .. MaxContinuations, shrunk : 0 .. MaxShrinks]
         /\ counters.turn < MaxTurns /\ OpenFor(reply.calls)
         /\ kept \in Seq(Messages) /\ kept # <<>> /\ Use = Len(results) + 1
<1>1. stage \notin Before /\ stage \notin {"idle", "recover", "prompt", "turn"}
  BY DEF Working, Before
<1>2. said = kept /\ reply \in Replies /\ results \in Seq({"ran", "refused"}) /\ counters.turn < MaxTurns
  BY <1>1 DEF LoopInv, RunFits
<1>3. stopped \in BOOLEAN /\ repeated = FALSE
  BY Zenon DEF LoopInv, RunFits
<1>4. OpenFor(reply.calls) /\ kept # <<>> /\ kept \in Seq(Messages)
  BY DEF LoopInv, RoundFits, OpenFor, KeptFits
<1>5. counters \in [turn : 0 .. MaxTurns, more : 0 .. MaxContinuations, shrunk : 0 .. MaxShrinks]
  BY DEF LoopInv, RunFits
<1>6. reply.calls \in Nat /\ Len(results) \in Nat /\ DOMAIN results = 1 .. Len(results)
  BY <1>2, Bounds
<1> QED BY <1>2, <1>3, <1>4, <1>5, <1>6 DEF Use

\* The run goes on in its round with the same reply.
LEMMA RoundGoesOn ==
  ASSUME LoopInv, stage \in Working \cup {"call", "results"}, stage' \in Working \cup {"call", "results"},
         said' = said, kept' = kept, reply' = reply, counters' = counters, stopped' \in BOOLEAN,
         repeated' = FALSE, results' \in Seq({"ran", "refused"})
  PROVE  RunFits'
<1>1. stage' \in Stages /\ stage' \notin Before /\ stage' \notin Quiet /\ stage' # "said" /\ stage' # "idle"
  BY DEF Stages, Before, Quiet, Working
<1> QED BY <1>1, InRound DEF RunFits

\* A call has its result: the next one follows, or the round is over.
LEMMA NoteFits ==
  ASSUME LoopInv, stage \in Working \cup {"call"}, NEW o \in {"ran", "refused"}, Note(o),
         o = "ran" <=> <<kept, Use>> \in ran,
         kept' = kept, said' = said, ran' = ran, reply' = reply, counters' = counters, stopped' = stopped,
         repeated' = repeated, DOMAIN ledger' = DOMAIN ledger,
         \A i \in DOMAIN ledger : ledger'[i].scope = ledger[i].scope /\ ledger'[i].call = ledger[i].call
  PROVE  RunFits' /\ RoundFits'
<1> DEFINE use == Len(results) + 1
<1>1. /\ results' = Append(results, o) /\ stage' = IF use = reply.calls THEN "results" ELSE "call"
      /\ Use = use
  BY DEF Note, Use
<1>2. /\ reply.calls \in Nat /\ Len(results) \in Nat /\ results \in Seq({"ran", "refused"})
      /\ stopped \in BOOLEAN /\ repeated = FALSE /\ OpenFor(reply.calls) /\ DOMAIN results = 1 .. Len(results)
  BY InRound
<1>3. /\ results' \in Seq({"ran", "refused"}) /\ Len(results') = use /\ results'[use] = o
      /\ DOMAIN results' = 1 .. use /\ \A c \in 1 .. Len(results) : results'[c] = results[c]
  BY <1>1, <1>2
<1>4. RunFits'
  BY <1>1, <1>2, <1>3, RoundGoesOn DEF Working
<1>5. /\ Len(results) < reply.calls
      /\ \A c \in DOMAIN results : results[c] = "ran" <=> <<kept, c>> \in ran
      /\ \A p \in ran : p[1] = kept => p[2] \in DOMAIN results \/ (p[2] = Use /\ stage \in Ended)
      /\ \A i \in DOMAIN ledger : ledger[i].scope = kept =>
           ledger[i].call \in DOMAIN results \/ (i = Len(ledger) /\ stage \in Working)
      /\ stage \in Working => ledger[Len(ledger)].call = Use
  BY DEF LoopInv, RoundFits, Working
<1>6. OpenFor(reply.calls)' /\ (IF stage' = "results" THEN Len(results') = reply'.calls ELSE Len(results') < reply'.calls)
  BY <1>1, <1>2, <1>3, <1>5 DEF OpenFor
<1>7. \A c \in DOMAIN results' : results'[c] = "ran" <=> <<kept, c>> \in ran
  <2> TAKE c \in DOMAIN results'
  <2>1. c = use \/ c \in 1 .. Len(results)
    BY <1>2, <1>3
  <2> QED BY <1>1, <1>2, <1>3, <1>5, <2>1
<1>8. \A p \in ran : p[1] = kept => p[2] \in DOMAIN results'
  BY <1>1, <1>2, <1>3, <1>5
<1>9. \A i \in DOMAIN ledger : ledger[i].scope = kept => ledger[i].call \in DOMAIN results'
  BY <1>1, <1>2, <1>3, <1>5
<1>10. \A i \in DOMAIN ledger' : ledger'[i].scope = kept' => ledger'[i].call \in DOMAIN results'
  BY <1>9
<1>11. stage' \in {"call", "results"}
  BY <1>1
<1>12. RoundFits'
  BY ONLY <1>6, <1>7, <1>8, <1>10, <1>11, kept' = kept, ran' = ran DEF RoundFits, Working, Ended
<1> QED BY <1>4, <1>12

LEMMA SettledIs ==
  ASSUME NEW e \in Entries, NEW o \in {"ran", "refused"}
  PROVE  /\ Settled(e, o) \in Entries /\ Settled(e, o).state = "settled" /\ Settled(e, o).outcome = o
         /\ Settled(e, o).scope = e.scope /\ Settled(e, o).call = e.call
<1>1. PICK c \in Nat, s \in Seq(Messages), t \in {"intended", "dispatched", "settled"}, u \in {"none", "ran", "refused"} :
        e = [call |-> c, scope |-> s, state |-> t, outcome |-> u]
  BY DEF Entries
<1>2. Settled(e, o) = [call |-> c, scope |-> s, state |-> "settled", outcome |-> o]
  <2> DEFINE marked == [e EXCEPT !.state = "settled"]
  <2>1. marked = [call |-> c, scope |-> s, state |-> "settled", outcome |-> u]
    BY <1>1
  <2>2. Settled(e, o) = [marked EXCEPT !.outcome = o]
    BY Zenon DEF Settled
  <2> HIDE DEF marked
  <2> QED BY <2>1, <2>2
<1> QED BY <1>1, <1>2 DEF Entries

\* The last entry is settled with the truth.
LEMMA SettleFits ==
  ASSUME LedgerFits, ledger # <<>>, NEW o \in {"ran", "refused"}, SettleCall(o), kept' = kept, ran' = ran,
         o = "ran" <=> <<ledger[Len(ledger)].scope, ledger[Len(ledger)].call>> \in ran
  PROVE  /\ LedgerFits' /\ DOMAIN ledger' = DOMAIN ledger /\ Len(ledger') = Len(ledger) /\ ledger' # <<>>
         /\ \A i \in DOMAIN ledger : ledger'[i].scope = ledger[i].scope /\ ledger'[i].call = ledger[i].call
<1> DEFINE n == Len(ledger)
<1>1. ledger \in Seq(Entries) /\ n \in Nat /\ n \in DOMAIN ledger /\ DOMAIN ledger = 1 .. n /\ ledger[n] \in Entries
  BY DEF LedgerFits
<1>2. ledger' = [ledger EXCEPT ![n] = Settled(ledger[n], o)]
  BY DEF SettleCall, Invocation
<1> HIDE DEF n
<1>3. /\ Settled(ledger[n], o) \in Entries /\ Settled(ledger[n], o).state = "settled"
      /\ Settled(ledger[n], o).outcome = o
      /\ Settled(ledger[n], o).scope = ledger[n].scope /\ Settled(ledger[n], o).call = ledger[n].call
  BY <1>1, SettledIs
<1>4. /\ ledger' \in Seq(Entries) /\ Len(ledger') = n /\ DOMAIN ledger' = DOMAIN ledger
      /\ ledger'[n] = Settled(ledger[n], o)
      /\ \A i \in DOMAIN ledger : i # n => ledger'[i] = ledger[i]
  BY <1>1, <1>2, <1>3
<1>5. \A i \in DOMAIN ledger : ledger'[i].scope = ledger[i].scope /\ ledger'[i].call = ledger[i].call
  BY <1>3, <1>4
<1>6. \A i \in DOMAIN ledger : ledger'[i].state = "settled" =>
        /\ ledger'[i].outcome # "none"
        /\ ledger'[i].outcome = "ran" <=> <<ledger[i].scope, ledger[i].call>> \in ran
  <2> SUFFICES ASSUME NEW i \in DOMAIN ledger, ledger'[i].state = "settled"
               PROVE  /\ ledger'[i].outcome # "none"
                      /\ ledger'[i].outcome = "ran" <=> <<ledger[i].scope, ledger[i].call>> \in ran
    OBVIOUS
  <2>1. CASE i = n
    BY <1>3, <1>4, <2>1 DEF n
  <2>2. CASE i # n
    BY <1>4, <2>2 DEF LedgerFits
  <2> QED BY <2>1, <2>2
<1>7. ran \subseteq Seq(Messages) \X Nat /\ \A p \in ran : Reached(p[1], kept)
  BY DEF LedgerFits
<1>8. \A i \in DOMAIN ledger : Reached(ledger[i].scope, kept)
  BY DEF LedgerFits
<1>9. \A i, j \in DOMAIN ledger : ledger[i].call = ledger[j].call /\ ledger[i].scope = ledger[j].scope => i = j
  BY DEF LedgerFits
<1>10. LedgerFits'
  <2>1. \A i, j \in DOMAIN ledger' : ledger'[i].call = ledger'[j].call /\ ledger'[i].scope = ledger'[j].scope => i = j
    BY <1>4, <1>5, <1>9
  <2>2. \A i \in DOMAIN ledger' :
          /\ Reached(ledger'[i].scope, kept')
          /\ ledger'[i].state = "settled" =>
               /\ ledger'[i].outcome # "none"
               /\ ledger'[i].outcome = "ran" <=> <<ledger'[i].scope, ledger'[i].call>> \in ran'
    BY <1>4, <1>5, <1>6, <1>8
  <2>3. ran' \subseteq Seq(Messages) \X Nat /\ \A p \in ran' : Reached(p[1], kept')
    BY <1>7
  <2> QED BY ONLY <1>4, <2>1, <2>2, <2>3 DEF LedgerFits
<1> QED BY <1>1, <1>4, <1>5, <1>10 DEF n

LEMMA RefuseFits == ASSUME LoopInv, Refuse PROVE LoopInv'
<1>1. /\ stage = "call" /\ Note("refused") /\ (incidents' = incidents \/ Incident)
      /\ kept' = kept /\ ledger' = ledger /\ said' = said /\ reply' = reply /\ counters' = counters
      /\ stopped' = stopped /\ ran' = ran /\ repeated' = repeated
  BY DEF Refuse, Hindered
<1>2. incidents' \in Nat /\ incidents' >= incidents
  BY <1>1, IncidentIs DEF LoopInv, KeptFits
<1>3. KeptFits' /\ LedgerFits'
  BY <1>1, <1>2, StillFits DEF LoopInv
<1>4. <<kept, Use>> \notin ran
  <2>1. Use \notin DOMAIN results /\ stage \notin Ended
    BY <1>1, InRound DEF Ended
  <2> QED BY <1>1, <2>1 DEF LoopInv, RoundFits
<1>5. RunFits' /\ RoundFits'
  BY <1>1, <1>4, NoteFits
<1> QED BY <1>3, <1>5 DEF LoopInv

LEMMA WithdrawFits == ASSUME LoopInv, Withdraw PROVE LoopInv'
<1>1. /\ stage \in {"intended", "dispatched"} /\ stage \in Working /\ stage \notin Ended
      /\ SettleCall("refused") /\ Note("refused") /\ (incidents' = incidents \/ Incident)
      /\ kept' = kept /\ said' = said /\ reply' = reply /\ counters' = counters
      /\ stopped' = stopped /\ ran' = ran /\ repeated' = repeated
  BY DEF Withdraw, Hindered, Working, Ended
<1>2. incidents' \in Nat /\ incidents' >= incidents
  BY <1>1, IncidentIs DEF LoopInv, KeptFits
<1>3. KeptFits'
  BY <1>1, <1>2, KeptStill DEF LoopInv
<1>4. <<kept, Use>> \notin ran
  <2>1. Use \notin DOMAIN results
    BY <1>1, InRound
  <2> QED BY <1>1, <2>1 DEF LoopInv, RoundFits
<1>5. ledger # <<>> /\ ledger[Len(ledger)].scope = kept /\ ledger[Len(ledger)].call = Use
  BY <1>1 DEF LoopInv, RoundFits
<1>6. /\ LedgerFits' /\ DOMAIN ledger' = DOMAIN ledger
      /\ \A i \in DOMAIN ledger : ledger'[i].scope = ledger[i].scope /\ ledger'[i].call = ledger[i].call
  BY <1>1, <1>4, <1>5, SettleFits DEF LoopInv
<1>7. RunFits' /\ RoundFits'
  BY <1>1, <1>4, <1>6, NoteFits
<1> QED BY <1>3, <1>6, <1>7 DEF LoopInv

LEMMA IntendFits == ASSUME LoopInv, Intend PROVE LoopInv'
<1> DEFINE n == Len(ledger)
<1> DEFINE e == [call |-> Use, scope |-> said, state |-> "intended", outcome |-> "none"]
<1>1. /\ stage = "call" /\ stage' = "intended" /\ kept' = kept /\ said' = said /\ reply' = reply
      /\ results' = results /\ counters' = counters /\ stopped' = stopped /\ ran' = ran /\ repeated' = repeated
      /\ incidents' = incidents /\ ledger' = Append(ledger, e)
  BY DEF Intend, runVars, boundVars
<1>2. /\ said = kept /\ kept \in Seq(Messages) /\ Len(results) \in Nat /\ DOMAIN results = 1 .. Len(results)
      /\ Use = Len(results) + 1 /\ Use \in Nat /\ results \in Seq({"ran", "refused"})
      /\ stopped \in BOOLEAN /\ repeated = FALSE
  BY <1>1, InRound
<1>3. e \in Entries /\ e.scope = kept /\ e.call = Use /\ e.state = "intended"
  BY <1>2 DEF Entries
<1> HIDE DEF e
<1>4. /\ ledger' \in Seq(Entries) /\ n \in Nat /\ Len(ledger') = n + 1 /\ ledger'[n + 1] = e
      /\ DOMAIN ledger = 1 .. n /\ DOMAIN ledger' = 1 .. n + 1 /\ ledger' # <<>>
      /\ \A i \in 1 .. n : ledger'[i] = ledger[i]
  BY <1>1, <1>3 DEF LoopInv, LedgerFits
<1> HIDE DEF n
<1>5. \A i \in 1 .. n : ledger[i].scope = kept => ledger[i].call \in DOMAIN results
  BY <1>1, <1>4 DEF LoopInv, RoundFits, Working
<1>6. KeptFits'
  BY <1>1, KeptStill DEF LoopInv, KeptFits
<1>7. LedgerFits'
  <2>1. \A i, j \in 1 .. n : ledger[i].call = ledger[j].call /\ ledger[i].scope = ledger[j].scope => i = j
    BY <1>4 DEF LoopInv, LedgerFits
  <2>2. \A i \in 1 .. n : ~(ledger[i].call = Use /\ ledger[i].scope = kept)
    BY <1>2, <1>5
  <2>3. \A i, j \in 1 .. n + 1 :
          ledger'[i].call = ledger'[j].call /\ ledger'[i].scope = ledger'[j].scope => i = j
    <3> SUFFICES ASSUME NEW i \in 1 .. n + 1, NEW j \in 1 .. n + 1,
                        ledger'[i].call = ledger'[j].call, ledger'[i].scope = ledger'[j].scope
                 PROVE  i = j
      OBVIOUS
    <3>1. (i \in 1 .. n \/ i = n + 1) /\ (j \in 1 .. n \/ j = n + 1)
      BY <1>4
    <3> QED BY <1>3, <1>4, <2>1, <2>2, <3>1
  <2>4. Reached(kept, kept) /\ \A i \in 1 .. n : Reached(ledger[i].scope, kept)
    <3>1. Reached(kept, kept)
      BY <1>2 DEF Reached
    <3> QED BY <1>4, <3>1 DEF LoopInv, LedgerFits
  <2>5. \A i \in 1 .. n + 1 :
          /\ Reached(ledger'[i].scope, kept')
          /\ ledger'[i].state = "settled" =>
               /\ ledger'[i].outcome # "none"
               /\ ledger'[i].outcome = "ran" <=> <<ledger'[i].scope, ledger'[i].call>> \in ran'
    <3> TAKE i \in 1 .. n + 1
    <3>1. CASE i = n + 1
      BY <1>1, <1>3, <1>4, <2>4, <3>1
    <3>2. CASE i \in 1 .. n
      BY <1>1, <1>4, <2>4, <3>2 DEF LoopInv, LedgerFits
    <3>3. i \in 1 .. n \/ i = n + 1
      BY <1>4
    <3> QED BY <3>1, <3>2, <3>3
  <2>6. ran' \subseteq Seq(Messages) \X Nat /\ \A p \in ran' : Reached(p[1], kept')
    BY <1>1 DEF LoopInv, LedgerFits
  <2> QED BY ONLY <1>4, <2>3, <2>5, <2>6 DEF LedgerFits
<1>8. RunFits'
  BY <1>1, <1>2, RoundGoesOn DEF Working
<1>9. RoundFits'
  <2>1. OpenFor(reply.calls)' /\ Len(results') < reply'.calls
    BY <1>1 DEF LoopInv, RoundFits, OpenFor
  <2>2. /\ \A c \in DOMAIN results' : results'[c] = "ran" <=> <<kept', c>> \in ran'
        /\ \A p \in ran' : p[1] = kept' => p[2] \in DOMAIN results'
    BY <1>1 DEF LoopInv, RoundFits, Ended
  <2>3. \A i \in DOMAIN ledger' : ledger'[i].scope = kept' => ledger'[i].call \in DOMAIN results' \/ i = Len(ledger')
    BY <1>1, <1>4, <1>5
  <2>4. ledger'[Len(ledger')].scope = kept' /\ ledger'[Len(ledger')].call = Use' /\ ledger'[Len(ledger')].state # "settled"
    BY <1>1, <1>3, <1>4 DEF Use
  <2> QED BY ONLY <1>1, <1>4, <2>1, <2>2, <2>3, <2>4 DEF RoundFits, Working, Ended
<1> QED BY <1>6, <1>7, <1>8, <1>9 DEF LoopInv

LEMMA DispatchFits == ASSUME LoopInv, Dispatch PROVE LoopInv'
<1> DEFINE n == Len(ledger)
<1>1. /\ stage = "intended" /\ stage' = "dispatched" /\ kept' = kept /\ said' = said /\ reply' = reply
      /\ results' = results /\ counters' = counters /\ stopped' = stopped /\ ran' = ran /\ repeated' = repeated
      /\ incidents' = incidents
      /\ ledger' = [ledger EXCEPT ![n].state = "dispatched"]
  BY DEF Dispatch, Invocation, runVars, boundVars
<1>2. /\ ledger # <<>> /\ ledger[n].scope = kept /\ ledger[n].call = Use /\ ledger \in Seq(Entries)
  BY <1>1 DEF LoopInv, RoundFits, LedgerFits, Working
<1>3. /\ n \in Nat /\ n \in 1 .. n /\ DOMAIN ledger = 1 .. n /\ ledger[n] \in Entries
  BY <1>2
<1>4. /\ ledger' \in Seq(Entries) /\ Len(ledger') = n /\ DOMAIN ledger' = 1 .. n /\ ledger' # <<>>
      /\ ledger'[n].state = "dispatched" /\ ledger'[n].scope = kept /\ ledger'[n].call = Use
      /\ \A i \in 1 .. n : i # n => ledger'[i] = ledger[i]
  <2> DEFINE e == [ledger[n] EXCEPT !.state = "dispatched"]
  <2>1. e \in Entries /\ e.state = "dispatched" /\ e.scope = kept /\ e.call = Use
    BY <1>2, <1>3 DEF Entries
  <2>2. ledger' = [ledger EXCEPT ![n] = e]
    BY <1>1
  <2> HIDE DEF e, n
  <2> QED BY <1>2, <1>3, <2>1, <2>2
<1> HIDE DEF n
<1>5. KeptFits'
  BY <1>1, KeptStill DEF LoopInv, KeptFits
<1>6. \A i \in 1 .. n : ledger'[i].scope = ledger[i].scope /\ ledger'[i].call = ledger[i].call
  BY <1>2, <1>4
<1>7. LedgerFits'
  <2>1. \A i, j \in 1 .. n : ledger'[i].call = ledger'[j].call /\ ledger'[i].scope = ledger'[j].scope => i = j
    BY <1>3, <1>6 DEF LoopInv, LedgerFits
  <2>2. \A i \in 1 .. n :
          /\ Reached(ledger'[i].scope, kept')
          /\ ledger'[i].state = "settled" =>
               /\ ledger'[i].outcome # "none"
               /\ ledger'[i].outcome = "ran" <=> <<ledger'[i].scope, ledger'[i].call>> \in ran'
    <3> TAKE i \in 1 .. n
    <3>1. Reached(ledger'[i].scope, kept')
      BY <1>1, <1>3, <1>6 DEF LoopInv, LedgerFits
    <3>2. CASE i = n
      BY <1>4, <3>1, <3>2
    <3>3. CASE i # n
      BY <1>1, <1>3, <1>4, <3>1, <3>3 DEF LoopInv, LedgerFits
    <3> QED BY <3>2, <3>3
  <2>3. ran' \subseteq Seq(Messages) \X Nat /\ \A p \in ran' : Reached(p[1], kept')
    BY <1>1 DEF LoopInv, LedgerFits
  <2> QED BY ONLY <1>4, <2>1, <2>2, <2>3 DEF LedgerFits
<1>8. /\ results \in Seq({"ran", "refused"}) /\ stopped \in BOOLEAN /\ repeated = FALSE
  BY <1>1, InRound DEF Working
<1>9. RunFits'
  BY <1>1, <1>8, RoundGoesOn DEF Working
<1>10. RoundFits'
  <2>1. OpenFor(reply.calls)' /\ Len(results') < reply'.calls
    BY <1>1 DEF LoopInv, RoundFits, OpenFor, Working
  <2>2. /\ \A c \in DOMAIN results' : results'[c] = "ran" <=> <<kept', c>> \in ran'
        /\ \A p \in ran' : p[1] = kept' => p[2] \in DOMAIN results'
    BY <1>1 DEF LoopInv, RoundFits, Ended, Working
  <2>3. \A i \in 1 .. n : ledger[i].scope = kept => ledger[i].call \in DOMAIN results \/ i = n
    BY <1>1, <1>3 DEF LoopInv, RoundFits, Working, n
  <2>4. \A i \in DOMAIN ledger' : ledger'[i].scope = kept' => ledger'[i].call \in DOMAIN results' \/ i = Len(ledger')
    BY <1>1, <1>4, <1>6, <2>3
  <2>5. ledger'[Len(ledger')].scope = kept' /\ ledger'[Len(ledger')].call = Use' /\ ledger'[Len(ledger')].state # "settled"
    BY <1>1, <1>4 DEF Use
  <2> QED BY ONLY <1>1, <1>4, <2>1, <2>2, <2>4, <2>5 DEF RoundFits, Working, Ended
<1> QED BY <1>5, <1>7, <1>9, <1>10 DEF LoopInv

\* A call is executed at a place of the conversation where it was not before.
LEMMA ExecuteFits == ASSUME LoopInv, Execute PROVE LoopInv'
<1>1. /\ stage = "dispatched" /\ stage' \in {"done", "failed"} /\ kept' = kept /\ ledger' = ledger /\ said' = said
      /\ reply' = reply /\ results' = results /\ counters' = counters /\ stopped' = stopped /\ incidents' = incidents
      /\ ran' = ran \cup {<<said, Use>>}
  BY DEF Execute, runVars, boundVars
<1>2. /\ said = kept /\ kept \in Seq(Messages) /\ kept # <<>> /\ Len(results) \in Nat /\ DOMAIN results = 1 .. Len(results)
      /\ Use = Len(results) + 1 /\ Use \in Nat /\ results \in Seq({"ran", "refused"}) /\ stopped \in BOOLEAN
      /\ repeated = FALSE
  BY <1>1, InRound DEF Working
<1>3. /\ Len(results) < reply.calls /\ OpenFor(reply.calls)
      /\ \A c \in DOMAIN results : results[c] = "ran" <=> <<kept, c>> \in ran
      /\ \A p \in ran : p[1] = kept => p[2] \in DOMAIN results
      /\ \A i \in DOMAIN ledger : ledger[i].scope = kept => ledger[i].call \in DOMAIN results \/ i = Len(ledger)
      /\ ledger # <<>> /\ ledger[Len(ledger)].scope = kept /\ ledger[Len(ledger)].call = Use
      /\ ledger[Len(ledger)].state # "settled"
  BY <1>1 DEF LoopInv, RoundFits, Working, Ended
<1>4. <<said, Use>> \notin ran
  BY <1>2, <1>3
<1>5. repeated' = FALSE
  BY <1>2, <1>4, Zenon DEF Execute
<1>6. KeptFits'
  <2>1. RoundsAreClosed'
    BY <1>1 DEF LoopInv, KeptFits, RoundsAreClosed
  <2>2. ASSUME NEW i \in DOMAIN kept PROVE SubSeq(kept, 1, i - 1) # kept
    <3>1. i \in 1 .. Len(kept) /\ Len(kept) \in Nat
      BY <1>2
    <3>2. Len(SubSeq(kept, 1, i - 1)) = i - 1
      BY <1>2, <3>1
    <3> QED BY <3>1, <3>2
  <2>3. ResultsAreTrue'
    BY <1>1, <1>2, <2>2 DEF LoopInv, KeptFits, ResultsAreTrue
  <2> QED BY <1>1, <2>1, <2>3, AgeIs DEF LoopInv, KeptFits
<1>7. LedgerFits'
  <2>1. ran' \subseteq Seq(Messages) \X Nat
    BY <1>1, <1>2 DEF LoopInv, LedgerFits
  <2>2. \A p \in ran' : Reached(p[1], kept')
    <3>1. Reached(kept, kept)
      BY <1>2 DEF Reached
    <3> QED BY <1>1, <1>2, <3>1 DEF LoopInv, LedgerFits
  <2>3. \A i \in DOMAIN ledger : ledger[i].state = "settled" => <<ledger[i].scope, ledger[i].call>> # <<said, Use>>
    BY <1>2, <1>3
  <2>4. \A i \in DOMAIN ledger : ledger[i].state = "settled" =>
          /\ ledger[i].outcome # "none"
          /\ ledger[i].outcome = "ran" <=> <<ledger[i].scope, ledger[i].call>> \in ran'
    BY <1>1, <2>3 DEF LoopInv, LedgerFits
  <2>5. /\ ledger \in Seq(Entries)
        /\ \A i, j \in DOMAIN ledger : ledger[i].call = ledger[j].call /\ ledger[i].scope = ledger[j].scope => i = j
        /\ \A i \in DOMAIN ledger : Reached(ledger[i].scope, kept)
    BY DEF LoopInv, LedgerFits
  <2> QED BY ONLY <1>1, <2>1, <2>2, <2>4, <2>5 DEF LedgerFits
<1>8. RunFits'
  BY <1>1, <1>2, <1>5, RoundGoesOn DEF Working
<1>9. RoundFits'
  <2>1. OpenFor(reply.calls)' /\ Len(results') < reply'.calls
    BY <1>1, <1>3 DEF OpenFor
  <2>2. /\ \A c \in DOMAIN results' : results'[c] = "ran" <=> <<kept', c>> \in ran'
        /\ \A p \in ran' : p[1] = kept' => p[2] \in DOMAIN results' \/ p[2] = Use'
        /\ <<kept', Use'>> \in ran'
    BY <1>1, <1>2, <1>3 DEF Use
  <2>3. ledger'[Len(ledger')].call = Use'
    BY <1>1, <1>3 DEF Use
  <2> QED BY ONLY <1>1, <1>3, <2>1, <2>2, <2>3 DEF RoundFits, Working, Ended
<1> QED BY <1>6, <1>7, <1>8, <1>9 DEF LoopInv

LEMMA SettleStepFits == ASSUME LoopInv, Settle PROVE LoopInv'
<1>1. /\ stage \in Ended /\ stage \in Working /\ SettleCall("ran")
      /\ kept' = kept /\ said' = said /\ reply' = reply /\ counters' = counters /\ stopped' = stopped /\ ran' = ran
      /\ repeated' = repeated /\ incidents' = incidents
      /\ (stage = "done" /\ stage' = "hooked" /\ results' = results) \/ Note("ran")
  BY DEF Settle, boundVars, Ended, Working
<1>2. /\ ledger # <<>> /\ ledger[Len(ledger)].scope = kept /\ ledger[Len(ledger)].call = Use
      /\ <<kept, Use>> \in ran
  BY <1>1 DEF LoopInv, RoundFits
<1>3. KeptFits'
  BY <1>1, KeptStill DEF LoopInv, KeptFits
<1>4. /\ LedgerFits' /\ DOMAIN ledger' = DOMAIN ledger /\ Len(ledger') = Len(ledger) /\ ledger' # <<>>
      /\ \A i \in DOMAIN ledger : ledger'[i].scope = ledger[i].scope /\ ledger'[i].call = ledger[i].call
  BY <1>1, <1>2, SettleFits DEF LoopInv
<1>5. CASE Note("ran")
  <2>1. RunFits' /\ RoundFits'
    BY <1>1, <1>2, <1>4, <1>5, NoteFits
  <2> QED BY <1>3, <1>4, <2>1 DEF LoopInv
<1>6. CASE stage = "done" /\ stage' = "hooked" /\ results' = results
  <2>1. results \in Seq({"ran", "refused"}) /\ stopped \in BOOLEAN /\ repeated = FALSE
    BY <1>1, InRound
  <2>2. RunFits'
    BY <1>1, <1>6, <2>1, RoundGoesOn DEF Working
  <2>3. OpenFor(reply.calls)' /\ Len(results') < reply'.calls
    BY <1>1, <1>6 DEF LoopInv, RoundFits, OpenFor, Working
  <2>4. /\ \A c \in DOMAIN results' : results'[c] = "ran" <=> <<kept', c>> \in ran'
        /\ \A p \in ran' : p[1] = kept' => p[2] \in DOMAIN results' \/ p[2] = Use'
        /\ <<kept', Use'>> \in ran'
    BY <1>1, <1>2, <1>6 DEF LoopInv, RoundFits, Use
  <2>5. \A i \in DOMAIN ledger : ledger[i].scope = kept => ledger[i].call \in DOMAIN results \/ i = Len(ledger)
    BY <1>1 DEF LoopInv, RoundFits
  <2>6. \A i \in DOMAIN ledger' : ledger'[i].scope = kept' => ledger'[i].call \in DOMAIN results' \/ i = Len(ledger')
    BY <1>1, <1>4, <1>6, <2>5
  <2>7. Len(ledger) \in DOMAIN ledger
    BY <1>2 DEF LoopInv, LedgerFits
  <2>8. ledger'[Len(ledger')].scope = kept' /\ ledger'[Len(ledger')].call = Use'
    BY <1>1, <1>2, <1>4, <1>6, <2>7 DEF Use
  <2>9. RoundFits'
    BY ONLY <1>4, <1>6, <2>3, <2>4, <2>6, <2>8 DEF RoundFits, Working, Ended
  <2> QED BY <1>3, <1>4, <2>2, <2>9 DEF LoopInv
<1> QED BY <1>1, <1>5, <1>6

LEMMA GiveResultsFits == ASSUME LoopInv, GiveResults PROVE LoopInv'
<1>1. /\ stage = "results" /\ Say(Results(results)) /\ NextTurn(0)
      /\ ledger' = ledger /\ ran' = ran /\ repeated' = repeated /\ incidents' = incidents
  BY DEF GiveResults, boundVars
<1>2. /\ said = kept /\ results \in Seq({"ran", "refused"}) /\ counters.turn < MaxTurns
      /\ OpenFor(reply.calls)
      /\ counters \in [turn : 0 .. MaxTurns, more : 0 .. MaxContinuations, shrunk : 0 .. MaxShrinks]
  BY <1>1, InRound
<1>3. Len(results) = reply.calls /\ \A c \in DOMAIN results : results[c] = "ran" <=> <<kept, c>> \in ran
  BY <1>1 DEF LoopInv, RoundFits, Working
<1>4. Results(results) \in Messages /\ Results(results).what = "results" /\ Results(results).outcomes = results
  BY <1>2, Saying
<1>5. kept' = Append(kept, Results(results)) /\ said' = kept'
  BY <1>1, <1>2 DEF Say
<1>6. KeptFits' /\ LedgerFits' /\ kept'[Len(kept')] = Results(results) /\ kept' # <<>>
  <2>1. /\ Results(results).what # "summary" /\ incidents' \in Nat /\ incidents' >= incidents
        /\ Open(kept) => Results(results).what = "results" /\ Len(Results(results).outcomes) = kept[Len(kept)].n
    BY <1>1, <1>2, <1>3, <1>4 DEF OpenFor, LoopInv, KeptFits
  <2>2. \A c \in DOMAIN Results(results).outcomes : Results(results).outcomes[c] = "ran" <=> <<kept, c>> \in ran
    BY <1>3, <1>4
  <2> QED BY <1>1, <1>4, <1>5, <2>1, <2>2, SayFits DEF LoopInv
<1>7. ~Open(kept)'
  BY <1>4, <1>6 DEF Open
<1>8. counters.more + 0 <= MaxContinuations
  BY <1>2, Bounds
<1>9. RunFits' /\ RoundFits'
  BY <1>1, <1>2, <1>5, <1>7, <1>8, NextTurnFits DEF LoopInv
<1> QED BY <1>6, <1>9 DEF LoopInv

LEMMA AbortFits == ASSUME LoopInv, Abort PROVE LoopInv'
<1>1. /\ stopped' = TRUE /\ Incident /\ kept' = kept /\ ledger' = ledger /\ said' = said /\ stage' = stage
      /\ reply' = reply /\ results' = results /\ counters' = counters /\ ran' = ran /\ repeated' = repeated
  BY DEF Abort
<1>2. KeptFits' /\ LedgerFits'
  BY <1>1, IncidentIs, StillFits DEF LoopInv
<1>3. stopped' \in BOOLEAN
  BY <1>1, Zenon
<1>4. RunFits'
  BY <1>1, <1>3, Zenon DEF LoopInv, RunFits, Open
<1>5. RoundFits'
  BY <1>1 DEF LoopInv, RoundFits, OpenFor, Open, Use
<1> QED BY <1>2, <1>4, <1>5 DEF LoopInv

LEMMA StepLoop == LoopInv /\ [LoopNext]_loopVars => LoopInv'
<1> SUFFICES ASSUME LoopInv, [LoopNext]_loopVars PROVE LoopInv'
  OBVIOUS
<1>1. CASE UNCHANGED loopVars
  <2>1. /\ kept' = kept /\ ledger' = ledger /\ said' = said /\ stage' = stage /\ reply' = reply /\ results' = results
        /\ counters' = counters /\ stopped' = stopped /\ ran' = ran /\ repeated' = repeated /\ incidents' = incidents
    BY <1>1 DEF loopVars
  <2>2. KeptFits' /\ LedgerFits'
    BY <2>1, StillFits DEF LoopInv, KeptFits
  <2>3. RunFits'
    BY <2>1, Zenon DEF LoopInv, RunFits, Open
  <2>4. RoundFits'
    BY <2>1 DEF LoopInv, RoundFits, OpenFor, Open, Use
  <2> QED BY <2>2, <2>3, <2>4 DEF LoopInv
<1>2. CASE Break
  BY <1>2, OverFits DEF Break
<1>3. ASSUME NEW r \in Replies, Reply(r) PROVE LoopInv'
  BY <1>3, ReplyFits
<1>4. CASE RunGoesOn
  BY <1>3, <1>4, RecoverFits, PromptFits, TurnFits, ThresholdFits, OverflowFits, AbortedFits, ContinueFits,
     StoppingFits, CallToolsFits, RefuseFits, IntendFits, DispatchFits, WithdrawFits, ExecuteFits, SettleStepFits,
     GiveResultsFits DEF RunGoesOn
<1> QED BY <1>1, <1>2, <1>4, StartRunFits, AbortFits DEF LoopNext

LEMMA LoopFollows == LoopInv => LoopSafety
<1> SUFFICES ASSUME LoopInv PROVE LoopSafety
  OBVIOUS
<1>1. \A i \in DOMAIN kept : MessageShape(kept[i])
  <2> TAKE i \in DOMAIN kept
  <2>1. kept[i] \in Messages
    BY DEF LoopInv, KeptFits
  <2> QED BY <2>1, MessageIs DEF MessageShape
<1>2. LoopTypeOK
  <2>1. \A i \in DOMAIN said : MessageShape(said[i])
    BY <1>1 DEF LoopInv, RunFits
  <2>2. \A i \in DOMAIN ledger : ledger[i].state \in {"intended", "dispatched", "settled"}
    <3> TAKE i \in DOMAIN ledger
    <3>1. ledger[i] \in Entries
      BY DEF LoopInv, LedgerFits
    <3> QED BY <3>1, EntryIs
  <2>3. stage \in {"idle", "recover", "prompt", "turn", "fold", "ask", "said", "call", "intended",
                   "dispatched", "done", "failed", "hooked", "results"}
    BY DEF LoopInv, RunFits, Stages, Before, Working
  <2>4. reply \in Replies \cup {NoReply}
    BY DEF LoopInv, RunFits
  <2>5. Len(results) <= reply.calls
    <3>1. CASE stage \in Working \cup {"call", "results"}
      <4>1. Len(results) = reply.calls \/ Len(results) < reply.calls
        BY <3>1 DEF LoopInv, RoundFits
      <4>2. Len(results) \in Nat /\ reply.calls \in Nat
        BY <3>1, InRound
      <4> QED BY ONLY <4>1, <4>2
    <3>2. CASE stage \notin Working \cup {"call", "results"}
      <4>1. results = <<>>
        BY <3>2 DEF LoopInv, RunFits, Stages
      <4>2. reply.calls \in Nat
        BY Bounds DEF LoopInv, RunFits, NoReply
      <4> QED BY <4>1, <4>2
    <3> QED BY <3>1, <3>2
  <2>6. counters.turn <= MaxTurns /\ counters.more <= MaxContinuations /\ counters.shrunk <= MaxShrinks
    BY Bounds DEF LoopInv, RunFits
  <2>7. {stopped, repeated} \subseteq BOOLEAN
    BY Zenon DEF LoopInv, RunFits
  <2> QED BY <1>1, <2>1, <2>2, <2>3, <2>4, <2>5, <2>6, <2>7 DEF LoopTypeOK
<1>3. KeptIsSent
  BY DEF LoopInv, RunFits, KeptIsSent
<1>4. RoundsAreClosed /\ ResultsAreTrue
  BY DEF LoopInv, KeptFits
<1>5. NoCallTwice
  BY Zenon DEF LoopInv, RunFits, NoCallTwice
<1> QED BY <1>2, <1>3, <1>4, <1>5 DEF LoopSafety

\* Wherever a run breaks, and whatever the next ones recover or compact: no call
\* of a reply is executed twice, a result says that it was executed exactly if
\* it was, every round but the last is closed, and the model is asked with what
\* the next run would read.
THEOREM LoopIsSafe == LoopSpec => []LoopSafety
<1>1. LoopInit => LoopInv
  BY InitLoop
<1>2. LoopInv /\ [LoopNext]_loopVars => LoopInv'
  BY StepLoop
<1> QED BY <1>1, <1>2, LoopFollows, PTL DEF LoopSpec
=============================================================================
