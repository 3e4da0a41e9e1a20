------------------------------ MODULE AgentTasks ------------------------------
(***************************************************************************)
(* Background agents of a session,                                          *)
(*   src/src/services/tasks/manager.ts  TaskManager                         *)
(* An agent is started, stopped and restarted; every attempt runs on its    *)
(* own and settles the task through hooks and a queue of writes, while the  *)
(* session is switched, closed, or the process dies.                        *)
(***************************************************************************)
EXTENDS Integers, Sequences, FiniteSets

CONSTANTS
  Agents,
  TaskFiles,        \* session files
  MaxAttempts,      \* bound: attempts of all agents
  MaxTaskTrouble    \* bound: crashes and writes that fail

ASSUME AgentTasksAssumption == {MaxAttempts, MaxTaskTrouble} \subseteq Nat /\ Agents # {}

Attempts == 1 .. MaxAttempts
Absent == [status |-> "absent", attempt |-> 0, recover |-> FALSE]
\* What waits for a write, if it is not an attempt.
NoWaiter == 0
Switcher == -1
Closer == -2
Loader == -3
Ended == {"completed", "failed", "stopped"}

VARIABLES
  file,         \* filePath
  tasks,        \* this.tasks: status, attemptId, metadata.recoveryPending
  saved,        \* [TaskFiles -> what is on disk]
  writes,       \* writeQueue: the file, a snapshot, and what waits for it
  attempt,      \* where an attempt is, its agent, whether its signal fired
  begun,        \* attempts that exist
  controllers,  \* [Agents -> attempt whose controller is registered, or 0]
  switching,    \* switchStorage: "no", "queued", "drain", "save"
  closing,      \* shutdown: "no", "queued", "drain", "save", "down", "failed"
  mishaps

taskVars == <<file, tasks, saved, writes, attempt, begun, controllers, switching, closing, mishaps>>

TasksInit ==
  /\ file \in TaskFiles
  /\ tasks = [a \in Agents |-> Absent]
  /\ saved = [f \in TaskFiles |-> [a \in Agents |-> Absent]]
  /\ writes = <<>>
  /\ attempt = [n \in Attempts |-> [at |-> "none", agent |-> CHOOSE a \in Agents : TRUE, aborted |-> FALSE]]
  /\ begun = 0
  /\ controllers = [a \in Agents |-> 0]
  /\ switching = "no" /\ closing = "no" /\ mishaps = 0

Draining == switching # "no" \/ closing # "no"
Alive == {n \in Attempts : attempt[n].at \notin {"none", "over"}}
Commit(state, waiter) == writes' = Append(writes, [to |-> file, state |-> state, waiter |-> waiter])
At(n, where) == attempt' = [attempt EXCEPT ![n].at = where]

\* launchRuntimeTask: the controller is registered before anything yields.
Launch(a, where) ==
  /\ ~Draining /\ begun < MaxAttempts
  /\ begun' = begun + 1
  /\ attempt' = [attempt EXCEPT ![begun + 1] = [at |-> where, agent |-> a, aborted |-> FALSE]]
  /\ controllers' = [controllers EXCEPT ![a] = begun + 1]
  /\ UNCHANGED <<file, saved, switching, closing, mishaps>>

Running(n) == [status |-> "running", attempt |-> n, recover |-> FALSE]

\* startAgent; ids are new, here an agent is started once per file.
StartAgent(a) ==
  /\ tasks[a] = Absent /\ controllers[a] = 0
  /\ Launch(a, "hook")
  /\ UNCHANGED <<tasks, writes>>

MayRestart(a) == tasks[a].status \in Ended

\* restartAgent, recoverAgent
RestartAgent(a) ==
  /\ MayRestart(a)
  /\ Launch(a, "saving")
  /\ tasks' = [tasks EXCEPT ![a] = Running(begun + 1)]
  /\ Commit(tasks', begun + 1)

Current(n) == tasks[attempt[n].agent].attempt = n /\ tasks[attempt[n].agent].status \in {"running", "stopping"}

\* Mutant: the outcome of the run decides, whatever happened during the hook.
FinalIgnoringStop(n, outcome) == outcome

Final(n, outcome) == IF tasks[attempt[n].agent].status = "stopping" THEN "stopped" ELSE outcome

\* The second half of finishRuntimeTask; its commit goes behind the given writes.
SettleBehind(queue, n, outcome) ==
  LET a == attempt[n].agent IN
  IF Current(n)
  THEN /\ tasks' = [tasks EXCEPT ![a].status = Final(n, outcome)]
       /\ controllers' = [controllers EXCEPT ![a] = 0]
       /\ writes' = Append(queue, [to |-> file, state |-> tasks', waiter |-> n])
       /\ At(n, "settling")
  ELSE /\ controllers' = [controllers EXCEPT ![a] = IF @ = n THEN 0 ELSE @]
       /\ writes' = queue
       /\ At(n, "over")
       /\ UNCHANGED tasks

SettleTask(n, outcome) == SettleBehind(writes, n, outcome)

\* A startup, or a run, that failed.
Failure(n) == IF attempt[n].aborted THEN "stopped" ELSE "failed"

\* beforeCreate is over.
Created(n) ==
  /\ attempt[n].at = "hook"
  /\ \/ /\ ~Draining /\ ~attempt[n].aborted
        /\ tasks' = [tasks EXCEPT ![attempt[n].agent] = Running(n)]
        /\ Commit(tasks', n)
        /\ At(n, "saving")
        /\ UNCHANGED controllers
     \/ SettleTask(n, Failure(n))
  /\ UNCHANGED <<file, saved, begun, switching, closing, mishaps>>

\* run() is over: a success goes through beforeComplete, unless it was stopped.
RunEnds(n) ==
  /\ attempt[n].at = "run"
  /\ \/ SettleTask(n, Failure(n))
     \/ /\ ~attempt[n].aborted /\ Current(n)
        /\ At(n, "check")
        /\ UNCHANGED <<tasks, writes, controllers>>
  /\ UNCHANGED <<file, saved, begun, switching, closing, mishaps>>

Checked(n) ==
  /\ attempt[n].at = "check"
  /\ \E outcome \in {"completed", "failed"} : SettleTask(n, outcome)
  /\ UNCHANGED <<file, saved, begun, switching, closing, mishaps>>

StopAgent(a) ==
  /\ tasks[a].status = "running" /\ controllers[a] # 0
  /\ attempt' = [attempt EXCEPT ![controllers[a]].aborted = TRUE]
  /\ tasks' = [tasks EXCEPT ![a].status = "stopping"]
  /\ Commit(tasks', NoWaiter)
  /\ UNCHANGED <<file, saved, begun, controllers, switching, closing, mishaps>>

StopAll(recoverable) ==
  /\ attempt' = [n \in Attempts |->
       IF \E a \in Agents : controllers[a] = n THEN [attempt[n] EXCEPT !.aborted = TRUE] ELSE attempt[n]]
  /\ tasks' = [a \in Agents |->
       IF controllers[a] # 0 /\ tasks[a].status \in {"running", "stopping"}
       THEN [tasks[a] EXCEPT !.status = "stopping", !.recover = recoverable] ELSE tasks[a]]
  /\ controllers' = [a \in Agents |-> 0]

\* load(): what was running when its process ended is stopped and can be recovered.
Loaded(state) ==
  [a \in Agents |->
     IF state[a].status \in {"running", "stopping"}
     THEN [state[a] EXCEPT !.status = "stopped", !.recover = TRUE] ELSE state[a]]

SwitchStorage ==
  /\ closing = "no" /\ switching = "no"
  /\ switching' = "queued"
  /\ UNCHANGED <<file, tasks, saved, writes, attempt, begun, controllers, closing, mishaps>>

\* The queued transition begins, or finds the runtime closed.
SwitchStops ==
  /\ switching = "queued"
  /\ IF closing # "no"
     THEN switching' = "no" /\ UNCHANGED <<tasks, attempt, controllers>>
     ELSE switching' = "drain" /\ StopAll(FALSE)
  /\ UNCHANGED <<file, saved, writes, begun, closing, mishaps>>

SwitchDrained ==
  /\ switching = "drain" /\ Alive = {}
  /\ switching' = "save"
  /\ writes' = Append(writes, [to |-> file, state |-> tasks, waiter |-> Switcher])
  /\ UNCHANGED <<file, tasks, saved, attempt, begun, controllers, closing, mishaps>>

Shutdown ==
  /\ closing = "no"
  /\ closing' = "queued"
  /\ StopAll(TRUE)
  /\ UNCHANGED <<file, saved, writes, begun, switching, mishaps>>

\* Transitions are queued; what they let in is stopped again.
ShutdownStops ==
  /\ closing = "queued" /\ switching = "no"
  /\ closing' = "drain"
  /\ StopAll(TRUE)
  /\ UNCHANGED <<file, saved, writes, begun, switching, mishaps>>

ShutdownDrained ==
  /\ closing = "drain" /\ Alive = {}
  /\ closing' = "save"
  /\ writes' = Append(writes, [to |-> file, state |-> tasks, waiter |-> Closer])
  /\ UNCHANGED <<file, tasks, saved, attempt, begun, controllers, switching, mishaps>>

\* Mutant: a run begins although its attempt was stopped or could not be saved.
StartedAnyway(n, ok) ==
  /\ At(n, "run")
  /\ writes' = Tail(writes)
  /\ UNCHANGED <<tasks, controllers>>

\* The commit of a startup has been written, or not.
Started(n, ok) ==
  IF ok /\ ~Draining /\ ~attempt[n].aborted
  THEN StartedAnyway(n, ok)
  ELSE SettleBehind(Tail(writes), n, Failure(n))

\* load() saves what it had to stop before anything goes on.
Load(f, state, waiter) ==
  /\ file' = f
  /\ tasks' = Loaded(state)
  /\ writes' = IF tasks' = state THEN <<>> ELSE <<[to |-> f, state |-> tasks', waiter |-> waiter]>>

Write(ok) ==
  LET w == Head(writes) IN
  /\ writes # <<>>
  /\ IF ok THEN UNCHANGED mishaps ELSE mishaps < MaxTaskTrouble /\ mishaps' = mishaps + 1
  /\ saved' = IF ok THEN [saved EXCEPT ![w.to] = w.state] ELSE saved
  /\ \/ /\ w.waiter \in Alive /\ attempt[w.waiter].at = "saving"
        /\ Started(w.waiter, ok)
        /\ UNCHANGED <<file, switching, closing>>
     \/ /\ w.waiter \in Alive /\ attempt[w.waiter].at = "settling"
        /\ At(w.waiter, "over")
        /\ writes' = Tail(writes)
        /\ UNCHANGED <<file, tasks, controllers, switching, closing>>
     \/ /\ w.waiter \notin Attempts /\ ~(w.waiter = Switcher /\ ok)
        /\ writes' = Tail(writes)
        /\ closing' = IF w.waiter = Closer THEN (IF ok THEN "down" ELSE "failed") ELSE closing
        /\ switching' = IF w.waiter \in {Switcher, Loader} THEN "no" ELSE switching
        /\ UNCHANGED <<file, tasks, attempt, controllers>>
     \/ /\ w.waiter = Switcher /\ ok
        /\ \E f \in TaskFiles : Load(f, saved'[f], Loader)
        /\ switching' = IF writes' = <<>> THEN "no" ELSE "save"
        /\ UNCHANGED <<attempt, controllers, closing>>
  /\ UNCHANGED begun

\* The process ends, in whatever state, and the next one opens the session.
NextProcess ==
  /\ mishaps < MaxTaskTrouble /\ mishaps' = mishaps + 1
  /\ Load(file, saved[file], NoWaiter)
  /\ attempt' = [n \in Attempts |-> IF n \in Alive THEN [attempt[n] EXCEPT !.at = "over"] ELSE attempt[n]]
  /\ controllers' = [a \in Agents |-> 0]
  /\ switching' = "no" /\ closing' = "no"
  /\ UNCHANGED <<saved, begun>>

TasksNext ==
  \/ \E a \in Agents : StartAgent(a) \/ RestartAgent(a) \/ StopAgent(a)
  \/ \E n \in Attempts : Created(n) \/ RunEnds(n) \/ Checked(n)
  \/ SwitchStorage \/ SwitchStops \/ SwitchDrained
  \/ Shutdown \/ ShutdownStops \/ ShutdownDrained
  \/ \E ok \in BOOLEAN : Write(ok)
  \/ NextProcess

TasksSpec == TasksInit /\ [][TasksNext]_taskVars

\* Hooks and writes return; a run that is aborted ends.
TasksFairness ==
  /\ \A n \in Attempts :
       WF_taskVars(Created(n) \/ Checked(n) \/ (attempt[n].aborted /\ RunEnds(n)))
  /\ WF_taskVars(SwitchStops \/ SwitchDrained) /\ WF_taskVars(ShutdownStops \/ ShutdownDrained)
  /\ WF_taskVars(Write(TRUE))

-----------------------------------------------------------------------------
TasksTypeOK ==
  /\ file \in TaskFiles
  /\ \A state \in {tasks} \cup {saved[f] : f \in TaskFiles} : \A a \in Agents :
       /\ state[a].status \in Ended \cup {"absent", "running", "stopping"}
       /\ state[a].attempt \in 0 .. begun
  /\ \A n \in Attempts : attempt[n].at \in {"none", "hook", "saving", "run", "check", "settling", "over"}
  /\ controllers \in [Agents -> 0 .. begun]
  /\ switching \in {"no", "queued", "drain", "save"}
  /\ closing \in {"no", "queued", "drain", "save", "down", "failed"}

\* An agent runs only when the file knows of the attempt: whatever dies, the
\* next process finds it.
RunsAreRecorded ==
  \A n \in Attempts :
    attempt[n].at \in {"run", "check"} => saved[file][attempt[n].agent].attempt = n

\* An agent has one run at a time, however it was stopped and restarted.
OneRunPerAgent ==
  \A n, k \in Attempts :
    {attempt[n].at, attempt[k].at} \subseteq {"run", "check"} /\ attempt[n].agent = attempt[k].agent => n = k

\* When shutdown() has returned nothing runs, and the file says so.
ShutdownIsQuiet ==
  closing = "down" =>
    Alive = {} /\ \A a \in Agents : saved[file][a].status \in Ended \cup {"absent"}

\* Whatever runs is on record, once, and nothing runs after a shutdown.
TasksSafety == TasksTypeOK /\ RunsAreRecorded /\ OneRunPerAgent /\ ShutdownIsQuiet

\* An agent that was told to stop is never reported as anything but stopped,
\* even when it finished while its completion was being checked.
StoppedStaysStopped ==
  [][\A a \in Agents :
       tasks[a].status = "stopping" /\ tasks'[a].attempt = tasks[a].attempt
         => tasks'[a].status \in {"stopping", "stopped"}]_taskVars

\* An agent that was told to stop does stop, and its manager lets go of it.
StoppingEnds == \A a \in Agents : tasks[a].status = "stopping" ~> tasks[a].status # "stopping"

\* shutdown() returns, whatever it interrupts.
ShutdownReturns == closing = "queued" ~> closing \notin {"queued", "drain", "save"}
=============================================================================
