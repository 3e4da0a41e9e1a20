----------------------------- MODULE Tasks_proofs -----------------------------
(***************************************************************************)
(* What holds of the background agents of a session (AgentTasks), of the    *)
(* delivery log of one agent (TaskTranscript) and of the run of a workflow  *)
(* (WorkflowRuns), for every number of agents, session files, attempts,     *)
(* deliveries, steps, calls, crashes and failed writes.                     *)
(***************************************************************************)
EXTENDS AgentTasks, TaskTranscript, WorkflowRuns, TLAPS

-----------------------------------------------------------------------------
(***************************************************************************)
(* The agents. Three sets of states must agree: the tasks in memory, the    *)
(* copies that wait to be written, and the files. MemoryInv ties attempts,  *)
(* tasks, controllers and transitions together; CopiesInv(S, W) says what   *)
(* the files S and the waiting writes W may be like, so that it can be      *)
(* shown of the queue from which a write has been taken but not yet carried *)
(* out.                                                                     *)
(***************************************************************************)

TaskRows ==
  [status : Ended \cup {"absent", "running", "stopping"}, attempt : Nat, recover : BOOLEAN]
Snapshots == [Agents -> TaskRows]
AttemptRows ==
  [at : {"none", "hook", "saving", "run", "check", "settling", "over"}, agent : Agents, aborted : BOOLEAN]
Waiters == Attempts \cup {NoWaiter, Switcher, Closer, Loader}
TaskWrites == [to : TaskFiles, state : Snapshots, waiter : Waiters]

\* The shape of the state: what TasksTypeOK says, and of every variable.  What the
\* files have, S, and the writes that wait, W, are given apart, because a write
\* takes its own from the queue before the rest of its step looks at it.
TasksShape ==
  /\ file \in TaskFiles
  /\ tasks \in Snapshots
  /\ attempt \in [Attempts -> AttemptRows]
  /\ begun \in Nat
  /\ controllers \in [Agents -> 0 .. begun]
  /\ switching \in {"no", "queued", "drain", "save"}
  /\ closing \in {"no", "queued", "drain", "save", "down", "failed"}

CopiesShape(S, W) == S \in [TaskFiles -> Snapshots] /\ W \in Seq(TaskWrites)

Held == {"saving", "run", "check"}
Unsettled == {"running", "stopping"}

\* A number that was not given out, or whose attempt is not created yet, is in no
\* state of the tasks, and nothing waits for it.
Unheard(n, S, W) ==
  /\ \A a \in Agents : tasks[a].attempt # n /\ \A f \in TaskFiles : S[f][a].attempt # n
  /\ \A i \in 1 .. Len(W) : W[i].waiter # n /\ \A a \in Agents : W[i].state[a].attempt # n

NumbersAreNew(S, W) ==
  /\ \A n \in Attempts : attempt[n].at \in {"none", "hook"} => Unheard(n, S, W)
  /\ \A n \in Nat : n > begun => Unheard(n, S, W)

\* Who counts as running has an attempt that runs, and the other way around; who
\* is about to be created is not there yet.
AttemptsHold ==
  /\ \A a \in Agents : tasks[a].status \in Unsettled =>
       tasks[a].attempt \in Attempts /\ attempt[tasks[a].attempt].agent = a /\ attempt[tasks[a].attempt].at \in Held
  /\ \A n \in Attempts : attempt[n].at \in Held => Current(n)
  /\ \A n \in Attempts : attempt[n].at = "hook" => tasks[attempt[n].agent].status = "absent"
  /\ \A n \in Attempts : n > begun => attempt[n].at = "none"

\* An attempt that is not settled has its controller, or was stopped.
AttemptsAreControlled ==
  \A n \in Attempts : attempt[n].at \in Held \cup {"hook"} =>
    \/ controllers[attempt[n].agent] = n
    \/ switching = "drain" \/ closing \in {"queued", "drain"}

\* A transition that has drained left nothing alive, and nothing starts in it.
TransitionsDrain ==
  /\ switching = "save" \/ closing \in {"save", "down", "failed"} => Alive = {}
  /\ closing \in {"drain", "save", "down", "failed"} => switching = "no"
  /\ switching \in {"drain", "save"} \/ closing # "no" => \A a \in Agents : controllers[a] = 0

\* Every write goes to the file in use; a transition has one last write.
WritesFit(W) ==
  /\ \A i \in 1 .. Len(W) :
       /\ W[i].to = file
       /\ W[i].waiter \in {Switcher, Loader} => switching = "save"
       /\ W[i].waiter = Closer => closing \in {"save", "down", "failed"}
  /\ \A i, j \in 1 .. Len(W) :
       {W[i].waiter, W[j].waiter} \subseteq {Switcher, Loader} => i = j

\* From the write an attempt begins with on, every write knows of it.
WritesKnow(S, W) ==
  \A n \in Attempts :
    /\ attempt[n].at = "saving" =>
         \A i, j \in 1 .. Len(W) : i <= j /\ W[i].waiter = n => W[j].state[attempt[n].agent].attempt = n
    /\ attempt[n].at \in {"run", "check"} =>
         /\ S[file][attempt[n].agent].attempt = n
         /\ \A j \in 1 .. Len(W) : W[j].state[attempt[n].agent].attempt = n

\* What is written, or waits to be, is not ahead of the memory.
NotAhead(old, new) ==
  old.attempt = new.attempt =>
    /\ new.status = "running" => old.status = "running"
    /\ new.status = "stopping" => old.status \in Unsettled

CopiesLag(S, W) ==
  \A a \in Agents :
    /\ NotAhead(S[file][a], tasks[a])
    /\ \A i \in 1 .. Len(W) : NotAhead(W[i].state[a], tasks[a])

\* Nothing runs in the last state that is written at a shutdown.
Quiet(state) == \A a \in Agents : state[a].status \notin Unsettled

LastWritesAreQuiet(S, W) ==
  /\ closing \in {"save", "failed"} =>
       \A i, j \in 1 .. Len(W) : i <= j /\ W[i].waiter = Closer => Quiet(W[j].state)
  /\ closing = "down" => Quiet(S[file]) /\ \A i \in 1 .. Len(W) : Quiet(W[i].state)

MemoryInv == TasksShape /\ AttemptsHold /\ AttemptsAreControlled /\ TransitionsDrain

CopiesInv(S, W) ==
  /\ CopiesShape(S, W) /\ NumbersAreNew(S, W) /\ WritesFit(W) /\ WritesKnow(S, W)
  /\ CopiesLag(S, W) /\ LastWritesAreQuiet(S, W)

TasksInv == MemoryInv /\ CopiesInv(saved, writes)

LEMMA InitTasks == TasksInit => TasksInv
<1> SUFFICES ASSUME TasksInit PROVE TasksInv
  OBVIOUS
<1>1. /\ file \in TaskFiles /\ tasks = [a \in Agents |-> Absent]
      /\ saved = [f \in TaskFiles |-> [a \in Agents |-> Absent]] /\ writes = <<>>
      /\ \A n \in Attempts : attempt[n].at = "none"
      /\ begun = 0 /\ controllers = [a \in Agents |-> 0] /\ switching = "no" /\ closing = "no"
  BY DEF TasksInit
<1>2. Absent \in TaskRows /\ Absent.status = "absent" /\ Absent.attempt = 0
  <2>1. FALSE \in BOOLEAN
    BY Zenon
  <2> QED BY <2>1 DEF Absent, TaskRows
<1>3. attempt \in [Attempts -> AttemptRows]
  <2> DEFINE row == [at |-> "none", agent |-> CHOOSE a \in Agents : TRUE, aborted |-> FALSE]
  <2>1. (CHOOSE a \in Agents : TRUE) \in Agents
    BY AgentTasksAssumption
  <2>2. FALSE \in BOOLEAN
    BY Zenon
  <2>3. row \in AttemptRows
    BY <2>1, <2>2 DEF AttemptRows
  <2> HIDE DEF row
  <2>4. attempt = [n \in Attempts |-> row]
    BY DEF TasksInit, row
  <2> QED BY <2>3, <2>4
<1>4. TasksShape
  BY <1>1, <1>2, <1>3 DEF TasksShape, Snapshots
<1>5. CopiesShape(saved, writes)
  BY <1>1, <1>2 DEF CopiesShape, Snapshots
<1>6. AttemptsHold /\ AttemptsAreControlled
  BY <1>1, <1>2 DEF AttemptsHold, AttemptsAreControlled, Unsettled, Held
<1>7. TransitionsDrain /\ WritesFit(writes) /\ WritesKnow(saved, writes) /\ LastWritesAreQuiet(saved, writes)
  BY <1>1 DEF TransitionsDrain, WritesFit, WritesKnow, LastWritesAreQuiet
<1>8. NumbersAreNew(saved, writes)
  <2>1. \A n \in Nat \ {0} : Unheard(n, saved, writes)
    BY <1>1, <1>2 DEF Unheard
  <2>2. Attempts \subseteq Nat \ {0}
    BY DEF Attempts
  <2> QED BY <1>1, <2>1, <2>2 DEF NumbersAreNew
<1>9. CopiesLag(saved, writes)
  BY <1>1, <1>2 DEF CopiesLag, NotAhead
<1> QED BY <1>4, <1>5, <1>6, <1>7, <1>8, <1>9 DEF TasksInv, MemoryInv, CopiesInv

\* How an agent may go on within an attempt.
GoesOn(old, new) ==
  /\ new.attempt = old.attempt
  /\ \/ new = old
     \/ new.status \notin Unsettled
     \/ new.status = "stopping" /\ old.status \in Unsettled

LEMMA LagGoesOn ==
  ASSUME NEW copy, NEW old, NEW new, NotAhead(copy, old), GoesOn(old, new)
  PROVE  NotAhead(copy, new)
  BY DEF NotAhead, GoesOn, Unsettled

\* What may become of the attempts while nothing is queued.
AttemptsGoOn(S, W) ==
  /\ \A n \in Attempts : attempt'[n].at \in {"none", "hook"} => attempt[n].at \in {"none", "hook"}
  /\ \A n \in Attempts : attempt'[n].at = "saving" =>
       attempt[n].at = "saving" /\ attempt'[n].agent = attempt[n].agent
  /\ \A n \in Attempts : attempt'[n].at \in {"run", "check"} =>
       /\ attempt'[n].agent = attempt[n].agent
       /\ \/ attempt[n].at \in {"run", "check"}
          \/ /\ S[file][attempt[n].agent].attempt = n
             /\ \A j \in 1 .. Len(W) : W[j].state[attempt[n].agent].attempt = n

\* A step that queues nothing, and in which the agents go on, keeps what the copies
\* say of them.
LEMMA GoingOnKeepsCopies ==
  ASSUME NEW S, NEW W, CopiesInv(S, W), file' = file,
         \A a \in Agents : GoesOn(tasks[a], tasks'[a]),
         AttemptsGoOn(S, W), begun' \in Nat, begun' >= begun, begun \in Nat
  PROVE  NumbersAreNew(S, W)' /\ WritesKnow(S, W)' /\ CopiesLag(S, W)'
<1>1. \A n : Unheard(n, S, W) => Unheard(n, S, W)'
  BY DEF Unheard, GoesOn
<1>2. NumbersAreNew(S, W)'
  BY <1>1 DEF CopiesInv, NumbersAreNew, AttemptsGoOn
<1>3. WritesKnow(S, W)'
  <2> SUFFICES ASSUME NEW n \in Attempts
               PROVE  /\ attempt'[n].at = "saving" =>
                           \A i, j \in 1 .. Len(W) : i <= j /\ W[i].waiter = n => W[j].state[attempt'[n].agent].attempt = n
                      /\ attempt'[n].at \in {"run", "check"} =>
                           /\ S[file][attempt'[n].agent].attempt = n
                           /\ \A j \in 1 .. Len(W) : W[j].state[attempt'[n].agent].attempt = n
    BY DEF WritesKnow
  <2> QED BY DEF CopiesInv, WritesKnow, AttemptsGoOn
<1>4. CopiesLag(S, W)'
  <2> SUFFICES ASSUME NEW a \in Agents
               PROVE  /\ NotAhead(S[file][a], tasks'[a])
                      /\ \A i \in 1 .. Len(W) : NotAhead(W[i].state[a], tasks'[a])
    BY DEF CopiesLag
  <2>1. PICK old, new : old = tasks[a] /\ new = tasks'[a]
    OBVIOUS
  <2>2. GoesOn(old, new)
    BY <2>1
  <2>3. NotAhead(S[file][a], old) /\ \A i \in 1 .. Len(W) : NotAhead(W[i].state[a], old)
    BY <2>1 DEF CopiesInv, CopiesLag
  <2> QED BY <2>1, <2>2, <2>3, LagGoesOn
<1> QED BY <1>2, <1>3, <1>4

\* A step that changes one agent and queues a copy of the state: its agent goes on,
\* or begins an attempt nobody has heard of.
LEMMA CommitKeepsCopies ==
  ASSUME NEW S, NEW W, NEW a \in Agents, NEW x \in Attempts \cup {NoWaiter},
         TasksShape, TasksShape', CopiesInv(S, W), AttemptsHold', file' = file,
         writes' = Append(W, [to |-> file, state |-> tasks', waiter |-> x]), saved' = S,
         switching' = switching, closing' = closing, closing \in {"no", "queued", "drain"}, begun' >= begun,
         \A b \in Agents : b # a => tasks'[b] = tasks[b],
         \/ GoesOn(tasks[a], tasks'[a])
         \/ tasks'[a].attempt = x /\ x \in Attempts /\ Unheard(x, S, W),
         x \in Attempts => attempt'[x].at \notin {"none", "hook"},
         \A n \in Attempts : attempt'[n].at \in {"none", "hook"} =>
           attempt[n].at \in {"none", "hook"} \/ n = begun + 1,
         \A n \in Attempts : attempt'[n].at \in Held =>
           \/ n # x /\ attempt'[n].at = attempt[n].at /\ attempt'[n].agent = attempt[n].agent
           \/ n = x /\ attempt'[n].at = "saving" /\ Unheard(n, S, W)
  PROVE  CopiesInv(saved, writes)'
<1> DEFINE last == [to |-> file, state |-> tasks', waiter |-> x]
           N == Len(W)
<1>1. last \in TaskWrites
  BY DEF TasksShape, TaskWrites, Waiters
<1>2. last.to = file /\ last.state = tasks' /\ last.waiter = x
  OBVIOUS
<1>3. W \in Seq(TaskWrites) /\ S \in [TaskFiles -> Snapshots]
  BY DEF CopiesInv, CopiesShape
<1>4. writes' = Append(W, last)
  OBVIOUS
<1> HIDE DEF last
<1>5. /\ writes' \in Seq(TaskWrites) /\ Len(writes') = N + 1 /\ N \in Nat
      /\ \A i \in 1 .. N : writes'[i] = W[i]
      /\ writes'[N + 1] = last
  BY <1>1, <1>3, <1>4
<1> HIDE DEF N
<1>6. ASSUME NEW i \in 1 .. N + 1 PROVE i = N + 1 \/ i \in 1 .. N
  BY <1>5
<1>7. \A i \in 1 .. N : W[i] \in TaskWrites
  BY <1>3 DEF N
<1>8. CopiesShape(saved, writes)'
  BY <1>3, <1>5 DEF CopiesShape
<1>9. ASSUME NEW n, Unheard(n, S, W), n # x PROVE Unheard(n, saved, writes)'
  <2>1. \A b \in Agents : tasks'[b].attempt # n
    BY <1>9 DEF Unheard, GoesOn
  <2>2. \A i \in 1 .. N + 1 : writes'[i].waiter # n /\ \A b \in Agents : writes'[i].state[b].attempt # n
    BY <1>2, <1>5, <1>6, <1>9, <2>1 DEF Unheard, N
  <2> QED BY <1>5, <1>9, <2>1, <2>2 DEF Unheard
<1>10. NumbersAreNew(saved, writes)'
  <2>1. begun \in Nat /\ begun' \in Nat /\ NoWaiter = 0
    BY DEF TasksShape, NoWaiter
  <2>2. ASSUME NEW n \in Nat, n > begun' PROVE Unheard(n, saved, writes)'
    <3>1. Unheard(n, S, W)
      BY <2>1, <2>2 DEF CopiesInv, NumbersAreNew
    <3>2. n # x
      <4>1. CASE x \in Attempts
        BY <2>2, <4>1 DEF AttemptsHold, Held
      <4>2. CASE x = NoWaiter
        BY <2>1, <2>2, <4>2
      <4> QED BY <4>1, <4>2
    <3> QED BY <1>9, <3>1, <3>2
  <2>3. ASSUME NEW n \in Attempts, attempt'[n].at \in {"none", "hook"} PROVE Unheard(n, saved, writes)'
    <3>1. n \in Nat /\ n # 0
      BY DEF Attempts
    <3>2. Unheard(n, S, W)
      BY <2>1, <2>3, <3>1 DEF CopiesInv, NumbersAreNew
    <3>3. n # x
      BY <2>3, <2>1, <3>1
    <3> QED BY <1>9, <3>2, <3>3
  <2> QED BY <2>2, <2>3 DEF NumbersAreNew
<1>11. WritesFit(writes)'
  <2>1. x \notin {Switcher, Loader, Closer}
    BY DEF Attempts, NoWaiter, Switcher, Loader, Closer
  <2>2. \A i \in 1 .. N + 1 : /\ writes'[i].to = file
                              /\ writes'[i].waiter \in {Switcher, Loader} => i \in 1 .. N /\ switching = "save"
                              /\ writes'[i].waiter = Closer => closing \in {"save", "down", "failed"}
    BY <1>2, <1>5, <1>6, <2>1 DEF CopiesInv, WritesFit, N
  <2> QED BY <1>5, <2>2 DEF CopiesInv, WritesFit, N
<1>12. WritesKnow(saved, writes)'
  <2> SUFFICES ASSUME NEW n \in Attempts, attempt'[n].at \in Held
               PROVE  /\ attempt'[n].at = "saving" =>
                           \A i, j \in 1 .. N + 1 : i <= j /\ writes'[i].waiter = n
                             => writes'[j].state[attempt'[n].agent].attempt = n
                      /\ attempt'[n].at \in {"run", "check"} =>
                           /\ S[file][attempt'[n].agent].attempt = n
                           /\ \A j \in 1 .. N + 1 : writes'[j].state[attempt'[n].agent].attempt = n
    BY <1>5 DEF WritesKnow, Held
  <2>1. last.state[attempt'[n].agent].attempt = n
    BY <1>2 DEF AttemptsHold, Current
  <2>2. CASE n # x /\ attempt'[n].at = attempt[n].at /\ attempt'[n].agent = attempt[n].agent
    <3>1. ASSUME NEW i \in 1 .. N + 1, NEW j \in 1 .. N + 1, attempt[n].at = "saving", i <= j, writes'[i].waiter = n
          PROVE  writes'[j].state[attempt[n].agent].attempt = n
      <4>1. i \in 1 .. N /\ W[i].waiter = n
        BY <1>2, <1>5, <1>6, <2>2, <3>1
      <4> QED BY <1>5, <1>6, <2>1, <2>2, <3>1, <4>1 DEF CopiesInv, WritesKnow, N
    <3>2. ASSUME attempt[n].at \in {"run", "check"}
          PROVE  /\ S[file][attempt[n].agent].attempt = n
                 /\ \A j \in 1 .. N + 1 : writes'[j].state[attempt[n].agent].attempt = n
      BY <1>5, <1>6, <2>1, <2>2, <3>2 DEF CopiesInv, WritesKnow, N
    <3>3. attempt'[n].at = attempt[n].at /\ attempt'[n].agent = attempt[n].agent
      BY <2>2
    <3>4. CASE attempt[n].at = "saving"
      BY <3>1, <3>3, <3>4
    <3>5. CASE attempt[n].at # "saving"
      BY <3>2, <3>3, <3>5
    <3> QED BY <3>4, <3>5
  <2>3. CASE n = x /\ attempt'[n].at = "saving" /\ Unheard(n, S, W)
    <3>1. ASSUME NEW i \in 1 .. N + 1, NEW j \in 1 .. N + 1, i <= j, writes'[i].waiter = n
          PROVE  writes'[j].state[attempt'[n].agent].attempt = n
      <4>1. i = N + 1
        <5>1. \A k \in 1 .. N : W[k].waiter # n
          BY <2>3 DEF Unheard, N
        <5>2. \A k \in 1 .. N : writes'[k].waiter # n
          BY <1>5, <5>1
        <5> QED BY <1>6, <3>1, <5>2
      <4>2. j = N + 1
        BY <1>5, <3>1, <4>1
      <4> QED BY <1>5, <2>1, <4>2
    <3> QED BY <2>3, <3>1
  <2> QED BY <2>2, <2>3
<1>13. CopiesLag(saved, writes)'
  <2> SUFFICES ASSUME NEW b \in Agents
               PROVE  /\ NotAhead(S[file][b], tasks'[b])
                      /\ \A i \in 1 .. N + 1 : NotAhead(writes'[i].state[b], tasks'[b])
    BY <1>5 DEF CopiesLag
  <2>1. PICK old, new : old = tasks[b] /\ new = tasks'[b]
    OBVIOUS
  <2>2. NotAhead(S[file][b], old) /\ \A i \in 1 .. N : NotAhead(W[i].state[b], old)
    BY <2>1 DEF CopiesInv, CopiesLag, N
  <2>3. NotAhead(S[file][b], new) /\ \A i \in 1 .. N : NotAhead(W[i].state[b], new)
    <3>1. CASE GoesOn(old, new)
      BY <2>2, <3>1, LagGoesOn
    <3>2. CASE new.attempt = x /\ Unheard(x, S, W)
      <4>1. file \in TaskFiles
        BY DEF TasksShape
      <4> QED BY <3>2, <4>1 DEF Unheard, NotAhead, N
    <3>3. GoesOn(old, old)
      BY DEF GoesOn
    <3> QED BY <2>1, <3>1, <3>2, <3>3
  <2>4. NotAhead(new, new)
    BY DEF NotAhead, Unsettled
  <2> QED BY <1>2, <1>5, <1>6, <2>1, <2>3, <2>4
<1>14. LastWritesAreQuiet(saved, writes)'
  BY DEF LastWritesAreQuiet
<1> QED BY <1>8, <1>10, <1>11, <1>12, <1>13, <1>14 DEF CopiesInv

LEMMA AttemptMoves ==
  ASSUME NEW row \in AttemptRows, NEW where \in {"none", "hook", "saving", "run", "check", "settling", "over"}
  PROVE  LET r == [row EXCEPT !.at = where]
         IN r \in AttemptRows /\ r.at = where /\ r.agent = row.agent /\ r.aborted = row.aborted
  BY DEF AttemptRows

LEMMA TaskMoves ==
  ASSUME NEW row \in TaskRows, NEW status \in Ended \cup {"absent", "running", "stopping"}
  PROVE  LET r == [row EXCEPT !.status = status]
         IN r \in TaskRows /\ r.status = status /\ r.attempt = row.attempt
  BY DEF TaskRows

\* An attempt moves, and no other.
LEMMA AtEffect ==
  ASSUME TasksShape, NEW n \in Attempts,
         NEW where \in {"none", "hook", "saving", "run", "check", "settling", "over"}, At(n, where)
  PROVE  /\ attempt' \in [Attempts -> AttemptRows]
         /\ attempt'[n].at = where /\ attempt'[n].agent = attempt[n].agent
         /\ \A k \in Attempts : k # n => attempt'[k] = attempt[k]
<1> DEFINE row == [attempt[n] EXCEPT !.at = where]
<1>1. attempt \in [Attempts -> AttemptRows]
  BY DEF TasksShape
<1>2. attempt' = [attempt EXCEPT ![n] = row]
  BY DEF At
<1>3. row \in AttemptRows /\ row.at = where /\ row.agent = attempt[n].agent
  BY <1>1, AttemptMoves
<1> HIDE DEF row
<1> QED BY <1>1, <1>2, <1>3

\* The status of an agent changes, and nothing else of the tasks.
LEMMA StatusEffect ==
  ASSUME TasksShape, NEW a \in Agents, NEW status \in Ended \cup {"absent", "running", "stopping"},
         tasks' = [tasks EXCEPT ![a].status = status]
  PROVE  /\ tasks' \in Snapshots
         /\ tasks'[a].status = status /\ tasks'[a].attempt = tasks[a].attempt
         /\ \A b \in Agents : b # a => tasks'[b] = tasks[b]
<1> DEFINE row == [tasks[a] EXCEPT !.status = status]
<1>1. tasks \in Snapshots
  BY DEF TasksShape
<1>2. tasks' = [tasks EXCEPT ![a] = row]
  OBVIOUS
<1>3. row \in TaskRows /\ row.status = status /\ row.attempt = tasks[a].attempt
  BY <1>1, TaskMoves DEF Snapshots
<1> HIDE DEF row
<1> QED BY <1>1, <1>2, <1>3 DEF Snapshots

\* While an attempt is alive, no transition has drained.
LEMMA AliveIsOpen ==
  ASSUME MemoryInv, NEW n \in Attempts, attempt[n].at \in Held \cup {"hook", "settling"}
  PROVE  switching # "save" /\ closing \in {"no", "queued", "drain"}
<1>1. n \in Alive
  BY DEF Alive, Held
<1> QED BY <1>1 DEF MemoryInv, TransitionsDrain, TasksShape

LEMMA SettleKeeps ==
  ASSUME NEW S, NEW W, MemoryInv, CopiesInv(S, W), NEW n \in Attempts, attempt[n].at \in Held \cup {"hook"},
         NEW outcome \in Ended, SettleBehind(W, n, outcome), saved' = S,
         UNCHANGED <<file, begun, switching, closing>>
  PROVE  TasksInv'
<1> DEFINE a == attempt[n].agent
<1>1. TasksShape /\ a \in Agents /\ begun \in Nat
  BY DEF MemoryInv, TasksShape, AttemptRows
<1>2. switching # "save" /\ closing \in {"no", "queued", "drain"}
  BY AliveIsOpen
<1> HIDE DEF a
<1>3. CASE Current(n)
  <2>1. /\ tasks' = [tasks EXCEPT ![a].status = Final(n, outcome)]
        /\ controllers' = [controllers EXCEPT ![a] = 0]
        /\ writes' = Append(W, [to |-> file, state |-> tasks', waiter |-> n])
        /\ At(n, "settling")
    BY <1>3 DEF SettleBehind, a
  <2>2. Final(n, outcome) \in Ended
    BY DEF Final, Ended
  <2>3. /\ tasks' \in Snapshots
        /\ tasks'[a].status \in Ended /\ tasks'[a].attempt = tasks[a].attempt
        /\ \A b \in Agents : b # a => tasks'[b] = tasks[b]
    BY <1>1, <2>1, <2>2, StatusEffect
  <2>4. /\ attempt' \in [Attempts -> AttemptRows]
        /\ attempt'[n].at = "settling" /\ attempt'[n].agent = a
        /\ \A k \in Attempts : k # n => attempt'[k] = attempt[k]
    BY <1>1, <2>1, AtEffect DEF a
  <2>5. controllers' \in [Agents -> 0 .. begun] /\ controllers'[a] = 0
        /\ \A b \in Agents : b # a => controllers'[b] = controllers[b]
    BY <1>1, <2>1 DEF TasksShape
  <2>6. TasksShape'
    BY <1>1, <2>3, <2>4, <2>5 DEF TasksShape
  <2>7. tasks[a].attempt = n /\ tasks[a].status \in Unsettled
    BY <1>3 DEF Current, a, Unsettled
  <2>8. ASSUME NEW k \in Attempts, k # n, attempt[k].at \in Held \cup {"hook"} PROVE attempt[k].agent # a
    BY <2>7, <2>8 DEF MemoryInv, AttemptsHold, Current, Unsettled
  <2>9. AttemptsHold'
    <3>1. ASSUME NEW b \in Agents, tasks'[b].status \in Unsettled
          PROVE  tasks'[b].attempt \in Attempts /\ attempt'[tasks'[b].attempt].agent = b /\ attempt'[tasks'[b].attempt].at \in Held
      <4>1. b # a
        BY <2>3, <3>1 DEF Ended, Unsettled
      <4> QED BY <2>3, <2>4, <3>1, <4>1 DEF MemoryInv, AttemptsHold, a
    <3>2. ASSUME NEW k \in Attempts, attempt'[k].at \in Held PROVE Current(k)'
      BY <1>1, <2>3, <2>4, <2>8, <3>2 DEF MemoryInv, AttemptsHold, Current, Held, TasksShape, AttemptRows
    <3>3. ASSUME NEW k \in Attempts, attempt'[k].at = "hook" PROVE tasks'[attempt'[k].agent].status = "absent"
      BY <1>1, <2>3, <2>4, <2>8, <3>3 DEF MemoryInv, AttemptsHold, TasksShape, AttemptRows
    <3>4. ASSUME NEW k \in Attempts, k > begun PROVE attempt'[k].at = "none"
      BY <2>4, <3>4 DEF MemoryInv, AttemptsHold, Held
    <3> QED BY <3>1, <3>2, <3>3, <3>4 DEF AttemptsHold
  <2>10. AttemptsAreControlled'
    BY <1>1, <2>4, <2>5, <2>8 DEF MemoryInv, AttemptsAreControlled, Held, TasksShape, AttemptRows
  <2>11. TransitionsDrain'
    BY <1>2, <2>5 DEF MemoryInv, TransitionsDrain
  <2>12. \A k \in Attempts : attempt'[k].at \in {"none", "hook"} => attempt[k].at \in {"none", "hook"}
    BY <2>4
  <2>13. \A k \in Attempts : attempt'[k].at \in Held => k # n /\ attempt'[k] = attempt[k]
    BY <2>4 DEF Held
  <2>14. GoesOn(tasks[a], tasks'[a])
    BY <2>3 DEF GoesOn, Ended, Unsettled
  <2>15. CopiesInv(saved, writes)'
    <3>1. n \in Attempts \cup {NoWaiter} /\ file' = file /\ switching' = switching /\ closing' = closing /\ begun' >= begun
      BY <1>1
    <3>2. n \in Attempts => attempt'[n].at \notin {"none", "hook"}
      BY <2>4
    <3>3. /\ \A k \in Attempts : attempt'[k].at \in {"none", "hook"} =>
               attempt[k].at \in {"none", "hook"} \/ k = begun + 1
          /\ \A k \in Attempts : attempt'[k].at \in Held =>
               \/ k # n /\ attempt'[k].at = attempt[k].at /\ attempt'[k].agent = attempt[k].agent
               \/ k = n /\ attempt'[k].at = "saving" /\ Unheard(k, S, W)
      BY <2>12, <2>13
    <3>4. AttemptsHold' /\ TasksShape' /\ saved' = S
      BY <2>6, <2>9
    <3>5. writes' = Append(W, [to |-> file, state |-> tasks', waiter |-> n])
      BY <2>1
    <3>6. \A b \in Agents : b # a => tasks'[b] = tasks[b]
      BY <2>3
    <3> QED BY ONLY <1>1, <1>2, <2>14, <3>1, <3>2, <3>3, <3>4, <3>5, <3>6, CopiesInv(S, W), n \in Attempts, CommitKeepsCopies
  <2> QED BY <2>6, <2>9, <2>10, <2>11, <2>15 DEF TasksInv, MemoryInv
<1>4. CASE ~Current(n)
  <2>1. attempt[n].at = "hook"
    BY <1>4 DEF MemoryInv, AttemptsHold
  <2>2. /\ controllers' = [controllers EXCEPT ![a] = IF @ = n THEN 0 ELSE @]
        /\ writes' = W /\ tasks' = tasks /\ At(n, "over")
    BY <1>4 DEF SettleBehind, a
  <2>3. /\ attempt' \in [Attempts -> AttemptRows]
        /\ attempt'[n].at = "over" /\ attempt'[n].agent = a
        /\ \A k \in Attempts : k # n => attempt'[k] = attempt[k]
    BY <1>1, <2>2, AtEffect DEF a
  <2>4. PICK c \in 0 .. begun : c = (IF controllers[a] = n THEN 0 ELSE controllers[a])
    BY <1>1 DEF TasksShape
  <2>5. controllers' = [controllers EXCEPT ![a] = c]
    BY <2>2, <2>4
  <2>6. TasksShape'
    BY <1>1, <2>2, <2>3, <2>5 DEF TasksShape
  <2>7. AttemptsHold'
    <3>1. ASSUME NEW b \in Agents, tasks[b].status \in Unsettled
          PROVE  tasks[b].attempt \in Attempts /\ attempt'[tasks[b].attempt].agent = b /\ attempt'[tasks[b].attempt].at \in Held
      <4>1. tasks[b].attempt # n
        BY <2>1, <3>1 DEF MemoryInv, AttemptsHold, Held
      <4> QED BY <2>3, <3>1, <4>1 DEF MemoryInv, AttemptsHold
    <3>2. ASSUME NEW k \in Attempts, attempt'[k].at \in Held PROVE Current(k)'
      BY <2>2, <2>3, <3>2 DEF MemoryInv, AttemptsHold, Current, Held
    <3>3. ASSUME NEW k \in Attempts, attempt'[k].at = "hook" PROVE tasks[attempt'[k].agent].status = "absent"
      BY <2>3, <3>3 DEF MemoryInv, AttemptsHold
    <3>4. ASSUME NEW k \in Attempts, k > begun PROVE attempt'[k].at = "none"
      BY <2>1, <2>3, <3>4 DEF MemoryInv, AttemptsHold
    <3> QED BY <2>2, <3>1, <3>2, <3>3, <3>4 DEF AttemptsHold
  <2>8. AttemptsAreControlled'
    <3> SUFFICES ASSUME NEW k \in Attempts, attempt'[k].at \in Held \cup {"hook"}
                 PROVE  controllers'[attempt'[k].agent] = k \/ switching = "drain" \/ closing \in {"queued", "drain"}
      BY DEF AttemptsAreControlled
    <3>1. k # n /\ attempt'[k] = attempt[k] /\ attempt[k].agent \in Agents
      BY <1>1, <2>3 DEF Held, TasksShape, AttemptRows
    <3>2. controllers[attempt[k].agent] = k \/ switching = "drain" \/ closing \in {"queued", "drain"}
      BY <3>1 DEF MemoryInv, AttemptsAreControlled
    <3> QED BY <1>1, <2>4, <2>5, <3>1, <3>2 DEF TasksShape
  <2>9. TransitionsDrain'
    BY <1>1, <1>2, <2>4, <2>5 DEF MemoryInv, TransitionsDrain, TasksShape
  <2>10. AttemptsGoOn(S, W)
    BY <2>1, <2>3 DEF AttemptsGoOn
  <2>11. \A b \in Agents : GoesOn(tasks[b], tasks'[b])
    BY <2>2 DEF GoesOn
  <2>12. NumbersAreNew(S, W)' /\ WritesKnow(S, W)' /\ CopiesLag(S, W)'
    BY <1>1, <2>10, <2>11, GoingOnKeepsCopies
  <2>13. CopiesShape(S, W)' /\ WritesFit(W)' /\ LastWritesAreQuiet(S, W)'
    BY DEF CopiesInv, CopiesShape, WritesFit, LastWritesAreQuiet, Quiet
  <2>14. CopiesInv(S, W)'
    BY <2>12, <2>13 DEF CopiesInv
  <2>15. CopiesInv(saved, writes)'
    BY <2>2, <2>14
  <2> QED BY <2>6, <2>7, <2>8, <2>9, <2>15 DEF TasksInv, MemoryInv
<1> QED BY <1>3, <1>4

LEMMA TailOfWrites ==
  ASSUME NEW W \in Seq(TaskWrites), W # <<>>
  PROVE  /\ Tail(W) \in Seq(TaskWrites) /\ Len(Tail(W)) = Len(W) - 1 /\ Len(W) \in Nat \ {0}
         /\ \A i \in 1 .. Len(W) - 1 : Tail(W)[i] = W[i + 1]
         /\ Head(W) = W[1] /\ W[1] \in TaskWrites
  OBVIOUS

\* What is on disk when the first write that waits has been done, or has failed.
FilesAfter(S, W, ok) == IF ok THEN [S EXCEPT ![Head(W).to] = Head(W).state] ELSE S

\* A write leaves the queue: what was said of the copies is said of the rest; who
\* waited for it knows that the file, and the rest, have its attempt; and the rest
\* of the last state is as quiet as the state is.
LEMMA PopKeeps ==
  ASSUME NEW S, NEW W, MemoryInv, CopiesInv(S, W), W # <<>>, NEW ok \in BOOLEAN
  PROVE  /\ Head(W) \in TaskWrites /\ Head(W).to = file
         /\ CopiesInv(FilesAfter(S, W, ok), Tail(W))
         /\ \A i \in 1 .. Len(Tail(W)) : Head(W).waiter \in {Switcher, Loader} => Tail(W)[i].waiter \notin {Switcher, Loader}
         /\ ok => FilesAfter(S, W, ok)[file] = Head(W).state
         /\ ok => \A n \in Attempts : attempt[n].at = "saving" /\ Head(W).waiter = n =>
              /\ FilesAfter(S, W, ok)[file][attempt[n].agent].attempt = n
              /\ \A j \in 1 .. Len(Tail(W)) : Tail(W)[j].state[attempt[n].agent].attempt = n
         /\ Head(W).waiter = Closer /\ closing \in {"save", "failed"} =>
              Quiet(Head(W).state) /\ \A j \in 1 .. Len(Tail(W)) : Quiet(Tail(W)[j].state)
<1>1. W \in Seq(TaskWrites) /\ S \in [TaskFiles -> Snapshots] /\ file \in TaskFiles
  BY DEF CopiesInv, CopiesShape, MemoryInv, TasksShape
<1>2. PICK T, w, S2, N : T = Tail(W) /\ w = Head(W) /\ S2 = FilesAfter(S, W, ok) /\ N = Len(W) - 1
  OBVIOUS
<1>3. /\ T \in Seq(TaskWrites) /\ Len(T) = N /\ N \in Nat /\ Len(W) = N + 1
      /\ \A i \in 1 .. N : T[i] = W[i + 1]
      /\ w = W[1] /\ w \in TaskWrites
  BY <1>1, <1>2, TailOfWrites
<1>4. 1 \in 1 .. Len(W) /\ \A i \in 1 .. N : i + 1 \in 1 .. Len(W) /\ i + 1 # 1 /\ 1 <= i + 1
  BY <1>3
<1>5. w.to = file
  BY <1>3, <1>4 DEF CopiesInv, WritesFit
<1>6. S2 = S \/ S2 = [S EXCEPT ![file] = w.state]
  <2>1. w.to = file /\ w = Head(W) /\ S2 = FilesAfter(S, W, ok)
    BY <1>2, <1>5
  <2>2. CASE ok
    <3>1. S2 = [S EXCEPT ![Head(W).to] = Head(W).state]
      BY <2>1, <2>2 DEF FilesAfter
    <3>2. S2 = [S EXCEPT ![w.to] = w.state]
      BY ONLY <2>1, <3>1
    <3> QED BY ONLY <2>1, <2>2, <3>2
  <2>3. CASE ~ok
    <3>1. S2 = S
      BY ONLY <2>1, <2>3, Zenon DEF FilesAfter
    <3> QED BY <3>1
  <2> QED BY <2>2, <2>3
<1>7. w.state \in Snapshots
  BY <1>3 DEF TaskWrites
<1>8. /\ S2 \in [TaskFiles -> Snapshots]
      /\ S2[file] = S[file] \/ S2[file] = w.state
      /\ \A f \in TaskFiles : f # file => S2[f] = S[f]
  BY <1>1, <1>6, <1>7
<1>9. ok => S2[file] = w.state
  <2> SUFFICES ASSUME ok PROVE S2[file] = w.state
    OBVIOUS
  <2>1. S2 = [S EXCEPT ![Head(W).to] = Head(W).state]
    BY <1>2 DEF FilesAfter
  <2>2. S2 = [S EXCEPT ![w.to] = w.state]
    BY ONLY <1>2, <2>1
  <2>3. S2 = [S EXCEPT ![file] = w.state]
    BY ONLY <1>5, <2>2
  <2> QED BY ONLY <1>1, <2>3
<1>10. CopiesShape(S2, T)
  BY <1>3, <1>8 DEF CopiesShape
<1>11. NumbersAreNew(S2, T)
  <2>1. ASSUME NEW n, Unheard(n, S, W) PROVE Unheard(n, S2, T)
    <3>1. \A a \in Agents : tasks[a].attempt # n /\ w.state[a].attempt # n /\ \A f \in TaskFiles : S[f][a].attempt # n
      BY <1>3, <1>4, <2>1 DEF Unheard
    <3>2. \A i \in 1 .. N : T[i].waiter # n /\ \A a \in Agents : T[i].state[a].attempt # n
      BY <1>3, <1>4, <2>1 DEF Unheard
    <3>3. \A a \in Agents : \A f \in TaskFiles : S2[f][a].attempt # n
      BY <1>8, <3>1
    <3> QED BY <1>3, <3>1, <3>2, <3>3 DEF Unheard
  <2> QED BY <2>1 DEF CopiesInv, NumbersAreNew
<1>12. WritesFit(T)
  <2>1. \A i \in 1 .. N : /\ T[i].to = file
                          /\ T[i].waiter \in {Switcher, Loader} => switching = "save"
                          /\ T[i].waiter = Closer => closing \in {"save", "down", "failed"}
    BY <1>3, <1>4 DEF CopiesInv, WritesFit
  <2>2. ASSUME NEW i \in 1 .. N, NEW j \in 1 .. N, {T[i].waiter, T[j].waiter} \subseteq {Switcher, Loader} PROVE i = j
    <3>1. i + 1 = j + 1
      BY <1>3, <1>4, <2>2 DEF CopiesInv, WritesFit
    <3> QED BY <3>1
  <2> QED BY <1>3, <2>1, <2>2 DEF WritesFit
<1>13. WritesKnow(S2, T)
  <2> SUFFICES ASSUME NEW n \in Attempts
               PROVE  /\ attempt[n].at = "saving" =>
                           \A i, j \in 1 .. N : i <= j /\ T[i].waiter = n => T[j].state[attempt[n].agent].attempt = n
                      /\ attempt[n].at \in {"run", "check"} =>
                           /\ S2[file][attempt[n].agent].attempt = n
                           /\ \A j \in 1 .. N : T[j].state[attempt[n].agent].attempt = n
    BY <1>3 DEF WritesKnow
  <2>1. ASSUME NEW i \in 1 .. N, NEW j \in 1 .. N, attempt[n].at = "saving", i <= j, T[i].waiter = n
        PROVE  T[j].state[attempt[n].agent].attempt = n
    <3>1. i + 1 <= j + 1
      BY <2>1
    <3> QED BY <1>3, <1>4, <2>1, <3>1 DEF CopiesInv, WritesKnow
  <2>2. ASSUME attempt[n].at \in {"run", "check"}
        PROVE  /\ S2[file][attempt[n].agent].attempt = n
               /\ \A j \in 1 .. N : T[j].state[attempt[n].agent].attempt = n
    <3>1. S[file][attempt[n].agent].attempt = n /\ w.state[attempt[n].agent].attempt = n
      BY <1>3, <1>4, <2>2 DEF CopiesInv, WritesKnow
    <3>2. \A j \in 1 .. N : T[j].state[attempt[n].agent].attempt = n
      BY <1>3, <1>4, <2>2 DEF CopiesInv, WritesKnow
    <3> QED BY <1>8, <3>1, <3>2
  <2> QED BY <2>1, <2>2
<1>14. CopiesLag(S2, T)
  <2> SUFFICES ASSUME NEW a \in Agents
               PROVE  NotAhead(S2[file][a], tasks[a]) /\ \A i \in 1 .. N : NotAhead(T[i].state[a], tasks[a])
    BY <1>3 DEF CopiesLag
  <2>1. NotAhead(S[file][a], tasks[a]) /\ NotAhead(w.state[a], tasks[a])
    BY <1>3, <1>4 DEF CopiesInv, CopiesLag
  <2>2. \A i \in 1 .. N : NotAhead(T[i].state[a], tasks[a])
    BY <1>3, <1>4 DEF CopiesInv, CopiesLag
  <2> QED BY <1>8, <2>1, <2>2
<1>15. LastWritesAreQuiet(S2, T)
  <2>1. ASSUME closing \in {"save", "failed"}, NEW i \in 1 .. N, NEW j \in 1 .. N, i <= j, T[i].waiter = Closer
        PROVE  Quiet(T[j].state)
    <3>1. i + 1 <= j + 1
      BY <2>1
    <3> QED BY <1>3, <1>4, <2>1, <3>1 DEF CopiesInv, LastWritesAreQuiet
  <2>2. ASSUME closing = "down" PROVE Quiet(S2[file]) /\ \A i \in 1 .. N : Quiet(T[i].state)
    <3>1. Quiet(S[file]) /\ Quiet(w.state)
      BY <1>3, <1>4, <2>2 DEF CopiesInv, LastWritesAreQuiet
    <3>2. \A i \in 1 .. N : Quiet(T[i].state)
      BY <1>3, <1>4, <2>2 DEF CopiesInv, LastWritesAreQuiet
    <3> QED BY <1>8, <3>1, <3>2
  <2> QED BY <1>3, <2>1, <2>2 DEF LastWritesAreQuiet
<1>16. CopiesInv(S2, T)
  BY <1>10, <1>11, <1>12, <1>13, <1>14, <1>15 DEF CopiesInv
<1>17. \A i \in 1 .. N : w.waiter \in {Switcher, Loader} => T[i].waiter \notin {Switcher, Loader}
  BY <1>3, <1>4 DEF CopiesInv, WritesFit
<1>18. ASSUME ok, NEW n \in Attempts, attempt[n].at = "saving", w.waiter = n
       PROVE  /\ S2[file][attempt[n].agent].attempt = n
              /\ \A j \in 1 .. N : T[j].state[attempt[n].agent].attempt = n
  BY <1>3, <1>4, <1>9, <1>18 DEF CopiesInv, WritesKnow
<1>19. ASSUME w.waiter = Closer, closing \in {"save", "failed"}
       PROVE  Quiet(w.state) /\ \A j \in 1 .. N : Quiet(T[j].state)
  BY <1>3, <1>4, <1>19 DEF CopiesInv, LastWritesAreQuiet
<1> QED BY <1>2, <1>3, <1>5, <1>9, <1>16, <1>17, <1>18, <1>19

\* A step in which no attempt moves; an agent that counts as running may be told to stop.
ToldToStop(old, new) == new.attempt = old.attempt /\ old.status \in Unsettled /\ new.status = "stopping"

Resting ==
  /\ begun' = begun
  /\ \A k \in Attempts : attempt'[k].at = attempt[k].at /\ attempt'[k].agent = attempt[k].agent
  /\ \A a \in Agents : tasks'[a] = tasks[a] \/ ToldToStop(tasks[a], tasks'[a])

LEMMA RestingHolds ==
  ASSUME TasksShape, AttemptsHold, Resting
  PROVE  AttemptsHold' /\ Alive' = Alive /\ \A a \in Agents : GoesOn(tasks[a], tasks'[a])
<1>1. \A k \in Attempts : attempt'[k].at = attempt[k].at /\ attempt'[k].agent = attempt[k].agent /\ attempt[k].agent \in Agents
  BY DEF Resting, TasksShape, AttemptRows
<1>2. \A a \in Agents : /\ tasks'[a].attempt = tasks[a].attempt
                        /\ tasks'[a].status \in Unsettled <=> tasks[a].status \in Unsettled
                        /\ tasks[a].status = "absent" => tasks'[a].status = "absent"
  BY DEF Resting, ToldToStop, Unsettled
<1>3. \A k \in Attempts : attempt'[k].at \in Held => Current(k)'
  BY <1>1, <1>2 DEF AttemptsHold, Current, Unsettled
<1>4. AttemptsHold'
  BY <1>1, <1>2, <1>3 DEF AttemptsHold, Resting
<1>5. Alive' = Alive
  BY <1>1 DEF Alive
<1>6. \A a \in Agents : GoesOn(tasks[a], tasks'[a])
  BY DEF Resting, ToldToStop, GoesOn
<1> QED BY <1>4, <1>5, <1>6

\* Such a step, when it queues nothing: what remains to be shown is what it does to
\* the controllers and the transitions.
LEMMA RestingKeeps ==
  ASSUME TasksInv, TasksShape', Resting, UNCHANGED <<file, saved, writes>>,
         AttemptsAreControlled', TransitionsDrain', WritesFit(writes)', LastWritesAreQuiet(saved, writes)'
  PROVE  TasksInv'
<1>1. TasksShape /\ AttemptsHold /\ CopiesInv(saved, writes) /\ begun \in Nat
  BY DEF TasksInv, MemoryInv, TasksShape
<1>2. AttemptsHold' /\ \A a \in Agents : GoesOn(tasks[a], tasks'[a])
  BY <1>1, RestingHolds
<1>3. PICK S, W : S = saved /\ W = writes
  OBVIOUS
<1>4. AttemptsGoOn(S, W) /\ begun' >= begun /\ begun' \in Nat
  BY <1>1 DEF AttemptsGoOn, Resting
<1>5. CopiesInv(S, W)
  BY <1>1, <1>3
<1>6. NumbersAreNew(S, W)' /\ WritesKnow(S, W)' /\ CopiesLag(S, W)'
  BY <1>1, <1>2, <1>4, <1>5, GoingOnKeepsCopies
<1>7. saved' = S /\ writes' = W
  BY <1>3
<1>8. NumbersAreNew(saved, writes)' /\ WritesKnow(saved, writes)' /\ CopiesLag(saved, writes)'
  BY <1>6, <1>7
<1>9. CopiesShape(saved, writes)'
  BY <1>5, <1>7 DEF CopiesInv, CopiesShape
<1> QED BY <1>2, <1>8, <1>9 DEF TasksInv, MemoryInv, CopiesInv

LEMMA StartKeeps == ASSUME TasksInv, NEW a \in Agents, StartAgent(a) PROVE TasksInv'
<1> DEFINE n == begun + 1
           row == [at |-> "hook", agent |-> a, aborted |-> FALSE]
<1>1. TasksShape /\ AttemptsHold /\ CopiesInv(saved, writes) /\ MemoryInv /\ begun \in Nat
  BY DEF TasksInv, MemoryInv, TasksShape
<1>2. /\ switching = "no" /\ closing = "no" /\ begun' = n /\ begun < MaxAttempts
      /\ attempt' = [attempt EXCEPT ![n] = row] /\ controllers' = [controllers EXCEPT ![a] = n]
      /\ tasks[a].status = "absent" /\ controllers[a] = 0
      /\ UNCHANGED <<file, saved, switching, closing, tasks, writes>>
  BY DEF StartAgent, Launch, Draining, Absent
<1>3. n \in Attempts /\ n \in Nat /\ n > begun /\ n # 0
  BY <1>1, <1>2, AgentTasksAssumption DEF Attempts
<1>4. row \in AttemptRows /\ row.at = "hook" /\ row.agent = a
  <2>1. FALSE \in BOOLEAN
    BY Zenon
  <2> QED BY <2>1 DEF AttemptRows
<1> HIDE DEF row
<1>5. /\ attempt' \in [Attempts -> AttemptRows] /\ attempt'[n].at = "hook" /\ attempt'[n].agent = a
      /\ \A k \in Attempts : k # n => attempt'[k] = attempt[k]
  BY <1>1, <1>2, <1>3, <1>4 DEF TasksShape
<1>6. attempt[n].at = "none"
  BY <1>1, <1>3 DEF AttemptsHold
<1>7. /\ controllers' \in [Agents -> 0 .. begun'] /\ controllers'[a] = n
      /\ \A b \in Agents : b # a => controllers'[b] = controllers[b]
  <2>1. controllers \in [Agents -> 0 .. n] /\ n \in 0 .. n
    BY <1>1, <1>3 DEF TasksShape
  <2> QED BY <1>2, <2>1
<1>8. TasksShape'
  BY <1>1, <1>2, <1>3, <1>5, <1>7 DEF TasksShape
<1>9. AttemptsHold'
  <2>1. ASSUME NEW b \in Agents, tasks[b].status \in Unsettled
        PROVE  tasks[b].attempt \in Attempts /\ attempt'[tasks[b].attempt].agent = b /\ attempt'[tasks[b].attempt].at \in Held
    <3>1. tasks[b].attempt # n
      BY <1>1, <1>6, <2>1 DEF AttemptsHold, Held
    <3> QED BY <1>1, <1>5, <2>1, <3>1 DEF AttemptsHold
  <2>2. ASSUME NEW k \in Attempts, attempt'[k].at \in Held PROVE Current(k)'
    BY <1>1, <1>2, <1>5, <2>2 DEF AttemptsHold, Current, Held
  <2>3. ASSUME NEW k \in Attempts, attempt'[k].at = "hook" PROVE tasks[attempt'[k].agent].status = "absent"
    BY <1>1, <1>2, <1>5, <2>3 DEF AttemptsHold
  <2>4. ASSUME NEW k \in Attempts, k > begun' PROVE attempt'[k].at = "none"
    <3>1. k > begun /\ k # n
      BY <1>1, <1>2, <2>4 DEF Attempts
    <3> QED BY <1>1, <1>5, <3>1 DEF AttemptsHold
  <2> QED BY <1>2, <2>1, <2>2, <2>3, <2>4 DEF AttemptsHold
<1>10. AttemptsAreControlled'
  <2> SUFFICES ASSUME NEW k \in Attempts, attempt'[k].at \in Held \cup {"hook"} PROVE controllers'[attempt'[k].agent] = k
    BY DEF AttemptsAreControlled
  <2>1. CASE k = n
    BY <1>5, <1>7, <2>1
  <2>2. CASE k # n
    <3>1. attempt'[k] = attempt[k] /\ controllers[attempt[k].agent] = k /\ attempt[k].agent \in Agents /\ k # 0
      BY <1>1, <1>2, <1>5, <2>2 DEF MemoryInv, AttemptsAreControlled, TasksShape, AttemptRows, Attempts
    <3> QED BY <1>2, <1>7, <3>1
  <2> QED BY <2>1, <2>2
<1>11. TransitionsDrain'
  BY <1>2 DEF TransitionsDrain
<1>12. PICK S, W : S = saved /\ W = writes
  OBVIOUS
<1>13. AttemptsGoOn(S, W) /\ begun' >= begun /\ begun' \in Nat /\ CopiesInv(S, W)
  BY <1>1, <1>2, <1>3, <1>5, <1>6, <1>12 DEF AttemptsGoOn
<1>14. file' = file /\ \A b \in Agents : GoesOn(tasks[b], tasks'[b])
  BY <1>2 DEF GoesOn
<1>15. NumbersAreNew(S, W)' /\ WritesKnow(S, W)' /\ CopiesLag(S, W)'
  BY <1>1, <1>13, <1>14, GoingOnKeepsCopies
<1>16. CopiesShape(S, W)' /\ WritesFit(W)' /\ LastWritesAreQuiet(S, W)'
  BY <1>2, <1>13 DEF CopiesInv, CopiesShape, WritesFit, LastWritesAreQuiet
<1>17. CopiesInv(S, W)'
  BY <1>15, <1>16 DEF CopiesInv
<1>18. CopiesInv(saved, writes)'
  BY <1>2, <1>12, <1>17
<1> QED BY <1>8, <1>9, <1>10, <1>11, <1>18 DEF TasksInv, MemoryInv

\* An attempt that is saved for the first time.
LEMMA BeginningHolds ==
  ASSUME MemoryInv, TasksShape', NEW n \in Attempts, NEW a \in Agents, ~Draining,
         attempt'[n].at = "saving", attempt'[n].agent = a,
         \A k \in Attempts : k # n => attempt'[k] = attempt[k],
         tasks'[a].attempt = n, tasks'[a].status = "running",
         \A b \in Agents : b # a => tasks'[b] = tasks[b],
         attempt[n].at \in {"none", "hook"}, n <= begun',
         \A k \in Attempts : k # n /\ attempt[k].at \in Held \cup {"hook"} => attempt[k].agent # a,
         begun' >= begun
  PROVE  AttemptsHold'
<1>1. TasksShape /\ AttemptsHold /\ TasksShape' /\ begun \in Nat /\ begun' \in Nat
  BY DEF MemoryInv, TasksShape
<1>2. \A k \in Attempts : attempt[k].agent \in Agents
  BY <1>1 DEF TasksShape, AttemptRows
<1>3. ASSUME NEW b \in Agents, tasks'[b].status \in Unsettled
      PROVE  tasks'[b].attempt \in Attempts /\ attempt'[tasks'[b].attempt].agent = b /\ attempt'[tasks'[b].attempt].at \in Held
  <2>1. CASE b = a
    BY <2>1 DEF Held
  <2>2. CASE b # a
    <3>1. tasks[b].status \in Unsettled /\ tasks'[b].attempt = tasks[b].attempt
      BY <1>3, <2>2
    <3>2. tasks[b].attempt \in Attempts /\ attempt[tasks[b].attempt].agent = b /\ attempt[tasks[b].attempt].at \in Held
      BY <1>1, <3>1 DEF AttemptsHold
    <3>3. tasks[b].attempt # n
      BY <3>2 DEF Held
    <3> QED BY <3>1, <3>2, <3>3
  <2> QED BY <2>1, <2>2
<1>4. ASSUME NEW k \in Attempts, attempt'[k].at \in Held PROVE Current(k)'
  <2>1. CASE k = n
    BY <2>1 DEF Current
  <2>2. CASE k # n
    <3>1. attempt'[k] = attempt[k] /\ Current(k) /\ attempt[k].agent # a
      BY <1>1, <1>4, <2>2 DEF AttemptsHold
    <3> QED BY <1>2, <3>1 DEF Current
  <2> QED BY <2>1, <2>2
<1>5. ASSUME NEW k \in Attempts, attempt'[k].at = "hook" PROVE tasks'[attempt'[k].agent].status = "absent"
  <2>1. k # n
    BY <1>5
  <2>2. attempt'[k] = attempt[k] /\ tasks[attempt[k].agent].status = "absent" /\ attempt[k].agent # a
    BY <1>1, <1>5, <2>1 DEF AttemptsHold
  <2> QED BY <1>2, <2>2
<1>6. ASSUME NEW k \in Attempts, k > begun' PROVE attempt'[k].at = "none"
  <2>1. k > begun /\ k # n
    BY <1>1, <1>6 DEF Attempts
  <2> QED BY <1>1, <2>1 DEF AttemptsHold
<1> QED BY <1>3, <1>4, <1>5, <1>6 DEF AttemptsHold

LEMMA RunningRow ==
  ASSUME NEW n \in Nat
  PROVE  Running(n) \in TaskRows /\ Running(n).attempt = n /\ Running(n).status = "running"
<1>1. FALSE \in BOOLEAN
  BY Zenon
<1> QED BY <1>1 DEF Running, TaskRows

LEMMA RestartKeeps == ASSUME TasksInv, NEW a \in Agents, RestartAgent(a) PROVE TasksInv'
<1> DEFINE n == begun + 1
           row == [at |-> "saving", agent |-> a, aborted |-> FALSE]
<1>1. TasksShape /\ AttemptsHold /\ CopiesInv(saved, writes) /\ MemoryInv /\ begun \in Nat
  BY DEF TasksInv, MemoryInv, TasksShape
<1>2. /\ switching = "no" /\ closing = "no" /\ begun' = n /\ begun < MaxAttempts
      /\ attempt' = [attempt EXCEPT ![n] = row] /\ controllers' = [controllers EXCEPT ![a] = n]
      /\ tasks' = [tasks EXCEPT ![a] = Running(n)]
      /\ writes' = Append(writes, [to |-> file, state |-> tasks', waiter |-> n])
      /\ UNCHANGED <<file, saved, switching, closing>>
  BY DEF RestartAgent, Launch, Draining, Commit
<1>3. n \in Attempts /\ n \in Nat /\ n > begun /\ n # 0
  BY <1>1, <1>2, AgentTasksAssumption DEF Attempts
<1>4. row \in AttemptRows /\ row.at = "saving" /\ row.agent = a
  <2>1. FALSE \in BOOLEAN
    BY Zenon
  <2> QED BY <2>1 DEF AttemptRows
<1> HIDE DEF row
<1>5. /\ attempt' \in [Attempts -> AttemptRows] /\ attempt'[n].at = "saving" /\ attempt'[n].agent = a
      /\ \A k \in Attempts : k # n => attempt'[k] = attempt[k]
  BY <1>1, <1>2, <1>3, <1>4 DEF TasksShape
<1>6. attempt[n].at = "none"
  BY <1>1, <1>3 DEF AttemptsHold
<1>7. /\ controllers' \in [Agents -> 0 .. begun'] /\ controllers'[a] = n
      /\ \A b \in Agents : b # a => controllers'[b] = controllers[b]
  <2>1. controllers \in [Agents -> 0 .. n] /\ n \in 0 .. n
    BY <1>1, <1>3 DEF TasksShape
  <2> QED BY <1>2, <2>1
<1>8. /\ tasks' \in Snapshots /\ tasks'[a].attempt = n /\ tasks'[a].status = "running"
      /\ \A b \in Agents : b # a => tasks'[b] = tasks[b]
  BY <1>1, <1>2, <1>3, RunningRow DEF TasksShape, Snapshots
<1>9. TasksShape'
  BY <1>1, <1>2, <1>3, <1>5, <1>7, <1>8 DEF TasksShape
<1>10. tasks[a].status \in Ended
  BY DEF RestartAgent, MayRestart
<1>11. \A k \in Attempts : attempt[k].at \in Held \cup {"hook"} => attempt[k].agent # a
  BY <1>1, <1>10 DEF AttemptsHold, Current, Ended
<1>12. ~Draining /\ n <= begun' /\ begun' >= begun /\ begun' \in Nat
  BY <1>1, <1>2, <1>3 DEF Draining
<1>13. AttemptsHold'
  BY <1>1, <1>3, <1>5, <1>6, <1>8, <1>9, <1>11, <1>12, BeginningHolds
<1>14. AttemptsAreControlled'
  <2> SUFFICES ASSUME NEW k \in Attempts, attempt'[k].at \in Held \cup {"hook"} PROVE controllers'[attempt'[k].agent] = k
    BY DEF AttemptsAreControlled
  <2>1. CASE k = n
    BY <1>5, <1>7, <2>1
  <2>2. CASE k # n
    <3>1. /\ attempt'[k] = attempt[k] /\ controllers[attempt[k].agent] = k /\ attempt[k].agent \in Agents
          /\ attempt[k].agent # a
      BY <1>1, <1>2, <1>5, <1>11, <2>2 DEF MemoryInv, AttemptsAreControlled, TasksShape, AttemptRows
    <3> QED BY <1>7, <3>1
  <2> QED BY <2>1, <2>2
<1>15. TransitionsDrain'
  BY <1>2 DEF TransitionsDrain
<1>16. Unheard(n, saved, writes)
  BY <1>1, <1>3 DEF CopiesInv, NumbersAreNew
<1>17. CopiesInv(saved, writes)'
  <2>1. PICK S, W : S = saved /\ W = writes
    OBVIOUS
  <2>2. CopiesInv(S, W) /\ Unheard(n, S, W) /\ saved' = S
    BY <1>1, <1>2, <1>16, <2>1
  <2>3. writes' = Append(W, [to |-> file, state |-> tasks', waiter |-> n])
    BY <1>2, <2>1
  <2>4. /\ n \in Attempts \cup {NoWaiter} /\ file' = file /\ switching' = switching /\ closing' = closing
        /\ closing \in {"no", "queued", "drain"}
    BY <1>2, <1>3
  <2>5. n \in Attempts => attempt'[n].at \notin {"none", "hook"}
    BY <1>5
  <2>6. /\ \A k \in Attempts : attempt'[k].at \in {"none", "hook"} =>
             attempt[k].at \in {"none", "hook"} \/ k = begun + 1
        /\ \A k \in Attempts : attempt'[k].at \in Held =>
             \/ k # n /\ attempt'[k].at = attempt[k].at /\ attempt'[k].agent = attempt[k].agent
             \/ k = n /\ attempt'[k].at = "saving" /\ Unheard(k, S, W)
    BY <1>5, <2>2
  <2>7. tasks'[a].attempt = n /\ n \in Attempts /\ Unheard(n, S, W)
    BY <1>3, <1>8, <2>2
  <2>8. \A b \in Agents : b # a => tasks'[b] = tasks[b]
    BY <1>8
  <2> HIDE DEF n
  <2> QED BY ONLY a \in Agents, <1>1, <1>9, <1>12, <1>13, <2>2, <2>3, <2>4, <2>5, <2>6, <2>7, <2>8, CommitKeepsCopies
<1> QED BY <1>9, <1>13, <1>14, <1>15, <1>17 DEF TasksInv, MemoryInv

LEMMA CreatedKeeps == ASSUME TasksInv, NEW n \in Attempts, Created(n) PROVE TasksInv'
<1> DEFINE a == attempt[n].agent
<1>1. TasksShape /\ AttemptsHold /\ CopiesInv(saved, writes) /\ MemoryInv /\ begun \in Nat /\ a \in Agents
  BY DEF TasksInv, MemoryInv, TasksShape, AttemptRows
<1>2. attempt[n].at = "hook" /\ UNCHANGED <<file, saved, begun, switching, closing>>
  BY DEF Created
<1>3. CASE ~Draining /\ tasks' = [tasks EXCEPT ![a] = Running(n)] /\ Commit(tasks', n) /\ At(n, "saving") /\ UNCHANGED controllers
  <2>1. switching = "no" /\ closing = "no"
    BY <1>3 DEF Draining
  <2>2. n \in Nat /\ n # 0
    BY DEF Attempts
  <2>3. /\ attempt' \in [Attempts -> AttemptRows] /\ attempt'[n].at = "saving" /\ attempt'[n].agent = a
        /\ \A k \in Attempts : k # n => attempt'[k] = attempt[k]
    BY <1>1, <1>3, AtEffect
  <2>4. /\ tasks' \in Snapshots /\ tasks'[a].attempt = n /\ tasks'[a].status = "running"
        /\ \A b \in Agents : b # a => tasks'[b] = tasks[b]
    BY <1>1, <1>3, <2>2, RunningRow DEF TasksShape, Snapshots
  <2>5. TasksShape'
    BY <1>1, <1>2, <1>3, <2>3, <2>4 DEF TasksShape
  <2>6. tasks[a].status = "absent" /\ controllers[a] = n
    BY <1>1, <1>2, <2>1 DEF AttemptsHold, MemoryInv, AttemptsAreControlled
  <2>7. ASSUME NEW k \in Attempts, k # n, attempt[k].at \in Held \cup {"hook"} PROVE attempt[k].agent # a
    BY <1>1, <2>1, <2>6, <2>7 DEF MemoryInv, AttemptsAreControlled
  <2>8. n <= begun
    BY <1>1, <1>2 DEF AttemptsHold, Attempts
  <2>9. AttemptsHold'
    <3>1. n <= begun' /\ begun' >= begun
      BY <1>1, <1>2, <2>8
    <3>2. \A k \in Attempts : k # n /\ attempt[k].at \in Held \cup {"hook"} => attempt[k].agent # a
      BY <2>7
    <3> QED BY <1>1, <1>2, <1>3, <2>3, <2>4, <2>5, <3>1, <3>2, BeginningHolds
  <2>10. AttemptsAreControlled'
    <3> SUFFICES ASSUME NEW k \in Attempts, attempt'[k].at \in Held \cup {"hook"} PROVE controllers'[attempt'[k].agent] = k
      BY DEF AttemptsAreControlled
    <3>1. controllers' = controllers /\ controllers[attempt[k].agent] = k
      <4>1. CASE k = n
        BY <1>3, <2>6, <4>1
      <4>2. CASE k # n
        BY <1>1, <1>3, <2>1, <2>3, <4>2 DEF MemoryInv, AttemptsAreControlled
      <4> QED BY <4>1, <4>2
    <3>2. attempt'[k].agent = attempt[k].agent
      BY <2>3
    <3> QED BY <3>1, <3>2
  <2>11. TransitionsDrain'
    BY <1>2, <2>1 DEF TransitionsDrain
  <2>12. CopiesInv(saved, writes)'
    <3>1. PICK S, W : S = saved /\ W = writes
      OBVIOUS
    <3>2. CopiesInv(S, W) /\ saved' = S
      BY <1>1, <1>2, <3>1
    <3>3. writes' = Append(W, [to |-> file, state |-> tasks', waiter |-> n])
      BY <1>3, <3>1 DEF Commit
    <3>4. /\ n \in Attempts \cup {NoWaiter} /\ file' = file /\ switching' = switching /\ closing' = closing
          /\ closing \in {"no", "queued", "drain"} /\ begun' >= begun
      BY <1>1, <1>2, <2>1
    <3>5. n \in Attempts => attempt'[n].at \notin {"none", "hook"}
      BY <2>3
    <3>6. Unheard(n, S, W)
      BY <1>2, <3>2 DEF CopiesInv, NumbersAreNew
    <3>7. /\ \A k \in Attempts : attempt'[k].at \in {"none", "hook"} =>
               attempt[k].at \in {"none", "hook"} \/ k = begun + 1
          /\ \A k \in Attempts : attempt'[k].at \in Held =>
               \/ k # n /\ attempt'[k].at = attempt[k].at /\ attempt'[k].agent = attempt[k].agent
               \/ k = n /\ attempt'[k].at = "saving" /\ Unheard(k, S, W)
      BY <2>3, <3>6
    <3>8. tasks'[a].attempt = n /\ n \in Attempts /\ Unheard(n, S, W)
      BY <2>4, <3>6
    <3>9. \A b \in Agents : b # a => tasks'[b] = tasks[b]
      BY <2>4
    <3> HIDE DEF a
    <3> QED BY ONLY <1>1, <2>5, <2>9, <3>2, <3>3, <3>4, <3>5, <3>7, <3>8, <3>9, CommitKeepsCopies
  <2> QED BY <2>5, <2>9, <2>10, <2>11, <2>12 DEF TasksInv, MemoryInv
<1>4. CASE SettleTask(n, Failure(n))
  <2>1. Failure(n) \in Ended
    BY DEF Failure, Ended
  <2>2. PICK S, W : S = saved /\ W = writes
    OBVIOUS
  <2>3. CopiesInv(S, W) /\ saved' = S /\ SettleBehind(W, n, Failure(n))
    BY <1>1, <1>2, <1>4, <2>2 DEF SettleTask
  <2>4. attempt[n].at \in Held \cup {"hook"}
    BY <1>2
  <2> QED BY <1>1, <1>2, <2>1, <2>3, <2>4, SettleKeeps
<1> QED BY <1>3, <1>4 DEF Created

LEMMA CheckedKeeps == ASSUME TasksInv, NEW n \in Attempts, Checked(n) PROVE TasksInv'
<1>1. /\ CopiesInv(saved, writes) /\ MemoryInv
      /\ attempt[n].at = "check" /\ UNCHANGED <<file, saved, begun, switching, closing>>
  BY DEF TasksInv, Checked
<1>2. PICK outcome \in {"completed", "failed"} : SettleTask(n, outcome)
  BY DEF Checked
<1>3. PICK S, W : S = saved /\ W = writes
  OBVIOUS
<1>4. CopiesInv(S, W) /\ saved' = S /\ SettleBehind(W, n, outcome) /\ outcome \in Ended
  BY <1>1, <1>2, <1>3 DEF SettleTask, Ended
<1>5. attempt[n].at \in Held \cup {"hook"}
  BY <1>1 DEF Held
<1> QED BY <1>1, <1>4, <1>5, SettleKeeps

\* An attempt whose agent still counts as running moves on while nothing is queued.
LEMMA GoingOnHolds ==
  ASSUME MemoryInv, NEW n \in Attempts, attempt[n].at \in Held,
         attempt'[n].at \in {"run", "check"}, attempt'[n].agent = attempt[n].agent,
         \A k \in Attempts : k # n => attempt'[k] = attempt[k],
         UNCHANGED <<tasks, begun, controllers, switching, closing>>
  PROVE  AttemptsHold' /\ AttemptsAreControlled' /\ TransitionsDrain'
<1>1. TasksShape /\ AttemptsHold
  BY DEF MemoryInv
<1>2. ASSUME NEW k \in Attempts
      PROVE  /\ attempt'[k].agent = attempt[k].agent
             /\ attempt'[k].at \in Held <=> attempt[k].at \in Held
             /\ attempt'[k].at = "hook" <=> attempt[k].at = "hook"
             /\ attempt'[k].at = "none" <=> attempt[k].at = "none"
  BY DEF Held
<1>3. AttemptsHold'
  <2>1. \A k \in Attempts : Current(k)' <=> Current(k)
    BY <1>2 DEF Current
  <2> QED BY <1>1, <1>2, <2>1 DEF AttemptsHold
<1>4. AttemptsAreControlled'
  BY <1>2 DEF MemoryInv, AttemptsAreControlled
<1>5. TransitionsDrain'
  <2>1. n \in Alive
    BY DEF Alive, Held
  <2> QED BY <2>1 DEF MemoryInv, TransitionsDrain
<1> QED BY <1>3, <1>4, <1>5

LEMMA RunEndsKeeps == ASSUME TasksInv, NEW n \in Attempts, RunEnds(n) PROVE TasksInv'
<1>1. /\ CopiesInv(saved, writes) /\ MemoryInv /\ TasksShape
      /\ attempt[n].at = "run" /\ UNCHANGED <<file, saved, begun, switching, closing>>
  BY DEF TasksInv, MemoryInv, RunEnds
<1>2. PICK S, W : S = saved /\ W = writes
  OBVIOUS
<1>3. CopiesInv(S, W) /\ saved' = S /\ attempt[n].at \in Held \cup {"hook"}
  BY <1>1, <1>2 DEF Held
<1>4. CASE SettleTask(n, Failure(n))
  <2>1. Failure(n) \in Ended /\ SettleBehind(W, n, Failure(n))
    BY <1>2, <1>4 DEF Failure, Ended, SettleTask
  <2> QED BY <1>1, <1>3, <2>1, SettleKeeps
<1>5. CASE At(n, "check") /\ UNCHANGED <<tasks, writes, controllers>>
  <2>1. /\ attempt' \in [Attempts -> AttemptRows]
        /\ attempt'[n].at = "check" /\ attempt'[n].agent = attempt[n].agent
        /\ \A k \in Attempts : k # n => attempt'[k] = attempt[k]
    BY <1>1, <1>5, AtEffect
  <2>2. TasksShape'
    BY <1>1, <1>5, <2>1 DEF TasksShape
  <2>3. AttemptsHold' /\ AttemptsAreControlled' /\ TransitionsDrain'
    <3>1. attempt[n].at \in Held /\ attempt'[n].at \in {"run", "check"}
      BY <1>1, <2>1 DEF Held
    <3> QED BY <1>1, <1>5, <2>1, <3>1, GoingOnHolds
  <2>4. AttemptsGoOn(S, W) /\ begun' >= begun /\ begun' \in Nat /\ begun \in Nat
    BY <1>1, <2>1 DEF AttemptsGoOn, TasksShape
  <2>5. file' = file /\ \A b \in Agents : GoesOn(tasks[b], tasks'[b])
    BY <1>1, <1>5 DEF GoesOn
  <2>6. NumbersAreNew(S, W)' /\ WritesKnow(S, W)' /\ CopiesLag(S, W)'
    BY <1>3, <2>4, <2>5, GoingOnKeepsCopies
  <2>7. CopiesShape(S, W)' /\ WritesFit(W)' /\ LastWritesAreQuiet(S, W)'
    BY <1>1, <1>3 DEF CopiesInv, CopiesShape, WritesFit, LastWritesAreQuiet
  <2>8. CopiesInv(S, W)'
    BY <2>6, <2>7 DEF CopiesInv
  <2>9. CopiesInv(saved, writes)'
    BY <1>1, <1>2, <1>5, <2>8
  <2> QED BY <2>2, <2>3, <2>9 DEF TasksInv, MemoryInv
<1> QED BY <1>4, <1>5 DEF RunEnds

\* The signal of an attempt fires.
LEMMA Aborted ==
  ASSUME NEW row \in AttemptRows
  PROVE  LET r == [row EXCEPT !.aborted = TRUE]
         IN r \in AttemptRows /\ r.at = row.at /\ r.agent = row.agent
<1>1. TRUE \in BOOLEAN
  BY Zenon
<1> QED BY <1>1 DEF AttemptRows

LEMMA StopAgentKeeps == ASSUME TasksInv, NEW a \in Agents, StopAgent(a) PROVE TasksInv'
<1> DEFINE c == controllers[a]
           row == [attempt[c] EXCEPT !.aborted = TRUE]
<1>1. TasksShape /\ AttemptsHold /\ CopiesInv(saved, writes) /\ MemoryInv /\ begun \in Nat
  BY DEF TasksInv, MemoryInv, TasksShape
<1>2. /\ tasks[a].status = "running" /\ c # 0
      /\ attempt' = [attempt EXCEPT ![c] = row]
      /\ tasks' = [tasks EXCEPT ![a].status = "stopping"]
      /\ writes' = Append(writes, [to |-> file, state |-> tasks', waiter |-> NoWaiter])
      /\ UNCHANGED <<file, saved, begun, controllers, switching, closing>>
  BY DEF StopAgent, Commit
<1>3. /\ tasks' \in Snapshots
      /\ tasks'[a].status = "stopping" /\ tasks'[a].attempt = tasks[a].attempt
      /\ \A b \in Agents : b # a => tasks'[b] = tasks[b]
  BY <1>1, <1>2, StatusEffect
<1>4. c \in Attempts => row \in AttemptRows /\ row.at = attempt[c].at /\ row.agent = attempt[c].agent
  <2> SUFFICES ASSUME c \in Attempts PROVE row \in AttemptRows /\ row.at = attempt[c].at /\ row.agent = attempt[c].agent
    OBVIOUS
  <2>1. attempt[c] \in AttemptRows
    BY <1>1 DEF TasksShape
  <2> QED BY <2>1, Aborted
<1> HIDE DEF row, c
<1>5. /\ attempt' \in [Attempts -> AttemptRows]
      /\ \A k \in Attempts : attempt'[k].at = attempt[k].at /\ attempt'[k].agent = attempt[k].agent
  <2>1. attempt \in [Attempts -> AttemptRows]
    BY <1>1 DEF TasksShape
  <2>2. CASE c \in Attempts
    BY <1>2, <1>4, <2>1, <2>2
  <2>3. CASE c \notin Attempts
    BY <1>2, <2>1, <2>3
  <2> QED BY <2>2, <2>3
<1>6. TasksShape'
  BY <1>1, <1>2, <1>3, <1>5 DEF TasksShape
<1>7. Resting
  BY <1>2, <1>3, <1>5 DEF Resting, ToldToStop, Unsettled
<1>8. AttemptsHold' /\ Alive' = Alive /\ \A b \in Agents : GoesOn(tasks[b], tasks'[b])
  BY <1>1, <1>7, RestingHolds
<1>9. c \in 0 .. begun
  BY <1>1 DEF TasksShape, c
<1>10. switching \notin {"drain", "save"} /\ closing = "no"
  BY <1>1, <1>2 DEF MemoryInv, TransitionsDrain, c
<1>11. AttemptsAreControlled' /\ TransitionsDrain'
  BY <1>1, <1>2, <1>5, <1>8, <1>10 DEF MemoryInv, AttemptsAreControlled, TransitionsDrain
<1>12. CopiesInv(saved, writes)'
  <2>1. PICK S, W : S = saved /\ W = writes
    OBVIOUS
  <2>2. CopiesInv(S, W) /\ saved' = S
    BY <1>1, <1>2, <2>1
  <2>3. writes' = Append(W, [to |-> file, state |-> tasks', waiter |-> NoWaiter])
    BY <1>2, <2>1
  <2>4. NoWaiter \notin Attempts
    BY DEF NoWaiter, Attempts
  <2>5. /\ NoWaiter \in Attempts \cup {NoWaiter} /\ file' = file /\ switching' = switching /\ closing' = closing
        /\ closing \in {"no", "queued", "drain"} /\ begun' >= begun
    BY <1>1, <1>2, <1>10
  <2>6. NoWaiter \in Attempts => attempt'[NoWaiter].at \notin {"none", "hook"}
    BY <2>4
  <2>7. \A k \in Attempts : attempt'[k].at \in {"none", "hook"} => attempt[k].at \in {"none", "hook"} \/ k = begun + 1
    BY <1>5
  <2>8. \A k \in Attempts : attempt'[k].at \in Held =>
           \/ k # NoWaiter /\ attempt'[k].at = attempt[k].at /\ attempt'[k].agent = attempt[k].agent
           \/ k = NoWaiter /\ attempt'[k].at = "saving" /\ Unheard(k, S, W)
    BY <1>5, <2>4
  <2>9. GoesOn(tasks[a], tasks'[a]) /\ \A b \in Agents : b # a => tasks'[b] = tasks[b]
    BY <1>3, <1>8
  <2> QED BY ONLY a \in Agents, <1>1, <1>6, <1>8, <2>2, <2>3, <2>5, <2>6, <2>7, <2>8, <2>9, CommitKeepsCopies
<1> QED BY <1>6, <1>8, <1>11, <1>12 DEF TasksInv, MemoryInv

LEMMA StoppedRow ==
  ASSUME NEW row \in TaskRows, NEW recoverable \in BOOLEAN
  PROVE  LET r == [row EXCEPT !.status = "stopping", !.recover = recoverable]
         IN r \in TaskRows /\ r.status = "stopping" /\ r.attempt = row.attempt
  BY DEF TaskRows

LEMMA StopAllEffect ==
  ASSUME TasksShape, NEW recoverable \in BOOLEAN, StopAll(recoverable), begun' = begun
  PROVE  /\ tasks' \in Snapshots /\ attempt' \in [Attempts -> AttemptRows]
         /\ controllers' \in [Agents -> 0 .. begun'] /\ \A a \in Agents : controllers'[a] = 0
         /\ Resting
<1>1. tasks \in Snapshots /\ attempt \in [Attempts -> AttemptRows] /\ begun \in Nat
  BY DEF TasksShape
<1>2. controllers' \in [Agents -> 0 .. begun'] /\ \A a \in Agents : controllers'[a] = 0
  <2>1. controllers' = [a \in Agents |-> 0]
    BY DEF StopAll
  <2>2. 0 \in 0 .. begun'
    BY <1>1
  <2> QED BY <2>1, <2>2
<1>3. attempt' = [k \in Attempts |-> attempt'[k]] /\ \A k \in Attempts :
        attempt'[k] \in AttemptRows /\ attempt'[k].at = attempt[k].at /\ attempt'[k].agent = attempt[k].agent
  <2> DEFINE Fired(k) == \E a \in Agents : controllers[a] = k
             row(k) == [attempt[k] EXCEPT !.aborted = TRUE]
  <2>1. attempt' = [k \in Attempts |-> IF Fired(k) THEN row(k) ELSE attempt[k]]
    BY DEF StopAll
  <2>2. ASSUME NEW k \in Attempts PROVE row(k) \in AttemptRows /\ row(k).at = attempt[k].at /\ row(k).agent = attempt[k].agent
    <3>1. attempt[k] \in AttemptRows
      BY <1>1
    <3> QED BY <3>1, Aborted
  <2>3. \A k \in Attempts : attempt[k] \in AttemptRows
    BY <1>1
  <2> HIDE DEF Fired, row
  <2> QED BY <2>1, <2>2, <2>3
<1>4. attempt' \in [Attempts -> AttemptRows]
  BY <1>3
<1>5. tasks' \in Snapshots /\ \A a \in Agents : tasks'[a] = tasks[a] \/ ToldToStop(tasks[a], tasks'[a])
  <2> DEFINE Told(a) == controllers[a] # 0 /\ tasks[a].status \in {"running", "stopping"}
             row(a) == [tasks[a] EXCEPT !.status = "stopping", !.recover = recoverable]
  <2>1. tasks' = [a \in Agents |-> IF Told(a) THEN row(a) ELSE tasks[a]]
    BY DEF StopAll
  <2>2. ASSUME NEW a \in Agents PROVE row(a) \in TaskRows /\ row(a).status = "stopping" /\ row(a).attempt = tasks[a].attempt
    <3>1. tasks[a] \in TaskRows
      BY <1>1 DEF Snapshots
    <3> QED BY <3>1, StoppedRow
  <2>3. \A a \in Agents : tasks[a] \in TaskRows /\ (Told(a) => tasks[a].status \in Unsettled)
    BY <1>1 DEF Snapshots, Unsettled
  <2> HIDE DEF Told, row
  <2>4. tasks' \in [Agents -> TaskRows]
    BY <2>1, <2>2, <2>3
  <2>5. ASSUME NEW a \in Agents PROVE tasks'[a] = tasks[a] \/ ToldToStop(tasks[a], tasks'[a])
    <3>1. CASE Told(a)
      <4>1. tasks'[a] = row(a)
        BY <2>1, <3>1
      <4> QED BY <2>2, <2>3, <3>1, <4>1 DEF ToldToStop
    <3>2. CASE ~Told(a)
      BY <2>1, <3>2
    <3> QED BY <3>1, <3>2
  <2> QED BY <2>4, <2>5 DEF Snapshots
<1>6. Resting
  BY <1>3, <1>5 DEF Resting
<1> QED BY <1>2, <1>4, <1>5, <1>6

\* Everything that runs is stopped, and a transition goes on.
LEMMA StopAllKeeps ==
  ASSUME TasksInv, NEW recoverable \in BOOLEAN, StopAll(recoverable), UNCHANGED <<file, saved, writes, begun>>,
         switching' \in {"no", "queued", "drain", "save"}, closing' \in {"no", "queued", "drain"}, closing \in {"no", "queued"},
         switching' = "drain" \/ closing' \in {"queued", "drain"},
         switching' = "save" <=> switching = "save",
         closing' = "drain" => switching' = "no"
  PROVE  TasksInv'
<1>1. TasksShape /\ AttemptsHold /\ CopiesInv(saved, writes) /\ MemoryInv /\ begun' = begun
  BY DEF TasksInv, MemoryInv
<1>2. /\ tasks' \in Snapshots /\ attempt' \in [Attempts -> AttemptRows]
      /\ controllers' \in [Agents -> 0 .. begun'] /\ \A a \in Agents : controllers'[a] = 0
      /\ Resting
  BY <1>1, StopAllEffect
<1>3. TasksShape'
  BY <1>1, <1>2 DEF TasksShape
<1>4. Alive' = Alive
  BY <1>1, <1>2, RestingHolds
<1>5. AttemptsAreControlled'
  BY DEF AttemptsAreControlled
<1>6. TransitionsDrain'
  BY <1>1, <1>2, <1>4 DEF MemoryInv, TransitionsDrain
<1>7. WritesFit(writes)'
  BY <1>1 DEF CopiesInv, WritesFit
<1>8. LastWritesAreQuiet(saved, writes)'
  BY DEF LastWritesAreQuiet
<1> QED BY <1>2, <1>3, <1>5, <1>6, <1>7, <1>8, RestingKeeps

LEMMA SwitchStopsKeeps == ASSUME TasksInv, SwitchStops PROVE TasksInv'
<1>1. TasksShape /\ AttemptsHold /\ CopiesInv(saved, writes) /\ MemoryInv
  BY DEF TasksInv, MemoryInv
<1>2. switching = "queued" /\ UNCHANGED <<file, saved, writes, begun, closing>>
  BY DEF SwitchStops
<1>3. CASE closing = "no"
  <2>1. switching' = "drain" /\ StopAll(FALSE)
    BY <1>3 DEF SwitchStops
  <2>2. FALSE \in BOOLEAN
    BY Zenon
  <2> QED BY <1>2, <1>3, <2>1, <2>2, StopAllKeeps
<1>4. CASE closing # "no"
  <2>1. switching' = "no" /\ UNCHANGED <<tasks, attempt, controllers>>
    BY <1>4 DEF SwitchStops
  <2>2. Resting
    BY <1>2, <2>1 DEF Resting
  <2>3. TasksShape'
    BY <1>1, <1>2, <2>1 DEF TasksShape
  <2>4. AttemptsAreControlled'
    BY <1>1, <1>2, <2>1 DEF MemoryInv, AttemptsAreControlled
  <2>5. TransitionsDrain'
    BY <1>1, <1>2, <2>1 DEF MemoryInv, TransitionsDrain, Alive
  <2>6. WritesFit(writes)'
    BY <1>1, <1>2, <2>1 DEF CopiesInv, WritesFit
  <2>7. LastWritesAreQuiet(saved, writes)'
    BY <1>1, <1>2 DEF CopiesInv, LastWritesAreQuiet
  <2> QED BY <1>2, <2>2, <2>3, <2>4, <2>5, <2>6, <2>7, RestingKeeps
<1> QED BY <1>3, <1>4

LEMMA SwitchStorageKeeps == ASSUME TasksInv, SwitchStorage PROVE TasksInv'
<1>1. TasksShape /\ AttemptsHold /\ CopiesInv(saved, writes) /\ MemoryInv
  BY DEF TasksInv, MemoryInv
<1>2. /\ closing = "no" /\ switching = "no" /\ switching' = "queued"
      /\ UNCHANGED <<file, tasks, saved, writes, attempt, begun, controllers, closing>>
  BY DEF SwitchStorage
<1>3. Resting
  BY <1>2 DEF Resting
<1>4. TasksShape'
  BY <1>1, <1>2 DEF TasksShape
<1>5. AttemptsAreControlled' /\ TransitionsDrain'
  BY <1>1, <1>2 DEF MemoryInv, AttemptsAreControlled, TransitionsDrain
<1>6. WritesFit(writes)' /\ LastWritesAreQuiet(saved, writes)'
  BY <1>1, <1>2 DEF CopiesInv, WritesFit, LastWritesAreQuiet
<1> QED BY <1>2, <1>3, <1>4, <1>5, <1>6, RestingKeeps

LEMMA ShutdownKeeps == ASSUME TasksInv, Shutdown \/ ShutdownStops PROVE TasksInv'
<1>1. TRUE \in BOOLEAN
  BY Zenon
<1>2. MemoryInv /\ switching \in {"no", "queued", "drain", "save"}
  BY DEF TasksInv, MemoryInv, TasksShape
<1>3. CASE Shutdown
  <2>1. closing = "no" /\ closing' = "queued" /\ StopAll(TRUE) /\ UNCHANGED <<file, saved, writes, begun, switching>>
    BY <1>3 DEF Shutdown
  <2> QED BY <1>1, <1>2, <2>1, StopAllKeeps
<1>4. CASE ShutdownStops
  <2>1. /\ closing = "queued" /\ switching = "no" /\ closing' = "drain" /\ StopAll(TRUE)
        /\ UNCHANGED <<file, saved, writes, begun, switching>>
    BY <1>4 DEF ShutdownStops
  <2> QED BY <1>1, <1>2, <2>1, StopAllKeeps
<1> QED BY <1>3, <1>4

\* The last commit of a transition, when nothing is alive.
LEMMA LastCommitKeeps ==
  ASSUME MemoryInv, NEW S, NEW W, CopiesInv(S, W), NEW x \in {Switcher, Closer}, Alive = {},
         writes' = Append(W, [to |-> file, state |-> tasks, waiter |-> x]), saved' = S,
         UNCHANGED <<file, tasks, attempt, begun>>,
         switching' = "save" \/ x = Closer, switching = "save" => switching' = "save",
         x = Closer => closing' = "save" /\ closing = "drain",
         x = Switcher => switching = "drain" /\ closing' = closing /\ closing \in {"no", "queued"}
  PROVE  CopiesInv(saved, writes)'
<1> DEFINE last == [to |-> file, state |-> tasks, waiter |-> x]
           N == Len(W)
<1>1. /\ TasksShape /\ AttemptsHold /\ begun \in Nat
      /\ W \in Seq(TaskWrites) /\ S \in [TaskFiles -> Snapshots]
  BY DEF MemoryInv, TasksShape, CopiesInv, CopiesShape
<1>2. last \in TaskWrites
  BY <1>1 DEF TasksShape, TaskWrites, Waiters
<1>3. last.to = file /\ last.state = tasks /\ last.waiter = x /\ writes' = Append(W, last)
  OBVIOUS
<1> HIDE DEF last
<1>4. /\ writes' \in Seq(TaskWrites) /\ Len(writes') = N + 1 /\ N \in Nat
      /\ \A i \in 1 .. N : writes'[i] = W[i]
      /\ writes'[N + 1] = last
  BY <1>1, <1>2, <1>3
<1>5. \A n \in Attempts : attempt[n].at \notin Held \cup {"hook", "settling"}
  BY DEF Alive, Held
<1> HIDE DEF N
<1>6. ASSUME NEW i \in 1 .. N + 1 PROVE i = N + 1 \/ i \in 1 .. N
  BY <1>4
<1>7. CopiesShape(saved, writes)'
  BY <1>1, <1>4 DEF CopiesShape
<1>8. x \notin Attempts /\ x < 0
  BY DEF Attempts, Switcher, Closer
<1>9. NumbersAreNew(saved, writes)'
  <2>1. ASSUME NEW n, Unheard(n, S, W), n # x PROVE Unheard(n, saved, writes)'
    <3>1. \A i \in 1 .. N + 1 : writes'[i].waiter # n /\ \A b \in Agents : writes'[i].state[b].attempt # n
      BY <1>3, <1>4, <1>6, <2>1 DEF Unheard, N
    <3> QED BY <1>4, <2>1, <3>1 DEF Unheard
  <2> QED BY <1>8, <2>1 DEF CopiesInv, NumbersAreNew
<1>10. Switcher # Closer /\ Loader # Closer
  BY DEF Switcher, Closer, Loader
<1>11. WritesFit(writes)'
  <2>1. x = Switcher => \A i \in 1 .. N : W[i].waiter \notin {Switcher, Loader}
    BY <1>4 DEF CopiesInv, WritesFit, N
  <2>2. ASSUME NEW i \in 1 .. N + 1
        PROVE  /\ writes'[i].to = file
               /\ writes'[i].waiter \in {Switcher, Loader} => switching' = "save"
               /\ writes'[i].waiter = Closer => closing' \in {"save", "down", "failed"}
    <3>1. CASE i = N + 1
      BY <1>3, <1>4, <1>10, <3>1
    <3>2. CASE i \in 1 .. N
      <4>1. /\ W[i].to = file
            /\ W[i].waiter \in {Switcher, Loader} => switching = "save"
            /\ W[i].waiter = Closer => closing \in {"save", "down", "failed"}
        BY <3>2 DEF CopiesInv, WritesFit, N
      <4> QED BY <1>4, <3>2, <4>1
    <3> QED BY <1>6, <3>1, <3>2
  <2>3. ASSUME NEW i \in 1 .. N + 1, NEW j \in 1 .. N + 1, {writes'[i].waiter, writes'[j].waiter} \subseteq {Switcher, Loader}
        PROVE  i = j
    <3>1. ASSUME i \in 1 .. N, j \in 1 .. N PROVE i = j
      BY <1>4, <2>3, <3>1 DEF CopiesInv, WritesFit, N
    <3>2. ASSUME i = N + 1 \/ j = N + 1 PROVE x = Switcher
      BY <1>3, <1>4, <1>10, <2>3, <3>2
    <3>3. ASSUME x = Switcher PROVE i = N + 1 /\ j = N + 1
      BY <1>4, <1>6, <2>1, <2>3, <3>3
    <3> QED BY <1>6, <3>1, <3>2, <3>3
  <2> QED BY <1>4, <2>2, <2>3 DEF WritesFit
<1>12. WritesKnow(saved, writes)'
  BY <1>5 DEF WritesKnow, Held
<1>13. CopiesLag(saved, writes)'
  <2> SUFFICES ASSUME NEW b \in Agents
               PROVE  /\ NotAhead(S[file][b], tasks[b])
                      /\ \A i \in 1 .. N + 1 : NotAhead(writes'[i].state[b], tasks[b])
    BY <1>4 DEF CopiesLag
  <2>1. NotAhead(S[file][b], tasks[b]) /\ \A i \in 1 .. N : NotAhead(W[i].state[b], tasks[b])
    BY DEF CopiesInv, CopiesLag, N
  <2>2. NotAhead(tasks[b], tasks[b])
    BY DEF NotAhead, Unsettled
  <2> QED BY <1>3, <1>4, <1>6, <2>1, <2>2
<1>14. LastWritesAreQuiet(saved, writes)'
  <2>1. CASE x = Switcher
    BY <1>10, <2>1 DEF LastWritesAreQuiet
  <2>2. CASE x = Closer
    <3>1. Quiet(tasks)
      BY <1>1, <1>5 DEF AttemptsHold, Quiet
    <3>2. \A i \in 1 .. N : W[i].waiter # Closer
      BY <2>2 DEF CopiesInv, WritesFit, N
    <3>3. ASSUME NEW i \in 1 .. N + 1, NEW j \in 1 .. N + 1, i <= j, writes'[i].waiter = Closer PROVE Quiet(writes'[j].state)
      <4>1. i = N + 1
        BY <1>4, <1>6, <3>2, <3>3
      <4>2. j = N + 1
        BY <1>4, <3>3, <4>1
      <4> QED BY <1>3, <1>4, <3>1, <4>2
    <3> QED BY <1>4, <2>2, <3>3 DEF LastWritesAreQuiet
  <2> QED BY <2>1, <2>2
<1> QED BY <1>7, <1>9, <1>11, <1>12, <1>13, <1>14 DEF CopiesInv

LEMMA DrainedKeeps == ASSUME TasksInv, SwitchDrained \/ ShutdownDrained PROVE TasksInv'
<1>1. TasksShape /\ AttemptsHold /\ CopiesInv(saved, writes) /\ MemoryInv /\ TransitionsDrain
  BY DEF TasksInv, MemoryInv
<1>2. PICK S, W : S = saved /\ W = writes
  OBVIOUS
<1>3. Alive = {} /\ UNCHANGED <<file, tasks, saved, attempt, begun, controllers>>
  BY DEF SwitchDrained, ShutdownDrained
<1>4. \A n \in Attempts : attempt[n].at \notin Held \cup {"hook", "settling"}
  BY <1>3 DEF Alive, Held
<1>5. CopiesInv(S, W) /\ saved' = S
  BY <1>1, <1>2, <1>3
<1>6. CopiesInv(saved, writes)' /\ switching' \in {"no", "save"} /\ closing' \in {"no", "queued", "save"}
      /\ (closing' = "save" => switching' = "no") /\ (switching' = "no" => closing' # "no")
      /\ switching \in {"no", "drain"} /\ (switching = "no" => closing = "drain")
  <2>1. CASE SwitchDrained
    <3>1. switching = "drain" /\ switching' = "save" /\ closing' = closing /\ closing \in {"no", "queued"}
      BY <1>1, <2>1 DEF SwitchDrained, TransitionsDrain, TasksShape
    <3>2. writes' = Append(W, [to |-> file, state |-> tasks, waiter |-> Switcher])
      BY <1>2, <2>1 DEF SwitchDrained
    <3>3. Switcher # Closer
      BY DEF Switcher, Closer
    <3> QED BY <1>1, <1>3, <1>5, <3>1, <3>2, <3>3, LastCommitKeeps
  <2>2. CASE ShutdownDrained
    <3>1. switching = "no" /\ closing = "drain" /\ closing' = "save" /\ switching' = switching
      BY <1>1, <2>2 DEF ShutdownDrained, TransitionsDrain
    <3>2. writes' = Append(W, [to |-> file, state |-> tasks, waiter |-> Closer])
      BY <1>2, <2>2 DEF ShutdownDrained
    <3>3. Switcher # Closer
      BY DEF Switcher, Closer
    <3> QED BY <1>1, <1>3, <1>5, <3>1, <3>2, <3>3, LastCommitKeeps
  <2> QED BY <2>1, <2>2
<1>7. TasksShape'
  BY <1>1, <1>3, <1>6 DEF TasksShape
<1>8. AttemptsHold'
  BY <1>1, <1>3 DEF AttemptsHold, Current
<1>9. AttemptsAreControlled'
  BY <1>3, <1>4 DEF AttemptsAreControlled
<1>10. TransitionsDrain'
  BY <1>1, <1>3, <1>6 DEF TransitionsDrain, Alive
<1> QED BY <1>6, <1>7, <1>8, <1>9, <1>10 DEF TasksInv, MemoryInv

LEMMA LoadedRow ==
  ASSUME NEW row \in TaskRows
  PROVE  LET r == [row EXCEPT !.status = "stopped", !.recover = TRUE]
         IN r \in TaskRows /\ r.status = "stopped" /\ r.attempt = row.attempt
<1>1. TRUE \in BOOLEAN
  BY Zenon
<1> QED BY <1>1 DEF TaskRows, Ended

LEMMA LoadedState ==
  ASSUME NEW state \in Snapshots
  PROVE  /\ Loaded(state) \in Snapshots
         /\ \A a \in Agents : Loaded(state)[a].attempt = state[a].attempt /\ Loaded(state)[a].status \notin Unsettled
         /\ \A a \in Agents : state[a].status \in Unsettled => Loaded(state)[a].status = "stopped"
<1> DEFINE Ran(a) == state[a].status \in {"running", "stopping"}
           row(a) == [state[a] EXCEPT !.status = "stopped", !.recover = TRUE]
<1>1. Loaded(state) = [a \in Agents |-> IF Ran(a) THEN row(a) ELSE state[a]]
  BY DEF Loaded
<1>2. \A a \in Agents : state[a] \in TaskRows /\ (Ran(a) <=> state[a].status \in Unsettled)
  BY DEF Snapshots, Unsettled
<1>3. ASSUME NEW a \in Agents
      PROVE  row(a) \in TaskRows /\ row(a).status = "stopped" /\ row(a).attempt = state[a].attempt
  <2>1. state[a] \in TaskRows
    BY <1>2
  <2> QED BY <2>1, LoadedRow
<1> HIDE DEF Ran, row
<1>4. Loaded(state) \in [Agents -> TaskRows]
  BY <1>1, <1>2, <1>3
<1>5. ASSUME NEW a \in Agents
      PROVE  /\ Loaded(state)[a].attempt = state[a].attempt /\ Loaded(state)[a].status \notin Unsettled
             /\ state[a].status \in Unsettled => Loaded(state)[a].status = "stopped"
  <2>1. CASE Ran(a)
    BY <1>1, <1>3, <2>1 DEF Unsettled
  <2>2. CASE ~Ran(a)
    BY <1>1, <1>2, <2>2
  <2> QED BY <2>1, <2>2
<1> QED BY <1>4, <1>5 DEF Snapshots

\* A file is loaded while no attempt is under way: what was running in it is stopped
\* and, if that changed anything, the file is written again.
LEMMA LoadKeeps ==
  ASSUME MemoryInv, NEW S, NEW W, CopiesInv(S, W), NEW f \in TaskFiles, NEW x \in {NoWaiter, Loader},
         Load(f, S[f], x), saved' = S, begun' = begun,
         \A n \in Attempts : attempt'[n].at \in {"none", "over"} /\ (attempt'[n].at = "none" <=> attempt[n].at = "none"),
         closing' \in {"no", "queued"}, x = Loader /\ writes' # <<>> => switching' = "save"
  PROVE  file' = f /\ tasks' \in Snapshots /\ AttemptsHold' /\ CopiesInv(saved, writes)'
<1>1. TasksShape /\ AttemptsHold /\ begun \in Nat /\ S \in [TaskFiles -> Snapshots]
  BY DEF MemoryInv, TasksShape, CopiesInv, CopiesShape
<1>2. PICK t : t = Loaded(S[f])
  OBVIOUS
<1>3. /\ t \in Snapshots
      /\ \A a \in Agents : t[a].attempt = S[f][a].attempt /\ t[a].status \notin Unsettled
  BY <1>1, <1>2, LoadedState
<1>4. PICK w : w = [to |-> f, state |-> t, waiter |-> x]
  OBVIOUS
<1>5. w \in TaskWrites /\ w.to = f /\ w.state = t /\ w.waiter = x
  BY <1>3, <1>4 DEF TaskWrites, Waiters
<1>6. file' = f /\ tasks' = t /\ (writes' = <<>> \/ writes' = <<w>>)
  BY <1>2, <1>4 DEF Load
<1>7. /\ writes' \in Seq(TaskWrites) /\ Len(writes') \in {0, 1}
      /\ \A i \in 1 .. Len(writes') : writes'[i] = w /\ i = 1 /\ writes' # <<>>
  <2>1. CASE writes' = <<>>
    BY <2>1
  <2>2. CASE writes' = <<w>>
    <3>1. <<w>> \in Seq(TaskWrites) /\ Len(<<w>>) = 1 /\ <<w>>[1] = w /\ <<w>> # <<>>
      BY <1>5
    <3>2. \A i \in 1 .. 1 : i = 1
      OBVIOUS
    <3> QED BY <2>2, <3>1, <3>2
  <2> QED BY <1>6, <2>1, <2>2
<1>8. \A n \in Attempts : attempt'[n].at \notin Held \cup {"hook"}
  BY DEF Held
<1>9. AttemptsHold'
  BY <1>1, <1>3, <1>6, <1>8 DEF AttemptsHold
<1>10. CopiesShape(saved, writes)'
  BY <1>1, <1>7 DEF CopiesShape
<1>11. NumbersAreNew(saved, writes)'
  <2>1. ASSUME NEW n, Unheard(n, S, W), n # x PROVE Unheard(n, saved, writes)'
    <3>1. \A a \in Agents : t[a].attempt # n /\ \A g \in TaskFiles : S[g][a].attempt # n
      BY <1>3, <2>1 DEF Unheard
    <3> QED BY <1>5, <1>6, <1>7, <2>1, <3>1 DEF Unheard
  <2>2. x \notin Attempts /\ x <= 0
    BY DEF NoWaiter, Loader, Attempts
  <2>3. \A n \in Attempts : attempt'[n].at \in {"none", "hook"} => attempt[n].at = "none"
    OBVIOUS
  <2> QED BY <1>1, <2>1, <2>2, <2>3 DEF CopiesInv, NumbersAreNew
<1>12. WritesFit(writes)'
  <2>1. x # Closer /\ x # Switcher /\ Loader # NoWaiter
    BY DEF NoWaiter, Loader, Closer, Switcher
  <2>2. \A i \in 1 .. Len(writes') :
          /\ writes'[i].to = file'
          /\ writes'[i].waiter \in {Switcher, Loader} => switching' = "save"
          /\ writes'[i].waiter # Closer
    BY <1>5, <1>6, <1>7, <2>1
  <2>3. \A i, j \in 1 .. Len(writes') : i = j
    BY <1>7
  <2> QED BY <2>2, <2>3 DEF WritesFit
<1>13. WritesKnow(saved, writes)'
  BY <1>8 DEF WritesKnow, Held
<1>14. CopiesLag(saved, writes)'
  BY <1>3, <1>6 DEF CopiesLag, NotAhead, Unsettled
<1>15. LastWritesAreQuiet(saved, writes)'
  BY DEF LastWritesAreQuiet
<1> QED BY <1>3, <1>6, <1>9, <1>10, <1>11, <1>12, <1>13, <1>14, <1>15 DEF CopiesInv

LEMMA NextProcessKeeps == ASSUME TasksInv, NextProcess PROVE TasksInv'
<1>1. TasksShape /\ AttemptsHold /\ CopiesInv(saved, writes) /\ MemoryInv /\ file \in TaskFiles
  BY DEF TasksInv, MemoryInv, TasksShape
<1>2. /\ Load(file, saved[file], NoWaiter) /\ controllers' = [a \in Agents |-> 0]
      /\ attempt' = [n \in Attempts |-> IF n \in Alive THEN [attempt[n] EXCEPT !.at = "over"] ELSE attempt[n]]
      /\ switching' = "no" /\ closing' = "no" /\ UNCHANGED <<saved, begun>>
  BY DEF NextProcess
<1>3. attempt' \in [Attempts -> AttemptRows] /\ \A n \in Attempts :
        attempt'[n].at \in {"none", "over"} /\ (attempt'[n].at = "none" <=> attempt[n].at = "none")
  <2> DEFINE row(n) == [attempt[n] EXCEPT !.at = "over"]
  <2>1. attempt' = [n \in Attempts |-> IF n \in Alive THEN row(n) ELSE attempt[n]]
    BY <1>2
  <2>2. ASSUME NEW n \in Attempts PROVE row(n) \in AttemptRows /\ row(n).at = "over"
    <3>1. attempt[n] \in AttemptRows
      BY <1>1 DEF TasksShape
    <3> QED BY <3>1, AttemptMoves
  <2>3. \A n \in Attempts : /\ attempt[n] \in AttemptRows
                            /\ n \in Alive <=> attempt[n].at \notin {"none", "over"}
    BY <1>1 DEF TasksShape, Alive
  <2> HIDE DEF row
  <2> QED BY <2>1, <2>2, <2>3
<1>4. PICK S, W : S = saved /\ W = writes
  OBVIOUS
<1>5. CopiesInv(S, W) /\ saved' = S /\ Load(file, S[file], NoWaiter) /\ NoWaiter # Loader /\ begun' = begun
  BY <1>1, <1>2, <1>4 DEF NoWaiter, Loader
<1>6. file' = file /\ tasks' \in Snapshots /\ AttemptsHold' /\ CopiesInv(saved, writes)'
  BY <1>1, <1>2, <1>3, <1>5, LoadKeeps
<1>7. TasksShape'
  BY <1>1, <1>2, <1>3, <1>6 DEF TasksShape
<1>8. AttemptsAreControlled'
  BY <1>3 DEF AttemptsAreControlled, Held
<1>9. TransitionsDrain'
  BY <1>2 DEF TransitionsDrain
<1> QED BY <1>6, <1>7, <1>8, <1>9 DEF TasksInv, MemoryInv

\* A transition that has drained comes to its end.
LEMMA TransitionEnds ==
  ASSUME MemoryInv, Alive = {}, UNCHANGED <<tasks, attempt, begun, controllers>>,
         switching' \in {"no", "queued", "drain", "save"}, closing' \in {"no", "queued", "drain", "save", "down", "failed"},
         file' \in TaskFiles,
         closing' \in {"drain", "save", "down", "failed"} => switching' = "no",
         switching' \in {"drain", "save"} \/ closing' # "no" => switching \in {"drain", "save"} \/ closing # "no"
  PROVE  MemoryInv'
<1>1. TasksShape /\ AttemptsHold /\ TransitionsDrain
  BY DEF MemoryInv
<1>2. TasksShape'
  BY <1>1 DEF TasksShape
<1>3. AttemptsHold'
  BY <1>1 DEF AttemptsHold, Current
<1>4. AttemptsAreControlled'
  BY DEF AttemptsAreControlled, Alive, Held
<1>5. TransitionsDrain'
  BY <1>1 DEF TransitionsDrain, Alive
<1> QED BY <1>2, <1>3, <1>4, <1>5 DEF MemoryInv

LEMMA WriteKeeps == ASSUME TasksInv, NEW ok \in BOOLEAN, Write(ok) PROVE TasksInv'
<1> DEFINE w == Head(writes)
<1>1. TasksShape /\ AttemptsHold /\ CopiesInv(saved, writes) /\ MemoryInv /\ begun \in Nat /\ writes # <<>> /\ begun' = begun
  BY DEF TasksInv, MemoryInv, TasksShape, Write
<1>2. PICK S, T, W : S = FilesAfter(saved, writes, ok) /\ T = Tail(writes) /\ W = writes
  OBVIOUS
<1>3. saved' = S
  BY <1>2 DEF Write, FilesAfter
<1>4. /\ w \in TaskWrites /\ w.to = file
      /\ CopiesInv(S, T)
      /\ \A i \in 1 .. Len(T) : w.waiter \in {Switcher, Loader} => T[i].waiter \notin {Switcher, Loader}
      /\ ok => \A n \in Attempts : attempt[n].at = "saving" /\ w.waiter = n =>
           /\ S[file][attempt[n].agent].attempt = n
           /\ \A j \in 1 .. Len(T) : T[j].state[attempt[n].agent].attempt = n
      /\ w.waiter = Closer /\ closing \in {"save", "failed"} =>
           Quiet(w.state) /\ \A j \in 1 .. Len(T) : Quiet(T[j].state)
      /\ ok => S[file] = w.state
  BY <1>1, <1>2, PopKeeps
<1>5. \/ w.waiter \in {Switcher, Loader} /\ switching = "save"
      \/ w.waiter = Closer /\ closing \in {"save", "down", "failed"}
      \/ w.waiter \notin {Switcher, Loader, Closer}
  <2>1. 1 \in 1 .. Len(writes) /\ w = writes[1]
    <3>1. writes \in Seq(TaskWrites)
      BY <1>1 DEF CopiesInv, CopiesShape
    <3> QED BY <1>1, <3>1
  <2> QED BY <1>1, <2>1 DEF CopiesInv, WritesFit
<1>6. \/ /\ w.waiter \in Alive /\ attempt[w.waiter].at = "saving"
         /\ Started(w.waiter, ok)
         /\ UNCHANGED <<file, switching, closing>>
      \/ /\ w.waiter \in Alive /\ attempt[w.waiter].at = "settling"
         /\ At(w.waiter, "over")
         /\ writes' = T
         /\ UNCHANGED <<file, tasks, controllers, switching, closing>>
      \/ /\ w.waiter \notin Attempts /\ ~(w.waiter = Switcher /\ ok)
         /\ writes' = T
         /\ closing' = IF w.waiter = Closer THEN (IF ok THEN "down" ELSE "failed") ELSE closing
         /\ switching' = IF w.waiter \in {Switcher, Loader} THEN "no" ELSE switching
         /\ UNCHANGED <<file, tasks, attempt, controllers>>
      \/ /\ w.waiter = Switcher /\ ok
         /\ \E f \in TaskFiles : Load(f, saved'[f], Loader)
         /\ switching' = IF writes' = <<>> THEN "no" ELSE "save"
         /\ UNCHANGED <<attempt, controllers, closing>>
  BY <1>2 DEF Write
<1> HIDE DEF w
<1>7. ASSUME w.waiter \in Alive, attempt[w.waiter].at = "saving", Started(w.waiter, ok), UNCHANGED <<file, switching, closing>>
      PROVE  TasksInv'
  <2>1. PICK n \in Attempts : n = w.waiter
    BY <1>7 DEF Alive
  <2>2. attempt[n].at \in Held \cup {"hook"} /\ attempt[n].at = "saving" /\ Started(n, ok)
    BY <1>7, <2>1 DEF Held
  <2>3. CASE ok /\ ~Draining /\ ~attempt[n].aborted
    <3>1. At(n, "run") /\ writes' = T /\ UNCHANGED <<tasks, controllers>>
      BY <1>2, <2>2, <2>3 DEF Started, StartedAnyway
    <3>2. /\ attempt' \in [Attempts -> AttemptRows]
          /\ attempt'[n].at = "run" /\ attempt'[n].agent = attempt[n].agent
          /\ \A k \in Attempts : k # n => attempt'[k] = attempt[k]
      BY <1>1, <3>1, AtEffect
    <3>3. TasksShape'
      BY <1>1, <1>7, <3>1, <3>2 DEF TasksShape
    <3>4. AttemptsHold' /\ AttemptsAreControlled' /\ TransitionsDrain'
      <4>1. attempt[n].at \in Held /\ attempt'[n].at \in {"run", "check"}
        BY <2>2, <3>2 DEF Held
      <4> QED BY <1>1, <1>7, <3>1, <3>2, <4>1, GoingOnHolds
    <3>5. AttemptsGoOn(S, T)
      BY <1>4, <2>1, <2>2, <2>3, <3>2 DEF AttemptsGoOn
    <3>6. file' = file /\ begun' >= begun /\ begun' \in Nat /\ \A b \in Agents : GoesOn(tasks[b], tasks'[b])
      BY <1>1, <1>7, <3>1 DEF GoesOn
    <3>7. NumbersAreNew(S, T)' /\ WritesKnow(S, T)' /\ CopiesLag(S, T)'
      BY <1>1, <1>4, <3>5, <3>6, GoingOnKeepsCopies
    <3>8. CopiesShape(S, T)' /\ WritesFit(T)' /\ LastWritesAreQuiet(S, T)'
      BY <1>4, <1>7 DEF CopiesInv, CopiesShape, WritesFit, LastWritesAreQuiet
    <3>9. CopiesInv(S, T)'
      BY <3>7, <3>8 DEF CopiesInv
    <3>10. CopiesInv(saved, writes)'
      BY <1>3, <3>1, <3>9
    <3> QED BY <3>3, <3>4, <3>10 DEF TasksInv, MemoryInv
  <2>4. CASE ~(ok /\ ~Draining /\ ~attempt[n].aborted)
    <3>1. SettleBehind(T, n, Failure(n)) /\ Failure(n) \in Ended
      BY <1>2, <2>2, <2>4 DEF Started, Failure, Ended
    <3> QED BY <1>1, <1>3, <1>4, <1>7, <2>2, <3>1, SettleKeeps
  <2> QED BY <2>3, <2>4
<1>8. ASSUME w.waiter \in Alive, attempt[w.waiter].at = "settling", At(w.waiter, "over"), writes' = T,
             UNCHANGED <<file, tasks, controllers, switching, closing>>
      PROVE  TasksInv'
  <2>1. PICK n \in Attempts : n = w.waiter
    BY <1>8 DEF Alive
  <2>2. attempt[n].at = "settling" /\ At(n, "over")
    BY <1>8, <2>1
  <2>3. /\ attempt' \in [Attempts -> AttemptRows]
        /\ attempt'[n].at = "over" /\ attempt'[n].agent = attempt[n].agent
        /\ \A k \in Attempts : k # n => attempt'[k] = attempt[k]
    BY <1>1, <2>2, AtEffect
  <2>4. TasksShape'
    BY <1>1, <1>8, <2>3 DEF TasksShape
  <2>5. \A k \in Attempts : /\ attempt'[k].agent = attempt[k].agent
                            /\ attempt'[k].at \in Held <=> attempt[k].at \in Held
                            /\ attempt'[k].at = "hook" <=> attempt[k].at = "hook"
                            /\ attempt'[k].at = "none" <=> attempt[k].at = "none"
    BY <2>2, <2>3 DEF Held
  <2>6. AttemptsHold'
    <3>1. \A k \in Attempts : Current(k)' <=> Current(k)
      BY <1>8, <2>5 DEF Current
    <3> QED BY <1>1, <1>8, <2>5, <3>1 DEF AttemptsHold
  <2>7. AttemptsAreControlled'
    BY <1>1, <1>8, <2>5 DEF MemoryInv, AttemptsAreControlled
  <2>8. TransitionsDrain'
    <3>1. n \in Alive
      BY <2>2 DEF Alive
    <3> QED BY <1>1, <1>8, <3>1 DEF MemoryInv, TransitionsDrain
  <2>9. AttemptsGoOn(S, T)
    BY <2>2, <2>3 DEF AttemptsGoOn
  <2>10. file' = file /\ begun' >= begun /\ begun' \in Nat /\ \A b \in Agents : GoesOn(tasks[b], tasks'[b])
    BY <1>1, <1>8 DEF GoesOn
  <2>11. NumbersAreNew(S, T)' /\ WritesKnow(S, T)' /\ CopiesLag(S, T)'
    BY <1>1, <1>4, <2>9, <2>10, GoingOnKeepsCopies
  <2>12. CopiesShape(S, T)' /\ WritesFit(T)' /\ LastWritesAreQuiet(S, T)'
    BY <1>4, <1>8 DEF CopiesInv, CopiesShape, WritesFit, LastWritesAreQuiet
  <2>13. CopiesInv(S, T)'
    BY <2>11, <2>12 DEF CopiesInv
  <2>14. CopiesInv(saved, writes)'
    BY <1>3, <1>8, <2>13
  <2> QED BY <2>4, <2>6, <2>7, <2>8, <2>14 DEF TasksInv, MemoryInv
<1>9. ASSUME writes' = T,
             closing' = IF w.waiter = Closer THEN (IF ok THEN "down" ELSE "failed") ELSE closing,
             switching' = IF w.waiter \in {Switcher, Loader} THEN "no" ELSE switching,
             UNCHANGED <<file, tasks, attempt, controllers>>
      PROVE  TasksInv'
  <2>1. Switcher # Closer /\ Loader # Closer
    BY DEF Switcher, Loader, Closer
  <2>2. AttemptsGoOn(S, T) /\ begun' >= begun /\ begun' \in Nat /\ \A b \in Agents : GoesOn(tasks[b], tasks'[b])
    BY <1>1, <1>9 DEF AttemptsGoOn, GoesOn
  <2>3. NumbersAreNew(S, T)' /\ WritesKnow(S, T)' /\ CopiesLag(S, T)'
    BY <1>1, <1>4, <1>9, <2>2, GoingOnKeepsCopies
  <2>4. CopiesShape(S, T)'
    BY <1>4 DEF CopiesInv, CopiesShape
  <2>5. WritesFit(T)'
    BY <1>4, <1>5, <1>9, <2>1 DEF CopiesInv, WritesFit
  <2>6. LastWritesAreQuiet(S, T)'
    <3>1. CASE w.waiter = Closer
      <4>1. CASE closing = "down"
        <5>1. Quiet(S[file]) /\ \A i \in 1 .. Len(T) : Quiet(T[i].state)
          BY <1>4, <4>1 DEF CopiesInv, LastWritesAreQuiet
        <5> QED BY <1>9, <5>1 DEF LastWritesAreQuiet, Quiet
      <4>2. CASE closing \in {"save", "failed"}
        <5>1. (ok => Quiet(S[file])) /\ \A i \in 1 .. Len(T) : Quiet(T[i].state)
          BY <1>4, <3>1, <4>2
        <5> QED BY <1>9, <3>1, <5>1 DEF LastWritesAreQuiet, Quiet
      <4> QED BY <1>5, <2>1, <3>1, <4>1, <4>2
    <3>2. CASE w.waiter # Closer
      BY <1>4, <1>9, <3>2 DEF CopiesInv, LastWritesAreQuiet, Quiet
    <3> QED BY <3>1, <3>2
  <2>7. CopiesInv(S, T)'
    BY <2>3, <2>4, <2>5, <2>6 DEF CopiesInv
  <2>8. CopiesInv(saved, writes)'
    BY <1>3, <1>9, <2>7
  <2>9. MemoryInv'
    <3>1. CASE w.waiter \in {Switcher, Loader, Closer}
      <4>1. Alive = {} /\ (w.waiter = Closer => switching = "no")
        BY <1>1, <1>5, <2>1, <3>1 DEF MemoryInv, TransitionsDrain
      <4>2. switching' \in {"no", "queued", "drain", "save"} /\ closing' \in {"no", "queued", "drain", "save", "down", "failed"}
            /\ file' \in TaskFiles
        BY <1>1, <1>9 DEF TasksShape
      <4>3. closing' \in {"drain", "save", "down", "failed"} => switching' = "no"
        BY <1>1, <1>5, <1>9, <2>1, <3>1, <4>1 DEF MemoryInv, TransitionsDrain
      <4>4. switching' \in {"drain", "save"} \/ closing' # "no" => switching \in {"drain", "save"} \/ closing # "no"
        BY <1>5, <1>9, <2>1, <3>1
      <4> QED BY <1>1, <1>9, <4>1, <4>2, <4>3, <4>4, TransitionEnds
    <3>2. CASE w.waiter \notin {Switcher, Loader, Closer}
      <4>1. UNCHANGED <<file, tasks, attempt, begun, controllers, switching, closing>>
        BY <1>1, <1>9, <3>2
      <4> QED BY <1>1, <4>1 DEF MemoryInv, TasksShape, AttemptsHold, AttemptsAreControlled, TransitionsDrain, Current, Alive
    <3> QED BY <3>1, <3>2
  <2> QED BY <2>8, <2>9 DEF TasksInv
<1>10. ASSUME w.waiter = Switcher, NEW f \in TaskFiles, Load(f, saved'[f], Loader),
              switching' = IF writes' = <<>> THEN "no" ELSE "save", UNCHANGED <<attempt, controllers, closing>>
       PROVE  TasksInv'
  <2>1. Switcher # Closer
    BY DEF Switcher, Closer
  <2>2. switching = "save" /\ Alive = {} /\ closing \in {"no", "queued"}
    BY <1>1, <1>5, <1>10, <2>1 DEF MemoryInv, TransitionsDrain, TasksShape
  <2>3. \A n \in Attempts : attempt[n].at \in {"none", "over"}
    BY <2>2 DEF Alive
  <2>4. Load(f, S[f], Loader) /\ Loader \in {NoWaiter, Loader}
    BY <1>3, <1>10
  <2>5. \A n \in Attempts : attempt'[n].at \in {"none", "over"} /\ (attempt'[n].at = "none" <=> attempt[n].at = "none")
    BY <1>10, <2>3
  <2>6. closing' \in {"no", "queued"} /\ (writes' # <<>> => switching' = "save")
    BY <1>10, <2>2
  <2>7. file' = f /\ tasks' \in Snapshots /\ AttemptsHold' /\ CopiesInv(saved, writes)'
    BY ONLY f \in TaskFiles, <1>1, <1>3, <1>4, <2>4, <2>5, <2>6, LoadKeeps
  <2>8. TasksShape'
    BY <1>1, <1>10, <2>6, <2>7 DEF TasksShape
  <2>9. AttemptsAreControlled'
    BY <2>5 DEF AttemptsAreControlled, Held
  <2>10. TransitionsDrain'
    BY <1>1, <1>10, <2>2, <2>5, <2>6 DEF MemoryInv, TransitionsDrain, Alive
  <2> QED BY <2>7, <2>8, <2>9, <2>10 DEF TasksInv, MemoryInv
<1> QED BY <1>6, <1>7, <1>8, <1>9, <1>10

LEMMA StepTasks == TasksInv /\ [TasksNext]_taskVars => TasksInv'
<1> SUFFICES ASSUME TasksInv, [TasksNext]_taskVars PROVE TasksInv'
  OBVIOUS
<1>1. CASE UNCHANGED taskVars
  BY <1>1 DEF taskVars, TasksInv, MemoryInv, CopiesInv, TasksShape, AttemptsHold, AttemptsAreControlled, TransitionsDrain,
       Current, Alive, CopiesShape, NumbersAreNew, Unheard, WritesFit, WritesKnow, CopiesLag, LastWritesAreQuiet
<1>2. CASE \E a \in Agents : StartAgent(a) \/ RestartAgent(a) \/ StopAgent(a)
  BY <1>2, StartKeeps, RestartKeeps, StopAgentKeeps
<1>3. CASE \E n \in Attempts : Created(n) \/ RunEnds(n) \/ Checked(n)
  BY <1>3, CreatedKeeps, RunEndsKeeps, CheckedKeeps
<1>4. CASE SwitchStorage \/ SwitchStops
  BY <1>4, SwitchStorageKeeps, SwitchStopsKeeps
<1>5. CASE SwitchDrained \/ ShutdownDrained
  BY <1>5, DrainedKeeps
<1>6. CASE Shutdown \/ ShutdownStops
  BY <1>6, ShutdownKeeps
<1>7. CASE \E ok \in BOOLEAN : Write(ok)
  BY <1>7, WriteKeeps
<1>8. CASE NextProcess
  BY <1>8, NextProcessKeeps
<1> QED BY <1>1, <1>2, <1>3, <1>4, <1>5, <1>6, <1>7, <1>8 DEF TasksNext

LEMMA TasksInvariant == TasksSpec => []TasksInv
<1> QED BY InitTasks, StepTasks, PTL DEF TasksSpec

\* Whatever runs is on record, once, and nothing runs after a shutdown, for any
\* number of agents, files, attempts, failed writes and crashes.
THEOREM TasksAreSafe == TasksSpec => []TasksSafety
<1>1. TasksInv => TasksSafety
  <2> SUFFICES ASSUME TasksInv PROVE TasksSafety
    OBVIOUS
  <2>1. TasksShape /\ AttemptsHold /\ TransitionsDrain /\ CopiesInv(saved, writes) /\ file \in TaskFiles /\ begun \in Nat
    BY DEF TasksInv, MemoryInv, TasksShape
  <2>2. saved \in [TaskFiles -> Snapshots] /\ tasks \in Snapshots
    BY <2>1 DEF TasksShape, CopiesInv, CopiesShape
  <2>3. TasksTypeOK
    <3>1. ASSUME NEW a \in Agents PROVE tasks[a] \in TaskRows /\ tasks[a].attempt \in 0 .. begun
      <4>1. tasks[a] \in TaskRows /\ tasks[a].attempt \in Nat
        BY <2>2 DEF Snapshots, TaskRows
      <4>2. ~(tasks[a].attempt > begun)
        BY <2>1, <4>1 DEF CopiesInv, NumbersAreNew, Unheard
      <4> QED BY <2>1, <4>1, <4>2
    <3>2. ASSUME NEW f \in TaskFiles, NEW a \in Agents PROVE saved[f][a] \in TaskRows /\ saved[f][a].attempt \in 0 .. begun
      <4>1. saved[f][a] \in TaskRows /\ saved[f][a].attempt \in Nat
        BY <2>2 DEF Snapshots, TaskRows
      <4>2. ~(saved[f][a].attempt > begun)
        BY <2>1, <4>1 DEF CopiesInv, NumbersAreNew, Unheard
      <4> QED BY <2>1, <4>1, <4>2
    <3>3. \A state \in {tasks} \cup {saved[f] : f \in TaskFiles} : \A a \in Agents :
            state[a] \in TaskRows /\ state[a].attempt \in 0 .. begun
      BY <3>1, <3>2
    <3>4. \A row \in TaskRows : row.status \in Ended \cup {"absent", "running", "stopping"}
      BY DEF TaskRows
    <3>5. \A n \in Attempts : attempt[n].at \in {"none", "hook", "saving", "run", "check", "settling", "over"}
      BY <2>1 DEF TasksShape, AttemptRows
    <3> QED BY <2>1, <3>3, <3>4, <3>5 DEF TasksTypeOK, TasksShape
  <2>4. RunsAreRecorded
    BY <2>1 DEF RunsAreRecorded, CopiesInv, WritesKnow
  <2>5. OneRunPerAgent
    BY <2>1 DEF OneRunPerAgent, AttemptsHold, Held, Current
  <2>6. ShutdownIsQuiet
    <3> SUFFICES ASSUME closing = "down"
                 PROVE  Alive = {} /\ \A a \in Agents : saved[file][a].status \in Ended \cup {"absent"}
      BY DEF ShutdownIsQuiet
    <3>1. Alive = {} /\ Quiet(saved[file])
      BY <2>1 DEF TransitionsDrain, CopiesInv, LastWritesAreQuiet
    <3>2. \A a \in Agents : saved[file][a].status \in Ended \cup {"absent", "running", "stopping"}
      BY <2>1, <2>2 DEF Snapshots, TaskRows
    <3> QED BY <3>1, <3>2 DEF Quiet, Unsettled
  <2> QED BY <2>3, <2>4, <2>5, <2>6 DEF TasksSafety
<1> QED BY <1>1, TasksInvariant, PTL

LEMMA SettlingStops ==
  ASSUME TasksShape, NEW W, NEW n \in Attempts, NEW outcome, SettleBehind(W, n, outcome),
         NEW a \in Agents, tasks[a].status = "stopping"
  PROVE  tasks'[a].status \in {"stopping", "stopped"}
<1>1. tasks \in Snapshots
  BY DEF TasksShape
<1>2. CASE ~Current(n)
  BY <1>2 DEF SettleBehind
<1>3. CASE Current(n) /\ attempt[n].agent # a
  BY <1>1, <1>3 DEF SettleBehind, Snapshots
<1>4. CASE Current(n) /\ attempt[n].agent = a
  <2>1. Final(n, outcome) = "stopped"
    BY <1>4 DEF Final
  <2>2. tasks' = [tasks EXCEPT ![a].status = "stopped"]
    BY <1>4, <2>1 DEF SettleBehind
  <2>3. "stopped" \in Ended \cup {"absent", "running", "stopping"}
    BY DEF Ended
  <2> QED BY <2>2, <2>3, StatusEffect
<1> QED BY <1>2, <1>3, <1>4

LEMMA StepStops ==
  ASSUME TasksInv, TasksNext, NEW a \in Agents, tasks[a].status = "stopping", tasks'[a].attempt = tasks[a].attempt
  PROVE  tasks'[a].status \in {"stopping", "stopped"}
<1>1. TasksShape /\ AttemptsHold /\ TransitionsDrain /\ CopiesInv(saved, writes) /\ tasks \in Snapshots
  BY DEF TasksInv, MemoryInv, TasksShape
<1>2. ASSUME NEW b \in Agents, StartAgent(b) \/ RestartAgent(b) \/ StopAgent(b) PROVE tasks'[a].status \in {"stopping", "stopped"}
  <2>1. CASE StartAgent(b)
    BY <2>1 DEF StartAgent
  <2>2. CASE RestartAgent(b)
    <3>1. b # a /\ tasks' = [tasks EXCEPT ![b] = Running(begun + 1)]
      BY <2>2 DEF RestartAgent, MayRestart, Ended
    <3> QED BY <1>1, <3>1 DEF Snapshots
  <2>3. CASE StopAgent(b)
    <3>1. b # a /\ tasks' = [tasks EXCEPT ![b].status = "stopping"]
      BY <2>3 DEF StopAgent
    <3> QED BY <1>1, <3>1 DEF Snapshots
  <2> QED BY <1>2, <2>1, <2>2, <2>3
<1>3. ASSUME NEW n \in Attempts, Created(n) \/ RunEnds(n) \/ Checked(n) PROVE tasks'[a].status \in {"stopping", "stopped"}
  <2>1. CASE \E outcome : SettleTask(n, outcome)
    BY <1>1, <2>1, SettlingStops DEF SettleTask
  <2>2. CASE attempt[n].at = "hook" /\ tasks' = [tasks EXCEPT ![attempt[n].agent] = Running(n)]
    <3>1. attempt[n].agent # a
      BY <1>1, <2>2 DEF AttemptsHold
    <3> QED BY <1>1, <2>2, <3>1 DEF Snapshots
  <2>3. CASE tasks' = tasks
    BY <2>3
  <2> QED BY <1>3, <2>1, <2>2, <2>3 DEF Created, RunEnds, Checked
<1>4. ASSUME NEW recoverable \in BOOLEAN, StopAll(recoverable), begun' = begun PROVE tasks'[a].status \in {"stopping", "stopped"}
  BY <1>1, <1>4, StopAllEffect DEF Resting, ToldToStop
<1>5. CASE SwitchStorage \/ SwitchStops \/ SwitchDrained \/ Shutdown \/ ShutdownStops \/ ShutdownDrained
  <2>1. TRUE \in BOOLEAN /\ FALSE \in BOOLEAN
    BY Zenon
  <2>2. tasks' = tasks \/ ((StopAll(TRUE) \/ StopAll(FALSE)) /\ begun' = begun)
    BY <1>5 DEF SwitchStorage, SwitchStops, SwitchDrained, Shutdown, ShutdownStops, ShutdownDrained
  <2> QED BY <1>4, <2>1, <2>2
<1>6. ASSUME NEW ok \in BOOLEAN, Write(ok) PROVE tasks'[a].status \in {"stopping", "stopped"}
  <2>1. CASE tasks' = tasks
    BY <2>1
  <2>2. CASE Head(writes).waiter \in Alive /\ Started(Head(writes).waiter, ok)
    <3>1. PICK n \in Attempts : n = Head(writes).waiter
      BY <2>2 DEF Alive
    <3>2. tasks' = tasks \/ SettleBehind(Tail(writes), n, Failure(n))
      BY <2>2, <3>1 DEF Started, StartedAnyway
    <3> QED BY <1>1, <3>2, SettlingStops
  <2>3. CASE Head(writes).waiter = Switcher
    <3>1. 1 \in 1 .. Len(writes) /\ Head(writes) = writes[1]
      <4>1. writes \in Seq(TaskWrites) /\ writes # <<>>
        BY <1>1, <1>6 DEF CopiesInv, CopiesShape, Write
      <4> QED BY <4>1
    <3>2. switching = "save"
      BY <1>1, <2>3, <3>1 DEF CopiesInv, WritesFit
    <3>3. Alive = {}
      BY <1>1, <3>2 DEF TransitionsDrain
    <3>4. tasks[a].attempt \in Attempts /\ attempt[tasks[a].attempt].at \in Held
      BY <1>1 DEF AttemptsHold, Unsettled
    <3> QED BY <3>3, <3>4 DEF Alive, Held
  <2> QED BY <1>6, <2>1, <2>2, <2>3 DEF Write
<1>7. CASE NextProcess
  <2>1. tasks' = Loaded(saved[file]) /\ saved[file] \in Snapshots
    BY <1>1, <1>7 DEF NextProcess, Load, CopiesInv, CopiesShape, TasksShape
  <2>2. saved[file][a].attempt = tasks[a].attempt
    BY <2>1, LoadedState
  <2>3. saved[file][a].status \in Unsettled
    BY <1>1, <2>2 DEF CopiesInv, CopiesLag, NotAhead
  <2> QED BY <2>1, <2>3, LoadedState
<1> QED BY <1>2, <1>3, <1>5, <1>6, <1>7 DEF TasksNext

\* An agent that was told to stop is reported as stopped, whatever becomes of its
\* run, of the process and of the file its state is read from.
THEOREM StoppingIsFinal == TasksSpec => StoppedStaysStopped
<1>1. TasksInv /\ [TasksNext]_taskVars =>
        [\A a \in Agents :
           tasks[a].status = "stopping" /\ tasks'[a].attempt = tasks[a].attempt
             => tasks'[a].status \in {"stopping", "stopped"}]_taskVars
  BY StepStops
<1> QED BY <1>1, TasksInvariant, PTL DEF TasksSpec, StoppedStaysStopped

-----------------------------------------------------------------------------
(***************************************************************************)
(* The transcript. The file follows the store, up to a last line that may   *)
(* be torn, and an attempt keeps up with both: what it has in its history   *)
(* is what the store delivered, in its order.                               *)
(***************************************************************************)

Contents == FollowUps \cup {"message", "compact"}
Rows == [what : Contents, state : {"pending", "written"}]

\* The shape of the state: what TranscriptTypeOK says, and of every variable.
TranscriptShape ==
  /\ records \in Seq(Rows)
  /\ lines \in Seq(Nat)
  /\ history \in Seq(Nat)
  /\ tail \in {"whole", "torn", "bare"}
  /\ progress \in Nat /\ progress <= Len(records)
  /\ inputs \in [FollowUps -> {"none", "pending", "delivered"}]
  /\ worker \in {"down", "load", "idle", "file", "mark"}
  /\ nth \in Nat /\ nth <= Len(records)

\* The file is a prefix of the store that misses the last delivery at most.
FileFollowsStore ==
  /\ Len(lines) <= Len(records)
  /\ \A n \in 1 .. Len(lines) : lines[n] = n
  /\ \A i \in 1 .. Len(records) :
       /\ i < Len(records) => records[i].state = "written"
       /\ records[i].state = "written" => i <= Len(lines)

\* A history h that holds the first n of the deliveries r, from the last
\* compaction on.
InHistory(r, h, n) ==
  \E from \in 1 .. n + 1 :
    /\ Len(h) = n + 1 - from
    /\ \A m \in 1 .. Len(h) : h[m] = from + m - 1
    /\ \A i \in from + 1 .. n : r[i].what # "compact"
    /\ from > 1 => from <= n /\ r[from].what = "compact"

\* The attempt has taken up what comes before the delivery it is at.
AttemptKeepsUp ==
  /\ worker = "load" => InHistory(records, history, nth)
  /\ worker = "idle" => nth = Len(records) /\ InHistory(records, history, nth)
  /\ worker \in {"file", "mark"} => nth # 0 /\ InHistory(records, history, nth - 1)
  /\ worker = "mark" => nth <= Len(lines)

TranscriptInv == TranscriptShape /\ FileFollowsStore /\ AttemptKeepsUp /\ ProgressIsCurrent

LEMMA InitTranscript == TranscriptInit => TranscriptInv
<1> SUFFICES ASSUME TranscriptInit PROVE TranscriptInv
  OBVIOUS
<1> USE DEF TranscriptInit
<1>1. TranscriptShape
  BY DEF TranscriptShape
<1>2. FileFollowsStore
  BY DEF FileFollowsStore
<1>3. AttemptKeepsUp
  BY DEF AttemptKeepsUp
<1>4. ProgressIsCurrent
  BY DEF ProgressIsCurrent
<1> QED BY <1>1, <1>2, <1>3, <1>4 DEF TranscriptInv

\* What a prefix of the deliveries holds does not depend on what comes after it.
LEMMA HoldsStays ==
  ASSUME NEW r, NEW s, NEW h, NEW n \in Nat,
         \A i \in 1 .. n : s[i].what = r[i].what, InHistory(r, h, n)
  PROVE  InHistory(s, h, n)
<1>1. PICK from \in 1 .. n + 1 :
        /\ Len(h) = n + 1 - from
        /\ \A m \in 1 .. Len(h) : h[m] = from + m - 1
        /\ \A i \in from + 1 .. n : r[i].what # "compact"
        /\ from > 1 => from <= n /\ r[from].what = "compact"
  BY DEF InHistory
<1>2. \A i \in from + 1 .. n : s[i].what # "compact"
  <2> SUFFICES ASSUME NEW i \in from + 1 .. n PROVE s[i].what # "compact"
    OBVIOUS
  <2>1. i \in 1 .. n
    OBVIOUS
  <2> QED BY <1>1, <2>1
<1>3. from > 1 => from <= n /\ s[from].what = "compact"
  <2> SUFFICES ASSUME from > 1 PROVE from <= n /\ s[from].what = "compact"
    OBVIOUS
  <2>1. from \in 1 .. n
    BY <1>1
  <2> QED BY <1>1, <2>1
<1> QED BY <1>1, <1>2, <1>3 DEF InHistory

\* Nothing is held of no deliveries.
LEMMA HoldsNothing == ASSUME NEW r PROVE InHistory(r, <<>>, 0)
<1>1. 1 \in 1 .. 0 + 1 /\ Len(<<>>) = 0 + 1 - 1
  OBVIOUS
<1> QED BY <1>1 DEF InHistory

\* The next delivery follows what is held, and a compaction replaces it.
LEMMA HoldsNext ==
  ASSUME NEW r, NEW h \in Seq(Nat), NEW n \in Nat \ {0}, InHistory(r, h, n - 1)
  PROVE  InHistory(r, IF r[n].what = "compact" THEN <<n>> ELSE Append(h, n), n)
<1>1. CASE r[n].what = "compact"
  <2>1. Len(<<n>>) = n + 1 - n /\ \A m \in 1 .. Len(<<n>>) : <<n>>[m] = n + m - 1
    OBVIOUS
  <2>2. InHistory(r, <<n>>, n)
    BY <1>1, <2>1 DEF InHistory
  <2> QED BY <1>1, <2>2
<1>2. CASE r[n].what # "compact"
  <2>1. PICK from \in 1 .. n :
          /\ Len(h) = n - from
          /\ \A m \in 1 .. Len(h) : h[m] = from + m - 1
          /\ \A i \in from + 1 .. n - 1 : r[i].what # "compact"
          /\ from > 1 => from <= n - 1 /\ r[from].what = "compact"
    <3>1. PICK from \in 1 .. n - 1 + 1 :
            /\ Len(h) = n - 1 + 1 - from
            /\ \A m \in 1 .. Len(h) : h[m] = from + m - 1
            /\ \A i \in from + 1 .. n - 1 : r[i].what # "compact"
            /\ from > 1 => from <= n - 1 /\ r[from].what = "compact"
      BY Zenon DEF InHistory
    <3>2. from \in 1 .. n /\ Len(h) = n - from
      BY <3>1
    <3> QED BY <3>1, <3>2
  <2> DEFINE g == Append(h, n)
  <2>2. Len(g) = n + 1 - from /\ \A m \in 1 .. Len(g) : g[m] = from + m - 1
    <3>1. Len(g) = Len(h) + 1 /\ g[Len(h) + 1] = n /\ \A m \in 1 .. Len(h) : g[m] = h[m]
      OBVIOUS
    <3>2. Len(h) \in Nat
      OBVIOUS
    <3> HIDE DEF g
    <3>3. ASSUME NEW m \in 1 .. Len(g) PROVE g[m] = from + m - 1
      <4>1. CASE m = Len(h) + 1
        BY <2>1, <3>1, <3>2, <4>1
      <4>2. CASE m # Len(h) + 1
        <5>1. m \in 1 .. Len(h)
          BY <3>1, <3>2, <4>2
        <5> QED BY <2>1, <3>1, <5>1
      <4> QED BY <4>1, <4>2
    <3> QED BY <2>1, <3>1, <3>2, <3>3
  <2>3. \A i \in from + 1 .. n : r[i].what # "compact"
    BY <1>2, <2>1
  <2> HIDE DEF g
  <2>4. InHistory(r, g, n)
    BY <2>1, <2>2, <2>3 DEF InHistory
  <2> QED BY <1>2, <2>4 DEF g
<1> QED BY <1>1, <1>2

\* Only the last delivery may be missing in the file.
LEMMA LastMayMiss ==
  ASSUME TranscriptInv, NEW i \in 1 .. Len(records), ~(i <= Len(lines))
  PROVE  i = Len(records) /\ i = Len(lines) + 1
<1>1. Len(records) \in Nat /\ Len(lines) \in Nat
  BY DEF TranscriptInv, TranscriptShape
<1>2. ASSUME NEW j \in 1 .. Len(records), j < Len(records) PROVE j <= Len(lines)
  BY <1>2 DEF TranscriptInv, FileFollowsStore
<1>3. i = Len(records)
  BY <1>1, <1>2
<1>4. i - 1 <= Len(lines)
  <2>1. CASE i = 1
    BY <1>1, <2>1
  <2>2. CASE i # 1
    <3>1. i - 1 \in 1 .. Len(records) /\ i - 1 < Len(records)
      BY <1>1, <1>3, <2>2
    <3> QED BY <1>2, <3>1
  <2> QED BY <2>1, <2>2
<1> QED BY <1>1, <1>3, <1>4

\* What can be found in the file is what it is long enough for.
LEMMA FoundIsWithin ==
  ASSUME TranscriptInv, NEW i \in Nat \ {0}
  PROVE  Found(i) <=> i <= Len(lines)
<1>1. \A n \in 1 .. Len(lines) : lines[n] = n
  BY DEF TranscriptInv, FileFollowsStore
<1>2. DOMAIN lines = 1 .. Len(lines) /\ Len(lines) \in Nat
  BY DEF TranscriptInv, TranscriptShape
<1> QED BY <1>1, <1>2 DEF Found, Range

LEMMA ReserveKeeps ==
  ASSUME TranscriptInv, NEW what \in Contents, ReserveDelivery(what)
  PROVE  TranscriptInv'
<1> USE DEF TranscriptInv, ReserveDelivery
<1>1. /\ records' = Append(records, [what |-> what, state |-> "pending"])
      /\ worker = "idle" /\ worker' = "file" /\ nth' = Len(records) + 1
      /\ UNCHANGED <<inputs, progress, lines, tail, history, stops>>
  BY DEF fileVars
<1>2. /\ records' \in Seq(Rows) /\ Len(records') = Len(records) + 1
      /\ \A i \in 1 .. Len(records) : records'[i] = records[i]
      /\ records'[Len(records) + 1] = [what |-> what, state |-> "pending"]
  BY <1>1 DEF TranscriptShape, Rows
<1>3. Len(records) \in Nat /\ Len(lines) \in Nat
  BY DEF TranscriptShape
<1>4. TranscriptShape'
  BY <1>1, <1>2, <1>3 DEF TranscriptShape
<1>5. \A i \in 1 .. Len(records) : records[i].state = "written"
  <2> SUFFICES ASSUME NEW i \in 1 .. Len(records) PROVE records[i].state = "written"
    OBVIOUS
  <2>1. i \in DOMAIN records /\ records[i] \in Rows
    BY DEF TranscriptShape
  <2> QED BY <2>1 DEF PendingDeliveries, Rows
<1>6. FileFollowsStore'
  <2>1. ASSUME NEW i \in 1 .. Len(records')
        PROVE  /\ i < Len(records') => records'[i].state = "written"
               /\ records'[i].state = "written" => i <= Len(lines)
    <3>1. CASE i = Len(records) + 1
      BY <1>2, <3>1
    <3>2. CASE i # Len(records) + 1
      <4>1. i \in 1 .. Len(records)
        BY <1>2, <1>3, <3>2
      <4> QED BY <1>2, <1>5, <4>1 DEF FileFollowsStore
    <3> QED BY <3>1, <3>2
  <2> QED BY <1>1, <1>2, <1>3, <2>1 DEF FileFollowsStore
<1>7. AttemptKeepsUp'
  <2>1. InHistory(records, history, Len(records))
    BY <1>1 DEF AttemptKeepsUp
  <2>2. \A i \in 1 .. Len(records) : records'[i].what = records[i].what
    BY <1>2
  <2> HIDE DEF TranscriptInv, ReserveDelivery
  <2>3. InHistory(records', history, Len(records))
    BY <1>3, <2>1, <2>2, HoldsStays
  <2>4. InHistory(records', history', nth' - 1)
    <3>1. nth' - 1 = Len(records)
      BY <1>1, <1>3
    <3> QED BY <1>1, <2>3, <3>1
  <2> QED BY <1>1, <1>3, <2>4 DEF AttemptKeepsUp
<1>8. ProgressIsCurrent'
  <2> SUFFICES ASSUME NEW i \in 1 .. Len(records'), records'[i].state = "written", records'[i].what # "compact"
               PROVE  progress >= i
    BY <1>1, <1>2 DEF ProgressIsCurrent
  <2>1. i # Len(records) + 1
    BY <1>2
  <2>2. i \in 1 .. Len(records)
    BY <1>2, <1>3, <2>1
  <2>3. i \in DOMAIN records /\ records[i].state = "written" /\ records[i].what # "compact"
    BY <1>2, <2>2 DEF TranscriptShape
  <2> QED BY <2>3 DEF ProgressIsCurrent
<1> QED BY <1>4, <1>6, <1>7, <1>8

LEMMA AppendKeeps == ASSUME TranscriptInv, AppendLine PROVE TranscriptInv'
<1> USE DEF TranscriptInv
<1>1. /\ worker = "file" /\ worker' = "mark"
      /\ UNCHANGED <<records, inputs, progress, nth, history, stops>>
  BY DEF AppendLine, storeVars
<1>2. nth \in 1 .. Len(records) /\ Len(records) \in Nat /\ Len(lines) \in Nat
  BY <1>1 DEF TranscriptShape, AttemptKeepsUp
<1>3. CASE nth <= Len(lines)
  <2>1. lines' = lines /\ tail' = tail
    BY <1>2, <1>3, FoundIsWithin DEF AppendLine, fileVars
  <2>2. TranscriptShape' /\ FileFollowsStore' /\ ProgressIsCurrent'
    BY <1>1, <2>1 DEF TranscriptShape, FileFollowsStore, ProgressIsCurrent
  <2> QED BY <1>1, <1>3, <2>1, <2>2 DEF AttemptKeepsUp
<1>4. CASE ~(nth <= Len(lines))
  <2>1. lines' = Append(lines, nth) /\ tail' = "whole"
    BY <1>2, <1>4, FoundIsWithin DEF AppendLine, WriteLine
  <2>2. nth = Len(records) /\ nth = Len(lines) + 1
    BY <1>2, <1>4, LastMayMiss
  <2>3. /\ lines' \in Seq(Nat) /\ Len(lines') = nth
        /\ \A n \in 1 .. Len(lines') : lines'[n] = n
    BY <1>2, <2>1, <2>2 DEF TranscriptShape, FileFollowsStore
  <2>4. TranscriptShape' /\ ProgressIsCurrent'
    BY <1>1, <2>1, <2>3 DEF TranscriptShape, ProgressIsCurrent
  <2>5. FileFollowsStore'
    BY <1>1, <1>2, <2>2, <2>3 DEF FileFollowsStore
  <2> QED BY <1>1, <1>2, <2>3, <2>4, <2>5 DEF AttemptKeepsUp
<1> QED BY <1>3, <1>4

LEMMA MarkedRow ==
  ASSUME NEW row \in Rows
  PROVE  LET r == [row EXCEPT !.state = "written"]
         IN r \in Rows /\ r.what = row.what /\ r.state = "written"
  BY DEF Rows

LEMMA MarkKeeps == ASSUME TranscriptInv, Mark PROVE TranscriptInv'
<1> USE DEF TranscriptInv
<1>1. /\ worker = "mark" /\ history' = Extended(nth)
      /\ worker' = IF nth < Len(records) THEN "load" ELSE "idle"
      /\ UNCHANGED <<inputs, lines, tail, nth, stops>>
  BY DEF Mark, Attempted, fileVars
<1>2. nth \in 1 .. Len(records) /\ Len(records) \in Nat /\ Len(lines) \in Nat /\ nth <= Len(lines)
  BY <1>1 DEF TranscriptShape, AttemptKeepsUp
<1>3. /\ records' \in Seq(Rows) /\ Len(records') = Len(records)
      /\ \A i \in 1 .. Len(records) : records'[i].what = records[i].what
      /\ \A i \in 1 .. Len(records) : i # nth => records'[i] = records[i]
      /\ records'[nth].state = "written"
  <2>1. CASE records[nth].state = "written"
    BY <1>2, <2>1 DEF Mark, TranscriptShape
  <2>2. CASE records[nth].state # "written"
    <3> DEFINE row == [records[nth] EXCEPT !.state = "written"]
    <3>1. records' = [records EXCEPT ![nth] = row]
      BY <2>2 DEF Mark
    <3>2. row \in Rows /\ row.what = records[nth].what /\ row.state = "written"
      BY <1>2, MarkedRow DEF TranscriptShape
    <3> HIDE DEF row
    <3>3. /\ records' \in Seq(Rows) /\ Len(records') = Len(records)
          /\ records'[nth] = row
          /\ \A i \in 1 .. Len(records) : i # nth => records'[i] = records[i]
      BY <1>2, <3>1, <3>2 DEF TranscriptShape
    <3> QED BY <1>2, <3>2, <3>3
  <2> QED BY <2>1, <2>2
<1>4. /\ progress' \in Nat /\ progress' <= Len(records) /\ progress <= progress'
      /\ records[nth].state # "written" /\ records[nth].what # "compact" => nth <= progress'
  BY <1>2 DEF Mark, Advance, TranscriptShape
<1>5. history' \in Seq(Nat)
  BY <1>1, <1>2 DEF Extended, TranscriptShape
<1>6. TranscriptShape'
  BY <1>1, <1>2, <1>3, <1>4, <1>5 DEF TranscriptShape
<1>7. FileFollowsStore'
  BY <1>1, <1>2, <1>3 DEF FileFollowsStore
<1>8. AttemptKeepsUp'
  <2>1. InHistory(records, history, nth - 1) /\ history \in Seq(Nat)
    BY <1>1 DEF AttemptKeepsUp, TranscriptShape
  <2>2. InHistory(records, history', nth)
    BY <1>1, <1>2, <2>1, HoldsNext DEF Extended
  <2>3. InHistory(records', history', nth)
    BY <1>2, <1>3, <2>2, HoldsStays
  <2>4. ~(nth < Len(records)) => nth = Len(records)
    BY <1>2
  <2> QED BY <1>1, <1>3, <2>3, <2>4 DEF AttemptKeepsUp
<1>9. ProgressIsCurrent'
  <2> SUFFICES ASSUME NEW i \in 1 .. Len(records), records'[i].state = "written", records'[i].what # "compact"
               PROVE  progress' >= i
    BY <1>3 DEF ProgressIsCurrent
  <2>1. i \in DOMAIN records
    BY DEF TranscriptShape
  <2>2. progress \in Nat
    BY DEF TranscriptShape
  <2>3. CASE records[i].state = "written"
    BY <1>3, <1>4, <2>1, <2>2, <2>3 DEF ProgressIsCurrent
  <2>4. CASE records[i].state # "written"
    <3>1. i = nth
      BY <1>3, <2>4
    <3> QED BY <1>3, <1>4, <2>4, <3>1
  <2> QED BY <2>3, <2>4
<1> QED BY <1>6, <1>7, <1>8, <1>9

LEMMA StopKeeps == ASSUME TranscriptInv, Stop PROVE TranscriptInv'
<1> USE DEF TranscriptInv
<1>1. worker' = "down" /\ UNCHANGED <<records, inputs, progress, nth, history>>
  BY DEF Stop, storeVars
<1>2. AttemptKeepsUp' /\ ProgressIsCurrent'
  BY <1>1 DEF AttemptKeepsUp, ProgressIsCurrent
<1>3. CASE lines' = lines
  <2>1. tail' \in {"whole", "torn", "bare"}
    BY DEF Stop, fileVars, TranscriptShape
  <2> QED BY <1>1, <1>2, <1>3, <2>1 DEF TranscriptShape, FileFollowsStore
<1>4. CASE lines' # lines
  <2>1. worker = "file" /\ ~Found(nth) /\ lines' = Append(lines, nth) /\ tail' = "bare"
    BY <1>4 DEF Stop, WriteLine, fileVars
  <2>2. nth \in 1 .. Len(records) /\ Len(records) \in Nat /\ Len(lines) \in Nat
    BY <2>1 DEF TranscriptShape, AttemptKeepsUp
  <2>3. ~(nth <= Len(lines))
    BY <2>1, <2>2, FoundIsWithin
  <2>4. nth = Len(records) /\ nth = Len(lines) + 1
    BY <2>2, <2>3, LastMayMiss
  <2>5. /\ lines' \in Seq(Nat) /\ Len(lines') = nth
        /\ \A n \in 1 .. Len(lines') : lines'[n] = n
    BY <2>1, <2>2, <2>4 DEF TranscriptShape, FileFollowsStore
  <2>6. TranscriptShape'
    BY <1>1, <2>1, <2>5 DEF TranscriptShape
  <2>7. FileFollowsStore'
    BY <1>1, <2>2, <2>4, <2>5 DEF FileFollowsStore
  <2> QED BY <1>2, <2>6, <2>7
<1> QED BY <1>3, <1>4

LEMMA StepTranscript == TranscriptInv /\ [TranscriptNext]_transcriptVars => TranscriptInv'
<1> SUFFICES ASSUME TranscriptInv, [TranscriptNext]_transcriptVars PROVE TranscriptInv'
  OBVIOUS
<1>1. ASSUME NEW k \in FollowUps, Post(k) \/ InputDelivered(k) PROVE TranscriptInv'
  <2>1. inputs' \in [FollowUps -> {"none", "pending", "delivered"}]
    BY <1>1 DEF Post, InputDelivered, TranscriptInv, TranscriptShape
  <2>2. UNCHANGED <<records, progress, lines, tail, worker, nth, history>>
    BY <1>1 DEF Post, InputDelivered, fileVars
  <2> QED BY <2>1, <2>2 DEF TranscriptInv, TranscriptShape, FileFollowsStore, AttemptKeepsUp, ProgressIsCurrent
<1>2. ASSUME NEW k \in FollowUps, DeliverInput(k) PROVE TranscriptInv'
  BY <1>2, ReserveKeeps DEF DeliverInput, Contents
<1>3. CASE Say
  BY <1>3, ReserveKeeps DEF Say, Contents
<1>4. CASE Attempt
  <2>1. /\ worker' = "load" /\ nth' = 0 /\ history' = <<>>
        /\ UNCHANGED <<records, inputs, progress, lines, tail>>
    BY <1>4 DEF Attempt, storeVars, fileVars
  <2>2. TranscriptShape' /\ FileFollowsStore' /\ ProgressIsCurrent'
    BY <2>1 DEF TranscriptInv, TranscriptShape, FileFollowsStore, ProgressIsCurrent
  <2>3. AttemptKeepsUp'
    BY <2>1, HoldsNothing DEF AttemptKeepsUp
  <2> QED BY <2>2, <2>3 DEF TranscriptInv
<1>5. CASE NextRecord
  <2>1. UNCHANGED <<records, inputs, progress, lines, tail, history>>
    BY <1>5 DEF NextRecord, storeVars, fileVars
  <2>2. \/ nth = Len(records) /\ worker' = "idle" /\ nth' = nth
        \/ nth # Len(records) /\ worker' = "file" /\ nth' = nth + 1
    BY <1>5 DEF NextRecord
  <2>3. worker = "load" /\ InHistory(records, history, nth)
    BY <1>5 DEF NextRecord, TranscriptInv, AttemptKeepsUp
  <2>4. TranscriptShape' /\ FileFollowsStore' /\ ProgressIsCurrent'
    BY <2>1, <2>2 DEF TranscriptInv, TranscriptShape, FileFollowsStore, ProgressIsCurrent
  <2>5. nth \in Nat
    BY DEF TranscriptInv, TranscriptShape
  <2>6. CASE nth = Len(records) /\ worker' = "idle" /\ nth' = nth
    <3>1. InHistory(records', history', nth') /\ nth' = Len(records')
      BY <2>1, <2>3, <2>6
    <3> QED BY <2>4, <2>6, <3>1 DEF AttemptKeepsUp, TranscriptInv
  <2>7. CASE nth # Len(records) /\ worker' = "file" /\ nth' = nth + 1
    <3>1. nth' - 1 = nth /\ nth' # 0
      BY <2>5, <2>7
    <3>2. InHistory(records', history', nth' - 1)
      BY <2>1, <2>3, <3>1
    <3> QED BY <2>4, <2>7, <3>1, <3>2 DEF AttemptKeepsUp, TranscriptInv
  <2> QED BY <2>2, <2>6, <2>7
<1>6. CASE AppendLine
  BY <1>6, AppendKeeps
<1>7. CASE Mark
  BY <1>7, MarkKeeps
<1>8. CASE Stop
  BY <1>8, StopKeeps
<1>9. CASE UNCHANGED transcriptVars
  BY <1>9 DEF transcriptVars, TranscriptInv, TranscriptShape, FileFollowsStore, AttemptKeepsUp, ProgressIsCurrent
<1> QED BY <1>1, <1>2, <1>3, <1>4, <1>5, <1>6, <1>7, <1>8, <1>9 DEF TranscriptNext

LEMMA TranscriptInvariant == TranscriptSpec => []TranscriptInv
  BY InitTranscript, StepTranscript, PTL DEF TranscriptSpec

\* The file holds every delivery once and in order, an attempt that has loaded
\* works with the deliveries since the last compaction, and the progress is that
\* of the last marked one: for any number of deliveries, inputs and crashes.
THEOREM TranscriptIsSafe == TranscriptSpec => []TranscriptSafety
<1> SUFFICES ASSUME TranscriptInv PROVE TranscriptSafety
  BY TranscriptInvariant, PTL
<1> USE DEF TranscriptInv
<1>1. /\ Len(records) \in Nat /\ Len(lines) \in Nat
      /\ DOMAIN records = 1 .. Len(records) /\ DOMAIN lines = 1 .. Len(lines)
  BY DEF TranscriptShape
<1>2. Len(lines) <= Len(records) /\ \A n \in 1 .. Len(lines) : lines[n] = n
  BY DEF FileFollowsStore
<1>3. TranscriptTypeOK
  <2>1. \A i \in DOMAIN records : records[i] \in Rows
    BY DEF TranscriptShape
  <2>2. Range(lines) \subseteq DOMAIN records
    BY <1>1, <1>2 DEF Range
  <2> QED BY <2>1, <2>2, <1>1 DEF TranscriptShape, Rows, Contents, TranscriptTypeOK
<1>4. FileIsInOrder
  <2>1. ASSUME NEW i \in DOMAIN records, records[i].state = "written" PROVE Found(i)
    BY <1>1, <2>1, FoundIsWithin DEF FileFollowsStore
  <2> QED BY <1>1, <1>2, <2>1 DEF FileIsInOrder
<1>5. HistoryAgrees
  <2> SUFFICES ASSUME worker = "idle" PROVE HistoryAgrees
    BY DEF HistoryAgrees
  <2>1. InHistory(records, history, Len(records)) /\ history \in Seq(Nat)
    BY DEF AttemptKeepsUp, TranscriptShape
  <2>2. PICK from \in 1 .. Len(records) + 1 :
          /\ Len(history) = Len(records) + 1 - from
          /\ \A m \in 1 .. Len(history) : history[m] = from + m - 1
          /\ \A i \in from + 1 .. Len(records) : records[i].what # "compact"
          /\ from > 1 => from <= Len(records) /\ records[from].what = "compact"
    BY <2>1 DEF InHistory
  <2>3. history = [n \in 1 .. Len(records) + 1 - from |-> from + n - 1]
    BY <2>1, <2>2
  <2> QED BY <2>2, <2>3 DEF HistoryAgrees
<1> QED BY <1>3, <1>4, <1>5 DEF TranscriptSafety

LEMMA LogInit == TranscriptInit => Log!Init
  BY DEF TranscriptInit, Log!Init

LEMMA ReserveDelivers ==
  ASSUME TranscriptInv, NEW what \in Contents, ReserveDelivery(what),
         what \in FollowUps => ~IsReserved(what)
  PROVE  Log!Next
<1> DEFINE logged == [i \in DOMAIN records |-> records[i].what]
<1>1. records \in Seq(Rows) /\ records' = Append(records, [what |-> what, state |-> "pending"])
  BY DEF TranscriptInv, TranscriptShape, ReserveDelivery
<1>2. DOMAIN records = 1 .. Len(records) /\ DOMAIN records' = 1 .. Len(records) + 1 /\ Len(records) \in Nat
  BY <1>1
<1>3. \A i \in 1 .. Len(records) : records'[i] = records[i]
  BY <1>1
<1>4. records'[Len(records) + 1].what = what
  BY <1>1
<1>5. logged \in Seq(Contents) /\ Len(logged) = Len(records)
  <2>1. \A i \in DOMAIN records : records[i].what \in Contents
    <3> SUFFICES ASSUME NEW i \in DOMAIN records PROVE records[i].what \in Contents
      OBVIOUS
    <3>1. records[i] \in Rows
      BY <1>1
    <3> QED BY <3>1 DEF Rows
  <2>2. logged \in [1 .. Len(records) -> Contents]
    BY <1>2, <2>1
  <2> HIDE DEF logged
  <2> QED BY <1>2, <2>2
<1>6. logged' = Append(logged, what)
  <2>1. DOMAIN logged' = 1 .. Len(records) + 1 /\ DOMAIN Append(logged, what) = 1 .. Len(records) + 1
    BY <1>2, <1>5
  <2>2. ASSUME NEW i \in 1 .. Len(records) + 1 PROVE logged'[i] = Append(logged, what)[i]
    BY <1>2, <1>3, <1>4, <1>5
  <2>3. logged' = [i \in 1 .. Len(records) + 1 |-> logged'[i]]
    BY <1>2
  <2>4. Append(logged, what) = [i \in 1 .. Len(records) + 1 |-> Append(logged, what)[i]]
    BY <1>2, <1>5
  <2> QED BY <2>2, <2>3, <2>4
<1>7. what \in FollowUps => \A i \in DOMAIN logged : logged[i] # what
  BY DEF IsReserved
<1> QED BY <1>6, <1>7 DEF Log!Next, Log!Deliver, Contents

\* A step that reserves nothing leaves the log as it is.
LEMMA LogRests ==
  ASSUME TranscriptInv, [TranscriptNext]_transcriptVars,
         ~ \E what \in Contents : ReserveDelivery(what)
  PROVE  DOMAIN records' = DOMAIN records /\ \A i \in DOMAIN records : records'[i].what = records[i].what
<1>1. CASE Mark
  <2>1. DOMAIN records' = DOMAIN records /\ records \in Seq(Rows)
    BY <1>1 DEF Mark, TranscriptInv, TranscriptShape
  <2>2. CASE records' = records
    BY <2>2
  <2>3. CASE records' = [records EXCEPT ![nth].state = "written"]
    <3> SUFFICES ASSUME NEW i \in DOMAIN records PROVE records'[i].what = records[i].what
      BY <2>1
    <3>1. records[i] \in Rows
      BY <2>1
    <3>2. records'[i] = IF i = nth THEN [records[i] EXCEPT !.state = "written"] ELSE records[i]
      BY <2>3
    <3> QED BY <3>1, <3>2, MarkedRow
  <2> QED BY <1>1, <2>1, <2>2, <2>3 DEF Mark
<1>2. CASE UNCHANGED records
  BY <1>2
<1>3. ASSUME NEW k \in FollowUps, DeliverInput(k) PROVE FALSE
  BY <1>3 DEF DeliverInput, Contents
<1>4. CASE Say
  BY <1>4 DEF Say, Contents
<1> QED
  BY <1>1, <1>2, <1>3, <1>4
     DEF TranscriptNext, transcriptVars, storeVars, Post, InputDelivered, Attempt, NextRecord, AppendLine, Stop

LEMMA LogStep == TranscriptInv /\ [TranscriptNext]_transcriptVars => [Log!Next]_([i \in DOMAIN records |-> records[i].what])
<1> SUFFICES ASSUME TranscriptInv, [TranscriptNext]_transcriptVars
             PROVE  [Log!Next]_([i \in DOMAIN records |-> records[i].what])
  OBVIOUS
<1>1. ASSUME NEW k \in FollowUps, DeliverInput(k) PROVE Log!Next
  BY <1>1, ReserveDelivers DEF DeliverInput, Contents
<1>2. ASSUME Say PROVE Log!Next
  BY <1>2, ReserveDelivers, TranscriptAssumption DEF Say, Contents
<1>3. ASSUME NEW what \in Contents, ReserveDelivery(what) PROVE Log!Next
  <2>1. worker = "idle" /\ worker' = "file"
    BY <1>3 DEF ReserveDelivery
  <2>2. ~ \E k \in FollowUps : Post(k) \/ InputDelivered(k)
    BY <2>1 DEF Post, InputDelivered
  <2>3. ~(Attempt \/ NextRecord \/ AppendLine \/ Mark \/ Stop \/ UNCHANGED transcriptVars)
    BY <2>1 DEF Attempt, NextRecord, AppendLine, Mark, Stop, transcriptVars
  <2>4. Say \/ \E k \in FollowUps : DeliverInput(k)
    BY <2>2, <2>3 DEF TranscriptNext
  <2> QED BY <1>1, <1>2, <2>4
<1>4. CASE ~ \E what \in Contents : ReserveDelivery(what)
  BY <1>4, LogRests
<1> QED BY <1>3, <1>4

\* The transcript is a log that only grows, and each follow-up of the user is in
\* it once at most, whatever crashes between the three steps of a delivery.
THEOREM TranscriptImplementsLog == TranscriptSpec => LogSpec
  BY LogInit, LogStep, TranscriptInvariant, PTL DEF TranscriptSpec, LogSpec, Log!Spec

-----------------------------------------------------------------------------
(***************************************************************************)
(* The run of a workflow. What a call holds is old: the invariant says      *)
(* which of it may still be written, by the place of the call, and that a   *)
(* run which is over has nobody left who could change it, unless two calls  *)
(* execute it.                                                              *)
(***************************************************************************)

Places ==
  {"idle", "recovering", "pausing", "resuming", "looping", "skipping", "launching", "waiting",
   "entering", "stopping", "resting"}

\* Where a call is while it executes the run.
Executing ==
  {"resuming", "looping", "skipping", "launching", "waiting", "entering", "stopping", "resting"}

\* Nothing is left to do in a run that is over.
OverIsDone(run) == Over(run) => StepsIn(run, {"pending", "running"}) = {}

RunsFit == {run \in RunShape : OverIsDone(run)}

LaunchedSteps == [Steps -> {"none", "launching", "running", "completed", "failed"}]

\* What a call c at a place may hold and have launched, when recorded are the
\* steps that the file has named as completed.  A batch that is being entered is
\* not recorded yet; what a call has after a write is stale, and it reads again.
CallFits(c, place, run, launched, recorded) ==
  /\ run \in RunsFit
  /\ launched \in LaunchedSteps
  /\ place \in Executing => c \in Resumers
  /\ place \in {"recovering", "skipping", "launching", "waiting", "entering", "resting"} => ~Over(run)
  /\ place \notin {"idle", "looping", "entering", "resting"} => StepsIn(run, {"completed"}) \subseteq recorded
  /\ \A s \in Steps :
       /\ launched[s] = "launching" => place = "launching"
       /\ launched[s] = "running" => place = "waiting"
       /\ launched[s] # "none" => Needs[s] \subseteq recorded

FileFits == runFile \in RunsFit /\ StepsIn(runFile, {"completed"}) \subseteq done

CallsFit ==
  /\ at \in [Calls -> Places]
  /\ heldRun \in [Calls -> RunShape]
  /\ agents \in [Calls -> LaunchedSteps]
  /\ \A c \in Calls : CallFits(c, at[c], heldRun[c], agents[c], done)

\* Who could still write to a run that is over has nothing to write.
LastWordSaid ==
  OneExecutes /\ Over(runFile) =>
    \A c \in Resumers : at[c] \in {"idle", "pausing"} \/ (at[c] = "resuming" /\ Over(heldRun[c]))

\* A call that pauses its own copy has recorded it, or the run is over meanwhile.
RestsFit ==
  \A c \in Calls : at[c] = "resting" => Over(runFile) \/ StepsIn(heldRun[c], {"completed"}) \subseteq done

WorkflowInv == batches \in 0 .. MaxBatches /\ FileFits /\ CallsFit /\ LastWordSaid

\* What a step may do to a run that is over.
StaysOver == Over(runFile) => Over(runFile') /\ (OneExecutes => runFile' = runFile)

\* What #writeRun makes of the file.
LEMMA WrittenFits ==
  ASSUME NEW run \in RunsFit, NEW keepPause \in BOOLEAN, runFile \in RunsFit
  PROVE  /\ Written(run, keepPause) \in RunsFit
         /\ Written(run, keepPause).steps \in {run.steps, runFile.steps}
         /\ Over(runFile) => Over(Written(run, keepPause))
         /\ Over(Written(run, keepPause)) => Over(runFile) \/ Over(run)
         /\ Over(runFile) /\ ~Over(run) => Written(run, keepPause) = runFile
<1>1. CASE Over(runFile) /\ ~Over(run)
  BY <1>1 DEF Written
<1>2. CASE ~ (Over(runFile) /\ ~Over(run)) /\ (runFile.pause /\ keepPause /\ run.status = "running")
  <2>1. Written(run, keepPause) = [run EXCEPT !.pause = TRUE]
    BY <1>2, Zenon DEF Written
  <2>2. ~Over(run) /\ ~Over([run EXCEPT !.pause = TRUE]) /\ ~Over(runFile)
    BY <1>2 DEF Over, RunsFit, RunShape
  <2>3. [run EXCEPT !.pause = TRUE] \in RunShape /\ [run EXCEPT !.pause = TRUE].steps = run.steps
    BY DEF RunsFit, RunShape
  <2> QED BY <2>1, <2>2, <2>3 DEF RunsFit, OverIsDone
<1>3. CASE ~ (Over(runFile) /\ ~Over(run)) /\ ~ (runFile.pause /\ keepPause /\ run.status = "running")
  <2>1. Written(run, keepPause) = run
    BY <1>3, Zenon DEF Written
  <2> QED BY <1>3, <2>1
<1> QED BY <1>1, <1>2, <1>3, Zenon

\* More recorded steps do no harm to what a call holds.
LEMMA RecordedGrows ==
  ASSUME NEW c, NEW place, NEW run, NEW launched, NEW recorded, NEW more,
         CallFits(c, place, run, launched, recorded), recorded \subseteq more
  PROVE  CallFits(c, place, run, launched, more)
BY Zenon DEF CallFits

\* A step of one call leaves the others as they were.
LEMMA OthersFit ==
  ASSUME CallsFit, NEW c \in Calls, NEW place \in Places, NEW run, NEW launched,
         at' = [at EXCEPT ![c] = place],
         heldRun' = [heldRun EXCEPT ![c] = run],
         agents' = [agents EXCEPT ![c] = launched],
         done \subseteq done',
         CallFits(c, place, run, launched, done')
  PROVE  CallsFit'
<1>1. run \in RunShape /\ launched \in LaunchedSteps
  BY DEF CallFits, RunsFit
<1>2. /\ at' \in [Calls -> Places] /\ heldRun' \in [Calls -> RunShape]
      /\ agents' \in [Calls -> LaunchedSteps]
  BY <1>1 DEF CallsFit
<1>3. ASSUME NEW d \in Calls PROVE CallFits(d, at'[d], heldRun'[d], agents'[d], done')
  <2>1. CASE d = c
    <3>1. at'[d] = place /\ heldRun'[d] = run /\ agents'[d] = launched
      BY <2>1 DEF CallsFit
    <3> QED BY ONLY <2>1, <3>1, CallFits(c, place, run, launched, done')
  <2>2. CASE d # c
    <3>1. at'[d] = at[d] /\ heldRun'[d] = heldRun[d] /\ agents'[d] = agents[d]
      BY <2>2 DEF CallsFit
    <3>2. CallFits(d, at[d], heldRun[d], agents[d], done)
      BY Zenon DEF CallsFit
    <3>3. CallFits(d, at[d], heldRun[d], agents[d], done')
      BY ONLY <3>2, done \subseteq done', RecordedGrows
    <3> QED BY ONLY <3>1, <3>3
  <2> QED BY <2>1, <2>2
<1> QED BY <1>2, <1>3, Zenon DEF CallsFit

\* A run that is not over, or that has nothing left to do, fits.
LEMMA NotOverFits == ASSUME NEW run \in RunShape, ~Over(run) PROVE run \in RunsFit
BY DEF RunsFit, OverIsDone

\* What normalizeRecoveredRun makes of a run.
LEMMA RecoveredFits ==
  ASSUME NEW run \in RunsFit
  PROVE  /\ RecoveredRun(run) \in RunsFit
         /\ StepsIn(RecoveredRun(run), {"completed"}) = StepsIn(run, {"completed"})
         /\ Over(RecoveredRun(run)) <=> Over(run)
         /\ Over(run) => RecoveredRun(run) = run
<1> DEFINE recoveredSteps == [s \in Steps |-> IF run.steps[s] = "running" THEN "pending" ELSE run.steps[s]]
           recoveredStatus == IF run.status = "running" THEN "paused" ELSE run.status
<1>1. run \in RunShape
  BY DEF RunsFit
<1>2. RecoveredRun(run) = [run EXCEPT !.status = recoveredStatus, !.steps = recoveredSteps]
  BY DEF RecoveredRun
<1>3. /\ recoveredStatus \in {"paused", "running", "completed", "completed_with_errors"}
      /\ recoveredSteps \in [Steps -> {"pending", "running"} \cup RunEnded]
      /\ Over(run) <=> recoveredStatus \in {"completed", "completed_with_errors"}
  BY <1>1 DEF RunShape, RunEnded, Over
<1>4. /\ RecoveredRun(run) \in RunShape /\ RecoveredRun(run).steps = recoveredSteps
      /\ RecoveredRun(run).status = recoveredStatus
  <2> HIDE DEF recoveredSteps, recoveredStatus
  <2> QED BY <1>1, <1>2, <1>3 DEF RunShape
<1>5. StepsIn(RecoveredRun(run), {"completed"}) = StepsIn(run, {"completed"})
  BY <1>4 DEF StepsIn
<1>6. Over(RecoveredRun(run)) <=> Over(run)
  BY <1>3, <1>4 DEF Over
<1>7. ASSUME Over(run) PROVE RecoveredRun(run) = run
  <2>1. \A s \in Steps : run.steps[s] # "running"
    BY <1>7 DEF RunsFit, OverIsDone, StepsIn
  <2>2. recoveredSteps = run.steps
    BY <1>1, <2>1 DEF RunShape
  <2>3. recoveredStatus = run.status
    BY <1>7 DEF Over
  <2> HIDE DEF recoveredSteps, recoveredStatus
  <2> QED BY <1>1, <1>2, <2>2, <2>3 DEF RunShape
<1>8. RecoveredRun(run) \in RunsFit
  BY <1>4, <1>6, <1>7, NotOverFits
<1> QED BY <1>5, <1>6, <1>7, <1>8

\* Whatever call c does, the last word on a run that is over was said, when c is
\* not left with a run to write, and the run was over before.
LEMMA StaysSaid ==
  ASSUME LastWordSaid, CallsFit, NEW c \in Calls, NEW place \in Places, NEW run,
         at' = [at EXCEPT ![c] = place],
         heldRun' = [heldRun EXCEPT ![c] = run],
         Over(runFile') => Over(runFile),
         OneExecutes /\ Over(runFile) /\ c \in Resumers
           => place \in {"idle", "pausing"} \/ (place = "resuming" /\ Over(run))
  PROVE  LastWordSaid'
<1> SUFFICES ASSUME OneExecutes, Over(runFile'), NEW d \in Resumers
             PROVE  at'[d] \in {"idle", "pausing"} \/ (at'[d] = "resuming" /\ Over(heldRun'[d]))
  BY Zenon DEF LastWordSaid, OneExecutes
<1>1. d \in Calls /\ Over(runFile)
  BY DEF Calls
<1>2. CASE d = c
  <2>1. at'[d] = place /\ heldRun'[d] = run
    BY <1>2 DEF CallsFit
  <2> QED BY <1>1, <1>2, <2>1, Zenon
<1>3. CASE d # c
  <2>1. at'[d] = at[d] /\ heldRun'[d] = heldRun[d]
    BY <1>1, <1>3 DEF CallsFit
  <2>2. at[d] \in {"idle", "pausing"} \/ (at[d] = "resuming" /\ Over(heldRun[d]))
    BY <1>1, Zenon DEF LastWordSaid
  <2> QED BY <2>1, <2>2, Zenon
<1> QED BY <1>2, <1>3

LEMMA InitFits == WorkflowInit => WorkflowInv
<1> SUFFICES ASSUME WorkflowInit PROVE WorkflowInv
  OBVIOUS
<1>1. FreshRun \in RunsFit /\ ~Over(FreshRun) /\ StepsIn(FreshRun, {"completed"}) = {}
  BY DEF FreshRun, RunsFit, RunShape, OverIsDone, Over, StepsIn
<1>2. NoAgents \in LaunchedSteps /\ \A s \in Steps : NoAgents[s] = "none"
  BY DEF NoAgents, LaunchedSteps
<1>3. FileFits
  BY <1>1 DEF WorkflowInit, FileFits
<1>4. ASSUME NEW c \in Calls PROVE CallFits(c, "idle", FreshRun, NoAgents, done)
  BY <1>1, <1>2 DEF CallFits, Executing
<1>5. /\ at \in [Calls -> Places] /\ heldRun \in [Calls -> RunShape]
      /\ agents \in [Calls -> LaunchedSteps]
  BY <1>1, <1>2 DEF WorkflowInit, Places, RunsFit
<1>6. CallsFit
  BY <1>4, <1>5 DEF CallsFit, WorkflowInit
<1>7. LastWordSaid
  BY <1>1 DEF WorkflowInit, LastWordSaid
<1>8. batches \in 0 .. MaxBatches
  BY WorkflowAssumption DEF WorkflowInit
<1> QED BY <1>3, <1>6, <1>7, <1>8 DEF WorkflowInv

\* A call reads the file, and recovers what it reads.
LEMMA LookFits ==
  ASSUME WorkflowInv, NEW c \in Calls, StartCall(c)
  PROVE  WorkflowInv' /\ runFile' = runFile
<1> DEFINE run == RecoveredRun(runFile)
           place == IF run = runFile THEN AfterLook(c) ELSE "recovering"
<1>1. /\ run \in RunsFit /\ StepsIn(run, {"completed"}) \subseteq done
      /\ Over(run) <=> Over(runFile)
      /\ Over(runFile) => run = runFile
  BY RecoveredFits DEF WorkflowInv, FileFits
<1>2. place \in Places
  BY DEF Places, AfterLook
<1>3. /\ at' = [at EXCEPT ![c] = place] /\ heldRun' = [heldRun EXCEPT ![c] = run]
      /\ runFile' = runFile /\ agents' = agents /\ done' = done /\ batches' = batches
  BY DEF StartCall, Look, Goes, Holds
<1>4. CallFits(c, at[c], heldRun[c], agents[c], done) /\ at[c] = "idle"
  BY DEF WorkflowInv, CallsFit, StartCall
<1>5. AfterLook(c) \in {"idle", "pausing", "resuming"} /\ (AfterLook(c) = "resuming" => c \in Resumers)
  BY DEF AfterLook, Calls
<1>6. CallFits(c, place, run, agents[c], done)
  <2>1. /\ place \in {"idle", "pausing", "resuming", "recovering"}
        /\ place = "resuming" => c \in Resumers
        /\ place = "recovering" => ~Over(run)
    BY <1>1, <1>5, Zenon
  <2> HIDE DEF place, run
  <2> QED BY <1>1, <1>4, <2>1 DEF CallFits, Executing
<1> HIDE DEF run
<1>7. agents' = [agents EXCEPT ![c] = agents[c]]
  BY <1>3 DEF WorkflowInv, CallsFit
<1>8. CallsFit'
  <2> HIDE DEF place
  <2> QED BY <1>2, <1>3, <1>6, <1>7, OthersFit DEF WorkflowInv
<1>9. LastWordSaid'
  <2>1. Over(runFile) => place \in {"idle", "pausing"} \/ (place = "resuming" /\ Over(run))
    BY <1>1, <1>5
  <2> HIDE DEF place
  <2> QED BY <1>2, <1>3, <2>1, StaysSaid DEF WorkflowInv
<1> QED BY <1>3, <1>8, <1>9 DEF WorkflowInv, FileFits

\* A write of a run whose completed steps are recorded.
LEMMA FileFitsWhenWritten ==
  ASSUME FileFits, NEW run \in RunsFit, NEW keepPause \in BOOLEAN,
         runFile' = Written(run, keepPause),
         done \subseteq done',
         StepsIn(run, {"completed"}) \subseteq done \/ StepsIn(runFile', {"completed"}) \subseteq done'
  PROVE  FileFits'
<1>1. Written(run, keepPause) \in RunsFit /\ Written(run, keepPause).steps \in {run.steps, runFile.steps}
  BY WrittenFits DEF FileFits
<1>2. StepsIn(runFile, {"completed"}) \subseteq done
  BY DEF FileFits
<1>3. StepsIn(runFile', {"completed"}) \subseteq done'
  BY <1>1, <1>2 DEF StepsIn
<1> QED BY <1>1, <1>3 DEF FileFits

\* A call writes a run that is not over, or whose like is there already, and goes on.
LEMMA WriteFits ==
  ASSUME WorkflowInv, NEW c \in Calls, NEW place \in Places, NEW launched, NEW run \in RunsFit,
         NEW keepPause \in BOOLEAN,
         runFile' = Written(run, keepPause),
         at' = [at EXCEPT ![c] = place], heldRun' = heldRun,
         agents' = [agents EXCEPT ![c] = launched], batches' = batches,
         done \subseteq done',
         StepsIn(run, {"completed"}) \subseteq done \/ StepsIn(runFile', {"completed"}) \subseteq done',
         CallFits(c, place, heldRun[c], launched, done'),
         Over(run) => place = "idle" /\ c \in Resumers /\ at[c] = "stopping",
         OneExecutes /\ Over(runFile) /\ c \in Resumers
           => place \in {"idle", "pausing"} \/ (place = "resuming" /\ Over(heldRun[c]))
  PROVE  WorkflowInv' /\ StaysOver
<1>1. FileFits'
  BY FileFitsWhenWritten DEF WorkflowInv
<1>2. heldRun' = [heldRun EXCEPT ![c] = heldRun[c]]
  BY DEF WorkflowInv, CallsFit
<1>3. CallsFit'
  BY <1>2, OthersFit DEF WorkflowInv
<1>4. /\ Over(runFile) => Over(runFile')
      /\ Over(runFile') => Over(runFile) \/ Over(run)
      /\ Over(runFile) /\ ~Over(run) => runFile' = runFile
  BY WrittenFits DEF WorkflowInv, FileFits
<1>5. CASE ~Over(run)
  <2>1. LastWordSaid'
    BY <1>2, <1>4, <1>5, StaysSaid DEF WorkflowInv
  <2>2. StaysOver
    BY <1>4, <1>5 DEF StaysOver
  <2> QED BY <1>1, <1>3, <2>1, <2>2 DEF WorkflowInv
<1>6. CASE Over(run)
  <2>1. place = "idle" /\ c \in Resumers /\ at[c] = "stopping"
    BY <1>6
  <2>2. ~ (OneExecutes /\ Over(runFile))
    BY <2>1 DEF WorkflowInv, LastWordSaid
  <2>3. ASSUME OneExecutes, NEW d \in Resumers PROVE at'[d] = "idle"
    <3>1. d = c
      BY <2>1, <2>3 DEF OneExecutes
    <3> QED BY <2>1, <3>1 DEF WorkflowInv, CallsFit
  <2>4. OneExecutes' => OneExecutes
    BY DEF OneExecutes
  <2>5. LastWordSaid'
    BY <2>3, <2>4 DEF LastWordSaid
  <2>6. StaysOver
    BY <1>4, <2>2 DEF StaysOver
  <2> QED BY <1>1, <1>3, <2>5, <2>6 DEF WorkflowInv
<1> QED BY <1>5, <1>6

LEMMA WriteRecoveredFits ==
  ASSUME WorkflowInv, NEW c \in Calls, WriteRecovered(c) PROVE WorkflowInv' /\ StaysOver
<1>1. CallFits(c, at[c], heldRun[c], agents[c], done) /\ at[c] = "recovering"
  BY DEF WorkflowInv, CallsFit, WriteRecovered
<1>2. AfterLook(c) \in {"idle", "pausing", "resuming"} /\ (AfterLook(c) = "resuming" => c \in Resumers)
  BY DEF AfterLook, Calls
<1>3. /\ runFile' = Written(heldRun[c], TRUE) /\ at' = [at EXCEPT ![c] = AfterLook(c)]
      /\ heldRun' = heldRun /\ agents' = agents /\ batches' = batches /\ done' = done
  BY DEF WriteRecovered, Goes
<1>4. agents' = [agents EXCEPT ![c] = agents[c]]
  BY <1>3 DEF WorkflowInv, CallsFit
<1>5. /\ heldRun[c] \in RunsFit /\ ~Over(heldRun[c])
      /\ StepsIn(heldRun[c], {"completed"}) \subseteq done
  BY <1>1 DEF CallFits
<1>6. CallFits(c, AfterLook(c), heldRun[c], agents[c], done')
  BY <1>1, <1>2, <1>3 DEF CallFits, Executing
<1>7. OneExecutes /\ Over(runFile) => c \notin Resumers
  BY <1>1 DEF WorkflowInv, LastWordSaid
<1>8. AfterLook(c) \in Places
  BY <1>2 DEF Places
<1> HIDE DEF WorkflowInv
<1> QED BY <1>3, <1>4, <1>5, <1>6, <1>7, <1>8, WriteFits

LEMMA PauseFits ==
  ASSUME WorkflowInv, NEW c \in Calls, Pause(c) PROVE WorkflowInv' /\ StaysOver
<1> DEFINE run == [heldRun[c] EXCEPT !.pause = TRUE,
                                     !.status = IF @ = "running" THEN @ ELSE "paused"]
<1>1. CallFits(c, at[c], heldRun[c], agents[c], done) /\ at[c] = "pausing"
  BY DEF WorkflowInv, CallsFit, Pause
<1>2. /\ runFile' = IF Over(heldRun[c]) THEN runFile ELSE Written(run, TRUE)
      /\ at' = [at EXCEPT ![c] = "idle"]
      /\ heldRun' = heldRun /\ agents' = agents /\ batches' = batches /\ done' = done
  BY DEF Pause, Goes
<1>3. agents' = [agents EXCEPT ![c] = agents[c]] /\ heldRun' = [heldRun EXCEPT ![c] = heldRun[c]]
  BY <1>2 DEF WorkflowInv, CallsFit
<1>4. CallFits(c, "idle", heldRun[c], agents[c], done')
  BY <1>1, <1>2 DEF CallFits, Executing
<1>5. "idle" \in Places
  BY DEF Places
<1>6. CASE Over(heldRun[c])
  <2>1. runFile' = runFile
    BY <1>2, <1>6
  <2>2. CallsFit'
    BY <1>2, <1>3, <1>4, <1>5, OthersFit DEF WorkflowInv
  <2>3. LastWordSaid'
    BY <1>2, <1>3, <1>5, <2>1, StaysSaid DEF WorkflowInv
  <2> QED BY <1>2, <2>1, <2>2, <2>3 DEF WorkflowInv, FileFits, StaysOver
<1>7. CASE ~Over(heldRun[c])
  <2>1. heldRun[c] \in RunShape /\ StepsIn(heldRun[c], {"completed"}) \subseteq done
    BY <1>1 DEF CallFits, RunsFit
  <2>2. /\ run \in RunShape /\ run.steps = heldRun[c].steps
        /\ run.status \in {"running", "paused"}
    BY <2>1 DEF RunShape
  <2>3. runFile' = Written(run, TRUE)
    BY <1>2, <1>7
  <2> HIDE DEF run
  <2>4. ~Over(run) /\ run \in RunsFit
    BY <2>2, NotOverFits DEF Over
  <2>5. StepsIn(run, {"completed"}) \subseteq done
    BY <2>1, <2>2 DEF StepsIn
  <2> HIDE DEF WorkflowInv
  <2> QED BY <1>2, <1>3, <1>4, <1>5, <2>3, <2>4, <2>5, WriteFits
<1> QED BY <1>6, <1>7

LEMMA ExecuteFits ==
  ASSUME WorkflowInv, NEW c \in Calls, Execute(c) PROVE WorkflowInv' /\ StaysOver
<1> DEFINE run == [heldRun[c] EXCEPT !.pause = FALSE, !.status = "running"]
<1>1. CallFits(c, at[c], heldRun[c], agents[c], done) /\ at[c] = "resuming" /\ c \in Resumers
  BY DEF WorkflowInv, CallsFit, Execute, CallFits, Executing
<1>2. agents' = agents /\ batches' = batches /\ done' = done /\ heldRun' = heldRun
  BY Zenon DEF Execute
<1>3. agents' = [agents EXCEPT ![c] = agents[c]] /\ heldRun' = [heldRun EXCEPT ![c] = heldRun[c]]
  BY <1>2 DEF WorkflowInv, CallsFit
<1>4. "idle" \in Places /\ "looping" \in Places
  BY DEF Places
<1>5. CallFits(c, "idle", heldRun[c], agents[c], done') /\ CallFits(c, "looping", heldRun[c], agents[c], done')
  BY <1>1, <1>2 DEF CallFits, Executing
<1>6. CASE Over(heldRun[c])
  <2>1. runFile' = runFile /\ at' = [at EXCEPT ![c] = "idle"]
    BY <1>6 DEF Execute, Goes
  <2>2. CallsFit'
    BY <1>2, <1>3, <1>4, <1>5, <2>1, OthersFit DEF WorkflowInv
  <2>3. LastWordSaid'
    BY <1>2, <1>3, <1>4, <2>1, StaysSaid DEF WorkflowInv
  <2> QED BY <1>2, <2>1, <2>2, <2>3 DEF WorkflowInv, FileFits, StaysOver
<1>7. CASE ~Over(heldRun[c])
  <2>1. heldRun[c] \in RunShape /\ StepsIn(heldRun[c], {"completed"}) \subseteq done
    BY <1>1 DEF CallFits, RunsFit
  <2>2. run \in RunShape /\ run.steps = heldRun[c].steps /\ run.status = "running"
    BY <2>1 DEF RunShape
  <2>3. runFile' = Written(run, FALSE) /\ at' = [at EXCEPT ![c] = "looping"]
    BY <1>7 DEF Execute, Goes
  <2> HIDE DEF run
  <2>4. ~Over(run) /\ run \in RunsFit
    BY <2>2, NotOverFits DEF Over
  <2>5. StepsIn(run, {"completed"}) \subseteq done
    BY <2>1, <2>2 DEF StepsIn
  <2>6. ~ (OneExecutes /\ Over(runFile))
    BY <1>1, <1>7 DEF WorkflowInv, LastWordSaid
  <2> HIDE DEF WorkflowInv
  <2> QED BY <1>2, <1>3, <1>4, <1>5, <2>3, <2>4, <2>5, <2>6, WriteFits
<1> QED BY <1>6, <1>7

\* With one call that executes, the file is not over between its first write and
\* its last.
LEMMA NotOverWhileExecuting ==
  ASSUME WorkflowInv, NEW c \in Calls, at[c] \in Executing \ {"resuming"}
  PROVE  c \in Resumers /\ ~ (OneExecutes /\ Over(runFile))
BY DEF WorkflowInv, LastWordSaid, CallsFit, CallFits, Executing

LEMMA WriteRoundFits ==
  ASSUME WorkflowInv, NEW c \in Calls, WriteRound(c) PROVE WorkflowInv' /\ StaysOver
<1> DEFINE place == IF at[c] = "stopping" THEN "idle" ELSE "looping"
<1>1. CallFits(c, at[c], heldRun[c], agents[c], done) /\ at[c] \in {"stopping", "skipping"}
  BY DEF WorkflowInv, CallsFit, WriteRound
<1>2. /\ runFile' = Written(heldRun[c], TRUE) /\ at' = [at EXCEPT ![c] = place]
      /\ heldRun' = heldRun /\ agents' = agents /\ batches' = batches /\ done' = done
  BY DEF WriteRound, Goes
<1>3. agents' = [agents EXCEPT ![c] = agents[c]]
  BY <1>2 DEF WorkflowInv, CallsFit
<1>4. c \in Resumers /\ ~ (OneExecutes /\ Over(runFile))
  BY <1>1, NotOverWhileExecuting DEF Executing
<1>5. /\ heldRun[c] \in RunsFit /\ StepsIn(heldRun[c], {"completed"}) \subseteq done
      /\ Over(heldRun[c]) => at[c] = "stopping" /\ place = "idle"
  BY <1>1 DEF CallFits
<1>6. CallFits(c, place, heldRun[c], agents[c], done') /\ place \in Places
  BY <1>1, <1>2, <1>4 DEF CallFits, Executing, Places
<1> HIDE DEF WorkflowInv, place
<1> QED BY <1>2, <1>3, <1>4, <1>5, <1>6, WriteFits

LEMMA LaunchBatchFits ==
  ASSUME WorkflowInv, NEW c \in Calls, LaunchBatch(c) PROVE WorkflowInv' /\ StaysOver
<1> DEFINE launched == [s \in Steps |-> IF s \in Batch(c) THEN "running" ELSE "none"]
<1>1. CallFits(c, at[c], heldRun[c], agents[c], done) /\ at[c] = "launching"
  BY DEF WorkflowInv, CallsFit, LaunchBatch
<1>2. /\ runFile' = Written(heldRun[c], TRUE) /\ at' = [at EXCEPT ![c] = "waiting"]
      /\ agents' = [agents EXCEPT ![c] = launched]
      /\ heldRun' = heldRun /\ batches' = batches /\ done' = done
  BY DEF LaunchBatch, Goes
<1>3. c \in Resumers /\ ~ (OneExecutes /\ Over(runFile))
  BY <1>1, NotOverWhileExecuting DEF Executing
<1>4. /\ heldRun[c] \in RunsFit /\ StepsIn(heldRun[c], {"completed"}) \subseteq done
      /\ ~Over(heldRun[c])
  BY <1>1 DEF CallFits
<1>5. \A s \in Steps : launched[s] \in {"none", "running"} /\ (launched[s] # "none" => Needs[s] \subseteq done)
  BY <1>1 DEF Batch, CallFits
<1>6. launched \in LaunchedSteps
  BY DEF LaunchedSteps
<1> HIDE DEF launched
<1>7. CallFits(c, "waiting", heldRun[c], launched, done') /\ "waiting" \in Places
  BY <1>1, <1>2, <1>3, <1>5, <1>6 DEF CallFits, Executing, Places
<1> HIDE DEF WorkflowInv
<1> QED BY <1>2, <1>3, <1>4, <1>7, WriteFits

LEMMA WriteBatchFits ==
  ASSUME WorkflowInv, NEW c \in Calls, WriteBatch(c) PROVE WorkflowInv' /\ StaysOver
<1>1. CallFits(c, at[c], heldRun[c], agents[c], done) /\ at[c] = "entering"
  BY DEF WorkflowInv, CallsFit, WriteBatch
<1>2. /\ runFile' = Written(heldRun[c], TRUE)
      /\ agents' = [agents EXCEPT ![c] = NoAgents]
      /\ heldRun' = heldRun /\ batches' = batches
      /\ done' = done \cup StepsIn(runFile', {"completed"})
  BY DEF WriteBatch
<1>7. PICK place \in {"looping", "resting"} : at' = [at EXCEPT ![c] = place]
  BY DEF WriteBatch, Goes
<1>3. c \in Resumers /\ ~ (OneExecutes /\ Over(runFile))
  BY <1>1, NotOverWhileExecuting DEF Executing
<1>4. heldRun[c] \in RunsFit /\ ~Over(heldRun[c])
  BY <1>1 DEF CallFits
<1>5. /\ NoAgents \in LaunchedSteps /\ \A s \in Steps : NoAgents[s] = "none"
      /\ done \subseteq done' /\ StepsIn(runFile', {"completed"}) \subseteq done'
  BY <1>2 DEF NoAgents, LaunchedSteps
<1>6. CallFits(c, place, heldRun[c], NoAgents, done') /\ place \in Places
  BY <1>3, <1>4, <1>5 DEF CallFits, Executing, Places
<1> HIDE DEF WorkflowInv
<1> QED BY <1>2, <1>3, <1>4, <1>5, <1>6, <1>7, WriteFits

\* The copy is written over the file it was written to before, or not at all.
LEMMA RestFits ==
  ASSUME WorkflowInv, RestsFit, NEW c \in Calls, Rest(c) PROVE WorkflowInv' /\ StaysOver
<1> DEFINE run == [heldRun[c] EXCEPT !.status = "paused"]
<1>1. CallFits(c, at[c], heldRun[c], agents[c], done) /\ at[c] = "resting"
  BY DEF WorkflowInv, CallsFit, Rest
<1>2. /\ runFile' = Written(run, TRUE) /\ at' = [at EXCEPT ![c] = "idle"]
      /\ heldRun' = heldRun /\ agents' = agents /\ batches' = batches /\ done' = done
  BY DEF Rest, Goes
<1>3. agents' = [agents EXCEPT ![c] = agents[c]]
  BY <1>2 DEF WorkflowInv, CallsFit
<1>4. c \in Resumers /\ ~ (OneExecutes /\ Over(runFile))
  BY <1>1, NotOverWhileExecuting DEF Executing
<1>5. run \in RunShape /\ ~Over(run) /\ StepsIn(run, {"completed"}) = StepsIn(heldRun[c], {"completed"})
  BY <1>1 DEF CallFits, RunsFit, RunShape, Over, StepsIn
<1> HIDE DEF run
<1>6. run \in RunsFit
  BY <1>5, NotOverFits
<1>7. CallFits(c, "idle", heldRun[c], agents[c], done') /\ "idle" \in Places
  BY <1>1, <1>2 DEF CallFits, Executing, Places
<1>8. StepsIn(run, {"completed"}) \subseteq done \/ StepsIn(runFile', {"completed"}) \subseteq done'
  <2>1. CASE Over(runFile)
    <3>1. runFile' = runFile
      BY <1>2, <1>5, <1>6, <2>1, WrittenFits DEF WorkflowInv, FileFits
    <3> QED BY <1>2, <3>1 DEF WorkflowInv, FileFits
  <2>2. CASE ~Over(runFile)
    BY <1>1, <1>5, <2>2 DEF RestsFit
  <2> QED BY <2>1, <2>2
<1> HIDE DEF WorkflowInv
<1> QED BY <1>2, <1>3, <1>4, <1>5, <1>6, <1>7, <1>8, WriteFits

\* Only a call that has just written its batch comes to rest.
LEMMA RestsKept ==
  ASSUME WorkflowInv, RestsFit, [WorkflowNext]_workflowVars, StaysOver PROVE RestsFit'
<1> SUFFICES ASSUME NEW d \in Calls, at'[d] = "resting", ~Over(runFile')
             PROVE  StepsIn(heldRun'[d], {"completed"}) \subseteq done'
  BY DEF RestsFit
<1>0. ~Over(runFile) /\ at \in [Calls -> Places] /\ heldRun \in [Calls -> RunShape]
  BY DEF StaysOver, WorkflowInv, CallsFit
<1>1. ASSUME at[d] = "resting", heldRun'[d] = heldRun[d], done \subseteq done'
      PROVE  StepsIn(heldRun'[d], {"completed"}) \subseteq done'
  BY <1>0, <1>1 DEF RestsFit
<1>2. ASSUME NEW c \in Calls, WriteBatch(c) PROVE StepsIn(heldRun'[d], {"completed"}) \subseteq done'
  <2>1. /\ heldRun' = heldRun /\ done \subseteq done' /\ StepsIn(runFile', {"completed"}) \subseteq done'
        /\ runFile' = Written(heldRun[c], TRUE)
    BY <1>2 DEF WriteBatch
  <2>2. CASE d = c
    <3>1. runFile' = heldRun[c] \/ runFile' = [heldRun[c] EXCEPT !.pause = TRUE]
      BY <1>0, <2>1 DEF Written
    <3>2. runFile'.steps = heldRun[c].steps
      BY <1>0, <3>1 DEF RunShape
    <3> QED BY <2>1, <2>2, <3>2 DEF StepsIn
  <2>3. CASE d # c
    BY <1>0, <1>1, <1>2, <2>1, <2>3 DEF WriteBatch, Goes
  <2> QED BY <2>2, <2>3
<1>3. ASSUME NEW c \in Calls, NEW place \in Places \ {"resting"}, Goes(c, place), done' = done,
             \A e \in Calls \ {c} : heldRun'[e] = heldRun[e]
      PROVE  StepsIn(heldRun'[d], {"completed"}) \subseteq done'
  BY <1>0, <1>1, <1>3 DEF Goes
<1>4. ASSUME NEW c \in Calls, \/ StartCall(c) \/ WriteRecovered(c) \/ Pause(c) \/ Execute(c)
                              \/ WriteRound(c) \/ LaunchBatch(c) \/ EndBatch(c) \/ Rest(c) \/ CallDies(c)
      PROVE  StepsIn(heldRun'[d], {"completed"}) \subseteq done'
  <2>1. done' = done /\ \A e \in Calls \ {c} : heldRun'[e] = heldRun[e]
    BY <1>0, <1>4 DEF StartCall, Look, WriteRecovered, Pause, Execute, WriteRound, LaunchBatch, EndBatch, Rest,
       CallDies, Holds
  <2>2. \E place \in Places \ {"resting"} : Goes(c, place)
    BY <1>4 DEF StartCall, Look, WriteRecovered, Pause, Execute, WriteRound, LaunchBatch, EndBatch, Rest,
       CallDies, AfterLook, Places
  <2> QED BY <1>3, <2>1, <2>2
<1>5. ASSUME NEW c \in Calls, Round(c) PROVE StepsIn(heldRun'[d], {"completed"}) \subseteq done'
  <2>1. done' = done /\ (\E run : Holds(c, run)) /\ \E place \in Places \ {"resting"} : Goes(c, place)
    BY <1>5, Zenon DEF Round, Places
  <2>2. \A e \in Calls \ {c} : heldRun'[e] = heldRun[e]
    BY <1>0, <2>1 DEF Holds
  <2> QED BY <1>3, <2>1, <2>2
<1>6. ASSUME NEW c \in Calls, NEW s \in Steps, NEW result \in {"completed", "failed"}, AgentEnds(c, s, result)
      PROVE  StepsIn(heldRun'[d], {"completed"}) \subseteq done'
  BY <1>1, <1>6 DEF AgentEnds
<1>7. CASE UNCHANGED workflowVars
  BY <1>1, <1>7 DEF workflowVars
<1> QED BY <1>2, <1>4, <1>5, <1>6, <1>7 DEF WorkflowNext, Progress

\* A call changes its own copy and what it has launched.
LEMMA HoldFits ==
  ASSUME WorkflowInv, NEW c \in Calls, NEW place \in Places, NEW run, NEW launched,
         at[c] \in Executing \ {"resuming"},
         runFile' = runFile, done' = done, batches' \in 0 .. MaxBatches,
         at' = [at EXCEPT ![c] = place], heldRun' = [heldRun EXCEPT ![c] = run],
         agents' = [agents EXCEPT ![c] = launched],
         CallFits(c, place, run, launched, done)
  PROVE  WorkflowInv' /\ StaysOver
<1>1. c \in Resumers /\ ~ (OneExecutes /\ Over(runFile))
  BY NotOverWhileExecuting
<1>2. CallsFit'
  BY OthersFit DEF WorkflowInv
<1>3. LastWordSaid'
  BY <1>1, StaysSaid DEF WorkflowInv
<1> QED BY <1>2, <1>3 DEF WorkflowInv, FileFits, StaysOver

\* A round of the loop launches what has its dependencies completed in the file.
LEMMA RoundFits ==
  ASSUME WorkflowInv, NEW c \in Calls, Round(c) PROVE WorkflowInv' /\ StaysOver
<1> DEFINE launched == FirstFew(Ready(runFile))
           starting == [s \in Steps |-> IF s \in launched THEN "launching" ELSE "none"]
           Own(place, run, ag) ==
             /\ at' = [at EXCEPT ![c] = place] /\ heldRun' = [heldRun EXCEPT ![c] = run]
             /\ agents' = [agents EXCEPT ![c] = ag]
           paused == [runFile EXCEPT !.status = "paused"]
           ended == [runFile EXCEPT !.pause = FALSE,
                       !.status = IF StepsIn(runFile, {"completed"}) = Steps THEN "completed"
                                  ELSE "completed_with_errors"]
           skipped == [runFile EXCEPT
                         !.steps = [s \in Steps |-> IF s \in Blocked(runFile) THEN "skipped" ELSE @[s]]]
           started == [runFile EXCEPT
                       !.steps = [s \in Steps |-> IF s \in launched THEN "running" ELSE @[s]]]
<1>1. CallFits(c, at[c], heldRun[c], agents[c], done) /\ at[c] = "looping" /\ c \in Resumers
  BY DEF WorkflowInv, CallsFit, CallFits, Round, Executing
<1>2. /\ runFile \in RunShape /\ OverIsDone(runFile)
      /\ StepsIn(runFile, {"completed"}) \subseteq done
  BY DEF WorkflowInv, FileFits, RunsFit
<1>3. agents = [agents EXCEPT ![c] = agents[c]] /\ batches \in 0 .. MaxBatches
  BY DEF WorkflowInv, CallsFit
<1>4. runFile' = runFile /\ done' = done
  BY Zenon DEF Round
<1>5. /\ agents[c] \in LaunchedSteps
      /\ \A s \in Steps : agents[c][s] \notin {"launching", "running"}
      /\ \A s \in Steps : agents[c][s] # "none" => Needs[s] \subseteq done
  BY <1>1 DEF CallFits
<1>6. Ready(runFile) \subseteq StepsIn(runFile, {"pending"}) /\ Blocked(runFile) \subseteq Ready(runFile)
  BY DEF Ready, Blocked
<1>7. launched \subseteq Ready(runFile)
  BY DEF FirstFew
<1>8. CASE Own("stopping", paused, agents[c]) /\ batches' = batches
  <2>1. paused \in RunShape /\ paused.steps = runFile.steps /\ ~Over(paused)
    BY <1>2 DEF RunShape, Over
  <2> HIDE DEF paused
  <2>2. paused \in RunsFit /\ StepsIn(paused, {"completed"}) \subseteq done
    BY <1>2, <2>1, NotOverFits DEF StepsIn
  <2>3. CallFits(c, "stopping", paused, agents[c], done) /\ "stopping" \in Places
    BY <1>1, <1>5, <2>2 DEF CallFits, Executing, Places
  <2>4. at[c] \in Executing \ {"resuming"}
    BY <1>1 DEF Executing
  <2> HIDE DEF WorkflowInv
  <2> QED BY <1>3, <1>4, <1>8, <2>3, <2>4, HoldFits
<1>9. CASE Own("stopping", ended, agents[c]) /\ batches' = batches /\ StepsIn(runFile, {"pending", "running"}) = {}
  <2>1. ended \in RunShape /\ ended.steps = runFile.steps
    BY <1>2 DEF RunShape
  <2> HIDE DEF ended
  <2>2. ended \in RunsFit /\ StepsIn(ended, {"completed"}) \subseteq done
    BY <1>2, <1>9, <2>1 DEF StepsIn, RunsFit, OverIsDone
  <2>3. CallFits(c, "stopping", ended, agents[c], done) /\ "stopping" \in Places
    BY <1>1, <1>5, <2>2 DEF CallFits, Executing, Places
  <2>4. at[c] \in Executing \ {"resuming"}
    BY <1>1 DEF Executing
  <2> HIDE DEF WorkflowInv
  <2> QED BY <1>3, <1>4, <1>9, <2>3, <2>4, HoldFits
<1>10. CASE Own("skipping", skipped, agents[c]) /\ batches' = batches /\ Blocked(runFile) # {}
  <2>1. ~Over(runFile)
    BY <1>2, <1>6, <1>10 DEF OverIsDone, StepsIn
  <2>2. /\ skipped \in RunShape /\ skipped.status = runFile.status
        /\ \A s \in Steps : skipped.steps[s] = "completed" => runFile.steps[s] = "completed"
    BY <1>2 DEF RunShape, RunEnded
  <2> HIDE DEF skipped
  <2>3. ~Over(skipped) /\ skipped \in RunsFit /\ StepsIn(skipped, {"completed"}) \subseteq done
    BY <1>2, <2>1, <2>2, NotOverFits DEF StepsIn, Over
  <2>4. CallFits(c, "skipping", skipped, agents[c], done) /\ "skipping" \in Places
    BY <1>1, <1>5, <2>3 DEF CallFits, Executing, Places
  <2>5. at[c] \in Executing \ {"resuming"}
    BY <1>1 DEF Executing
  <2> HIDE DEF WorkflowInv
  <2> QED BY <1>3, <1>4, <1>10, <2>4, <2>5, HoldFits
<1>11. CASE /\ Own("launching", started, starting) /\ batches < MaxBatches /\ batches' = batches + 1
            /\ Blocked(runFile) = {} /\ launched # {}
  <2>1. ~Over(runFile)
    BY <1>2, <1>6, <1>7, <1>11 DEF OverIsDone, StepsIn
  <2>2. /\ started \in RunShape /\ started.status = runFile.status
        /\ \A s \in Steps : started.steps[s] = "completed" => runFile.steps[s] = "completed"
    BY <1>2 DEF RunShape, RunEnded
  <2>3. \A s \in launched : s \in Steps /\ Needs[s] \subseteq done
    BY <1>2, <1>6, <1>7, <1>11 DEF Blocked, StepsIn
  <2>4. /\ starting \in LaunchedSteps
        /\ \A s \in Steps : starting[s] \in {"launching", "none"} /\ (starting[s] # "none" => Needs[s] \subseteq done)
    BY <2>3 DEF LaunchedSteps
  <2> HIDE DEF started, starting
  <2>5. ~Over(started) /\ started \in RunsFit /\ StepsIn(started, {"completed"}) \subseteq done
    BY <1>2, <2>1, <2>2, NotOverFits DEF StepsIn, Over
  <2>6. CallFits(c, "launching", started, starting, done) /\ "launching" \in Places
    BY <1>1, <2>4, <2>5 DEF CallFits, Executing, Places
  <2>7. at[c] \in Executing \ {"resuming"} /\ batches' \in 0 .. MaxBatches
    BY <1>1, <1>3, <1>11, WorkflowAssumption DEF Executing
  <2> HIDE DEF WorkflowInv
  <2> QED BY <1>4, <1>11, <2>6, <2>7, HoldFits
<1>12. \/ Own("stopping", paused, agents[c]) /\ batches' = batches
       \/ Own("stopping", ended, agents[c]) /\ batches' = batches /\ StepsIn(runFile, {"pending", "running"}) = {}
       \/ Own("skipping", skipped, agents[c]) /\ batches' = batches /\ Blocked(runFile) # {}
       \/ /\ Own("launching", started, starting) /\ batches < MaxBatches /\ batches' = batches + 1
          /\ Blocked(runFile) = {} /\ launched # {}
  BY <1>3, Zenon DEF Round, Goes, Holds
<1> QED BY <1>8, <1>9, <1>10, <1>11, <1>12

LEMMA EndBatchFits ==
  ASSUME WorkflowInv, NEW c \in Calls, EndBatch(c) PROVE WorkflowInv' /\ StaysOver
<1> DEFINE pause == heldRun[c].pause \/ runFile.pause
           steps == [s \in Steps |-> IF s \in Batch(c) THEN agents[c][s] ELSE heldRun[c].steps[s]]
<1>1. CallFits(c, at[c], heldRun[c], agents[c], done) /\ at[c] = "waiting" /\ c \in Resumers
  BY DEF WorkflowInv, CallsFit, CallFits, EndBatch, Executing
<1>2. heldRun[c] \in RunShape /\ ~Over(heldRun[c])
  BY <1>1 DEF CallFits, RunsFit
<1>3. pause \in BOOLEAN
  <2>1. heldRun[c].pause \in BOOLEAN /\ runFile.pause \in BOOLEAN
    BY <1>2 DEF WorkflowInv, FileFits, RunsFit, RunShape
  <2> QED BY <2>1, Zenon
<1>4. steps \in [Steps -> {"pending", "running"} \cup RunEnded]
  <2>1. ASSUME NEW s \in Batch(c) PROVE agents[c][s] \in {"completed", "failed"}
    BY <1>1 DEF Batch, EndBatch, Settled, CallFits, LaunchedSteps
  <2> QED BY <1>2, <2>1 DEF RunShape, RunEnded
<1>5. /\ at' = [at EXCEPT ![c] = "entering"]
      /\ heldRun' = [heldRun EXCEPT ![c] = [heldRun[c] EXCEPT !.steps = steps, !.pause = pause]]
      /\ runFile' = runFile /\ agents' = agents /\ batches' = batches /\ done' = done
  BY Zenon DEF EndBatch, Goes, Holds
<1>6. agents' = [agents EXCEPT ![c] = agents[c]] /\ batches' \in 0 .. MaxBatches
  BY <1>5 DEF WorkflowInv, CallsFit
<1> HIDE DEF steps, pause
<1>7. PICK run : run = [heldRun[c] EXCEPT !.steps = steps, !.pause = pause]
  BY Zenon
<1>8. run \in RunShape /\ run.status = heldRun[c].status
  BY <1>2, <1>3, <1>4, <1>7 DEF RunShape
<1>9. run \in RunsFit /\ ~Over(run)
  BY <1>2, <1>8, NotOverFits DEF Over
<1>10. /\ agents[c] \in LaunchedSteps
       /\ \A s \in Steps : agents[c][s] \notin {"launching", "running"}
       /\ \A s \in Steps : agents[c][s] # "none" => Needs[s] \subseteq done
  BY <1>1 DEF CallFits, EndBatch, Settled, Batch
<1>11. CallFits(c, "entering", run, agents[c], done) /\ "entering" \in Places
  BY <1>1, <1>9, <1>10 DEF CallFits, Executing, Places
<1>12. at[c] \in Executing \ {"resuming"}
  BY <1>1 DEF Executing
<1> HIDE DEF WorkflowInv
<1> QED BY <1>5, <1>6, <1>7, <1>11, <1>12, HoldFits

LEMMA AgentEndsFits ==
  ASSUME WorkflowInv, NEW c \in Calls, NEW s \in Steps, NEW result \in {"completed", "failed"},
         AgentEnds(c, s, result)
  PROVE  WorkflowInv' /\ StaysOver
<1> DEFINE launched == [agents[c] EXCEPT ![s] = result]
<1>1. CallFits(c, at[c], heldRun[c], agents[c], done) /\ agents[c] \in LaunchedSteps
  BY DEF WorkflowInv, CallsFit, CallFits
<1>2. agents[c][s] = "running" /\ at[c] = "waiting"
  BY <1>1 DEF AgentEnds, CallFits
<1>3. /\ agents' = [agents EXCEPT ![c] = launched]
      /\ runFile' = runFile /\ at' = at /\ heldRun' = heldRun /\ batches' = batches /\ done' = done
  BY DEF AgentEnds
<1>4. /\ at' = [at EXCEPT ![c] = "waiting"] /\ heldRun' = [heldRun EXCEPT ![c] = heldRun[c]]
      /\ batches' \in 0 .. MaxBatches
  BY <1>2, <1>3 DEF WorkflowInv, CallsFit
<1>5. /\ launched \in LaunchedSteps /\ launched[s] = result
      /\ \A t \in Steps \ {s} : launched[t] = agents[c][t]
  BY <1>1 DEF LaunchedSteps
<1> HIDE DEF launched
<1>6. CallFits(c, "waiting", heldRun[c], launched, done) /\ "waiting" \in Places
  BY <1>1, <1>2, <1>5 DEF CallFits, Places
<1>7. at[c] \in Executing \ {"resuming"}
  BY <1>2 DEF Executing
<1> HIDE DEF WorkflowInv
<1> QED BY <1>3, <1>4, <1>6, <1>7, HoldFits

LEMMA CallDiesFits ==
  ASSUME WorkflowInv, NEW c \in Calls, CallDies(c) PROVE WorkflowInv' /\ StaysOver
<1>1. /\ at' = [at EXCEPT ![c] = "idle"] /\ agents' = [agents EXCEPT ![c] = NoAgents]
      /\ runFile' = runFile /\ heldRun' = heldRun /\ batches' = batches /\ done' = done
  BY DEF CallDies, Goes
<1>2. heldRun' = [heldRun EXCEPT ![c] = heldRun[c]]
  BY <1>1 DEF WorkflowInv, CallsFit
<1>3. NoAgents \in LaunchedSteps /\ \A s \in Steps : NoAgents[s] = "none"
  BY DEF NoAgents, LaunchedSteps
<1>4. CallFits(c, at[c], heldRun[c], agents[c], done)
  BY DEF WorkflowInv, CallsFit
<1>5. CallFits(c, "idle", heldRun[c], NoAgents, done') /\ "idle" \in Places
  BY <1>1, <1>3, <1>4 DEF CallFits, Executing, Places
<1>6. CallsFit'
  BY <1>1, <1>2, <1>5, OthersFit DEF WorkflowInv
<1>7. LastWordSaid'
  BY <1>1, <1>2, <1>5, StaysSaid DEF WorkflowInv
<1> QED BY <1>1, <1>6, <1>7 DEF WorkflowInv, FileFits, StaysOver

LEMMA StepFits == WorkflowInv /\ RestsFit /\ [WorkflowNext]_workflowVars => WorkflowInv' /\ StaysOver
<1> SUFFICES ASSUME WorkflowInv, RestsFit, [WorkflowNext]_workflowVars PROVE WorkflowInv' /\ StaysOver
  OBVIOUS
<1>1. ASSUME NEW c \in Calls, StartCall(c) PROVE WorkflowInv' /\ StaysOver
  BY <1>1, LookFits DEF StaysOver
<1>2. ASSUME NEW c \in Calls, Progress(c) PROVE WorkflowInv' /\ StaysOver
  BY <1>2, WriteRecoveredFits, PauseFits, ExecuteFits, RoundFits, WriteRoundFits, LaunchBatchFits,
     EndBatchFits, WriteBatchFits, RestFits, Zenon DEF Progress
<1>3. ASSUME NEW c \in Calls, CallDies(c) PROVE WorkflowInv' /\ StaysOver
  BY <1>3, CallDiesFits
<1>4. ASSUME NEW c \in Calls, NEW s \in Steps, NEW result \in {"completed", "failed"},
             AgentEnds(c, s, result)
      PROVE  WorkflowInv' /\ StaysOver
  BY <1>4, AgentEndsFits
<1>5. CASE UNCHANGED workflowVars
  BY <1>5, Zenon DEF workflowVars, WorkflowInv, FileFits, CallsFit, CallFits, LastWordSaid, OneExecutes,
     StaysOver, Over, RunsFit, OverIsDone, StepsIn
<1> QED BY <1>1, <1>2, <1>3, <1>4, <1>5, Zenon DEF WorkflowNext

\* Whatever calls look at a run, pause it and execute it, and wherever their
\* processes end: a step is launched only after all it depends on was recorded as
\* completed (ready and batch in #executeRun), and #writeRun never takes a run
\* that is over back, nor lets it be changed while one call at most executes it.
THEOREM WorkflowIsSafe == WorkflowSpec => WorkflowSafety
<1>1. WorkflowInv => WorkflowTypeOK /\ DependenciesRan
  <2> SUFFICES ASSUME WorkflowInv PROVE WorkflowTypeOK /\ DependenciesRan
    OBVIOUS
  <2>1. runFile \in RunShape
    BY DEF WorkflowInv, FileFits, RunsFit
  <2>2. \A c \in Calls : \A s \in Batch(c) : Needs[s] \subseteq done
    BY DEF WorkflowInv, CallsFit, CallFits, Batch
  <2> QED BY <2>1, <2>2 DEF WorkflowInv, CallsFit, LaunchedSteps, WorkflowTypeOK, DependenciesRan
<1>2. WorkflowInv /\ RestsFit /\ [WorkflowNext]_workflowVars
        => [Over(runFile) => Over(runFile') /\ (OneExecutes => runFile' = runFile)]_workflowVars
  BY StepFits DEF StaysOver
<1>3. WorkflowSpec => [](WorkflowInv /\ RestsFit)
  <2>1. WorkflowInit => WorkflowInv /\ RestsFit
    BY InitFits DEF WorkflowInit, RestsFit
  <2>2. WorkflowInv /\ RestsFit /\ [WorkflowNext]_workflowVars => WorkflowInv' /\ RestsFit'
    BY StepFits, RestsKept
  <2> QED BY <2>1, <2>2, PTL DEF WorkflowSpec
<1> QED BY <1>1, <1>2, <1>3, PTL DEF WorkflowSpec, WorkflowSafety, OverStaysOver
=============================================================================
