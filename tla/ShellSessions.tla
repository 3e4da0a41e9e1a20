----------------------------- MODULE ShellSessions -----------------------------
(***************************************************************************)
(* Commands and terminals of one agent,                                     *)
(*   src/src/services/shell/manager.ts  ShellSessionManager                 *)
(* Foreground commands, background tasks and PTYs are prepared, spawned,    *)
(* aborted and drained while close() may begin at any await.  PTYs are kept *)
(* under their process id, which the system may give to a later one.        *)
(***************************************************************************)
EXTENDS Integers, FiniteSets

CONSTANTS
  Commands,
  KindOf,           \* [Commands -> {"foreground", "background", "pty"}]
  ShellPids,        \* process ids the system hands out
  MaxPtys           \* MAX_PTY_SESSIONS

ASSUME ShellAssumption ==
  /\ KindOf \in [Commands -> {"foreground", "background", "pty"}]
  /\ MaxPtys \in Nat \ {0}

Nobody == "nobody"
ASSUME NobodyAssumption == Nobody \notin Commands

VARIABLES
  step,        \* where the operation of a command is
  process,     \* its child process
  doomed,      \* commands whose child has been told to end
  aborted,     \* commands whose caller gave up
  status,      \* task.status of background tasks
  ptys,        \* #ptySessions: pid -> command
  pidOf,
  settled,     \* tasks whose result promise is settled
  timers,      \* sessions whose expiry timer is set
  stop         \* close(): "open", "abort", "drain", "closed"

shellVars == <<step, process, doomed, aborted, status, ptys, pidOf, settled, timers, stop>>

Kind(k) == {c \in Commands : KindOf[c] = k}
Sessions == {p \in ShellPids : ptys[p] # Nobody}
Pending == {c \in Commands : step[c] \in {"prepare", "starting", "undo", "waiting"}}

ShellInit ==
  /\ step = [c \in Commands |-> "idle"]
  /\ process = [c \in Commands |-> "none"]
  /\ doomed = {} /\ aborted = {} /\ timers = {} /\ settled = {}
  /\ status = [c \in Commands |-> "none"]
  /\ ptys = [p \in ShellPids |-> Nobody]
  /\ pidOf = [c \in Commands |-> 0]
  /\ stop = "open"

\* startPty counts the sessions and the starts that have not returned yet.
MayStart(c) ==
  KindOf[c] = "pty" => Cardinality(Sessions) + Cardinality(Pending \cap Kind("pty")) < MaxPtys

Begin(c) ==
  /\ step[c] = "idle" /\ stop = "open"
  /\ step' = [step EXCEPT ![c] = IF MayStart(c) THEN "prepare" ELSE "failed"]
  /\ UNCHANGED <<process, doomed, aborted, status, ptys, pidOf, timers, stop, settled>>

Given(c) == c \in aborted \/ stop # "open"

\* The child is there, with what the kind of the command makes of it.
Spawned(c) ==
  /\ step[c] = "prepare"
  /\ process' = [process EXCEPT ![c] = "up"]
  /\ step' = [step EXCEPT ![c] =
       CASE KindOf[c] = "foreground" -> "run" [] KindOf[c] = "background" -> "done" [] OTHER -> "starting"]
  /\ status' = [status EXCEPT ![c] = IF KindOf[c] = "background" THEN "running" ELSE @]
  /\ UNCHANGED <<doomed, aborted, ptys, pidOf, timers, stop, settled>>

\* Sandbox, directory and log are awaited; then the signal is checked and the
\* child is spawned in one breath.
Spawn(c) ==
  \/ ~Given(c) /\ Spawned(c)
  \/ /\ step[c] = "prepare" /\ Given(c)
     /\ step' = [step EXCEPT ![c] = "failed"]
     /\ UNCHANGED <<process, doomed, aborted, status, ptys, pidOf, timers, stop, settled>>

\* The host reports the pid; a session that died under the same pid is replaced.
PtyStarted(c) ==
  /\ step[c] = "starting" /\ process[c] = "up"
  /\ \E p \in ShellPids :
       /\ \A d \in Kind("pty") : pidOf[d] = p => process[d] = "gone"
       /\ ptys' = [ptys EXCEPT ![p] = c]
       /\ pidOf' = [pidOf EXCEPT ![c] = p]
  /\ timers' = timers \cup {c}
  /\ step' = [step EXCEPT ![c] = "waiting"]
  /\ UNCHANGED <<process, doomed, aborted, status, stop, settled>>

\* The host fails, says nothing for ten seconds, or is gone.
PtyFails(c) ==
  /\ step[c] = "starting"
  /\ step' = [step EXCEPT ![c] = "undo"]
  /\ doomed' = doomed \cup {c}
  /\ UNCHANGED <<process, aborted, status, ptys, pidOf, timers, stop, settled>>

\* The operation returns, or throws, when there is nothing left to wait for.
Return(c) ==
  /\ \/ step[c] = "waiting"
     \/ step[c] \in {"run", "undo"} /\ process[c] = "gone"
  /\ step' = [step EXCEPT ![c] = "done"]
  /\ UNCHANGED <<process, doomed, aborted, status, ptys, pidOf, timers, stop, settled>>

\* The caller's signal, or the timeout of a foreground command: a running command is killed, a start is undone; a
\* background task and a session that exist stay.
Abort(c) ==
  /\ c \notin aborted /\ step[c] \notin {"idle", "failed"}
  /\ aborted' = aborted \cup {c}
  /\ doomed' = IF step[c] \in {"run", "starting"} THEN doomed \cup {c} ELSE doomed
  /\ step' = [step EXCEPT ![c] = IF @ = "starting" THEN "undo" ELSE @]
  /\ UNCHANGED <<process, status, ptys, pidOf, timers, stop, settled>>

\* The close event of a child, by itself or after SIGTERM and SIGKILL.
Exit(c) ==
  /\ process[c] = "up"
  /\ process' = [process EXCEPT ![c] = "gone"]
  /\ UNCHANGED <<step, doomed, aborted, status, ptys, pidOf, timers, stop, settled>>

\* task.result: the log is finished, then the status is final and reported.
Settle(c) ==
  /\ process[c] = "gone" /\ status[c] \in {"running", "killed"} /\ c \notin settled
  /\ \E s \in {"completed", "failed"} :
       status' = [status EXCEPT ![c] = IF @ = "killed" THEN "killed" ELSE s]
  /\ settled' = settled \cup {c}
  /\ UNCHANGED <<step, process, doomed, aborted, ptys, pidOf, timers, stop>>

Kill(c) ==
  /\ status[c] = "running"
  /\ status' = [status EXCEPT ![c] = "killed"]
  /\ doomed' = doomed \cup {c}
  /\ UNCHANGED <<step, process, aborted, ptys, pidOf, timers, stop, settled>>

\* closePty, by the user or by a timer.
ClosePty(p) ==
  /\ ptys[p] # Nobody
  /\ doomed' = doomed \cup {ptys[p]}
  /\ timers' = timers \ {ptys[p]}
  /\ ptys' = [ptys EXCEPT ![p] = Nobody]
  /\ UNCHANGED <<step, process, aborted, status, pidOf, stop, settled>>

\* A timer closes whatever is kept under the pid of its session.
Expire(c) ==
  /\ KindOf[c] = "pty" /\ c \in timers
  /\ LET p == pidOf[c] IN
     /\ doomed' = IF ptys[p] = Nobody THEN doomed ELSE doomed \cup {ptys[p]}
     /\ timers' = timers \ {c, ptys[p]}
     /\ ptys' = [ptys EXCEPT ![p] = Nobody]
  /\ UNCHANGED <<step, process, aborted, status, pidOf, stop, settled>>

\* close(): the lifetime ends, everything that runs is told to end.
Close ==
  /\ stop = "open"
  /\ stop' = "abort"
  /\ doomed' = doomed \cup {c \in Commands : step[c] \in {"run", "starting"} \/ status[c] = "running"}
                      \cup {ptys[p] : p \in Sessions}
  /\ status' = [c \in Commands |-> IF status[c] = "running" THEN "killed" ELSE status[c]]
  /\ step' = [c \in Commands |-> IF step[c] = "starting" THEN "undo" ELSE step[c]]
  /\ timers' = timers \ {ptys[p] : p \in Sessions}
  /\ ptys' = [p \in ShellPids |-> Nobody]
  /\ UNCHANGED <<process, aborted, pidOf, settled>>

\* Mutant: the second sweep does not wait for the operations.
SweepAgain ==
  /\ stop = "abort"
  /\ stop' = "drain"
  /\ doomed' = doomed \cup {ptys[p] : p \in Sessions}
  /\ timers' = timers \ {ptys[p] : p \in Sessions}
  /\ ptys' = [p \in ShellPids |-> Nobody]
  /\ UNCHANGED <<step, process, aborted, status, pidOf, settled>>

\* Promise.allSettled of #operations, then a second sweep over the sessions.
OperationsDrained ==
  (\A c \in Commands : step[c] \in {"idle", "failed", "done"}) /\ SweepAgain

\* The results of all tasks and the closed promises of all PTYs.
Closed ==
  /\ stop = "drain"
  /\ \A c \in Kind("background") : status[c] # "none" => c \in settled
  /\ \A c \in Kind("pty") : c \in doomed => process[c] # "up"
  /\ stop' = "closed"
  /\ UNCHANGED <<step, process, doomed, aborted, status, ptys, pidOf, timers, settled>>

ShellNext ==
  \/ \E c \in Commands :
       \/ Begin(c) \/ Spawn(c) \/ PtyStarted(c) \/ PtyFails(c) \/ Return(c) \/ Abort(c)
       \/ Exit(c) \/ Settle(c) \/ Kill(c) \/ Expire(c)
  \/ \E p \in ShellPids : ClosePty(p)
  \/ Close \/ OperationsDrained \/ Closed

ShellSpec == ShellInit /\ [][ShellNext]_shellVars

\* What has to go on: promises settle, and a child that was told to end does end.
CommandGoesOn(c) == Spawn(c) \/ Return(c) \/ Settle(c) \/ (c \in doomed /\ Exit(c))

-----------------------------------------------------------------------------
ShellTypeOK ==
  /\ step \in [Commands -> {"idle", "prepare", "starting", "undo", "waiting", "run", "done", "failed"}]
  /\ process \in [Commands -> {"none", "up", "gone"}]
  /\ status \in [Commands -> {"none", "running", "completed", "failed", "killed"}]
  /\ ptys \in [ShellPids -> Commands \cup {Nobody}]
  /\ pidOf \in [Commands -> ShellPids \cup {0}]
  /\ stop \in {"open", "abort", "drain", "closed"}

\* A live terminal can be found under its pid, is being started, or has been
\* told to end: none is lost to a reused pid or to a start that was given up.
PtysAreReachable ==
  \A c \in Kind("pty") :
    process[c] = "up" =>
      c \in doomed \/ step[c] \in {"starting", "undo"} \/ \E p \in ShellPids : ptys[p] = c

\* When close() has returned, no child of any kind is left.
NothingOutlivesClose ==
  stop = "closed" => \A c \in Commands : process[c] # "up" /\ status[c] # "running"

\* No child process is lost sight of, neither before close() nor after it.
ShellSafety == NothingOutlivesClose /\ PtysAreReachable

\* A task that was killed is reported as killed, and what ended is never killed.
KilledIsFinal ==
  [][\A c \in Commands : status[c] \in {"killed", "completed", "failed"} => status'[c] = status[c]]_shellVars

\* close() is not under way.  That this comes about again and again means that
\* it returns, whatever was being prepared or started when it was called.
NotClosing == stop \notin {"abort", "drain"}
=============================================================================
