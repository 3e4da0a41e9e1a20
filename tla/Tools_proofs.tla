----------------------------- MODULE Tools_proofs -----------------------------
(***************************************************************************)
(* What holds of the commands of an agent (ShellSessions), of the MCP       *)
(* client (McpClient) and of the connection pool it lives in (McpPool), for *)
(* every number of commands, calls, sessions, servers, connections and      *)
(* changes of a list.                                                       *)
(***************************************************************************)
EXTENDS ShellSessions, McpClient, McpPool, TLAPS

-----------------------------------------------------------------------------
(***************************************************************************)
(* What close() leaves behind, wherever it finds the commands and           *)
(* terminals. The invariant says for each kind of command where a live      *)
(* child can be: with an operation that close() waits for, under a task it  *)
(* settles, or among the terminals it sweeps.                               *)
(***************************************************************************)

\* The steps belong to the kinds, and a task has no status before its child.
StepsOfKinds ==
  \A c \in Commands :
    /\ step[c] \in {"starting", "undo", "waiting"} => KindOf[c] = "pty"
    /\ step[c] \in {"idle", "prepare"} => status[c] = "none" /\ c \notin settled

\* A session is kept under the pid its host reported.
PtysUnderTheirPid ==
  \A p \in ShellPids :
    ptys[p] # Nobody =>
      /\ KindOf[ptys[p]] = "pty" /\ pidOf[ptys[p]] = p
      /\ step[ptys[p]] \in {"waiting", "done"}

\* Where a live child can be.
ChildrenAreAccounted ==
  \A c \in Commands :
    process[c] = "up" =>
      /\ KindOf[c] = "foreground" => step[c] = "run"
      /\ KindOf[c] = "background" => status[c] \in {"running", "killed"} /\ c \notin settled
      /\ KindOf[c] = "pty" => c \in doomed \/ step[c] = "starting" \/ \E p \in ShellPids : ptys[p] = c

\* close() ends the tasks, then it has seen every operation out.
CloseProceeds ==
  /\ stop # "open" => \A c \in Commands : status[c] # "running"
  /\ stop \in {"drain", "closed"} =>
       /\ \A c \in Commands : step[c] \in {"idle", "failed", "done"}
       /\ \A p \in ShellPids : ptys[p] = Nobody
  /\ stop = "closed" => \A c \in Commands : process[c] # "up"

ShellInv == ShellTypeOK /\ StepsOfKinds /\ PtysUnderTheirPid /\ ChildrenAreAccounted /\ CloseProceeds

LEMMA ShellInitInv == ShellInit => ShellInv
BY ShellAssumption, NobodyAssumption
   DEF ShellInit, ShellInv, ShellTypeOK, StepsOfKinds, PtysUnderTheirPid, ChildrenAreAccounted, CloseProceeds

LEMMA ShellNextInv == ShellInv /\ [ShellNext]_shellVars => ShellInv'
<1> SUFFICES ASSUME ShellInv, [ShellNext]_shellVars PROVE ShellInv'
  OBVIOUS
<1> USE ShellAssumption, NobodyAssumption
    DEF ShellInv, ShellTypeOK, StepsOfKinds, PtysUnderTheirPid, ChildrenAreAccounted, CloseProceeds
<1>1. ASSUME NEW c \in Commands, Begin(c) PROVE ShellInv'
  BY <1>1 DEF Begin
<1>2. ASSUME NEW c \in Commands, Spawn(c) PROVE ShellInv'
  <2>1. CASE Given(c)
    BY <1>2, <2>1 DEF Spawn
  <2>2. CASE ~Given(c)
    <3>1. /\ stop = "open" /\ UNCHANGED <<doomed, ptys, pidOf, stop, settled>>
          /\ step[c] = "prepare" /\ process' = [process EXCEPT ![c] = "up"]
      BY <1>2, <2>2 DEF Spawn, Spawned, Given
    <3>2. CASE KindOf[c] = "foreground"
      <4>1. step' = [step EXCEPT ![c] = "run"] /\ status' = status
        BY <1>2, <2>2, <3>2 DEF Spawn, Spawned
      <4> QED BY <3>1, <3>2, <4>1
    <3>3. CASE KindOf[c] = "background"
      <4>1. step' = [step EXCEPT ![c] = "done"] /\ status' = [status EXCEPT ![c] = "running"]
        BY <1>2, <2>2, <3>3 DEF Spawn, Spawned
      <4> QED BY <3>1, <3>3, <4>1
    <3>4. CASE KindOf[c] = "pty"
      <4>1. step' = [step EXCEPT ![c] = "starting"] /\ status' = status
        BY <1>2, <2>2, <3>4 DEF Spawn, Spawned
      <4> QED BY <3>1, <3>4, <4>1
    <3> QED BY <3>2, <3>3, <3>4
  <2> QED BY <2>1, <2>2
<1>3. ASSUME NEW c \in Commands, PtyStarted(c) PROVE ShellInv'
  <2>1. PICK p \in ShellPids :
          /\ \A d \in Kind("pty") : pidOf[d] = p => process[d] = "gone"
          /\ ptys' = [ptys EXCEPT ![p] = c]
          /\ pidOf' = [pidOf EXCEPT ![c] = p]
    BY <1>3 DEF PtyStarted
  <2>2. /\ step[c] = "starting" /\ step' = [step EXCEPT ![c] = "waiting"]
        /\ UNCHANGED <<process, doomed, status, stop, settled>>
    BY <1>3 DEF PtyStarted
  <2>3. \A q \in ShellPids : ptys[q] # c
    BY <2>2
  <2>4. ptys[p] # Nobody => process[ptys[p]] = "gone"
    BY <2>1 DEF Kind
  <2>5. ShellTypeOK' /\ StepsOfKinds'
    BY <2>1, <2>2
  <2>6. PtysUnderTheirPid'
    BY <2>1, <2>2, <2>3
  <2>7. ChildrenAreAccounted'
    BY <2>1, <2>2, <2>4
  <2>8. CloseProceeds'
    BY <2>2
  <2> QED BY <2>5, <2>6, <2>7, <2>8
<1>4. ASSUME NEW c \in Commands, PtyFails(c) PROVE ShellInv'
  BY <1>4 DEF PtyFails
<1>5. ASSUME NEW c \in Commands, Return(c) PROVE ShellInv'
  BY <1>5 DEF Return
<1>6. ASSUME NEW c \in Commands, Abort(c) PROVE ShellInv'
  BY <1>6 DEF Abort
<1>7. ASSUME NEW c \in Commands, Exit(c) PROVE ShellInv'
  BY <1>7 DEF Exit
<1>8. ASSUME NEW c \in Commands, Settle(c) PROVE ShellInv'
  BY <1>8 DEF Settle
<1>9. ASSUME NEW c \in Commands, Kill(c) PROVE ShellInv'
  BY <1>9 DEF Kill
<1>10. ASSUME NEW c \in Commands, Expire(c) PROVE ShellInv'
  <2> DEFINE p == pidOf[c]
  <2>1. /\ ptys' = [ptys EXCEPT ![p] = Nobody]
        /\ UNCHANGED <<step, process, status, pidOf, stop, settled>>
        /\ doomed \subseteq doomed'
        /\ ptys[p] # Nobody => ptys[p] \in doomed'
    BY <1>10 DEF Expire
  <2>2. \A q \in ShellPids : ptys'[q] = IF q = p THEN Nobody ELSE ptys[q]
    BY <2>1
  <2>3. ptys' \in [ShellPids -> Commands \cup {Nobody}]
    BY <2>1
  <2> HIDE DEF p
  <2>4. ShellTypeOK' /\ StepsOfKinds' /\ CloseProceeds'
    BY <2>1, <2>2, <2>3
  <2>5. PtysUnderTheirPid'
    BY <2>1, <2>2
  <2>6. ASSUME NEW d \in Commands, process'[d] = "up", KindOf[d] = "pty"
        PROVE  d \in doomed' \/ step'[d] = "starting" \/ \E q \in ShellPids : ptys'[q] = d
    <3>1. CASE \E q \in ShellPids : ptys[q] = d
      BY <2>1, <2>2, <3>1
    <3>2. CASE d \in doomed \/ step[d] = "starting"
      BY <2>1, <3>2
    <3> QED BY <2>1, <2>6, <3>1, <3>2
  <2>7. ChildrenAreAccounted'
    BY <2>1, <2>6
  <2> QED BY <2>4, <2>5, <2>7
<1>11. ASSUME NEW p \in ShellPids, ClosePty(p) PROVE ShellInv'
  BY <1>11 DEF ClosePty
<1>12. CASE Close
  <2>1. /\ stop' = "abort" /\ UNCHANGED <<process, pidOf, settled>>
        /\ ptys' = [p \in ShellPids |-> Nobody]
        /\ status' = [c \in Commands |-> IF status[c] = "running" THEN "killed" ELSE status[c]]
        /\ step' = [c \in Commands |-> IF step[c] = "starting" THEN "undo" ELSE step[c]]
    BY <1>12 DEF Close
  <2>2. doomed \subseteq doomed' /\ \A p \in ShellPids : ptys[p] # Nobody => ptys[p] \in doomed'
    BY <1>12 DEF Close, Sessions
  <2>3. \A c \in Commands : step[c] = "starting" => c \in doomed'
    BY <1>12 DEF Close
  <2>4. ShellTypeOK' /\ StepsOfKinds' /\ PtysUnderTheirPid' /\ CloseProceeds'
    BY <2>1
  <2>5. ChildrenAreAccounted'
    BY <2>1, <2>2, <2>3
  <2> QED BY <2>4, <2>5
<1>13. CASE OperationsDrained
  <2>1. /\ stop' = "drain" /\ UNCHANGED <<step, process, status, pidOf, settled>>
        /\ ptys' = [p \in ShellPids |-> Nobody]
        /\ stop = "abort" /\ \A c \in Commands : step[c] \in {"idle", "failed", "done"}
    BY <1>13 DEF OperationsDrained, SweepAgain
  <2>2. doomed \subseteq doomed' /\ \A p \in ShellPids : ptys[p] # Nobody => ptys[p] \in doomed'
    BY <1>13 DEF OperationsDrained, SweepAgain, Sessions
  <2>3. ShellTypeOK' /\ StepsOfKinds' /\ PtysUnderTheirPid' /\ CloseProceeds'
    BY <2>1
  <2>4. ChildrenAreAccounted'
    BY <2>1, <2>2
  <2> QED BY <2>3, <2>4
<1>14. CASE Closed
  <2>1. stop = "drain" /\ UNCHANGED <<step, process, doomed, status, ptys, pidOf, settled>> /\ stop' = "closed"
    BY <1>14 DEF Closed
  <2>2. \A c \in Commands : process[c] # "up"
    BY <1>14, <2>1 DEF Closed, Kind
  <2> QED BY <2>1, <2>2
<1>15. CASE UNCHANGED shellVars
  BY <1>15 DEF shellVars
<1> QED
  BY <1>1, <1>2, <1>3, <1>4, <1>5, <1>6, <1>7, <1>8, <1>9, <1>10, <1>11, <1>12, <1>13, <1>14, <1>15
     DEF ShellNext

\* When close() has returned no child is left, whatever was being prepared,
\* started, killed or given up when it was called.
THEOREM CloseLeavesNothing == ShellSpec => []NothingOutlivesClose
<1>1. ShellInv => NothingOutlivesClose
  BY DEF ShellInv, CloseProceeds, NothingOutlivesClose
<1> QED BY <1>1, ShellInitInv, ShellNextInv, PTL DEF ShellSpec

\* No live terminal is lost to a pid the system gave away again.
THEOREM TerminalsAreReachable == ShellSpec => []PtysAreReachable
<1>1. ShellInv => PtysAreReachable
  BY DEF ShellInv, ChildrenAreAccounted, PtysAreReachable, Kind
<1> QED BY <1>1, ShellInitInv, ShellNextInv, PTL DEF ShellSpec

LEMMA StepKeepsVerdicts ==
  ASSUME ShellInv, [ShellNext]_shellVars,
         NEW c \in Commands, status[c] \in {"killed", "completed", "failed"}
  PROVE  status'[c] = status[c]
<1> USE DEF ShellInv, ShellTypeOK, StepsOfKinds
<1>1. ASSUME NEW d \in Commands, Spawn(d) PROVE status'[c] = status[c]
  BY <1>1 DEF Spawn, Spawned
<1>2. ASSUME NEW d \in Commands, Settle(d) \/ Kill(d) PROVE status'[c] = status[c]
  BY <1>2 DEF Settle, Kill
<1>3. CASE Close
  BY <1>3 DEF Close
<1> QED
  BY <1>1, <1>2, <1>3
     DEF ShellNext, shellVars, Begin, PtyStarted, PtyFails, Return, Abort, Exit, Expire, ClosePty,
         OperationsDrained, SweepAgain, Closed

\* The verdict on a task is final: a kill that races the exit is never undone.
THEOREM VerdictsAreFinal == ShellSpec => KilledIsFinal
<1>1. ShellInv /\ [ShellNext]_shellVars =>
        [\A c \in Commands : status[c] \in {"killed", "completed", "failed"} => status'[c] = status[c]]_shellVars
  BY StepKeepsVerdicts
<1> QED BY <1>1, ShellInitInv, ShellNextInv, PTL DEF ShellSpec, KilledIsFinal

\* No child process is lost sight of, neither before close() nor after it.
THEOREM ShellIsSafe == ShellSpec => []ShellSafety
<1>1. NothingOutlivesClose /\ PtysAreReachable => ShellSafety
  BY DEF ShellSafety
<1> QED BY <1>1, CloseLeavesNothing, TerminalsAreReachable, PTL

-----------------------------------------------------------------------------
(***************************************************************************)
(* What sessions that are lost at any time may do to tool calls.  That a call*)
(* runs where it was approved needs the meaning of executionRevision: an    *)
(* approval of the current revision was given on the connection of now, and *)
(* on its session unless that one has been dropped, or replaced by a stray  *)
(* answer.                                                                  *)
(***************************************************************************)

\* While a session is being opened the client does not count as connected.
UnlinkedWhileOpening == linked => recovery \notin {"init", "notify"}

\* A fetch that the server has yet to execute.
Unseen(f) == wire[f].at \in {"sent", "cut"}

\* A call has one fetch, and has had no effect before the server sees that.
UnseenHasNotRun ==
  \A r \in ToolCalls :
    /\ runs[r] <= 1
    /\ Unseen(<<r, FALSE>>) => runs[r] = 0
    /\ wire[<<r, TRUE>>].at = "none"
    /\ req[r].at \in {"idle", "approved"} => runs[r] = 0 /\ ~Unseen(<<r, FALSE>>)

ApprovalsAreOfNow ==
  \A r \in ToolCalls :
    /\ r \in current => linked /\ sid \in {None, req[r].session} \cup astray
    /\ Unseen(<<r, FALSE>>) => wire[<<r, FALSE>>].under \in {None, req[r].session} \cup astray

McpInv == McpTypeOK /\ UnlinkedWhileOpening /\ UnseenHasNotRun /\ ApprovalsAreOfNow

LEMMA McpInitInv == McpInit => McpInv
<1> SUFFICES ASSUME McpInit PROVE McpInv
  OBVIOUS
<1>1. \A r \in ToolCalls : r \in McpRequests /\ <<r, TRUE>> \in Fetches /\ <<r, FALSE>> \in Fetches
  BY DEF McpRequests, Fetches
<1>2. McpTypeOK
  BY McpAssumption DEF McpInit, McpTypeOK, McpRequest, McpFetch, Nothing, None
<1>3. \A f \in Fetches : wire[f].at = "none"
  BY DEF McpInit, Nothing
<1>4. UnseenHasNotRun
  <2>1. \A r \in ToolCalls : runs[r] = 0
    BY DEF McpInit
  <2>2. \A r \in ToolCalls : wire[<<r, TRUE>>].at = "none" /\ wire[<<r, FALSE>>].at = "none"
    BY <1>1, <1>3
  <2>3. \A r \in ToolCalls : ~Unseen(<<r, FALSE>>)
    BY <2>2 DEF Unseen
  <2>4. \A r \in ToolCalls : runs[r] <= 1
    BY <2>1
  <2> QED BY <2>1, <2>2, <2>3, <2>4, Zenon DEF UnseenHasNotRun
<1>5. ApprovalsAreOfNow
  BY <1>1, <1>3 DEF McpInit, ApprovalsAreOfNow, Unseen
<1> QED BY <1>2, <1>4, <1>5 DEF McpInit, McpInv, UnlinkedWhileOpening

\* A step that approves, sends and serves nothing: it gives up requests, ends or
\* aborts fetches of calls, makes approvals outdated, and replaces the session of
\* those that are still good by none or by a stray one.
RequestsQuiet ==
  /\ req' \in [McpRequests -> McpRequest]
  /\ \A r \in ToolCalls :
       /\ req'[r].session = req[r].session
       /\ req'[r].at \in {"idle", "approved"} => req[r].at \in {"idle", "approved"}

WiresQuiet ==
  /\ wire' \in [Fetches -> McpFetch]
  /\ \A r \in ToolCalls :
       /\ wire'[<<r, TRUE>>].at = "none"
       /\ Unseen(<<r, FALSE>>)' => Unseen(<<r, FALSE>>) /\ wire'[<<r, FALSE>>].under = wire[<<r, FALSE>>].under

LinkQuiet ==
  /\ linked' \in BOOLEAN /\ strays' \in Nat
  /\ current' \subseteq current /\ (current' # {} => linked')
  /\ UnlinkedWhileOpening'

SessionQuiet ==
  /\ sid' \in Nat /\ (current' # {} => sid' \in {None, sid} \cup astray')
  /\ runs' = runs /\ opened' \in Nat /\ live' \subseteq 1 .. opened' /\ astray \subseteq astray'

LEMMA QuietKeepsInv ==
  ASSUME McpInv, RequestsQuiet, WiresQuiet, LinkQuiet, SessionQuiet
  PROVE  McpInv'
<1>1. McpTypeOK'
  BY DEF McpInv, McpTypeOK, RequestsQuiet, WiresQuiet, LinkQuiet, SessionQuiet
<1>2. UnseenHasNotRun'
  <2> SUFFICES ASSUME NEW r \in ToolCalls
               PROVE  /\ runs'[r] <= 1
                      /\ Unseen(<<r, FALSE>>)' => runs'[r] = 0
                      /\ wire'[<<r, TRUE>>].at = "none"
                      /\ req'[r].at \in {"idle", "approved"} => runs'[r] = 0 /\ ~Unseen(<<r, FALSE>>)'
    BY DEF UnseenHasNotRun
  <2> QED BY DEF McpInv, UnseenHasNotRun, RequestsQuiet, WiresQuiet, SessionQuiet
<1>3. ApprovalsAreOfNow'
  <2> SUFFICES ASSUME NEW r \in ToolCalls
               PROVE  /\ r \in current' => linked' /\ sid' \in {None, req'[r].session} \cup astray'
                      /\ Unseen(<<r, FALSE>>)' => wire'[<<r, FALSE>>].under \in {None, req'[r].session} \cup astray'
    BY DEF ApprovalsAreOfNow
  <2> QED BY DEF McpInv, ApprovalsAreOfNow, RequestsQuiet, WiresQuiet, LinkQuiet, SessionQuiet
<1> QED BY <1>1, <1>2, <1>3 DEF McpInv, LinkQuiet

\* The invariant without change of a part makes that part quiet.
LEMMA Rests ==
  ASSUME McpInv
  PROVE  /\ UNCHANGED req => RequestsQuiet
         /\ UNCHANGED wire => WiresQuiet
         /\ UNCHANGED link => LinkQuiet
         /\ UNCHANGED <<sid, server>> => SessionQuiet
<1>1. UNCHANGED req => RequestsQuiet
  BY DEF McpInv, McpTypeOK, RequestsQuiet
<1>2. UNCHANGED wire => WiresQuiet
  BY DEF McpInv, McpTypeOK, UnseenHasNotRun, WiresQuiet, Unseen
<1>3. UNCHANGED link => LinkQuiet
  <2>1. current # {} => linked
    BY DEF McpInv, McpTypeOK, ApprovalsAreOfNow
  <2> QED BY <2>1 DEF McpInv, McpTypeOK, UnlinkedWhileOpening, LinkQuiet, link
<1>4. UNCHANGED <<sid, server>> => SessionQuiet
  BY DEF McpInv, McpTypeOK, SessionQuiet, server
<1> QED BY <1>1, <1>2, <1>3, <1>4

\* Dropping the session id is quiet as well.
LEMMA DropIsQuiet == ASSUME McpInv, sid' \in {sid, None}, UNCHANGED server PROVE SessionQuiet
BY DEF McpInv, McpTypeOK, SessionQuiet, server, None

\* A request that is moved on is not back at its start.
MovedOn(r) ==
  \/ req'[r] = req[r]
  \/ req'[r] \in McpRequest /\ req'[r].session = req[r].session /\ req'[r].at \notin {"idle", "approved"}

LEMMA MovedIsQuiet ==
  ASSUME McpInv, req' = [r \in McpRequests |-> req'[r]], \A r \in McpRequests : MovedOn(r)
  PROVE  RequestsQuiet
<1>1. \A r \in McpRequests : req'[r] \in McpRequest
  BY DEF McpInv, McpTypeOK, MovedOn
<1>2. req' \in [McpRequests -> McpRequest]
  BY <1>1
<1>3. \A r \in ToolCalls : MovedOn(r)
  BY DEF McpRequests
<1> QED BY <1>2, <1>3 DEF RequestsQuiet, MovedOn

LEMMA PlaceIsQuiet ==
  ASSUME McpInv, NEW r \in McpRequests, NEW at \in {"pending", "recover", "ok", "failed", "unknown"},
         \/ req'[r] = [req[r] EXCEPT !.at = at]
         \/ req'[r] = [req[r] EXCEPT !.at = at, !.again = TRUE]
  PROVE  MovedOn(r)
<1>1. req[r] \in McpRequest
  BY DEF McpInv, McpTypeOK
<1> QED BY <1>1 DEF McpRequest, MovedOn

LEMMA OneRequestIsQuiet ==
  ASSUME McpInv, NEW r \in McpRequests, NEW at \in {"pending", "recover", "ok", "failed", "unknown"},
         req' = Moved(r, at)
  PROVE  RequestsQuiet
<1>1. req' = [q \in McpRequests |-> req'[q]]
  BY DEF McpInv, McpTypeOK, Moved
<1>2. MovedOn(r)
  <2>1. req'[r] = [req[r] EXCEPT !.at = at]
    BY DEF McpInv, McpTypeOK, Moved
  <2> QED BY <2>1, PlaceIsQuiet
<1>3. \A q \in McpRequests \ {r} : MovedOn(q)
  BY DEF McpInv, McpTypeOK, Moved, MovedOn
<1> QED BY <1>1, <1>2, <1>3, MovedIsQuiet

\* A fetch that is aborted, ended or answered is not under way afresh.
EndedOn(f) ==
  \/ wire'[f] = wire[f]
  \/ /\ wire'[f] \in McpFetch
     /\ \/ wire'[f].at = "none" \/ f[1] \notin ToolCalls
        \/ ~f[2] /\ wire'[f].at \in {"answered", "refused"}
        \/ Unseen(f) /\ wire'[f].under = wire[f].under /\ ~f[2]

LEMMA EndedIsQuiet ==
  ASSUME McpInv, wire' = [f \in Fetches |-> wire'[f]], \A f \in Fetches : EndedOn(f)
  PROVE  WiresQuiet
<1>1. \A f \in Fetches : wire'[f] \in McpFetch
  BY DEF McpInv, McpTypeOK, EndedOn
<1>2. wire' \in [Fetches -> McpFetch]
  BY <1>1
<1>3. ASSUME NEW r \in ToolCalls
      PROVE  /\ wire'[<<r, TRUE>>].at = "none"
             /\ Unseen(<<r, FALSE>>)' => Unseen(<<r, FALSE>>) /\ wire'[<<r, FALSE>>].under = wire[<<r, FALSE>>].under
  <2>1. <<r, TRUE>> \in Fetches /\ <<r, FALSE>> \in Fetches
    BY DEF Fetches, McpRequests
  <2>2. wire[<<r, TRUE>>].at = "none"
    BY DEF McpInv, UnseenHasNotRun
  <2>3. EndedOn(<<r, TRUE>>) /\ EndedOn(<<r, FALSE>>)
    BY <2>1
  <2>4. wire'[<<r, TRUE>>].at = "none"
    BY <2>2, <2>3 DEF EndedOn, Unseen
  <2>5. Unseen(<<r, FALSE>>)' => Unseen(<<r, FALSE>>) /\ wire'[<<r, FALSE>>].under = wire[<<r, FALSE>>].under
    BY <2>3 DEF EndedOn, Unseen
  <2> QED BY <2>4, <2>5
<1> QED BY <1>2, <1>3 DEF WiresQuiet

\* The second fetch of a call is never under way, so that only the first is cut.
LEMMA CutEnds == ASSUME McpInv, NEW f \in Fetches, wire'[f] \in {Cut(f), Nothing} PROVE EndedOn(f)
<1>1. wire[f] \in McpFetch
  BY DEF McpInv, McpTypeOK
<1>2. CASE wire'[f] = Nothing
  BY <1>2 DEF Nothing, None, EndedOn, McpFetch
<1>3. CASE wire'[f] = Cut(f) /\ f[1] \in ToolCalls /\ Unseen(f)
  <2>1. wire'[f] = [wire[f] EXCEPT !.at = "cut"]
    BY <1>3 DEF Cut, Unseen
  <2>2. f = <<f[1], f[2]>> /\ f[2] \in BOOLEAN
    BY DEF Fetches
  <2>3. ~f[2]
    <3> SUFFICES ASSUME f[2] = TRUE PROVE FALSE
      BY <2>2
    <3>1. wire[<<f[1], TRUE>>].at = "none"
      BY <1>3 DEF McpInv, UnseenHasNotRun
    <3> QED BY <3>1, <2>2, <1>3 DEF Unseen
  <2>4. wire'[f] \in McpFetch /\ wire'[f].under = wire[f].under
    BY <1>1, <2>1 DEF McpFetch
  <2> QED BY <1>3, <2>3, <2>4 DEF EndedOn
<1> QED BY <1>2, <1>3 DEF Cut, Unseen

\* Ending one fetch, and aborting one, or none at all.
LEMMA OneFetchIsQuiet ==
  ASSUME McpInv, NEW f \in Fetches, wire' \in {wire, Ended(f), [wire EXCEPT ![f] = Cut(f)]}
  PROVE  WiresQuiet
<1>1. wire' = [g \in Fetches |-> wire'[g]]
  BY DEF McpInv, McpTypeOK, Ended
<1>2. EndedOn(f)
  <2>1. wire'[f] \in {wire[f], Nothing, Cut(f)}
    BY DEF McpInv, McpTypeOK, Ended
  <2> QED BY <2>1, CutEnds DEF EndedOn
<1>3. \A g \in Fetches \ {f} : EndedOn(g)
  BY DEF McpInv, McpTypeOK, Ended, EndedOn
<1> QED BY <1>1, <1>2, <1>3, EndedIsQuiet

\* failPending, whether or not the recovery ends with it: all who wait are moved
\* on and no approval is left.
LEMMA FailAllIsQuiet ==
  ASSUME McpInv, NEW ends \in BOOLEAN, FailAll(ends), strays' \in Nat
  PROVE  RequestsQuiet /\ LinkQuiet
<1>2. \A r \in McpRequests : MovedOn(r)
  <2> TAKE r \in McpRequests
  <2>1. req'[r] = req[r] \/ req'[r] = [req[r] EXCEPT !.at = "failed"]
    BY DEF FailAll
  <2> QED BY <2>1, PlaceIsQuiet DEF MovedOn
<1>3. RequestsQuiet
  BY <1>2, MovedIsQuiet DEF FailAll
<1>4. LinkQuiet
  BY DEF FailAll, LinkQuiet, UnlinkedWhileOpening
<1> QED BY <1>3, <1>4

LEMMA FailPendingIsQuiet == ASSUME McpInv, FailPending PROVE RequestsQuiet /\ LinkQuiet
<1>1. strays' \in Nat
  BY DEF FailPending, McpInv, McpTypeOK
<1> QED BY <1>1, FailAllIsQuiet DEF FailPending, Asking

LEMMA JoinIsQuiet == ASSUME McpInv, JoinRecovery PROVE LinkQuiet
<1>1. current # {} => linked
  BY DEF McpInv, McpTypeOK, ApprovalsAreOfNow
<1> QED BY <1>1 DEF McpInv, McpTypeOK, JoinRecovery, LinkQuiet, UnlinkedWhileOpening

LEMMA ApproveInv == ASSUME McpInv, NEW r \in McpRequests, Approve(r) PROVE McpInv'
<1> USE DEF McpInv, McpTypeOK
<1>1. /\ r \in ToolCalls /\ req[r].at = "idle" /\ linked
      /\ req' = [req EXCEPT ![r].at = "approved", ![r].session = sid]
      /\ current' = current \cup {r}
      /\ UNCHANGED <<wire, sid, linked, recovery, strays, runs, live, opened, astray>>
  BY DEF Approve, server
<1>2. req' \in [McpRequests -> McpRequest]
  BY <1>1 DEF McpRequest
<1>3. McpTypeOK' /\ UnlinkedWhileOpening'
  BY <1>1, <1>2 DEF UnlinkedWhileOpening
<1>4. req'[r].at = "approved" /\ req'[r].session = sid
  BY <1>1 DEF McpRequest
<1>5. \A q \in McpRequests \ {r} : req'[q] = req[q]
  BY <1>1
<1>6. UnseenHasNotRun'
  <2>1. \A q \in ToolCalls : Unseen(<<q, FALSE>>)' <=> Unseen(<<q, FALSE>>)
    BY <1>1 DEF Unseen
  <2> QED BY <1>1, <1>4, <1>5, <2>1 DEF UnseenHasNotRun, McpRequests
<1>7. ApprovalsAreOfNow'
  <2>1. \A q \in ToolCalls : Unseen(<<q, FALSE>>)' <=> Unseen(<<q, FALSE>>)
    BY <1>1 DEF Unseen
  <2>2. ~Unseen(<<r, FALSE>>)
    BY <1>1 DEF UnseenHasNotRun
  <2> QED BY <1>1, <1>4, <1>5, <2>1, <2>2 DEF ApprovalsAreOfNow, McpRequests
<1> QED BY <1>3, <1>6, <1>7

LEMMA SendInv == ASSUME McpInv, NEW r \in McpRequests, Send(r) PROVE McpInv'
<1>1. CASE ~MaySend(r)
  <2>1. RequestsQuiet
    BY <1>1, OneRequestIsQuiet DEF Send
  <2> QED BY <1>1, <2>1, Rests, QuietKeepsInv DEF Send
<1>2. CASE MaySend(r)
  <2> USE DEF McpInv, McpTypeOK
  <2>0. <<r, FALSE>> \in Fetches /\ \A q \in ToolCalls : <<q, FALSE>> \in Fetches /\ <<q, TRUE>> \in Fetches
    BY DEF Fetches, McpRequests
  <2>1. /\ req' = Moved(r, "pending")
        /\ wire' = [wire EXCEPT ![<<r, FALSE>>] = [at |-> "sent", under |-> sid]]
        /\ UNCHANGED <<sid, linked, current, recovery, strays, runs, live, opened, astray>>
    BY <1>2 DEF Send, link, server
  <2>2. RequestsQuiet
    BY <2>1, OneRequestIsQuiet
  <2>3. wire' \in [Fetches -> McpFetch]
    BY <2>0, <2>1 DEF McpFetch
  <2>4. McpTypeOK' /\ UnlinkedWhileOpening'
    BY <2>1, <2>2, <2>3 DEF RequestsQuiet, UnlinkedWhileOpening
  <2>5. wire'[<<r, FALSE>>] = [at |-> "sent", under |-> sid]
    BY <2>0, <2>1
  <2>6. \A q \in ToolCalls : wire'[<<q, TRUE>>] = wire[<<q, TRUE>>] /\ (q # r => wire'[<<q, FALSE>>] = wire[<<q, FALSE>>])
    BY <2>0, <2>1
  <2>7. \A q \in ToolCalls : q # r => (Unseen(<<q, FALSE>>)' <=> Unseen(<<q, FALSE>>))
    BY <2>6 DEF Unseen
  <2>8. r \in ToolCalls => r \in current /\ req[r].at = "approved" /\ req'[r].at = "pending"
    BY <1>2, <2>1 DEF MaySend, Send, Moved, McpRequest
  <2>9. UnseenHasNotRun'
    BY <2>1, <2>2, <2>6, <2>7, <2>8 DEF UnseenHasNotRun, RequestsQuiet
  <2>10. ApprovalsAreOfNow'
    <3> SUFFICES ASSUME NEW q \in ToolCalls
                 PROVE  /\ q \in current' => linked' /\ sid' \in {None, req'[q].session} \cup astray'
                        /\ Unseen(<<q, FALSE>>)' => wire'[<<q, FALSE>>].under \in {None, req'[q].session} \cup astray'
      BY DEF ApprovalsAreOfNow
    <3>1. req'[q].session = req[q].session
      BY <2>2 DEF RequestsQuiet
    <3>2. q \in current => linked /\ sid \in {None, req[q].session} \cup astray
      BY DEF ApprovalsAreOfNow
    <3>3. CASE q = r
      BY <2>1, <2>5, <2>8, <3>1, <3>2, <3>3
    <3>4. CASE q # r
      BY <2>1, <2>6, <2>7, <3>1, <3>2, <3>4 DEF ApprovalsAreOfNow
    <3> QED BY <3>3, <3>4
  <2> QED BY <2>4, <2>9, <2>10
<1> QED BY <1>1, <1>2

LEMMA ServeInv == ASSUME McpInv, NEW f \in Fetches, Serve(f) PROVE McpInv'
<1> USE DEF McpInv, McpTypeOK
<1> DEFINE r == f[1]
<1>0. f = <<r, f[2]>> /\ f[2] \in BOOLEAN /\ r \in McpRequests /\ Unseen(f)
  BY DEF Fetches, Serve, Unseen
<1>1. /\ wire' \in {Ended(f), [wire EXCEPT ![f].at = "answered"], [wire EXCEPT ![f].at = "refused"]}
      /\ runs' = runs \/ (r \in ToolCalls /\ runs' = [runs EXCEPT ![r] = @ + 1])
      /\ UNCHANGED <<req, sid, linked, current, recovery, strays, live, opened, astray>>
  BY DEF Serve, link
<1>2. \A g \in Fetches \ {f} : wire'[g] = wire[g]
  BY <1>1 DEF Ended
<1>3. wire'[f] \in McpFetch /\ ~Unseen(f)'
  BY <1>1 DEF Ended, Nothing, None, McpFetch, Unseen
<1>4. wire' \in [Fetches -> McpFetch]
  BY <1>1, <1>2, <1>3 DEF Ended, Nothing, None, McpFetch
<1>5. McpTypeOK' /\ UnlinkedWhileOpening'
  BY <1>1, <1>4 DEF UnlinkedWhileOpening
<1>6. ASSUME NEW q \in ToolCalls
      PROVE  /\ wire'[<<q, TRUE>>] = wire[<<q, TRUE>>]
             /\ Unseen(<<q, FALSE>>)' => Unseen(<<q, FALSE>>) /\ wire'[<<q, FALSE>>] = wire[<<q, FALSE>>] /\ runs'[q] = runs[q]
             /\ runs'[q] = runs[q] \/ (Unseen(<<q, FALSE>>) /\ ~Unseen(<<q, FALSE>>)' /\ runs'[q] = runs[q] + 1)
  <2>1. <<q, TRUE>> \in Fetches /\ <<q, FALSE>> \in Fetches
    BY DEF Fetches, McpRequests
  <2>2. f # <<q, TRUE>>
    BY <1>0 DEF UnseenHasNotRun, Unseen
  <2>3. CASE f = <<q, FALSE>>
    BY <1>0, <1>1, <1>2, <1>3, <2>1, <2>2, <2>3
  <2>4. CASE f # <<q, FALSE>>
    <3>1. q # r
      BY <1>0, <2>2, <2>4
    <3> QED BY <1>1, <1>2, <2>1, <2>2, <2>4, <3>1 DEF Unseen
  <2> QED BY <2>3, <2>4
<1>7. UnseenHasNotRun'
  <2> SUFFICES ASSUME NEW q \in ToolCalls
               PROVE  /\ runs'[q] <= 1
                      /\ Unseen(<<q, FALSE>>)' => runs'[q] = 0
                      /\ wire'[<<q, TRUE>>].at = "none"
                      /\ req'[q].at \in {"idle", "approved"} => runs'[q] = 0 /\ ~Unseen(<<q, FALSE>>)'
    BY DEF UnseenHasNotRun
  <2>1. runs[q] \in Nat
    OBVIOUS
  <2>2. /\ runs[q] <= 1 /\ (Unseen(<<q, FALSE>>) => runs[q] = 0) /\ wire[<<q, TRUE>>].at = "none"
        /\ req[q].at \in {"idle", "approved"} => runs[q] = 0 /\ ~Unseen(<<q, FALSE>>)
    BY DEF UnseenHasNotRun
  <2>3. req'[q] = req[q]
    BY <1>1
  <2>4. /\ wire'[<<q, TRUE>>] = wire[<<q, TRUE>>]
        /\ Unseen(<<q, FALSE>>)' => Unseen(<<q, FALSE>>) /\ runs'[q] = runs[q]
        /\ runs'[q] = runs[q] \/ (Unseen(<<q, FALSE>>) /\ runs'[q] = runs[q] + 1)
    BY <1>6
  <2>5. runs'[q] <= 1
    BY <2>1, <2>2, <2>4
  <2>6. Unseen(<<q, FALSE>>)' => runs'[q] = 0
    BY <2>2, <2>4
  <2>7. req'[q].at \in {"idle", "approved"} => runs'[q] = 0 /\ ~Unseen(<<q, FALSE>>)'
    BY <2>2, <2>3, <2>4
  <2> QED BY <2>2, <2>4, <2>5, <2>6, <2>7
<1>8. ApprovalsAreOfNow'
  BY <1>1, <1>6 DEF ApprovalsAreOfNow
<1> QED BY <1>5, <1>7, <1>8

LEMMA RecoverIsQuiet ==
  ASSUME McpInv, NEW f \in Fetches, Expired(f) \/ Rejected(f), UNCHANGED server
  PROVE  RequestsQuiet /\ LinkQuiet /\ SessionQuiet
<1>1. f[1] \in McpRequests
  BY DEF Fetches
<1>2. RequestsQuiet
  <2>1. CASE FailPending
    BY <2>1, FailPendingIsQuiet
  <2>2. CASE UNCHANGED req
    BY <2>2, Rests
  <2>3. CASE req' = Moved(f[1], "failed") \/ req' = Moved(f[1], "recover")
    BY <1>1, <2>3, OneRequestIsQuiet
  <2> QED BY <2>1, <2>2, <2>3 DEF Expired, Rejected
<1>3. LinkQuiet
  BY FailPendingIsQuiet, JoinIsQuiet, Rests DEF Expired, Rejected
<1>4. SessionQuiet
  BY DropIsQuiet DEF Expired, Rejected
<1> QED BY <1>2, <1>3, <1>4

LEMMA AnswerLostIsQuiet == ASSUME McpInv, NEW f \in Fetches, AnswerLost(f) PROVE WiresQuiet
<1>1. wire' = [wire EXCEPT ![f].at = "refused"] /\ wire \in [Fetches -> McpFetch] /\ wire[f].at = "answered"
  BY DEF AnswerLost, McpInv, McpTypeOK
<1>2. wire' = [g \in Fetches |-> wire'[g]] /\ \A g \in Fetches \ {f} : EndedOn(g)
  BY <1>1 DEF EndedOn
<1>3. EndedOn(f)
  <2>1. wire'[f] \in McpFetch /\ wire'[f].at = "refused"
    BY <1>1 DEF McpFetch
  <2>2. f = <<f[1], f[2]>> /\ f[2] \in BOOLEAN
    BY DEF Fetches
  <2>3. f[1] \in ToolCalls => f[2] = FALSE
    BY <1>1, <2>2 DEF McpInv, UnseenHasNotRun
  <2> QED BY <2>1, <2>2, <2>3 DEF EndedOn
<1> QED BY <1>2, <1>3, EndedIsQuiet

LEMMA ResumedIsQuiet == ASSUME McpInv, Resumed PROVE RequestsQuiet /\ WiresQuiet
<1>1. \A r \in McpRequests : MovedOn(r)
  <2> TAKE r \in McpRequests
  <2>1. \/ req'[r] = req[r]
        \/ req'[r] = [req[r] EXCEPT !.at = "pending", !.again = TRUE]
        \/ req'[r] = [req[r] EXCEPT !.at = "unknown"]
    BY DEF Resumed
  <2> QED BY <2>1, PlaceIsQuiet DEF MovedOn
<1>2. RequestsQuiet
  BY <1>1, MovedIsQuiet DEF Resumed
<1>3. \A f \in Fetches : EndedOn(f)
  <2> TAKE f \in Fetches
  <2>1. wire'[f] = wire[f] \/ (f[1] \notin ToolCalls /\ wire'[f] = [at |-> "sent", under |-> sid])
    BY DEF Resumed, MayRepeat, Bound
  <2> QED BY <2>1 DEF EndedOn, McpFetch, McpInv, McpTypeOK
<1>4. WiresQuiet
  BY <1>3, EndedIsQuiet DEF Resumed
<1> QED BY <1>2, <1>4

LEMMA ShutIsQuiet == ASSUME McpInv, Shut PROVE RequestsQuiet /\ WiresQuiet /\ LinkQuiet /\ SessionQuiet
<1>1. RequestsQuiet /\ LinkQuiet
  BY FailAllIsQuiet DEF Shut, Asking
<1>2. \A f \in Fetches : wire'[f] = Cut(f)
  BY DEF Shut
<1>3. WiresQuiet
  BY <1>2, CutEnds, EndedIsQuiet DEF Shut
<1>4. SessionQuiet
  BY Rests DEF Shut
<1> QED BY <1>1, <1>3, <1>4

LEMMA WaitersFailIsQuiet ==
  ASSUME McpInv,
         req' = [r \in McpRequests |-> IF req[r].at = "recover" THEN [req[r] EXCEPT !.at = "failed"] ELSE req[r]]
  PROVE  RequestsQuiet
<1>1. \A r \in McpRequests : req'[r] = req[r] \/ req'[r] = [req[r] EXCEPT !.at = "failed"]
  OBVIOUS
<1>2. \A r \in McpRequests : MovedOn(r)
  BY <1>1, PlaceIsQuiet DEF MovedOn
<1> QED BY <1>2, MovedIsQuiet

LEMMA RecoveryLostIsQuiet == ASSUME McpInv, RecoveryLost PROVE RequestsQuiet /\ LinkQuiet
<1>0. strays' \in Nat
  BY DEF RecoveryLost, McpInv, McpTypeOK
<1>1. CASE over = "no"
  <2>1. \A r \in McpRequests : MovedOn(r)
    <3> TAKE r \in McpRequests
    <3>1. req'[r] = req[r] \/ req'[r] = [req[r] EXCEPT !.at = "recover"] \/ req'[r] = [req[r] EXCEPT !.at = "failed"]
      BY <1>1 DEF RecoveryLost
    <3> QED BY <3>1, PlaceIsQuiet DEF MovedOn
  <2>2. RequestsQuiet
    BY <1>1, <2>1, MovedIsQuiet DEF RecoveryLost
  <2>3. LinkQuiet
    BY <1>0, <1>1 DEF RecoveryLost, LinkQuiet, UnlinkedWhileOpening
  <2> QED BY <2>2, <2>3
<1>2. CASE over # "no"
  BY <1>0, <1>2, FailAllIsQuiet DEF RecoveryLost
<1> QED BY <1>1, <1>2

LEMMA McpNextInv == McpInv /\ [McpNext]_mcpVars => McpInv'
<1> SUFFICES ASSUME McpInv, [McpNext]_mcpVars PROVE McpInv'
  OBVIOUS
<1>0. /\ sid \in Nat /\ opened \in Nat /\ strays \in Nat /\ linked \in BOOLEAN /\ live \subseteq 1 .. opened
      /\ recovery \in {"init", "notify"} => ~linked
      /\ current # {} => linked
  BY DEF McpInv, McpTypeOK, UnlinkedWhileOpening, ApprovalsAreOfNow
<1>1. ASSUME NEW r \in McpRequests, Approve(r) \/ Send(r) PROVE McpInv'
  BY <1>1, ApproveInv, SendInv
<1>2. ASSUME NEW r \in McpRequests, McpTimeout(r) PROVE McpInv'
  <2>1. <<r, req[r].again>> \in Fetches
    BY DEF McpInv, McpTypeOK, McpRequest, Fetches
  <2>2. RequestsQuiet
    BY <1>2, OneRequestIsQuiet DEF McpTimeout
  <2>3. WiresQuiet
    BY <1>2, <2>1, OneFetchIsQuiet DEF McpTimeout
  <2> QED BY <1>2, <2>2, <2>3, Rests, QuietKeepsInv DEF McpTimeout
<1>3. ASSUME NEW f \in Fetches, Serve(f) PROVE McpInv'
  BY <1>3, ServeInv
<1>4. ASSUME NEW f \in Fetches, AnswerLost(f) PROVE McpInv'
  BY <1>4, AnswerLostIsQuiet, Rests, QuietKeepsInv DEF AnswerLost
<1>5. ASSUME NEW f \in Fetches, Answered(f) PROVE McpInv'
  <2>1. RequestsQuiet
    <3>1. f[1] \in McpRequests
      BY DEF Fetches
    <3> QED BY <1>5, <3>1, OneRequestIsQuiet, Rests DEF Answered
  <2>2. WiresQuiet
    BY <1>5, OneFetchIsQuiet DEF Answered
  <2> QED BY <1>5, <2>1, <2>2, Rests, QuietKeepsInv DEF Answered
<1>6. ASSUME NEW f \in Fetches, Refused(f) PROVE McpInv'
  <2>1. WiresQuiet
    BY <1>6, OneFetchIsQuiet DEF Refused
  <2> QED BY <1>6, <2>1, RecoverIsQuiet, QuietKeepsInv DEF Refused
<1>7. ASSUME NEW f \in Fetches, NetworkFails(f) PROVE McpInv'
  <2>1. WiresQuiet
    BY <1>7, OneFetchIsQuiet DEF NetworkFails
  <2> QED BY <1>7, <2>1, FailPendingIsQuiet, Rests, QuietKeepsInv DEF NetworkFails
<1>8. CASE ChannelRefused
  <2>1. RequestsQuiet /\ LinkQuiet
    BY <1>8, FailPendingIsQuiet, JoinIsQuiet, Rests DEF ChannelRefused
  <2>2. SessionQuiet
    BY <1>8, DropIsQuiet DEF ChannelRefused
  <2> QED BY <1>8, <2>1, <2>2, Rests, QuietKeepsInv DEF ChannelRefused
<1>9. CASE ChannelBreaks
  BY <1>9, FailPendingIsQuiet, Rests, QuietKeepsInv DEF ChannelBreaks
<1>10. CASE Initialized
  <2>1. current = {} /\ ~linked
    BY <1>0, <1>10 DEF Initialized
  <2>2. LinkQuiet
    BY <1>0, <1>10, <2>1 DEF Initialized, LinkQuiet, UnlinkedWhileOpening
  <2>3. SessionQuiet
    BY <1>0, <1>10, <2>1 DEF Initialized, OpenSession, SessionQuiet
  <2> QED BY <1>10, <2>2, <2>3, Rests, QuietKeepsInv DEF Initialized
<1>11. CASE StrayInitialized
  <2>1. LinkQuiet
    BY <1>0, <1>11 DEF StrayInitialized, LinkQuiet, UnlinkedWhileOpening, McpInv, McpTypeOK
  <2>2. SessionQuiet
    BY <1>0, <1>11 DEF StrayInitialized, OpenSession, SessionQuiet
  <2> QED BY <1>11, <2>1, <2>2, Rests, QuietKeepsInv DEF StrayInitialized
<1>12. CASE Reconnected
  <2>1. LinkQuiet
    BY <1>0, <1>12 DEF Reconnected, LinkQuiet, UnlinkedWhileOpening
  <2> QED BY <1>12, <2>1, Rests, QuietKeepsInv DEF Reconnected
<1>13. ASSUME NEW u \in Subscribes, Restore(u) PROVE McpInv'
  <2>1. LinkQuiet /\ SessionQuiet
    BY <1>0, <1>13 DEF Restore, LinkQuiet, SessionQuiet, UnlinkedWhileOpening, McpInv, McpTypeOK
  <2> QED BY <1>13, <2>1, Rests, QuietKeepsInv DEF Restore
<1>14. CASE Recovered
  <2>1. LinkQuiet
    BY <1>0, <1>14 DEF Recovered, RecoveredEarly, LinkQuiet, UnlinkedWhileOpening, McpInv, McpTypeOK
  <2> QED BY <1>14, <2>1, ResumedIsQuiet, Rests, QuietKeepsInv DEF Recovered, RecoveredEarly
<1>15. CASE RecoveryFails
  <2>1. CASE FailAll(TRUE)
    <3>1. strays' \in Nat
      BY <1>0, <1>15 DEF RecoveryFails
    <3> QED BY <1>15, <2>1, <3>1, FailAllIsQuiet, Rests, QuietKeepsInv DEF RecoveryFails
  <2>2. CASE ~FailAll(TRUE)
    <3>1. RequestsQuiet
      BY <1>15, <2>2, WaitersFailIsQuiet DEF RecoveryFails
    <3>2. LinkQuiet
      <4>1. recovery' = "none" /\ UNCHANGED <<linked, current, strays>>
        BY <1>15, <2>2 DEF RecoveryFails
      <4> QED BY <1>0, <4>1 DEF LinkQuiet, UnlinkedWhileOpening
    <3> QED BY <1>15, <3>1, <3>2, Rests, QuietKeepsInv DEF RecoveryFails
  <2> QED BY <2>1, <2>2
<1>16. CASE RecoveryLost
  <2>1. SessionQuiet
    BY <1>16, DropIsQuiet DEF RecoveryLost
  <2> QED BY <1>16, <2>1, RecoveryLostIsQuiet, Rests, QuietKeepsInv DEF RecoveryLost
<1>17. CASE CloseClient
  <2>1. CASE Shut
    BY <2>1, ShutIsQuiet, QuietKeepsInv
  <2>2. CASE ~Shut
    BY <1>17, <2>2, Rests, QuietKeepsInv DEF CloseClient
  <2> QED BY <2>1, <2>2
<1>18. CASE CloseEnds
  BY <1>18, ShutIsQuiet, QuietKeepsInv DEF CloseEnds
<1>19. ASSUME SessionDeleted \/ \E s \in 1 .. MaxSessions : Forget(s) PROVE McpInv'
  <2>1. /\ UNCHANGED <<runs, opened, astray>> /\ sid' \in {sid, None} /\ live' \subseteq live
    BY <1>19 DEF SessionDeleted, Forget
  <2>2. SessionQuiet
    BY <1>0, <2>1 DEF SessionQuiet, None
  <2> QED BY <1>19, <2>2, Rests, QuietKeepsInv DEF SessionDeleted, Forget
<1>20. CASE UNCHANGED mcpVars
  BY <1>20, Rests, QuietKeepsInv DEF mcpVars
<1> QED
  BY <1>1, <1>2, <1>3, <1>4, <1>5, <1>6, <1>7, <1>8, <1>9, <1>10, <1>11, <1>12, <1>13, <1>14, <1>15, <1>16,
     <1>17, <1>18, <1>19, <1>20 DEF McpNext, RecoveryGoesOn

\* A tool call takes effect at most once, however many sessions are lost,
\* recoveries begun again and answers of aborted fetches late.
THEOREM CallsTakeEffectOnce == McpSpec => []CallsRunOnce
<1>1. McpInv => CallsRunOnce
  BY DEF McpInv, UnseenHasNotRun, CallsRunOnce
<1> QED BY <1>1, McpInitInv, McpNextInv, PTL DEF McpSpec

LEMMA StepRunsWhereApproved ==
  ASSUME McpInv, [McpNext]_mcpVars, NEW r \in ToolCalls, runs'[r] > runs[r]
  PROVE  wire[<<r, FALSE>>].under \in {req[r].session} \cup astray
<1>0. runs \in [ToolCalls -> Nat] /\ runs[r] \in Nat
  BY DEF McpInv, McpTypeOK
<1>1. PICK f \in Fetches : Serve(f)
  <2> SUFFICES ASSUME \A f \in Fetches : ~Serve(f) PROVE runs' = runs
    BY <1>0
  <2> QED BY
     DEF McpNext, RecoveryGoesOn, mcpVars, server, Approve, Send, AnswerLost, Answered, Refused, NetworkFails, McpTimeout,
         ChannelRefused, ChannelBreaks, Restore, Initialized, StrayInitialized, RecoveryFails, RecoveryLost,
         Reconnected, Recovered, RecoveredEarly, CloseClient, CloseEnds, Shut, SessionDeleted, Forget
<1>2. f[1] = r /\ Unseen(f) /\ wire[f].under \in live
  BY <1>0, <1>1 DEF Serve, Unseen
<1>3. f = <<r, FALSE>>
  <2>1. f = <<r, f[2]>> /\ f[2] \in BOOLEAN
    BY <1>2 DEF Fetches
  <2>2. wire[<<r, TRUE>>].at = "none"
    BY DEF McpInv, UnseenHasNotRun
  <2> QED BY <1>2, <2>1, <2>2 DEF Unseen
<1>4. None \notin live
  BY DEF McpInv, McpTypeOK, None
<1> QED BY <1>2, <1>3, <1>4 DEF McpInv, ApprovalsAreOfNow

\* A tool call takes effect only in the session it was approved for: a connection
\* that was replaced after the approval does not see it, unless a stray answer has
\* replaced it.
THEOREM CallsKeepTheirApproval == McpSpec => CallsRunWhereApproved
<1>1. McpInv /\ [McpNext]_mcpVars =>
        [\A r \in ToolCalls : runs'[r] > runs[r] => wire[<<r, FALSE>>].under \in {req[r].session} \cup astray]_mcpVars
  BY StepRunsWhereApproved
<1> QED BY <1>1, McpInitInv, McpNextInv, PTL DEF McpSpec, CallsRunWhereApproved

-----------------------------------------------------------------------------
(***************************************************************************)
(* The pool.  No link leaks because each has one place and a server makes one*)
(* only after the last replacement is over; the newest list is shown because*)
(* an answer is at least as new as the refresh that asked for it.           *)
(***************************************************************************)

\* Each connection is in one place, and a server makes one only when the last
\* replacement is over: what is being replaced is never forgotten.
LinksHaveOnePlace ==
  /\ \A s \in Servers : trying[s] = 0 \/ prior[s] = 0
  /\ \A s \in Servers :
       /\ slot[s] # 0 => slot[s] # trying[s] /\ slot[s] # prior[s]
       /\ \A t \in Servers \ {s} :
            {slot[s], trying[s], prior[s]} \cap {slot[t], trying[t], prior[t]} \subseteq {0}

LinksTyped ==
  /\ slot \in [Servers -> 0 .. linksMade] /\ trying \in [Servers -> 0 .. linksMade] /\ prior \in [Servers -> 0 .. linksMade]
  /\ linksMade \in 0 .. MaxLinks
  /\ poolEnd \in {"open", "waiting", "closed"}

OpenAreHeld == \A l : l \in openLinks <=> l # 0 /\ \E s \in Servers : l \in {slot[s], trying[s], prior[s]}

ClosedHoldsNone == poolEnd = "closed" => \A s \in Servers : slot[s] = 0 /\ trying[s] = 0 /\ prior[s] = 0

LinksInv == LinksTyped /\ LinksHaveOnePlace /\ OpenAreHeld /\ ClosedHoldsNone

ListsTyped ==
  /\ version \in 0 .. MaxChanges /\ notes \in Nat /\ generation \in Nat /\ shown \in 0 .. version
  /\ refreshes \in [Refreshes -> {"none", "asked", "listed", "over"}]
  /\ listed \in [Refreshes -> 0 .. version]
  /\ wrong \in BOOLEAN

\* Every change is a notification on its way or a refresh; an answer is at least
\* as new as the refresh that asked for it.
AnswersAreNew ==
  /\ notes + generation = version
  /\ \A r \in Refreshes : refreshes[r] = "none" <=> r > generation
  /\ \A r \in Refreshes : refreshes[r] = "listed" => listed[r] >= r

\* When the newest refresh is over, what is shown is as new as it, or wrong.
NewestShown ==
  (generation \in Refreshes => refreshes[generation] = "over") => shown >= generation \/ wrong

ListsInv == ListsTyped /\ AnswersAreNew /\ NewestShown

PoolInv == LinksInv /\ ListsInv

LEMMA PoolInitInv == PoolInit => PoolInv
<1> SUFFICES ASSUME PoolInit PROVE PoolInv
  OBVIOUS
<1> USE McpPoolAssumption DEF PoolInit
<1>1. LinksInv
  BY DEF LinksInv, LinksTyped, LinksHaveOnePlace, OpenAreHeld, ClosedHoldsNone
<1>2. ListsTyped
  <2>1. 0 \in 0 .. MaxChanges /\ 0 \in 0 .. 0 /\ 0 \in Nat
    <3> HIDE DEF PoolInit
    <3> QED OBVIOUS
  <2>2. refreshes \in [Refreshes -> {"none", "asked", "listed", "over"}]
    OBVIOUS
  <2>3. listed \in [Refreshes -> 0 .. version]
    BY <2>1
  <2>4. wrong \in BOOLEAN
    BY Zenon
  <2> QED BY <2>1, <2>2, <2>3, <2>4 DEF ListsTyped
<1>3. AnswersAreNew /\ NewestShown
  BY DEF AnswersAreNew, NewestShown, Refreshes
<1> QED BY <1>1, <1>2, <1>3 DEF PoolInv, ListsInv

LEMMA ReconnectInv == ASSUME LinksInv, NEW s \in Servers, Reconnect(s) PROVE LinksInv'
<1> USE McpPoolAssumption DEF LinksInv
<1>0. /\ poolEnd = "open" /\ linksMade < MaxLinks /\ trying[s] = 0 /\ prior[s] = 0 /\ linksMade' = linksMade + 1
      /\ trying' = [trying EXCEPT ![s] = linksMade + 1] /\ openLinks' = openLinks \cup {linksMade + 1}
      /\ slot' = slot /\ prior' = prior /\ poolEnd' = poolEnd
  BY DEF Reconnect, Working
<1>1. LinksTyped'
  BY <1>0 DEF LinksTyped
<1>2. \A t \in Servers : slot[t] # linksMade + 1 /\ trying[t] # linksMade + 1 /\ prior[t] # linksMade + 1
  BY DEF LinksTyped
<1>3. \A t \in Servers : trying'[t] = IF t = s THEN linksMade + 1 ELSE trying[t]
  BY <1>0 DEF LinksTyped
<1>4. linksMade + 1 # 0
  BY DEF LinksTyped
<1>5. LinksHaveOnePlace'
  BY <1>0, <1>2, <1>3, <1>4 DEF LinksHaveOnePlace
<1>6. OpenAreHeld'
  BY <1>0, <1>2, <1>3, <1>4 DEF OpenAreHeld
<1>7. ClosedHoldsNone'
  BY <1>0 DEF ClosedHoldsNone
<1> QED BY <1>1, <1>5, <1>6, <1>7

\* A connection leaves the place it has, when it fails, was replaced or comes too late.
LEMMA DropInv ==
  ASSUME LinksInv, NEW s \in Servers,
         poolEnd' = poolEnd, linksMade' = linksMade, slot' = slot,
         \/ trying[s] # 0 /\ openLinks' = openLinks \ {trying[s]} /\ trying' = [trying EXCEPT ![s] = 0] /\ prior' = prior
         \/ prior[s] # 0 /\ openLinks' = openLinks \ {prior[s]} /\ prior' = [prior EXCEPT ![s] = 0] /\ trying' = trying
  PROVE  LinksInv'
<1> USE McpPoolAssumption DEF LinksInv
<1>1. LinksTyped'
  BY DEF LinksTyped
<1>2. CASE trying[s] # 0 /\ openLinks' = openLinks \ {trying[s]} /\ trying' = [trying EXCEPT ![s] = 0] /\ prior' = prior
  <2>1. \A t \in Servers : trying'[t] = IF t = s THEN 0 ELSE trying[t]
    BY <1>2 DEF LinksTyped
  <2>2. LinksHaveOnePlace' /\ ClosedHoldsNone'
    <3>1. ASSUME NEW t \in Servers, NEW u \in Servers \ {t}
          PROVE  ({slot[t], trying[t], prior[t]} \cap {slot[u], trying[u], prior[u]} \subseteq {0})'
      <4>1. {slot[t], trying[t], prior[t]} \cap {slot[u], trying[u], prior[u]} \subseteq {0}
        BY DEF LinksHaveOnePlace
      <4> QED BY <1>2, <2>1, <4>1
    <3>2. \A t \in Servers : (trying[t] = 0 \/ prior[t] = 0)' /\ (slot[t] # 0 => slot[t] # trying[t] /\ slot[t] # prior[t])'
      BY <1>2, <2>1 DEF LinksHaveOnePlace
    <3>3. ClosedHoldsNone'
      BY <1>2, <2>1 DEF ClosedHoldsNone
    <3> QED BY <3>1, <3>2, <3>3 DEF LinksHaveOnePlace
  <2>3. \A t \in Servers : trying[s] \notin {slot'[t], trying'[t], prior'[t]}
    BY <1>2, <2>1 DEF LinksHaveOnePlace
  <2>4. \A l : l # trying[s] =>
          ((\E t \in Servers : l \in {slot[t], trying[t], prior[t]}) /\ l # 0
             <=> (\E t \in Servers : l \in {slot'[t], trying'[t], prior'[t]}) /\ l # 0)
    BY <1>2, <2>1
  <2>5. OpenAreHeld'
    BY <1>2, <2>3, <2>4 DEF OpenAreHeld
  <2> QED BY <1>1, <2>2, <2>5
<1>3. CASE prior[s] # 0 /\ openLinks' = openLinks \ {prior[s]} /\ prior' = [prior EXCEPT ![s] = 0] /\ trying' = trying
  <2>1. \A t \in Servers : prior'[t] = IF t = s THEN 0 ELSE prior[t]
    BY <1>3 DEF LinksTyped
  <2>2. LinksHaveOnePlace' /\ ClosedHoldsNone'
    <3>1. ASSUME NEW t \in Servers, NEW u \in Servers \ {t}
          PROVE  ({slot[t], trying[t], prior[t]} \cap {slot[u], trying[u], prior[u]} \subseteq {0})'
      <4>1. {slot[t], trying[t], prior[t]} \cap {slot[u], trying[u], prior[u]} \subseteq {0}
        BY DEF LinksHaveOnePlace
      <4> QED BY <1>3, <2>1, <4>1
    <3>2. \A t \in Servers : (trying[t] = 0 \/ prior[t] = 0)' /\ (slot[t] # 0 => slot[t] # trying[t] /\ slot[t] # prior[t])'
      BY <1>3, <2>1 DEF LinksHaveOnePlace
    <3>3. ClosedHoldsNone'
      BY <1>3, <2>1 DEF ClosedHoldsNone
    <3> QED BY <3>1, <3>2, <3>3 DEF LinksHaveOnePlace
  <2>3. \A t \in Servers : prior[s] \notin {slot'[t], trying'[t], prior'[t]}
    BY <1>3, <2>1 DEF LinksHaveOnePlace
  <2>4. \A l : l # prior[s] =>
          ((\E t \in Servers : l \in {slot[t], trying[t], prior[t]}) /\ l # 0
             <=> (\E t \in Servers : l \in {slot'[t], trying'[t], prior'[t]}) /\ l # 0)
    BY <1>3, <2>1
  <2>5. OpenAreHeld'
    BY <1>3, <2>3, <2>4 DEF OpenAreHeld
  <2> QED BY <1>1, <2>2, <2>5
<1> QED BY <1>2, <1>3

LEMMA ConnectedInv == ASSUME LinksInv, NEW s \in Servers, Connected(s) PROVE LinksInv'
<1> USE McpPoolAssumption
<1>0. trying[s] # 0 /\ trying' = [trying EXCEPT ![s] = 0] /\ linksMade' = linksMade /\ poolEnd' = poolEnd
  BY DEF Connected
<1>1. CASE poolEnd # "open"
  BY <1>0, <1>1, DropInv DEF Connected, TakeOver
<1>2. CASE poolEnd = "open"
  <2>0. slot' = [slot EXCEPT ![s] = trying[s]] /\ prior' = [prior EXCEPT ![s] = slot[s]] /\ openLinks' = openLinks
    BY <1>2 DEF Connected, TakeOver
  <2>1. /\ LinksTyped'
        /\ \A t \in Servers : /\ slot'[t] = IF t = s THEN trying[s] ELSE slot[t]
                              /\ trying'[t] = IF t = s THEN 0 ELSE trying[t]
                              /\ prior'[t] = IF t = s THEN slot[s] ELSE prior[t]
    BY <1>0, <2>0 DEF LinksInv, LinksTyped
  <2>2. prior[s] = 0
    BY <1>0 DEF LinksInv, LinksHaveOnePlace
  <2>3. LinksHaveOnePlace'
    BY <1>0, <2>1, <2>2 DEF LinksInv, LinksHaveOnePlace
  <2>4. OpenAreHeld'
    BY <1>0, <2>0, <2>1, <2>2 DEF LinksInv, OpenAreHeld
  <2>5. ClosedHoldsNone'
    BY <1>0, <1>2 DEF ClosedHoldsNone
  <2> QED BY <2>1, <2>3, <2>4, <2>5 DEF LinksInv
<1> QED BY <1>1, <1>2

\* close() waits for everything that is under way, so that only slots are left.
LEMMA DrainedInv == ASSUME LinksInv, PoolDrained PROVE LinksInv'
<1> USE McpPoolAssumption DEF LinksInv
<1>0. /\ \A s \in Servers : trying[s] = 0 /\ prior[s] = 0
      /\ openLinks' = openLinks \ {slot[s] : s \in Servers} /\ slot' = [s \in Servers |-> 0]
      /\ trying' = trying /\ prior' = prior /\ linksMade' = linksMade /\ poolEnd' = "closed"
  BY DEF PoolDrained, Working, CloseSlots
<1>1. LinksTyped' /\ LinksHaveOnePlace' /\ ClosedHoldsNone'
  BY <1>0 DEF LinksTyped, LinksHaveOnePlace, ClosedHoldsNone
<1>2. OpenAreHeld'
  BY <1>0 DEF OpenAreHeld
<1> QED BY <1>1, <1>2

LEMMA LinksStep ==
  ASSUME PoolInv, [PoolNext]_poolVars PROVE LinksInv'
<1>0. LinksInv
  BY DEF PoolInv
<1>1. CASE UNCHANGED linkVars
  BY <1>0, <1>1 DEF linkVars, LinksInv, LinksTyped, LinksHaveOnePlace, OpenAreHeld, ClosedHoldsNone
<1>2. CASE ClosePool
  BY <1>0, <1>2 DEF ClosePool, LinksInv, LinksTyped, LinksHaveOnePlace, OpenAreHeld, ClosedHoldsNone
<1>3. ASSUME NEW s \in Servers, ConnectFails(s) \/ PriorCloses(s) PROVE LinksInv'
  BY <1>0, <1>3, DropInv DEF ConnectFails, PriorCloses
<1>4. CASE Change \/ Notified \/ (\E r \in Refreshes : Listed(r) \/ Show(r) \/ RefreshFails(r)) \/ UNCHANGED poolVars
  <2>1. UNCHANGED linkVars
    BY <1>4 DEF Change, Notified, Listed, Show, RefreshFails, poolVars
  <2> QED BY <1>1, <2>1
<1> QED BY <1>0, <1>2, <1>3, <1>4, ReconnectInv, ConnectedInv, DrainedInv DEF PoolNext

LEMMA ListsStep ==
  ASSUME PoolInv, [PoolNext]_poolVars PROVE ListsInv'
<1> USE McpPoolAssumption DEF Refreshes
<1>0. ListsTyped /\ AnswersAreNew /\ NewestShown
  BY DEF PoolInv, ListsInv
<1>1. CASE UNCHANGED listVars
  BY <1>0, <1>1 DEF listVars, ListsInv, ListsTyped, AnswersAreNew, NewestShown
<1>2. CASE Change
  <2>1. version' = version + 1 /\ notes' = notes + 1 /\ version < MaxChanges /\ UNCHANGED <<generation, refreshes, listed, shown, wrong>>
    BY <1>2 DEF Change
  <2>2. ListsTyped'
    BY <1>0, <2>1 DEF ListsTyped
  <2>3. AnswersAreNew' /\ NewestShown'
    BY <1>0, <2>1 DEF ListsTyped, AnswersAreNew, NewestShown
  <2> QED BY <2>2, <2>3 DEF ListsInv
<1>3. CASE Notified
  <2>1. /\ notes > 0 /\ notes' = notes - 1 /\ generation' = generation + 1
        /\ refreshes' = [refreshes EXCEPT ![generation + 1] = "asked"] /\ UNCHANGED <<version, listed, shown, wrong>>
    BY <1>3 DEF Notified
  <2>2. generation + 1 \in Refreshes
    BY <1>0, <2>1 DEF ListsTyped, AnswersAreNew
  <2>3. ListsTyped'
    BY <1>0, <2>1, <2>2 DEF ListsTyped
  <2>4. AnswersAreNew'
    BY <1>0, <2>1, <2>2 DEF ListsTyped, AnswersAreNew
  <2>5. NewestShown'
    BY <1>0, <2>1, <2>2 DEF ListsTyped, NewestShown
  <2> QED BY <2>3, <2>4, <2>5 DEF ListsInv
<1>4. ASSUME NEW r \in Refreshes, Listed(r) PROVE ListsInv'
  <2>1. /\ refreshes[r] = "asked" /\ refreshes' = [refreshes EXCEPT ![r] = "listed"] /\ listed' = [listed EXCEPT ![r] = version]
        /\ UNCHANGED <<version, notes, generation, shown, wrong>>
    BY <1>4 DEF Listed
  <2>2. ListsTyped' /\ r <= version
    BY <1>0, <2>1 DEF ListsTyped, AnswersAreNew
  <2>3. AnswersAreNew'
    BY <1>0, <2>1, <2>2 DEF ListsTyped, AnswersAreNew
  <2>4. NewestShown'
    BY <1>0, <2>1, <2>2 DEF ListsTyped, NewestShown
  <2> QED BY <2>2, <2>3, <2>4 DEF ListsInv
<1>5. ASSUME NEW r \in Refreshes, Show(r) PROVE ListsInv'
  <2>1. /\ refreshes[r] = "listed" /\ refreshes' = [refreshes EXCEPT ![r] = "over"]
        /\ UNCHANGED <<version, notes, generation, listed>>
        /\ \/ r = generation /\ shown' = listed[r] /\ wrong' = FALSE
           \/ r # generation /\ shown' = shown /\ wrong' = wrong
    BY <1>5 DEF Show, MayShow
  <2>2. ListsTyped'
    BY <1>0, <2>1 DEF ListsTyped
  <2>3. AnswersAreNew'
    BY <1>0, <2>1 DEF ListsTyped, AnswersAreNew
  <2>4. NewestShown'
    BY <1>0, <2>1 DEF ListsTyped, AnswersAreNew, NewestShown
  <2> QED BY <2>2, <2>3, <2>4 DEF ListsInv
<1>6. ASSUME NEW r \in Refreshes, RefreshFails(r) PROVE ListsInv'
  <2>1. /\ refreshes[r] \in {"asked", "listed"} /\ refreshes' = [refreshes EXCEPT ![r] = "over"] /\ wrong' = TRUE
        /\ UNCHANGED <<version, notes, generation, listed, shown>>
    BY <1>6 DEF RefreshFails
  <2>2. ListsTyped' /\ NewestShown'
    BY <1>0, <2>1 DEF ListsTyped, NewestShown
  <2>3. AnswersAreNew'
    BY <1>0, <2>1 DEF ListsTyped, AnswersAreNew
  <2> QED BY <2>2, <2>3 DEF ListsInv
<1>7. CASE \/ \E s \in Servers : Reconnect(s) \/ Connected(s) \/ ConnectFails(s) \/ PriorCloses(s)
           \/ ClosePool \/ PoolDrained \/ UNCHANGED poolVars
  <2>1. UNCHANGED listVars
    BY <1>7 DEF Reconnect, Connected, ConnectFails, PriorCloses, ClosePool, PoolDrained, CloseSlots, poolVars
  <2> QED BY <1>1, <2>1
<1> QED BY <1>2, <1>3, <1>4, <1>5, <1>6, <1>7 DEF PoolNext

\* The invariant of the pool, for every number of servers, connections and changes.
THEOREM PoolInvariant == PoolSpec => []PoolInv
<1>1. PoolInv /\ [PoolNext]_poolVars => PoolInv'
  BY LinksStep, ListsStep DEF PoolInv
<1> QED BY PoolInitInv, <1>1, PTL DEF PoolSpec

LEMMA InvPoolSafe == PoolInv => PoolSafety
<1> SUFFICES ASSUME PoolInv PROVE PoolSafety
  OBVIOUS
<1> USE McpPoolAssumption DEF PoolInv, LinksInv, ListsInv
<1>1. NoLinkLeaks
  <2> DEFINE places(s) == {slot[s], trying[s], prior[s]}
             held == UNION {places(s) : s \in Servers}
  <2>a. \A l : l \in openLinks <=> l # 0 /\ \E s \in Servers : l \in places(s)
    BY DEF OpenAreHeld
  <2> HIDE DEF places
  <2>b. \A l : l \in held <=> \E s \in Servers : l \in places(s)
    OBVIOUS
  <2> HIDE DEF held
  <2>c. openLinks = held \ {0}
    BY <2>a, <2>b
  <2>1. openLinks = (UNION {{slot[s], trying[s], prior[s]} : s \in Servers}) \ {0}
    BY <2>c DEF held, places
  <2>2. poolEnd = "closed" => openLinks = {}
    BY DEF ClosedHoldsNone, OpenAreHeld
  <2> QED BY <2>1, <2>2 DEF NoLinkLeaks
<1>2. CatalogConverges
  BY DEF CatalogConverges, ListsTyped, AnswersAreNew, NewestShown, Refreshes
<1>3. PoolTypeOK
  <2>1. openLinks \subseteq 1 .. linksMade
    BY DEF OpenAreHeld, LinksTyped
  <2>2. {version, notes, generation, shown} \subseteq 0 .. MaxChanges
    BY DEF ListsTyped, AnswersAreNew
  <2> QED BY <2>1, <2>2 DEF PoolTypeOK, LinksTyped
<1> QED BY <1>1, <1>2, <1>3 DEF PoolSafety

\* No connection is lost when one is replaced, fails or comes too late, none is
\* open when close() has returned, and the list shown in the end is the server's.
THEOREM PoolIsSafe == PoolSpec => []PoolSafety
<1> QED BY PoolInvariant, InvPoolSafe, PTL
=============================================================================
