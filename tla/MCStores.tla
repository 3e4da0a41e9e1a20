------------------------------ MODULE MCStores ------------------------------
(***************************************************************************)
(* The parts whose writers must agree on what a file, a lease, a catalog,   *)
(* the books, a transcript or the tickets of a thread say, side by side.    *)
(* They share no state: a behaviour picks one of them and lets the others   *)
(* rest.  No fair action of a part is enabled in its initial state, so that *)
(* resting is fair to it.                                                   *)
(***************************************************************************)
EXTENDS ScheduleStore, TeamLease, McpPool, RunCharges, AgentLoop, Collaboration, NoticeOutbox, TLC

CONSTANTS j1, m1, m2, w1, w2, mate, v1, v2, c1, c2, c3, c4, r1, s1, s2, f1, a1, x1, z1

\* How a reply may end.
How(reason, calls, text) == [reason |-> reason, calls |-> calls, text |-> text]
SomeReplies ==
  {How("tool-use", 2, FALSE), How("tool-use", 0, TRUE), How("max-tokens", 1, TRUE), How("stop", 0, TRUE)}

\* What may be written to a source: two runs and a follow-up that may belong to
\* either, or one run and something about it.
Written == {<<s1, s2, f1>>, <<r1, f1>>, <<r1, a1>>, <<r1, x1>>, <<r1, z1>>}
Meant == [e \in {r1, s1, s2, f1, a1, x1, z1} |->
  CASE e \in {r1, s1, s2} -> "run" [] e = f1 -> "followup" [] e = a1 -> "answer" [] e = x1 -> "cancel" [] e = z1 -> "resume"]
Named == [e \in DOMAIN Meant |-> IF e \in {a1, x1, z1} THEN r1 ELSE NoEvent]

\* Two notices of one thread, the first a question.
SomeRows == 1 .. 2
SomeThreads == <<"one", "one">>

VARIABLE part

storesVars == <<part, scheduleVars, leaseVars, poolVars, chargeVars, loopVars, collabVars, noticeVars>>

StoresInit ==
  /\ part \in {"schedule", "lease", "pool", "charges", "loop", "intake", "notices"}
  /\ ScheduleInit /\ LeaseInit /\ PoolInit /\ ChargesInit /\ LoopInit
  /\ CollabInit /\ NoticeInit
  /\ part # "intake" => feed = <<r1, f1>>

On(name) == part = name /\ UNCHANGED part

StoresNext ==
  \/ On("schedule") /\ ScheduleNext
       /\ UNCHANGED <<leaseVars, poolVars, chargeVars, loopVars, collabVars, noticeVars>>
  \/ On("lease") /\ LeaseNext
       /\ UNCHANGED <<scheduleVars, poolVars, chargeVars, loopVars, collabVars, noticeVars>>
  \/ On("pool") /\ PoolNext
       /\ UNCHANGED <<scheduleVars, leaseVars, chargeVars, loopVars, collabVars, noticeVars>>
  \/ On("charges") /\ ChargesNext
       /\ UNCHANGED <<scheduleVars, leaseVars, poolVars, loopVars, collabVars, noticeVars>>
  \/ On("loop") /\ LoopNext
       /\ UNCHANGED <<scheduleVars, leaseVars, poolVars, chargeVars, collabVars, noticeVars>>
  \/ On("intake") /\ CollabNext
       /\ UNCHANGED <<scheduleVars, leaseVars, poolVars, chargeVars, loopVars, noticeVars>>
  \/ On("notices") /\ NoticeNext
       /\ UNCHANGED <<scheduleVars, leaseVars, poolVars, chargeVars, loopVars, collabVars>>

StoresSpec == StoresInit /\ [][StoresNext]_storesVars /\ LoopFairness /\ CollabFairness /\ NoticeFairness

\* A run of the loop ends, an ended task is reported, a notice is tried.
StoresMoveOn == LoopEnds /\ ResultsAreSaid /\ NoticesGoOut
=============================================================================
