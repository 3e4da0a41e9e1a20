----------------------------- MODULE Collaboration -----------------------------
(***************************************************************************)
(* Work that arrives from outside and the answers that go back,             *)
(*   src/src/services/collaboration/engine.ts  CollaborationEngine,         *)
(*   src/src/services/collaboration/runtime-service.ts                      *)
(*   src/src/services/collaboration/host.ts    CollaborationHost            *)
(* One source and one thread.  Events become commands to the runtime, runs  *)
(* become tickets, and what there is to say goes through an outbox.  Events,*)
(* runs, tickets and notices are rows of one database; the rest is lost     *)
(* when the host dies.                                                      *)
(***************************************************************************)
EXTENDS Integers, Sequences, FiniteSets, SequencesExt

CONSTANTS
  Feeds,          \* what people may write, in order
  ActionOf,       \* [events -> {"run", "followup", "answer", "pause", "resume", "cancel"}]
  TargetOf,       \* [events -> the event whose ticket an action names, or NoEvent]
  Lively,         \* bound: the runs that ask, end and are controlled by hand
  MaxHostStops,   \* bound: crashes and closings of the host
  MaxHandwork,    \* bound: what the operator and the local user do
  Hooked          \* bound: the events that are also delivered by webhook

Incoming == DOMAIN ActionOf
NoEvent == "none"
RunEvents == {e \in Incoming : ActionOf[e] = "run"}
Controls == {e \in Incoming : ActionOf[e] \in {"pause", "resume", "cancel"}}

\* Each run has a note of its acceptance, of its question and of its result; an
\* event may have a note that it needs a decision, or could not be executed.
Notices == RunEvents \X {"accepted", "question", "result"} \cup Incoming \X {"clarify", "blocked"}

ASSUME CollaborationAssumption ==
  /\ \A f \in Feeds : f \in Seq(Incoming) /\ IsInjective(f)
  /\ ActionOf \in [DOMAIN ActionOf -> {"run", "followup", "answer", "pause", "resume", "cancel"}]
  /\ TargetOf \in [Incoming -> RunEvents \cup {NoEvent}]
  /\ NoEvent \notin Incoming
  /\ {MaxHostStops, MaxHandwork} \subseteq Nat

VARIABLES
  host,       \* "up", "closing", "down"
  feed,       \* what is written
  cursor,     \* the watermark on disk
  poll,       \* next event of the scan in flight and its end, or <<0, 0>>
  reading,    \* reader -> the event whose admission it awaits, or NoEvent
  admitted,   \* events with an admission record
  event,      \* state of the stored events
  target,     \* the ticket a stored action names
  prepared,   \* revision a control was pinned to, -1 when it was not
  executing,      \* event that is executed and where, or Nothing
  receipt,    \* the runtime's receipt for the command of an event
  applied,    \* history: how often the command changed the runtime
  aimed,      \* history: revision at the first attempt of a control
  run, rev, question,   \* the runtime's run of an event
  ticket,     \* its ticket
  told,       \* notices that were enqueued; what becomes of them is NoticeOutbox
  halts, handwork, hooks

collabVars == <<host, feed, cursor, poll, reading, admitted, event, target, prepared, executing, receipt, applied,
                aimed, run, rev, question, ticket, told, halts, handwork, hooks>>
intakeVars == <<feed, cursor, poll, reading, admitted, hooks>>
eventVars == <<event, target, prepared, aimed>>
runtimeVars == <<receipt, applied, run, rev, question>>
lifeVars == <<host, halts, handwork>>

Readers == {"poll", "hook"}
Nothing == <<NoEvent, "none">>

CollabInit ==
  /\ feed \in Feeds
  /\ host = "down" /\ cursor = 0 /\ poll = <<0, 0>>
  /\ reading = [o \in Readers |-> NoEvent] /\ admitted = {}
  /\ event = [e \in Incoming |-> "none"] /\ target = [e \in Incoming |-> NoEvent]
  /\ prepared = [e \in Incoming |-> -1] /\ aimed = [e \in Incoming |-> -1]
  /\ executing = Nothing
  /\ receipt = [e \in Incoming |-> "none"] /\ applied = [e \in Incoming |-> 0]
  /\ run = [r \in RunEvents |-> "none"] /\ rev = [r \in RunEvents |-> 0] /\ question = [r \in RunEvents |-> "none"]
  /\ ticket = [r \in RunEvents |-> "none"]
  /\ told = {}
  /\ halts = 0 /\ handwork = 0 /\ hooks = {}

\* enqueue: a notice is written once, whatever asks for it again.
Tell(N) == told' = told \cup N

-----------------------------------------------------------------------------
(* Intake *)

\* pollSources: one scan at a time, from the watermark on disk to what is there.
PollBegin ==
  /\ host = "up" /\ poll = <<0, 0>>
  /\ \E n \in cursor + 1 .. Len(feed) : poll' = <<cursor + 1, n>>
  /\ UNCHANGED <<feed, cursor, reading, admitted, hooks, eventVars, executing, runtimeVars, ticket, told, lifeVars>>

\* ingest and admit, up to the await: what is known is not admitted again.
Admit(o, e) ==
  /\ reading[o] = NoEvent
  /\ reading' = [reading EXCEPT ![o] = e]
  /\ admitted' = admitted \cup {e}

PollAdmits ==
  /\ host = "up" /\ poll[1] \in 1 .. poll[2]
  /\ Admit("poll", feed[poll[1]])
  /\ UNCHANGED <<feed, cursor, poll, hooks, eventVars, executing, runtimeVars, ticket, told, lifeVars>>

\* The bridge may deliver an event again, and beside a scan.
HookAdmits(e) ==
  /\ host = "up" /\ e \in (Hooked \cap ToSet(feed)) \ hooks
  /\ Admit("hook", e)
  /\ hooks' = hooks \cup {e}
  /\ UNCHANGED <<feed, cursor, poll, eventVars, executing, runtimeVars, ticket, told, lifeVars>>

Tickets == {r \in RunEvents : ticket[r] # "none"}

\* A follow-up that names no ticket belongs to the only one of its thread.
Verdict(e) ==
  IF ActionOf[e] # "followup" \/ TargetOf[e] # NoEvent THEN "pending"
  ELSE CASE Tickets = {} -> "ignored" [] Cardinality(Tickets) = 1 -> "pending" [] OTHER -> "clarify"

\* After the await: the event is stored unless another reader was faster.
Store(o) ==
  LET e == reading[o] IN
  /\ e # NoEvent
  /\ IF event[e] # "none" THEN UNCHANGED <<event, target, told>>
     ELSE /\ event' = [event EXCEPT ![e] = Verdict(e)]
          /\ target' = [target EXCEPT ![e] =
               IF TargetOf[e] = NoEvent /\ Cardinality(Tickets) = 1 THEN CHOOSE r \in Tickets : TRUE ELSE TargetOf[e]]
          /\ Tell(IF Verdict(e) = "clarify" THEN {<<e, "clarify">>} ELSE {})
  /\ reading' = [reading EXCEPT ![o] = NoEvent]
  /\ poll' = IF o = "poll" THEN <<poll[1] + 1, poll[2]>> ELSE poll
  /\ UNCHANGED <<feed, cursor, admitted, hooks, prepared, aimed, executing, runtimeVars, ticket, lifeVars>>

\* The watermark is written after the last page of the scan, unless it is stopped.
PollEnds ==
  \/ /\ host = "up" /\ poll # <<0, 0>> /\ poll[1] > poll[2] /\ reading["poll"] = NoEvent
     /\ cursor' = poll[2] /\ poll' = <<0, 0>>
     /\ UNCHANGED <<feed, reading, admitted, hooks, eventVars, executing, runtimeVars, ticket, told, lifeVars>>
  \/ /\ host = "closing" /\ poll # <<0, 0>> /\ reading["poll"] = NoEvent
     /\ poll' = <<0, 0>>
     /\ UNCHANGED <<feed, cursor, reading, admitted, hooks, eventVars, executing, runtimeVars, ticket, told, lifeVars>>

-----------------------------------------------------------------------------
(* Execution of a stored event: process and execute *)

At(e, step) == executing = <<e, step>>

Begin(e) ==
  /\ host = "up" /\ executing = Nothing /\ event[e] = "pending"
  /\ executing' = <<e, IF e \in RunEvents THEN "create" ELSE "apply">>
  /\ UNCHANGED <<intakeVars, eventVars, runtimeVars, ticket, told, lifeVars>>

\* Mutant: the command of an event has an identity of its own each time.
FreshEach(e) == TRUE

Unreceipted(e) == receipt[e] = "none"

\* create: the run of a receipt is taken, else the run is submitted.
Submit(e) ==
  /\ At(e, "create")
  /\ IF Unreceipted(e)
     THEN /\ receipt' = [receipt EXCEPT ![e] = "done"]
          /\ applied' = [applied EXCEPT ![e] = @ + 1]
          /\ run' = [run EXCEPT ![e] = "active"]
     ELSE UNCHANGED <<receipt, applied, run>>
  /\ executing' = <<e, "link">>
  /\ UNCHANGED <<intakeVars, eventVars, rev, question, ticket, told, lifeVars>>

\* Ticket, event and notice are one transaction.
Link(e) ==
  /\ At(e, "link")
  /\ ticket' = [ticket EXCEPT ![e] = IF @ = "none" THEN "watching" ELSE @]
  /\ event' = [event EXCEPT ![e] = "processed"]
  /\ Tell({<<e, "accepted">>})
  /\ executing' = Nothing
  /\ UNCHANGED <<intakeVars, target, prepared, aimed, runtimeVars, lifeVars>>

\* Mutant: every attempt is pinned to the revision of its day.
PinnedAgain(e) == rev[target[e]]

Pinned(e) == IF prepared[e] = -1 THEN rev[target[e]] ELSE prepared[e]

\* Whether the runtime takes the command of an event now.
Takes(e) ==
  LET r == target[e] IN
  CASE ActionOf[e] = "followup" -> run[r] \in {"active", "paused"}
    [] ActionOf[e] = "answer" -> question[r] = "open"
    [] ActionOf[e] = "pause" -> rev[r] = Pinned(e) /\ run[r] \in {"active", "paused"}
    [] ActionOf[e] = "resume" -> rev[r] = Pinned(e) /\ run[r] = "paused"
    [] ActionOf[e] = "cancel" -> rev[r] = Pinned(e) /\ run[r] # "ended"

\* What the command does to the run; a pause of a paused run changes nothing.
Changed(e) ==
  CASE ActionOf[e] = "pause" -> "paused" [] ActionOf[e] = "resume" -> "active" [] ActionOf[e] = "cancel" -> "cancelling"
    [] OTHER -> run[target[e]]

Command(e) ==
  LET r == target[e] IN
  /\ receipt' = [receipt EXCEPT ![e] = "done"]
  /\ applied' = [applied EXCEPT ![e] = @ + 1]
  /\ run' = [run EXCEPT ![r] = Changed(e)]
  /\ rev' = [rev EXCEPT ![r] = IF Changed(e) # run[r] THEN @ + 1 ELSE @]
  /\ question' = [question EXCEPT ![r] = IF ActionOf[e] = "answer" THEN "closed" ELSE @]

Pin(e) ==
  /\ prepared' = IF e \in Controls THEN [prepared EXCEPT ![e] = Pinned(e)] ELSE prepared
  /\ aimed' = IF e \in Controls /\ aimed[e] = -1 THEN [aimed EXCEPT ![e] = rev[target[e]]] ELSE aimed

Targeted(e) == target[e] # NoEvent /\ ticket[target[e]] # "none"

\* apply: a receipt is taken, else the revision is pinned and the command given.
Apply(e) ==
  /\ At(e, "apply") /\ Targeted(e)
  /\ IF ~Unreceipted(e) /\ receipt[e] = "done"
     THEN UNCHANGED <<runtimeVars, prepared, aimed>>
     ELSE Takes(e) /\ Unreceipted(e) /\ Pin(e) /\ Command(e)
  /\ executing' = <<e, "mark">>
  /\ UNCHANGED <<intakeVars, event, target, ticket, told, lifeVars>>

\* resume awaits the recovery of the run between its pin and its command.
PinResume(e) ==
  /\ At(e, "apply") /\ Targeted(e) /\ ActionOf[e] = "resume" /\ prepared[e] = -1
  /\ Pin(e)
  /\ UNCHANGED <<intakeVars, event, target, executing, runtimeVars, ticket, told, lifeVars>>

Mark(e) ==
  /\ At(e, "mark")
  /\ event' = [event EXCEPT ![e] = "processed"]
  /\ executing' = Nothing
  /\ UNCHANGED <<intakeVars, target, prepared, aimed, runtimeVars, ticket, told, lifeVars>>

\* The ticket is unknown, the revision has moved, the runtime refuses: the event
\* is blocked with a notice, unless the host is closing.  The router's refusal of
\* a follow-up has a receipt, so that a retry meets it again.
Blocked(e) ==
  /\ executing[1] = e
  /\ \/ At(e, "create") /\ Unreceipted(e)
     \/ At(e, "apply") /\ ~Targeted(e)
     \/ At(e, "apply") /\ Targeted(e) /\ receipt[e] # "done" /\ (~Takes(e) \/ receipt[e] = "refused")
  /\ IF At(e, "apply") /\ Targeted(e)
     THEN /\ Pin(e)
          /\ receipt' = [receipt EXCEPT ![e] = IF ActionOf[e] = "followup" THEN "refused" ELSE @]
     ELSE UNCHANGED <<prepared, aimed, receipt>>
  /\ IF host = "closing" THEN UNCHANGED <<event, told>>
     ELSE event' = [event EXCEPT ![e] = "blocked"] /\ Tell({<<e, "blocked">>})
  /\ executing' = Nothing
  /\ UNCHANGED <<intakeVars, target, applied, run, rev, question, ticket, lifeVars>>

\* Mutant: the ticket is settled first, and its notices are left to a later pass.
SettledFirst(r) ==
  /\ host = "up" /\ executing = Nothing /\ ticket[r] = "watching"
  /\ IF run[r] = "ended" THEN ticket' = [ticket EXCEPT ![r] = "settled"] /\ UNCHANGED told
     ELSE question[r] = "open" /\ Tell({<<r, "question">>}) /\ UNCHANGED ticket
  /\ UNCHANGED <<intakeVars, eventVars, executing, runtimeVars, lifeVars>>

\* project: the business facts and their notices in one transaction.
Project(r) ==
  /\ host = "up" /\ executing = Nothing /\ ticket[r] = "watching"
  /\ LET ended == run[r] = "ended"
         news == (IF question[r] = "open" THEN {<<r, "question">>} ELSE {})
                   \cup (IF ended THEN {<<r, "result">>} ELSE {}) IN
     /\ news \ told # {}
     /\ ticket' = [ticket EXCEPT ![r] = IF ended THEN "settled" ELSE @]
     /\ Tell(news)
  /\ UNCHANGED <<intakeVars, eventVars, executing, runtimeVars, lifeVars>>

-----------------------------------------------------------------------------
(* The host, the runtime and the people *)

HostStarts ==
  /\ host = "down" /\ host' = "up"
  /\ UNCHANGED <<intakeVars, eventVars, executing, runtimeVars, ticket, told, halts, handwork>>

HostCloses ==
  /\ host = "up" /\ halts < MaxHostStops
  /\ host' = "closing" /\ halts' = halts + 1
  /\ UNCHANGED <<intakeVars, eventVars, executing, runtimeVars, ticket, told, handwork>>

\* close() waits for the pass, the scan and the deliveries.
HostClosed ==
  /\ host = "closing" /\ executing = Nothing /\ poll = <<0, 0>>
  /\ \A o \in Readers : reading[o] = NoEvent
  /\ host' = "down"
  /\ UNCHANGED <<intakeVars, eventVars, executing, runtimeVars, ticket, told, halts, handwork>>

\* Between the pin of a control and its command there is nothing but a crash.
HostDies ==
  /\ host # "down" /\ halts < MaxHostStops
  /\ host' = "down" /\ halts' = halts + 1
  /\ \/ UNCHANGED <<prepared, aimed>>
     \/ \E e \in Controls : At(e, "apply") /\ Targeted(e) /\ Pin(e)
  /\ executing' = Nothing /\ poll' = <<0, 0>>
  /\ reading' = [o \in Readers |-> NoEvent]
  /\ UNCHANGED <<feed, cursor, admitted, hooks, event, target, runtimeVars, ticket, told, handwork>>

\* The run goes on by itself, and its user controls it on the machine.
RunMoves(r) ==
  /\ r \in Lively
  /\ \/ /\ run[r] \in {"active", "cancelling"}
        /\ run' = [run EXCEPT ![r] = "ended"]
        /\ question' = [question EXCEPT ![r] = IF @ = "open" THEN "closed" ELSE @]
        /\ UNCHANGED handwork
     \/ /\ run[r] = "active" /\ question[r] = "none"
        /\ question' = [question EXCEPT ![r] = "open"] /\ UNCHANGED <<run, handwork>>
     \/ /\ run[r] \in {"active", "paused"} /\ handwork < MaxHandwork
        /\ run' = [run EXCEPT ![r] = IF @ = "active" THEN "paused" ELSE "active"]
        /\ handwork' = handwork + 1 /\ UNCHANGED question
  /\ rev' = [rev EXCEPT ![r] = IF run'[r] # run[r] THEN @ + 1 ELSE @]
  /\ UNCHANGED <<intakeVars, eventVars, executing, receipt, applied, ticket, told, host, halts>>

\* retryEvent and resolveEvent
Reopen(e) ==
  /\ host = "up" /\ handwork < MaxHandwork /\ handwork' = handwork + 1
  /\ \/ event[e] = "blocked" /\ UNCHANGED target
     \/ event[e] = "clarify" /\ \E r \in Tickets : target' = [target EXCEPT ![e] = r]
  /\ event' = [event EXCEPT ![e] = "pending"]
  /\ UNCHANGED <<intakeVars, prepared, aimed, executing, runtimeVars, ticket, told, host, halts>>

CollabNext ==
  \/ PollBegin \/ PollAdmits \/ PollEnds
  \/ \E e \in Incoming :
       \/ HookAdmits(e) \/ Begin(e) \/ Apply(e) \/ PinResume(e) \/ Mark(e) \/ Blocked(e) \/ Reopen(e)
  \/ \E o \in Readers : Store(o)
  \/ \E r \in RunEvents : Submit(r) \/ Link(r) \/ Project(r) \/ RunMoves(r)
  \/ HostStarts \/ HostCloses \/ HostClosed \/ HostDies

CollabSpec == CollabInit /\ [][CollabNext]_collabVars

\* A pass ends what it executes, and then projects.
CollabFairness ==
  /\ WF_collabVars(\E e \in Incoming :
       Apply(e) \/ Mark(e) \/ Blocked(e) \/ (e \in RunEvents /\ (Submit(e) \/ Link(e))))
  /\ \A r \in RunEvents : WF_collabVars(Project(r))

-----------------------------------------------------------------------------
CollabTypeOK ==
  /\ cursor <= Len(feed)
  /\ \A e \in Incoming : event[e] \in {"none", "pending", "ignored", "clarify", "processed", "blocked"}
  /\ \A e \in Incoming : event[e] # "none" => e \in admitted
  /\ told \subseteq Notices

\* An event takes effect at most once, however often it is delivered, executed
\* again after a crash or retried, and it counts as processed when it did.
EventsApplyOnce ==
  \A e \in Incoming : applied[e] <= 1 /\ (event[e] = "processed" => applied[e] = 1)

\* A run that was begun for somebody has a ticket, or an event that will link it.
RunsHaveTickets ==
  \A r \in RunEvents : run[r] # "none" => ticket[r] # "none" \/ event[r] \in {"pending", "blocked"}

\* A control changes the run only in the state in which it was first tried: one
\* that was overtaken by the run or by another user is not forced through.
ControlsHitWhatTheySaw ==
  [][\A e \in Controls : applied'[e] > applied[e] => aimed'[e] = rev[target[e]]]_collabVars

\* What is before the watermark is stored: no crash or stop in a scan skips it.
WatermarkCovers == \A i \in 1 .. cursor : event[feed[i]] # "none"

\* What is sent to the host is stored, applied once, and answered for.
IntakeSafety == CollabTypeOK /\ EventsApplyOnce /\ RunsHaveTickets /\ WatermarkCovers

\* The result of a run with a ticket is enqueued for its thread.
ResultsAreSaid ==
  \A r \in Lively : run[r] = "ended" /\ ticket[r] # "none" ~> <<r, "result">> \in told \/ host # "up"
=============================================================================
