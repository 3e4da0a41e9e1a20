------------------------------ MODULE CallJournal ------------------------------
(***************************************************************************)
(* The durable journal of tool calls, driven by the tool runtime, for the   *)
(* calls of one assistant message of one task:                               *)
(*   src/src/services/runtime/journal.ts      intend, dispatch, settle,      *)
(*       lookup, unresolved, recover, reconcile                              *)
(*   src/src/core/tool-runtime.ts             executeTool                    *)
(*   src/src/services/runtime/engine-core.ts  #recover, #block, reconcile    *)
(*                                                                           *)
(* Every call has a database record and an fsynced file; each is reduced to  *)
(* its last state, where "confirmed", "not_applied" and "unknown" are the    *)
(* three ways to be settled.  A worker runs the calls in order and may die    *)
(* between any two writes; an append that was torn did not happen (readers    *)
(* and the next append drop it).  The operator may pause, resume, and vouch   *)
(* for a call whose outcome is unknown.                                       *)
(***************************************************************************)
EXTENDS Integers, FiniteSets

CONSTANTS
  N,            \* calls of the message, in order
  Safe,         \* calls recorded with replay = "safe"
  MaxCrashes,   \* bound: deaths of the process
  MaxPauses     \* bound: losses of authority while it lives

Calls == 1 .. N

ASSUME JournalAssumption ==
  /\ N \in Nat \ {0}
  /\ Safe \subseteq Calls
  /\ MaxCrashes \in Nat
  /\ MaxPauses \in Nat

VARIABLES
  db,        \* state in the operation record, "none" when there is no record
  file,      \* state of the last line of the call's file
  corrupt,   \* calls whose file holds an illegal transition
  applied,   \* effects of each call on the outside world
  live,      \* assertLive: the run is active and the attempt is current
  pc,        \* what the process is doing
  call,      \* the call the worker is at
  result,    \* the results the worker holds in memory
  delivered, \* the tool-result message is in the transcript
  recon,     \* the call an operator reconciles, 0 for none
  reconStep, \* how far that is: its append, then its mirror
  vouched,   \* history: calls settled by the operator
  crashes, pauses

vars == <<db, file, corrupt, applied, live, pc, call, result, delivered, recon, reconStep, vouched, crashes, pauses>>
store == <<db, file, corrupt>>
operator == <<recon, reconStep, vouched>>
bounds == <<crashes, pauses>>

Settled == {"confirmed", "not_applied", "unknown"}
States == {"none", "intended", "dispatched"} \cup Settled

Rank(s) == CASE s = "none" -> 0 [] s = "intended" -> 1 [] s = "dispatched" -> 2 [] OTHER -> 3

\* What lookup answers: the file decides, the record only before its first line.
View(c) == IF file[c] = "none" THEN db[c] ELSE file[c]

\* lookup refuses evidence that is illegal, missing or behind the record.
LookupFails(c) == c \in corrupt \/ (Rank(file[c]) < Rank(db[c]) /\ db[c] # "intended")

\* Mutant: a call found dispatched is taken to be harmless.
UncertainSettledOnly(c) == View(c) = "unknown"

\* Mutant: a settled call is never in doubt.
UncertainDispatchedOnly(c) == View(c) = "dispatched" /\ c \notin Safe

\* dispatch and recover refuse to go past these.
Uncertain(c) == View(c) = "unknown" \/ (View(c) = "dispatched" /\ c \notin Safe)

\* unresolved() looks up every record that is not settled with a known outcome.
Consulted == {c \in Calls : db[c] \notin {"none", "confirmed", "not_applied"}}
Unresolved == {c \in Consulted : Uncertain(c)}

Init ==
  /\ db = [c \in Calls |-> "none"]
  /\ file = [c \in Calls |-> "none"]
  /\ corrupt = {}
  /\ applied = [c \in Calls |-> 0]
  /\ live = TRUE
  /\ pc = "idle"
  /\ call = 1
  /\ result = [c \in Calls |-> "none"]
  /\ delivered = FALSE
  /\ recon = 0
  /\ reconStep = "none"
  /\ vouched = {}
  /\ crashes = 0
  /\ pauses = 0

-----------------------------------------------------------------------------
(* The worker.                                                               *)

Go(p) == pc' = p /\ UNCHANGED call

NextCall == call' = call + 1

\* The attempt of a ready task in an active run starts.
Launch ==
  /\ pc = "idle" /\ live /\ ~delivered
  /\ pc' = "check" /\ call' = 1
  /\ result' = [c \in Calls |-> "none"]
  /\ UNCHANGED <<store, applied, live, delivered, operator, bounds>>

\* recover, first pass: every pending effect is checked before anything runs.
Check ==
  /\ pc = "check" /\ call \in Calls
  /\ IF db[call] = "none" THEN NextCall /\ UNCHANGED <<db, pc>>
     ELSE IF LookupFails(call) THEN Go("blocked") /\ UNCHANGED db
     ELSE /\ db' = [db EXCEPT ![call] = View(call)]
          /\ IF Uncertain(call) THEN Go("blocked") ELSE NextCall /\ UNCHANGED pc
  /\ UNCHANGED <<file, corrupt, applied, live, result, delivered, operator, bounds>>

Checked ==
  /\ pc = "check" /\ call = N + 1
  /\ pc' = "run" /\ call' = 1
  /\ UNCHANGED <<store, applied, live, result, delivered, operator, bounds>>

\* recover, second pass: a settled call is answered from its record.
Reuse ==
  /\ pc = "run" /\ call \in Calls
  /\ db[call] # "none" /\ ~LookupFails(call) /\ View(call) \in Settled
  /\ db' = [db EXCEPT ![call] = View(call)]
  /\ result' = [result EXCEPT ![call] = IF View(call) = "confirmed" THEN "ok" ELSE "error"]
  /\ NextCall
  /\ UNCHANGED <<file, corrupt, applied, live, pc, delivered, operator, bounds>>

\* A call that is not settled goes to executeTool.
Pending == pc = "run" /\ call \in Calls /\ (db[call] = "none" \/ LookupFails(call) \/ View(call) \notin Settled)

\* Denied, invalid or aborted before the journal is asked.
Refuse ==
  /\ Pending /\ ~LookupFails(call)
  /\ result' = [result EXCEPT ![call] = "error"]
  /\ NextCall
  /\ UNCHANGED <<store, applied, live, pc, delivered, operator, bounds>>

\* intend: authority, then the record.
Intend ==
  /\ Pending
  /\ IF live /\ ~LookupFails(call)
     THEN /\ db' = [db EXCEPT ![call] = IF @ = "none" THEN "intended" ELSE View(call)]
          /\ Go("intendFile")
     ELSE Go("blocked") /\ UNCHANGED db
  /\ UNCHANGED <<file, corrupt, applied, live, result, delivered, operator, bounds>>

IntendFile ==
  /\ pc = "intendFile"
  /\ file' = [file EXCEPT ![call] = IF @ = "none" THEN "intended" ELSE @]
  /\ Go("dispatch")
  /\ UNCHANGED <<db, corrupt, applied, live, result, delivered, operator, bounds>>

\* Between intend and dispatch, or after dispatch, the authority context no
\* longer matches: the call ends as an error without having run.
Revoked ==
  /\ pc \in {"dispatch", "execute"} /\ ~live
  /\ result' = [result EXCEPT ![call] = "error"]
  /\ Go("settle")
  /\ UNCHANGED <<store, applied, live, delivered, operator, bounds>>

\* Mutant: the tool runs before its dispatch line.
DispatchLate ==
  /\ pc = "dispatch"
  /\ Go(IF live /\ ~LookupFails(call) /\ View(call) \notin Settled /\ ~Uncertain(call)
        THEN "execute" ELSE "blocked")
  /\ UNCHANGED <<store, applied, live, result, delivered, operator, bounds>>

\* dispatch: authority and lookup; a settled or uncertain call is refused.
Dispatch ==
  /\ pc = "dispatch"
  /\ Go(IF live /\ ~LookupFails(call) /\ View(call) \notin Settled /\ ~Uncertain(call)
        THEN "dispatchFile" ELSE "blocked")
  /\ UNCHANGED <<store, applied, live, result, delivered, operator, bounds>>

\* The line is appended whatever was appended since the lookup.
DispatchFile ==
  /\ pc = "dispatchFile"
  /\ corrupt' = IF file[call] \in Settled \/ (file[call] = "dispatched" /\ call \notin Safe)
                THEN corrupt \cup {call} ELSE corrupt
  /\ file' = [file EXCEPT ![call] = "dispatched"]
  /\ Go("dispatchDb")
  /\ UNCHANGED <<db, applied, live, result, delivered, operator, bounds>>

DispatchDb ==
  /\ pc = "dispatchDb"
  /\ IF live THEN db' = [db EXCEPT ![call] = "dispatched"] /\ Go("execute")
             ELSE Go("blocked") /\ UNCHANGED db
  /\ UNCHANGED <<file, corrupt, applied, live, result, delivered, operator, bounds>>

Execute ==
  /\ pc = "execute" /\ live
  /\ Go("executing")
  /\ UNCHANGED <<store, applied, live, result, delivered, operator, bounds>>

\* The tool takes effect; nothing records it until it returns.
Apply ==
  /\ pc = "executing"
  /\ applied' = [applied EXCEPT ![call] = @ + 1]
  /\ Go("applied")
  /\ UNCHANGED <<store, live, result, delivered, operator, bounds>>

\* The tool returns; an error may come before or after the effect.
Return ==
  /\ pc \in {"executing", "applied"}
  /\ \E r \in {"ok", "error"} :
       /\ r = "ok" => pc = "applied"
       /\ result' = [result EXCEPT ![call] = r]
  /\ Go("settle")
  /\ UNCHANGED <<store, applied, live, delivered, operator, bounds>>

Outcome(c) == IF result[c] = "ok" THEN "confirmed" ELSE IF c \in Safe THEN "not_applied" ELSE "unknown"

\* settle needs no authority: evidence of what ran is kept after a pause.
SettleFile ==
  /\ pc = "settle"
  /\ IF LookupFails(call) THEN Go("blocked") /\ UNCHANGED <<db, file>>
     ELSE /\ file' = [file EXCEPT ![call] = Outcome(call)]
          /\ db' = [db EXCEPT ![call] = View(call)]
          /\ Go("settleDb")
  /\ UNCHANGED <<corrupt, applied, live, result, delivered, operator, bounds>>

\* Mutant: an unknown outcome does not stop the worker.
SettleDbAndGoOn ==
  /\ pc = "settleDb"
  /\ db' = [db EXCEPT ![call] = Outcome(call)]
  /\ pc' = "run" /\ NextCall
  /\ UNCHANGED <<file, corrupt, applied, live, result, delivered, operator, bounds>>

SettleDb ==
  /\ pc = "settleDb"
  /\ db' = [db EXCEPT ![call] = Outcome(call)]
  /\ IF Outcome(call) = "unknown" THEN Go("blocked") ELSE pc' = "run" /\ NextCall
  /\ UNCHANGED <<file, corrupt, applied, live, result, delivered, operator, bounds>>

\* The results become one message of the transcript.
Deliver ==
  /\ pc = "run" /\ call = N + 1
  /\ delivered' = TRUE
  /\ Go("idle")
  /\ UNCHANGED <<store, applied, live, result, operator, bounds>>

-----------------------------------------------------------------------------
(* The engine around the worker.                                             *)

Mirrored == [c \in Calls |-> IF c \in Consulted THEN View(c) ELSE db[c]]

\* #block: unresolved effects pause the run, other errors pause or retry it; a
\* journal it cannot read stops the engine.
Block ==
  /\ pc = "blocked"
  /\ IF \E c \in Consulted : LookupFails(c) THEN Go("down") /\ UNCHANGED <<db, live>>
     ELSE /\ db' = Mirrored
          /\ Go("idle")
          /\ live' \in IF Unresolved # {} THEN {FALSE} ELSE {FALSE, live}
  /\ UNCHANGED <<file, corrupt, applied, result, delivered, operator, bounds>>

\* start, #recover: unresolved effects pause the run before anything runs.
Restart ==
  /\ pc = "down"
  /\ \A c \in Consulted : ~LookupFails(c)
  /\ db' = Mirrored
  /\ live' = (live /\ Unresolved = {})
  /\ Go("idle")
  /\ UNCHANGED <<file, corrupt, applied, result, delivered, operator, bounds>>

\* resume: the task is ready again only without unresolved effects.
Resume ==
  /\ pc = "idle" /\ ~live /\ ~delivered
  /\ \A c \in Consulted : ~LookupFails(c)
  /\ Unresolved = {}
  /\ db' = Mirrored
  /\ live' = TRUE
  /\ UNCHANGED <<file, corrupt, applied, pc, call, result, delivered, operator, bounds>>

\* A pause or cancel command, a deadline, an attempt lease that ran out.
Pause ==
  /\ live /\ pc # "down" /\ pauses < MaxPauses
  /\ live' = FALSE
  /\ pauses' = pauses + 1
  /\ UNCHANGED <<store, applied, pc, call, result, delivered, operator, crashes>>

Crash ==
  /\ pc # "down" /\ crashes < MaxCrashes
  /\ crashes' = crashes + 1
  /\ pc' = "down" /\ call' = 1
  /\ result' = [c \in Calls |-> "none"]
  /\ recon' = 0 /\ reconStep' = "none"
  /\ UNCHANGED <<store, applied, live, delivered, vouched, pauses>>

\* Mutant: only a dispatched call can be vouched for.
ReconcileDispatchedOnly(c) ==
  /\ pc = "idle" /\ ~live /\ recon = 0
  /\ db[c] # "none" /\ ~LookupFails(c)
  /\ View(c) = "dispatched"
  /\ db' = [db EXCEPT ![c] = View(c)]
  /\ recon' = c /\ reconStep' = "append"
  /\ UNCHANGED <<file, corrupt, applied, live, pc, call, result, delivered, vouched, bounds>>

\* engine.reconcile tests "no worker, run not active" once, before it awaits.
Reconcile(c) ==
  /\ pc = "idle" /\ ~live /\ recon = 0
  /\ db[c] # "none" /\ ~LookupFails(c)
  /\ View(c) \in {"dispatched", "unknown"}
  /\ db' = [db EXCEPT ![c] = View(c)]
  /\ recon' = c /\ reconStep' = "append"
  /\ UNCHANGED <<file, corrupt, applied, live, pc, call, result, delivered, vouched, bounds>>

ReconcileFile ==
  /\ reconStep = "append"
  /\ file' = [file EXCEPT ![recon] = "confirmed"]
  /\ vouched' = vouched \cup {recon}
  /\ reconStep' = "mirror"
  /\ UNCHANGED <<db, corrupt, applied, live, pc, call, result, delivered, recon, bounds>>

ReconcileDb ==
  /\ reconStep = "mirror"
  /\ db' = [db EXCEPT ![recon] = "confirmed"]
  /\ recon' = 0 /\ reconStep' = "none"
  /\ UNCHANGED <<file, corrupt, applied, live, pc, call, result, delivered, vouched, bounds>>

Worker ==
  \/ Launch \/ Check \/ Checked \/ Reuse \/ Refuse \/ Intend \/ IntendFile \/ Revoked
  \/ Dispatch \/ DispatchFile \/ DispatchDb \/ Execute \/ Apply \/ Return
  \/ SettleFile \/ SettleDb \/ Deliver \/ Block

Operator == Resume \/ (\E c \in Calls : Reconcile(c)) \/ ReconcileFile \/ ReconcileDb

Next == Worker \/ Operator \/ Restart \/ Pause \/ Crash

Spec == Init /\ [][Next]_vars

\* A worker keeps working, a dead process is restarted, and the operator deals
\* with what the engine asks for.
FairSpec ==
  /\ Spec
  /\ WF_vars(Worker)
  /\ WF_vars(Restart)
  /\ WF_vars(Resume)
  /\ WF_vars(\E c \in Calls : Reconcile(c))
  /\ WF_vars(ReconcileFile \/ ReconcileDb)

-----------------------------------------------------------------------------
\* Types of the stores, the worker and the operator.
TypeOK ==
  /\ db \in [Calls -> States]
  /\ file \in [Calls -> States]
  /\ corrupt \subseteq Calls
  /\ applied \in [Calls -> Nat]
  /\ live \in BOOLEAN
  /\ pc \in {"down", "idle", "check", "run", "intendFile", "dispatch", "dispatchFile", "dispatchDb",
            "execute", "executing", "applied", "settle", "settleDb", "blocked"}
  /\ call \in 1 .. N + 1
  /\ result \in [Calls -> {"none", "ok", "error"}]
  /\ delivered \in BOOLEAN
  /\ recon \in 0 .. N
  /\ reconStep \in {"none", "append", "mirror"}
  /\ vouched \subseteq Calls
  /\ crashes \in Nat
  /\ pauses \in Nat

\* The barriers of intend, dispatch and settle around tool.execute: whatever
\* write a crash or a pause falls between, a call that is not replay-safe
\* takes effect at most once.
AtMostOnce == \A c \in Calls \ Safe : applied[c] <= 1

\* No effect without a dispatch line on disk before it: what may have happened
\* can always be found after a crash.
EvidenceFirst == \A c \in Calls : applied[c] > 0 => Rank(file[c]) >= 2

\* The record never runs ahead of the fsynced line, so lookup never meets
\* regressed or missing evidence of its own making (a file that was made
\* illegal is refused for that).
RecordNotAhead == \A c \in Calls \ corrupt : Rank(db[c]) <= Rank(file[c]) \/ db[c] = "intended"

\* A line that settles a call tells the truth: confirmed needs an effect or the
\* operator's word, and an effect of an unsafe call is never "not applied".
EvidenceTruthful ==
  \A c \in Calls :
    /\ file[c] = "confirmed" => applied[c] > 0 \/ c \in vouched
    /\ file[c] = "not_applied" => c \in Safe

\* The model never gets a result message while some call of it is uncertain.
DeliveredIsKnown == delivered => \A c \in Calls : ~Uncertain(c)

\* What must hold of the effects whatever is left to read after a crash.
JournalSafety == AtMostOnce /\ EvidenceFirst

\* The two accounts of a call, what it did, and what the model was told agree.
EvidenceAgrees == RecordNotAhead /\ EvidenceTruthful /\ DeliveredIsKnown

\* recover checks all calls before it runs one: no call, not even a replay-safe
\* one, takes effect while the outcome of another call is unknown.
NothingRunsPastUnknown ==
  [][\A c \in Calls : applied'[c] > applied[c] =>
       \A d \in Calls \ {c} : file[d] # "unknown" /\ (file[d] = "dispatched" => d \in Safe)]_vars

\* A message with tool calls is answered in the end: no place of a crash or a
\* pause leaves the task with evidence neither the engine nor the operator
\* can move on from, but for a file that was made illegal.
EventuallyDelivered == <>(delivered \/ corrupt # {})

PhaseOf(c) ==
  IF c \in corrupt THEN "done"
  ELSE IF file[c] \in {"none", "intended"} THEN "new"
  ELSE IF file[c] = "dispatched" THEN "started"
  ELSE IF file[c] = "unknown" THEN "unknown"
  ELSE "done"

Once == INSTANCE CallOnce WITH phase <- [c \in Calls |-> PhaseOf(c)]

\* The two stores, read through lookup, implement the at-most-once promise.
OnceSpec == Once!Spec
=============================================================================
