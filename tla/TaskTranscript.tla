----------------------------- MODULE TaskTranscript -----------------------------
(***************************************************************************)
(* The transcript of a durable task,                                        *)
(*   src/src/services/runtime/transcript.ts   DurableTranscript             *)
(*   src/src/services/runtime/engine-core.ts  #deliverInputs                *)
(*   src/src/utils/jsonl-append.ts            appendJsonl                   *)
(* A delivery is reserved in the store, appended to a file and marked in    *)
(* the store; the process may die after each of the three, and in the       *)
(* middle of an append.  The next attempt completes what it finds.          *)
(***************************************************************************)
EXTENDS Integers, Sequences, FiniteSets, SequencesExt

CONSTANTS
  FollowUps,        \* user inputs of the task
  MaxDeliveries,    \* bound: records of the transcript
  MaxStops          \* bound: crashes and failures of an attempt

ASSUME TranscriptAssumption ==
  /\ MaxDeliveries \in Nat /\ MaxStops \in Nat
  /\ FollowUps \cap {"message", "compact"} = {}

VARIABLES
  records,     \* deliveries in the store: what, and "pending" or "written"
  lines,       \* complete lines of the file: indices of deliveries
  tail,        \* its last bytes: "whole", "torn", or "bare": a record without its newline
  inputs,      \* task-input records
  progress,    \* deliveryIndex of the task-progress record
  worker,      \* "down", "load", "idle", "file", "mark"
  nth,         \* the delivery the worker is at
  history,     \* the messages of the attempt: indices of deliveries
  stops

transcriptVars == <<records, lines, tail, inputs, progress, worker, nth, history, stops>>
storeVars == <<records, inputs, progress>>
fileVars == <<lines, tail>>

TranscriptInit ==
  /\ records = <<>> /\ lines = <<>> /\ tail = "whole"
  /\ inputs = [k \in FollowUps |-> "none"]
  /\ progress = 0
  /\ worker = "down" /\ nth = 0 /\ history = <<>>
  /\ stops = 0

PendingDeliveries == {i \in DOMAIN records : records[i].state = "pending"}

Extended(i) == IF records[i].what = "compact" THEN <<i>> ELSE Append(history, i)

Post(k) ==
  /\ inputs[k] = "none"
  /\ inputs' = [inputs EXCEPT ![k] = "pending"]
  /\ UNCHANGED <<records, progress, fileVars, worker, nth, history, stops>>

\* Mutant: an attempt goes on with what the last one had.
AttemptUnloaded ==
  /\ worker = "down"
  /\ worker' = "idle" /\ nth' = 0
  /\ UNCHANGED <<storeVars, fileVars, history, stops>>

\* A new attempt loads the transcript from its first delivery on.
Attempt ==
  /\ worker = "down"
  /\ worker' = "load" /\ nth' = 0 /\ history' = <<>>
  /\ UNCHANGED <<storeVars, fileVars, stops>>

NextRecord ==
  /\ worker = "load"
  /\ IF nth = Len(records)
     THEN worker' = "idle" /\ UNCHANGED nth
     ELSE worker' = "file" /\ nth' = nth + 1
  /\ UNCHANGED <<storeVars, fileVars, history, stops>>

ReserveDelivery(what) ==
  /\ worker = "idle" /\ Len(records) < MaxDeliveries
  /\ PendingDeliveries = {}
  /\ records' = Append(records, [what |-> what, state |-> "pending"])
  /\ worker' = "file" /\ nth' = Len(records) + 1
  /\ UNCHANGED <<inputs, progress, fileVars, history, stops>>

Say == \E what \in {"message", "compact"} : ReserveDelivery(what)

IsReserved(k) == \E i \in DOMAIN records : records[i].what = k

\* Mutant: the key of an input is not looked up.
DeliverInputAgain(k) == inputs[k] = "pending" /\ ReserveDelivery(k)

\* beforeTurn delivers the inputs one by one.
DeliverInput(k) ==
  /\ inputs[k] = "pending"
  /\ ~IsReserved(k)
  /\ ReserveDelivery(k)

\* The input is in the transcript: the store learns it, the messages have it.
InputDelivered(k) ==
  /\ worker = "idle" /\ inputs[k] = "pending" /\ IsReserved(k) /\ PendingDeliveries = {}
  /\ inputs' = [inputs EXCEPT ![k] = "delivered"]
  /\ UNCHANGED <<records, progress, fileVars, worker, nth, history, stops>>

\* What can be read of the file.
Found(i) == i \in Range(lines)

WriteLine(i) == lines' = Append(lines, i)

\* #deliver under its file lock: appended only if it is not there yet.
AppendLine ==
  /\ worker = "file"
  /\ worker' = "mark"
  /\ IF Found(nth) THEN UNCHANGED fileVars ELSE WriteLine(nth) /\ tail' = "whole"
  /\ UNCHANGED <<storeVars, nth, history, stops>>

Attempted(i) ==
  /\ history' = Extended(i)
  /\ worker' = IF i < Len(records) THEN "load" ELSE "idle"

\* Mutant: the deliveries are counted, without the compactions.
AdvanceByOne(i) == progress' = IF records[i].what # "compact" THEN progress + 1 ELSE progress

\* advanceTaskProgress leaves a later index alone.
Advance(i) ==
  progress' = IF records[i].what # "compact" /\ progress < i THEN i ELSE progress

\* message.delivered, unless it was written before; then the next record, or
\* the turn goes on.
Mark ==
  /\ worker = "mark"
  /\ IF records[nth].state = "written" THEN UNCHANGED <<records, progress>>
     ELSE /\ records' = [records EXCEPT ![nth].state = "written"]
          /\ Advance(nth)
  /\ Attempted(nth)
  /\ UNCHANGED <<inputs, fileVars, nth, stops>>

\* The attempt fails or the process dies, perhaps in the middle of an append.
Stop ==
  /\ worker # "down" /\ stops < MaxStops
  /\ stops' = stops + 1
  /\ worker' = "down"
  /\ \/ UNCHANGED fileVars
     \/ /\ worker = "file" /\ ~Found(nth)
        /\ \/ tail' = "torn" /\ UNCHANGED lines
           \/ tail' = "bare" /\ WriteLine(nth)
  /\ UNCHANGED <<storeVars, nth, history>>

TranscriptNext ==
  \/ \E k \in FollowUps : Post(k) \/ DeliverInput(k) \/ InputDelivered(k)
  \/ Attempt \/ NextRecord \/ Say \/ AppendLine \/ Mark \/ Stop

TranscriptSpec == TranscriptInit /\ [][TranscriptNext]_transcriptVars

\* The engine starts attempts of a task that has begun, and an attempt goes on;
\* the model may say anything, but every turn begins with the inputs.
TranscriptFairness ==
  /\ WF_transcriptVars(records # <<>> /\ (Attempt \/ NextRecord \/ AppendLine \/ Mark))
  /\ \A k \in FollowUps : WF_transcriptVars(InputDelivered(k))

-----------------------------------------------------------------------------
TranscriptTypeOK ==
  /\ \A i \in DOMAIN records :
       records[i].what \in FollowUps \cup {"message", "compact"} /\ records[i].state \in {"pending", "written"}
  /\ Range(lines) \subseteq DOMAIN records
  /\ tail \in {"whole", "torn", "bare"}
  /\ progress \in 0 .. Len(records)
  /\ inputs \in [FollowUps -> {"none", "pending", "delivered"}]
  /\ worker \in {"down", "load", "idle", "file", "mark"}

\* The file holds every delivery once and in order, those marked in the store
\* all of them, whatever was interrupted.
FileIsInOrder ==
  /\ \A n \in DOMAIN lines : lines[n] = n
  /\ \A i \in DOMAIN records : records[i].state = "written" => Found(i)

\* An attempt that has loaded works with what the store would give to the next
\* one: the deliveries since the last compaction.
HistoryAgrees ==
  worker = "idle" =>
    \E from \in 1 .. Len(records) + 1 :
      /\ history = [n \in 1 .. Len(records) + 1 - from |-> from + n - 1]
      /\ \A i \in from + 1 .. Len(records) : records[i].what # "compact"
      /\ from > 1 => from <= Len(records) /\ records[from].what = "compact"

\* The progress shown to the model is that of the last marked delivery.
ProgressIsCurrent ==
  \A i \in DOMAIN records :
    records[i].state = "written" /\ records[i].what # "compact" => progress >= i

\* The rows, the file, the history and the progress of a task tell one story.
TranscriptSafety == TranscriptTypeOK /\ FileIsInOrder /\ HistoryAgrees /\ ProgressIsCurrent

\* An input whose delivery was begun is delivered, whatever interrupts it.
BegunIsDelivered ==
  \A k \in FollowUps : IsReserved(k) ~> inputs[k] = "delivered"

Log == INSTANCE DeliveryLog
  WITH Others <- {"message", "compact"}, log <- [i \in DOMAIN records |-> records[i].what]
LogSpec == Log!Spec
=============================================================================
