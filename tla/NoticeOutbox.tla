------------------------------ MODULE NoticeOutbox ------------------------------
(***************************************************************************)
(* What becomes of the notices of the collaboration engine,                 *)
(*   src/src/services/collaboration/engine.ts  recoverOutbox, deliver,      *)
(*   reconcile, resolveOutbox;  host.ts  tick, close.                       *)
(* A channel may carry out a send and fail to say so: then the notice is    *)
(* unknown, and only the operator decides that it is sent again.            *)
(***************************************************************************)
EXTENDS Integers, FiniteSets, FiniteSetsExt

CONSTANTS
  Rows,       \* bound: sequence numbers of the notices
  ThreadOf,   \* [Rows -> threads]
  Asking,     \* the notices that put a question
  MaxStops,   \* bound: crashes and closings of the host
  MaxRetries  \* bound: decisions of the operator to send again

ASSUME NoticeAssumption ==
  /\ Rows \subseteq Nat /\ IsFiniteSet(Rows)
  /\ DOMAIN ThreadOf = Rows /\ Asking \subseteq Rows
  /\ MaxStops \in Nat /\ MaxRetries \in Nat

VARIABLES
  hosting,   \* whether the host runs
  notice,    \* state of each row on disk
  moot,      \* the questions that are no longer open
  flight,    \* rows whose send is awaited by the delivery in progress
  looking,   \* rows whose receipt is looked up in the channel
  sends,     \* history: how often the channel carried the notice out
  retries, stops

noticeVars == <<hosting, notice, moot, flight, looking, sends, retries, stops>>

NoticeInit ==
  /\ hosting = FALSE /\ notice = [n \in Rows |-> "none"] /\ moot = {}
  /\ flight = {} /\ looking = {} /\ sends = [n \in Rows |-> 0]
  /\ retries = [n \in Rows |-> 0] /\ stops = 0

\* enqueue, in the transaction of whoever has something to say.
Enqueue(n) ==
  /\ hosting /\ notice[n] = "none" /\ \A k \in Rows : k < n => notice[k] # "none"
  /\ notice' = [notice EXCEPT ![n] = "pending"]
  /\ UNCHANGED <<hosting, moot, flight, looking, sends, retries, stops>>

QuestionCloses(n) ==
  /\ n \in Asking \ moot /\ moot' = moot \cup {n}
  /\ UNCHANGED <<hosting, notice, flight, looking, sends, retries, stops>>

Thread(n) == {k \in Rows : ThreadOf[k] = ThreadOf[n]}

\* The first pending notice of each thread.
Selected == {n \in Rows : notice[n] = "pending" /\ \A k \in Thread(n) : k < n => notice[k] # "pending"}

Idle == flight = {}

\* deliver, up to the sends: one delivery at a time, of one notice per thread.
Deliver ==
  /\ hosting /\ Idle /\ Selected # {}
  /\ LET dead == Selected \cap moot IN
     /\ notice' = [n \in Rows |->
          IF n \in dead THEN "suppressed" ELSE IF n \in Selected THEN "dispatched" ELSE notice[n]]
     /\ flight' = flight \cup (Selected \ dead)
  /\ UNCHANGED <<hosting, moot, looking, sends, retries, stops>>

\* The channel carries a send out: before it answers, or although the host died.
Carried(n) == sends' = [sends EXCEPT ![n] = @ + 1]

\* deliver, after a send: a receipt, or an error that proves nothing.
SendEnds(n) ==
  /\ n \in flight /\ flight' = flight \ {n}
  /\ \/ Carried(n) /\ notice' = [notice EXCEPT ![n] = "sent"]
     \/ (Carried(n) \/ UNCHANGED sends) /\ notice' = [notice EXCEPT ![n] = "unknown"]
  /\ UNCHANGED <<hosting, moot, looking, retries, stops>>

\* reconcile: the channel is asked, and the answer written whatever happened since.
Look(n) ==
  /\ hosting /\ notice[n] = "unknown" /\ n \notin looking
  /\ looking' = looking \cup {n}
  /\ UNCHANGED <<hosting, notice, moot, flight, sends, retries, stops>>

Found(n) ==
  /\ n \in looking /\ looking' = looking \ {n}
  /\ \/ sends[n] > 0 /\ notice' = [notice EXCEPT ![n] = "sent"]
     \/ UNCHANGED notice
  /\ UNCHANGED <<hosting, moot, flight, sends, retries, stops>>

\* resolveOutbox
Resolve(n) ==
  /\ hosting /\ notice[n] = "unknown"
  /\ \/ notice' = [notice EXCEPT ![n] = "sent"] /\ UNCHANGED retries
     \/ /\ SumSet({retries[k] : k \in Rows}) < MaxRetries
        /\ notice' = [notice EXCEPT ![n] = "pending"]
        /\ retries' = [retries EXCEPT ![n] = @ + 1]
  /\ UNCHANGED <<hosting, moot, flight, looking, sends, stops>>

\* Mutant: what was in flight is sent again by the next host.
RecoversByRetry(n) == IF notice[n] = "dispatched" THEN "pending" ELSE notice[n]

\* recoverOutbox: what was in flight when the last owner stopped is not known.
AfterStop(n) == IF notice[n] = "dispatched" THEN "unknown" ELSE notice[n]

HostBegins ==
  /\ ~hosting /\ hosting' = TRUE
  /\ notice' = [n \in Rows |-> AfterStop(n)]
  /\ UNCHANGED <<moot, flight, looking, sends, retries, stops>>

\* A crash, after which any of the sends may have been carried out, or a close
\* that waited for them.
HostStops ==
  /\ hosting /\ stops < MaxStops /\ stops' = stops + 1 /\ hosting' = FALSE
  /\ \E carried \in SUBSET flight : sends' = [n \in Rows |-> IF n \in carried THEN sends[n] + 1 ELSE sends[n]]
  /\ flight' = {} /\ looking' = {}
  /\ UNCHANGED <<notice, moot, retries>>

NoticeNext ==
  \/ Deliver \/ HostBegins \/ HostStops
  \/ \E n \in Rows :
       Enqueue(n) \/ QuestionCloses(n) \/ SendEnds(n) \/ Look(n) \/ Found(n) \/ Resolve(n)

NoticeSpec == NoticeInit /\ [][NoticeNext]_noticeVars

\* The timer of the host delivers as long as it runs; a send ends, since it has a
\* time limit.
NoticeFairness == WF_noticeVars(Deliver) /\ \A n \in Rows : WF_noticeVars(SendEnds(n))

-----------------------------------------------------------------------------
NoticeTypeOK ==
  /\ hosting \in BOOLEAN
  /\ notice \in [Rows -> {"none", "pending", "dispatched", "sent", "unknown", "suppressed"}]
  /\ sends \in [Rows -> Nat] /\ retries \in [Rows -> Nat]
  /\ flight \subseteq Rows /\ looking \subseteq Rows

\* A notice is carried out once, and once more for each time that the operator
\* decided so: neither a crash in a send nor a failed send repeats it.
NoSilentResend == \A n \in Rows : sends[n] <= 1 + retries[n]

\* A thread has one notice in flight at most: their order is the thread's order.
OneInFlight == \A n, k \in flight : ThreadOf[n] = ThreadOf[k] => n = k

\* What a thread is told is told once and one thing at a time.
NoticeSafety == NoSilentResend /\ OneInFlight

\* What is to be said is said or given up, whatever became of what went before it
\* in the thread, or the host stops.
NoticesGoOut == \A n \in Rows : notice[n] = "pending" ~> notice[n] # "pending" \/ ~hosting
=============================================================================
