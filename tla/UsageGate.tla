------------------------------- MODULE UsageGate -------------------------------
(***************************************************************************)
(* The model-request gate of one invocation,                                *)
(*   src/src/services/usage/budget.ts  UsageBudget                          *)
(* Requests of the main loop, of subagents and of background tasks share a  *)
(* few slots and a ceiling on reported cost.  A slot that is released is    *)
(* handed to the oldest waiter at once; the waiter notices later.           *)
(***************************************************************************)
EXTENDS Integers, Sequences, FiniteSets, SequencesExt

CONSTANTS
  Requests,
  MaxConcurrent,    \* options.maxConcurrentRequests
  MaxPending,       \* MAX_PENDING_MODEL_REQUESTS
  MaxCost,          \* options.maxCostUsd
  Costs,            \* what one usage event may report
  MaxEvents,        \* bound: usage events per request
  MaxRetained       \* bound: background activations

ASSUME UsageGateAssumption ==
  /\ {MaxConcurrent, MaxCost} \subseteq Nat \ {0}
  /\ {MaxPending, MaxEvents, MaxRetained} \subseteq Nat
  /\ Costs \subseteq Nat

VARIABLES
  phase,      \* where the generator of a request is
  running,    \* #running
  waiting,    \* #waiting, in the order of insertion
  cancelled,  \* requests whose own signal fired
  abort,      \* why #abort fired, "none" while it has not
  closed,     \* #closed
  finished,   \* #finished
  leases,     \* live activations (#leases)
  awaited,    \* activations finish still waits for, -1 before finish
  total,      \* #totals
  events      \* usage events a request has reported

gateVars == <<phase, running, waiting, cancelled, abort, closed, finished, leases, awaited, total, events>>
gateLife == <<closed, finished, leases, awaited>>

GateInit ==
  /\ phase = [r \in Requests |-> "idle"]
  /\ running = 0
  /\ waiting = <<>>
  /\ cancelled = {}
  /\ abort = "none"
  /\ closed = FALSE /\ finished = FALSE
  /\ leases = 0 /\ awaited = -1
  /\ total = 0
  /\ events = [r \in Requests |-> 0]

Signalled(r) == r \in cancelled \/ abort # "none"

MayRun == running < MaxConcurrent

\* The checks of stream() and #admit; nothing is awaited when a slot is free.
Ask(r) ==
  /\ phase[r] = "idle"
  /\ IF Signalled(r) \/ closed \/ (~MayRun /\ Len(waiting) >= MaxPending)
     THEN /\ phase' = [phase EXCEPT ![r] = "refused"]
          /\ UNCHANGED <<running, waiting>>
     ELSE IF MayRun
     THEN /\ phase' = [phase EXCEPT ![r] = "granted"]
          /\ running' = running + 1
          /\ UNCHANGED waiting
     ELSE /\ phase' = [phase EXCEPT ![r] = "waiting"]
          /\ waiting' = Append(waiting, r)
          /\ UNCHANGED running
  /\ UNCHANGED <<cancelled, abort, total, events, gateLife>>

\* Mutant: the slot is freed, but nobody is told.
ReleaseSilently(p) ==
  /\ running' = running - 1
  /\ phase' = p
  /\ UNCHANGED waiting

\* The release of #takeSlot: the oldest waiter takes the slot in the same breath.
Release(p) ==
  IF waiting = <<>>
  THEN running' = running - 1 /\ phase' = p /\ UNCHANGED waiting
  ELSE /\ phase' = [p EXCEPT ![Head(waiting)] = "granted"]
       /\ waiting' = Tail(waiting)
       /\ UNCHANGED running

End(r) == Release([phase EXCEPT ![r] = "done"])

\* Mutant: the signal is not looked at again after the wait.
ProceedAnyway(r) ==
  /\ phase[r] = "granted"
  /\ phase' = [phase EXCEPT ![r] = "stream"]
  /\ UNCHANGED <<running, waiting, cancelled, abort, total, events, gateLife>>

\* combined.throwIfAborted() after the await of the admission; where requests are
\* coordinated, a slot of the machine is awaited next.
Proceed(r) ==
  /\ phase[r] = "granted"
  /\ IF Signalled(r) THEN End(r)
     ELSE /\ \E next \in {"machine", "stream"} : phase' = [phase EXCEPT ![r] = next]
          /\ UNCHANGED <<running, waiting>>
  /\ UNCHANGED <<cancelled, abort, total, events, gateLife>>

\* acquire ends: its queue is full, the signal fired, or the slot is granted.  What
\* fires in the same breath as the grant reaches the stream with its signal.
Acquired(r) ==
  /\ phase[r] = "machine"
  /\ \/ End(r)
     \/ /\ ~Signalled(r)
        /\ phase' = [phase EXCEPT ![r] = "stream"] /\ UNCHANGED <<running, waiting>>
  /\ UNCHANGED <<cancelled, abort, total, events, gateLife>>

\* #abort fires: the cancel listener of every waiting request refuses it.
RefuseWaiting(p) ==
  /\ waiting' = <<>>
  /\ phase' = [q \in Requests |-> IF q \in Range(waiting) THEN "refused" ELSE p[q]]

\* A usage event is counted whether or not the signal fired meanwhile, and
\* crossing the ceiling stops every other request.
Usage(r, cost) ==
  /\ phase[r] = "stream"
  /\ events[r] < MaxEvents
  /\ events' = [events EXCEPT ![r] = @ + 1]
  /\ total' = total + cost
  /\ LET persist == [phase EXCEPT ![r] = "persist"] IN
     IF abort = "none" /\ total + cost >= MaxCost
     THEN abort' = "ceiling" /\ RefuseWaiting(persist)
     ELSE phase' = persist /\ UNCHANGED <<abort, waiting>>
  /\ UNCHANGED <<running, cancelled, gateLife>>

\* onUsage returned: the request goes on unless a signal fired meanwhile.
Persisted(r) ==
  /\ phase[r] = "persist"
  /\ IF Signalled(r) THEN End(r)
     ELSE phase' = [phase EXCEPT ![r] = "stream"] /\ UNCHANGED <<running, waiting>>
  /\ UNCHANGED <<cancelled, abort, total, events, gateLife>>

\* onUsage failed: the whole invocation stops, then the finally clause runs.
NotPersisted(r) ==
  /\ phase[r] = "persist"
  /\ running' = running - 1
  /\ LET ended == [phase EXCEPT ![r] = "done"] IN
     IF abort = "none"
     THEN abort' = "unrecorded" /\ RefuseWaiting(ended)
     ELSE phase' = ended /\ UNCHANGED <<abort, waiting>>
  /\ UNCHANGED <<cancelled, total, events, gateLife>>

\* The stream ends, breaks off, or notices the signal.
Ends(r) ==
  /\ phase[r] = "stream"
  /\ End(r)
  /\ UNCHANGED <<cancelled, abort, total, events, gateLife>>

\* The caller of one request aborts it: a waiting one leaves the queue.
CancelOne(r) ==
  /\ r \notin cancelled
  /\ cancelled' = cancelled \cup {r}
  /\ IF phase[r] = "waiting"
     THEN /\ \E i \in DOMAIN waiting : waiting[i] = r /\ waiting' = RemoveAt(waiting, i)
          /\ phase' = [phase EXCEPT ![r] = "refused"]
     ELSE UNCHANGED <<phase, waiting>>
  /\ UNCHANGED <<running, abort, total, events, gateLife>>

-----------------------------------------------------------------------------
CloseGate ==
  /\ closed' = TRUE
  /\ IF abort = "none"
     THEN abort' = "ended" /\ RefuseWaiting(phase)
     ELSE UNCHANGED <<abort, phase, waiting>>
  /\ UNCHANGED running

Retain ==
  /\ ~finished /\ ~closed
  /\ leases < MaxRetained
  /\ leases' = leases + 1
  /\ UNCHANGED <<phase, running, waiting, cancelled, abort, closed, finished, awaited, total, events>>

\* The last release after finish closes the gate.
ReleaseLease ==
  /\ leases > 0
  /\ leases' = leases - 1
  /\ awaited' = IF awaited > 0 THEN awaited - 1 ELSE awaited
  /\ IF awaited = 1 THEN CloseGate ELSE UNCHANGED <<phase, running, waiting, abort, closed>>
  /\ UNCHANGED <<cancelled, finished, total, events>>

Finish ==
  /\ ~finished
  /\ finished' = TRUE
  /\ awaited' = leases
  /\ IF leases = 0 THEN CloseGate ELSE UNCHANGED <<phase, running, waiting, abort, closed>>
  /\ UNCHANGED <<cancelled, leases, total, events>>

GateNext ==
  \/ \E r \in Requests : Ask(r)
  \/ \E r \in Requests : Proceed(r)
  \/ \E r \in Requests : Acquired(r)
  \/ \E r \in Requests, cost \in Costs : Usage(r, cost)
  \/ \E r \in Requests : Persisted(r)
  \/ \E r \in Requests : NotPersisted(r)
  \/ \E r \in Requests : Ends(r)
  \/ \E r \in Requests : CancelOne(r)
  \/ Retain \/ ReleaseLease \/ Finish

GateSpec == GateInit /\ [][GateNext]_gateVars

\* Continuations run, the machine's slots are handed on, streams come to an end and
\* onUsage returns.
GateFairness ==
  \A r \in Requests :
    WF_gateVars(Proceed(r) \/ Acquired(r) \/ Persisted(r) \/ NotPersisted(r) \/ Ends(r))

-----------------------------------------------------------------------------
Holding == {r \in Requests : phase[r] \in {"granted", "machine", "stream", "persist"}}

GateTypeOK ==
  /\ phase \in [Requests -> {"idle", "waiting", "granted", "machine", "stream", "persist", "done", "refused"}]
  /\ running \in 0 .. MaxConcurrent
  /\ waiting \in Seq(Requests)
  /\ cancelled \subseteq Requests
  /\ abort \in {"none", "ceiling", "unrecorded", "ended"}
  /\ {closed, finished} \subseteq BOOLEAN
  /\ leases \in Nat /\ awaited \in Nat \cup {-1}
  /\ total \in Nat
  /\ events \in [Requests -> Nat]

\* #running counts exactly the requests that hold a slot, through hand-overs,
\* cancellations and aborts: none leaks and none is released twice.
SlotsBalance == running = Cardinality(Holding) /\ running <= MaxConcurrent

\* Nobody waits while a slot is free, and #waiting holds just those who wait.
NoIdleSlot ==
  /\ waiting # <<>> => running = MaxConcurrent
  /\ Range(waiting) = {r \in Requests : phase[r] = "waiting"}
  /\ IsInjective(waiting)

\* After the ceiling was reached, or the invocation ended, no request starts to
\* stream, a hand-over that was already on its way included.
NothingStartsAfterStop ==
  [][\A r \in Requests : phase[r] # "stream" /\ phase'[r] = "stream" => abort = "none"]_gateVars

\* Each request in flight can overrun the ceiling by its current event only.
OverrunBounded ==
  \A c \in Costs : (\A d \in Costs : d <= c) => total < MaxCost + MaxConcurrent * c

\* No slot leaks or idles, and the ceiling is overrun by what was already on its
\* way only.
GateSafety == GateTypeOK /\ SlotsBalance /\ NoIdleSlot /\ OverrunBounded

\* A waiting request is admitted or refused in the end.
NobodyWaitsForever == \A r \in Requests : phase[r] = "waiting" ~> phase[r] # "waiting"

\* Once the main loop and all activations are over, every request comes to an
\* end: close() returns.
CloseReturns == closed ~> Holding = {}
=============================================================================
