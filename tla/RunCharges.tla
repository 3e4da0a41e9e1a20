------------------------------ MODULE RunCharges ------------------------------
(***************************************************************************)
(* The cost ceiling of a durable run,                                       *)
(*   src/src/services/runtime/budget.ts  DurableBudget                      *)
(* Each request reserves its worst case in the database before it is sent   *)
(* and reports usage while the answer streams in.  The process may die at   *)
(* any point; what the provider charged is then not known.                  *)
(***************************************************************************)
EXTENDS Integers, FiniteSets, FiniteSetsExt

CONSTANTS
  Charges,          \* requests
  ChildCharges,     \* those of a child task
  Reserve,          \* worst case of one request
  Ceiling,          \* maxCostUsd
  MaxRequests,      \* runMaxRequests
  MaxRestarts       \* bound: deaths of the owner

ASSUME RunChargesAssumption ==
  /\ ChildCharges \subseteq Charges
  /\ {Reserve, Ceiling, MaxRequests, MaxRestarts} \subseteq Nat

VARIABLES
  charge,    \* the rows: state, reported
  spent,     \* what the provider has really charged
  doing,     \* the generators in memory
  ended,     \* answers whose response-end was seen
  seenUsage, \* answers with a usage event
  up, restarts

chargeVars == <<charge, spent, doing, ended, seenUsage, up, restarts>>

ChargesInit ==
  /\ charge = [c \in Charges |-> [state |-> "none", reported |-> 0]]
  /\ spent = [c \in Charges |-> 0]
  /\ doing = [c \in Charges |-> "idle"]
  /\ ended = {} /\ seenUsage = {}
  /\ up = TRUE
  /\ restarts = 0

Requested == {c \in Charges : charge[c].state # "none"}
AtLeastZero(n) == IF n < 0 THEN 0 ELSE n

\* What totals() keeps for a request beyond its reports.
Held(c) == IF charge[c].state \in {"pending", "uncertain"} THEN AtLeastZero(Reserve - charge[c].reported) ELSE 0

Committed == MapThenSumSet(LAMBDA c : charge[c].reported + Held(c), Charges)

\* Two requests of the parent are kept back while a child asks.
ParentReserve(c) == IF c \in ChildCharges /\ Requested \ ChildCharges # {} THEN 2 * Reserve ELSE 0

MayRequest(c) ==
  /\ Cardinality(Requested) < MaxRequests
  /\ c \in ChildCharges => Cardinality(Requested) < MaxRequests - 2

\* The command budget.reserve.
ReserveCharge(c) ==
  /\ up /\ doing[c] = "idle"
  /\ IF MayRequest(c) /\ Committed + Reserve + ParentReserve(c) <= Ceiling
     THEN /\ charge' = [charge EXCEPT ![c].state = "pending"]
          /\ doing' = [doing EXCEPT ![c] = "stream"]
     ELSE doing' = [doing EXCEPT ![c] = "refused"] /\ UNCHANGED charge
  /\ UNCHANGED <<spent, ended, seenUsage, up, restarts>>

\* The provider charges for what it has produced so far, within the reserve.
Produce(c) ==
  /\ doing[c] = "stream" /\ c \notin ended
  /\ spent[c] < Reserve
  /\ spent' = [spent EXCEPT ![c] = @ + 1]
  /\ UNCHANGED <<charge, doing, ended, seenUsage, up, restarts>>

\* A usage event: one command, then the ceiling is compared with the reports.
ReportUsage(c) ==
  /\ up /\ doing[c] = "stream"
  /\ spent[c] > charge[c].reported
  /\ charge' = [charge EXCEPT ![c].reported = spent[c]]
  /\ seenUsage' = seenUsage \cup {c}
  /\ doing' = [doing EXCEPT ![c] =
       IF MapThenSumSet(LAMBDA d : charge'[d].reported, Charges) >= Ceiling THEN "finish" ELSE @]
  /\ UNCHANGED <<spent, ended, up, restarts>>

\* The last usage event of an answer covers all of it, and response-end follows.
ResponseEnd(c) ==
  /\ up /\ doing[c] = "stream"
  /\ c \in seenUsage => charge[c].reported = spent[c]
  /\ ended' = ended \cup {c}
  /\ doing' = [doing EXCEPT ![c] = "finish"]
  /\ UNCHANGED <<charge, spent, seenUsage, up, restarts>>

\* The stream breaks off, is aborted, or the lease of the attempt is lost.
BreakOff(c) ==
  /\ up /\ doing[c] = "stream"
  /\ doing' = [doing EXCEPT ![c] = "finish"]
  /\ UNCHANGED <<charge, spent, ended, seenUsage, up, restarts>>

\* Mutant: an answer that ended counts as reported.
SettledStateEnded(c) == IF c \in ended THEN "complete" ELSE "uncertain"

SettledState(c) == IF c \in ended \cap seenUsage THEN "complete" ELSE "uncertain"

\* The finally clause: budget.finish.
FinishCharge(c) ==
  /\ up /\ doing[c] = "finish"
  /\ charge' = [charge EXCEPT ![c].state = SettledState(c)]
  /\ doing' = [doing EXCEPT ![c] = "done"]
  /\ UNCHANGED <<spent, ended, seenUsage, up, restarts>>

OwnerDies ==
  /\ up /\ restarts < MaxRestarts
  /\ up' = FALSE
  /\ restarts' = restarts + 1
  /\ doing' = [c \in Charges |-> IF doing[c] = "idle" THEN "idle" ELSE "done"]
  /\ UNCHANGED <<charge, spent, ended, seenUsage>>

\* start() runs recover: what was pending is uncertain from now on.
OwnerStarts ==
  /\ ~up
  /\ up' = TRUE
  /\ charge' = [c \in Charges |-> IF charge[c].state = "pending" THEN [charge[c] EXCEPT !.state = "uncertain"] ELSE charge[c]]
  /\ UNCHANGED <<spent, doing, ended, seenUsage, restarts>>

ChargesNext ==
  \/ \E c \in Charges : ReserveCharge(c)
  \/ \E c \in Charges : Produce(c)
  \/ \E c \in Charges : ReportUsage(c)
  \/ \E c \in Charges : ResponseEnd(c)
  \/ \E c \in Charges : BreakOff(c)
  \/ \E c \in Charges : FinishCharge(c)
  \/ OwnerDies \/ OwnerStarts

ChargesSpec == ChargesInit /\ [][ChargesNext]_chargeVars

-----------------------------------------------------------------------------
ChargesTypeOK ==
  /\ charge \in [Charges -> [state : {"none", "pending", "complete", "uncertain"}, reported : Nat]]
  /\ spent \in [Charges -> Nat]
  /\ doing \in [Charges -> {"idle", "stream", "finish", "done", "refused"}]
  /\ ended \subseteq Charges /\ seenUsage \subseteq Charges
  /\ up \in BOOLEAN
  /\ restarts \in Nat

\* A request that is over without a final report is never dropped from the
\* books: the run holds at least what it has cost.
BooksCover == \A c \in Charges : spent[c] <= charge[c].reported + Held(c)
=============================================================================
