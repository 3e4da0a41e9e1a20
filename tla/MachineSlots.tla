----------------------------- MODULE MachineSlots -----------------------------
(***************************************************************************)
(* The machine-wide slots for model requests,                               *)
(*   src/src/services/usage/coordinator.ts  ModelRequestCoordinator         *)
(* All processes of a user share one SQLite table and poll it.  A process   *)
(* may die with rows in the table and its pid may be given to another one;  *)
(* whoever comes by deletes rows whose owner it can prove dead.             *)
(***************************************************************************)
EXTENDS Integers, FiniteSets

CONSTANTS
  Slots,            \* requests, each with a row of its own
  Pids,
  DomainOf,         \* [Slots -> resource domain]
  ProjectOf,        \* [Slots -> project]
  PidOf,            \* [Slots -> Pids]
  Total, PerDomain, QueueLimit,
  MaxDeaths         \* bound: deaths of processes

ASSUME MachineSlotsAssumption ==
  /\ PidOf \in [Slots -> Pids]
  /\ {Total, PerDomain, QueueLimit} \subseteq Nat \ {0}
  /\ MaxDeaths \in Nat

Unknown == -1       \* the birth of a process that could not be read

VARIABLES
  row,       \* the table: state, born, time of queueing
  at,        \* what the request is doing in its process
  alive,     \* pids in use
  birth,     \* the birth of the process that has or had a pid
  granted,   \* project_grants: when a project last got a slot
  clock,     \* order of insertions and grants
  deaths

slotVars == <<row, at, alive, birth, granted, clock, deaths>>

Absent == [state |-> "none", born |-> 0, queued |-> 0]

Groups == {<<DomainOf[s], ProjectOf[s]>> : s \in Slots}
GroupOf(s) == <<DomainOf[s], ProjectOf[s]>>

SlotsInit ==
  /\ row = [s \in Slots |-> Absent]
  /\ at = [s \in Slots |-> "idle"]
  /\ alive = Pids
  /\ birth = [p \in Pids |-> 1]
  /\ granted = [g \in Groups |-> 0]
  /\ clock = 0
  /\ deaths = 0

\* Mutant: a living pid is taken for the owner, whoever has it now.
DeadByPid(s) == row[s].state # "none" /\ PidOf[s] \notin alive

\* cleanDeadLeases: the pid is free, or it now has another known birth.
Dead(s) ==
  /\ row[s].state # "none"
  /\ \/ PidOf[s] \notin alive
     \/ row[s].born # Unknown /\ row[s].born # birth[PidOf[s]]

Cleaned == [s \in Slots |-> IF Dead(s) THEN Absent ELSE row[s]]

Active(table, d) == {s \in Slots : table[s].state = "active" /\ DomainOf[s] = d}
AllActive(table) == {s \in Slots : table[s].state = "active"}
Waiting(table) == {s \in Slots : table[s].state = "waiting"}

\* The first transaction of acquire; a full queue rolls it back, the cleaning too.
Enter(s) ==
  /\ at[s] = "idle"
  /\ PidOf[s] \in alive
  /\ IF Cardinality(Waiting(Cleaned)) >= QueueLimit
     THEN at' = [at EXCEPT ![s] = "refused"] /\ UNCHANGED <<row, clock>>
     ELSE /\ \E born \in {birth[PidOf[s]], Unknown} :
               row' = [Cleaned EXCEPT ![s] = [state |-> "waiting", born |-> born, queued |-> clock + 1]]
          /\ at' = [at EXCEPT ![s] = "poll"]
          /\ clock' = clock + 1
  /\ UNCHANGED <<alive, birth, granted, deaths>>

\* Mutant: the shared limit is left out.
HasRoomPerDomain(table, d) == Cardinality(Active(table, d)) < PerDomain

HasRoomFor(table, d) == Cardinality(AllActive(table)) < Total /\ Cardinality(Active(table, d)) < PerDomain

\* ORDER BY active slots of the project, its last grant, time of queueing.
Before(table, s, t) ==
  LET n(q) == Cardinality({a \in Active(table, DomainOf[q]) : ProjectOf[a] = ProjectOf[q]})
      g(q) == granted[GroupOf(q)]
  IN \/ n(s) < n(t)
     \/ n(s) = n(t) /\ g(s) < g(t)
     \/ n(s) = n(t) /\ g(s) = g(t) /\ table[s].queued < table[t].queued

IsNext(table, s) ==
  \A t \in Waiting(table) \ {s} : DomainOf[t] = DomainOf[s] => Before(table, s, t)

\* The transaction of the loop, every 75 ms.
Poll(s) ==
  /\ at[s] = "poll"
  /\ PidOf[s] \in alive
  /\ LET may == HasRoomFor(Cleaned, DomainOf[s]) /\ IsNext(Cleaned, s) IN
     /\ may \/ Cleaned # row
     /\ row' = IF may THEN [Cleaned EXCEPT ![s].state = "active"] ELSE Cleaned
     /\ at' = IF may THEN [at EXCEPT ![s] = "stream"] ELSE at
     /\ granted' = IF may THEN [granted EXCEPT ![GroupOf(s)] = clock + 1] ELSE granted
     /\ clock' = IF may THEN clock + 1 ELSE clock
  /\ UNCHANGED <<alive, birth, deaths>>

\* The signal fires while waiting, or the stream is over: the row is deleted.
Leave(s) ==
  /\ at[s] \in {"poll", "stream"}
  /\ PidOf[s] \in alive
  /\ at' = [at EXCEPT ![s] = "done"]
  /\ row' = [row EXCEPT ![s] = Absent]
  /\ UNCHANGED <<alive, birth, granted, clock, deaths>>

Die(p) ==
  /\ p \in alive
  /\ deaths < MaxDeaths
  /\ deaths' = deaths + 1
  /\ alive' = alive \ {p}
  /\ at' = [s \in Slots |-> IF PidOf[s] = p /\ at[s] # "idle" THEN "done" ELSE at[s]]
  /\ UNCHANGED <<row, birth, granted, clock>>

\* Another process gets the pid.
Reuse(p) ==
  /\ p \notin alive
  /\ alive' = alive \cup {p}
  /\ birth' = [birth EXCEPT ![p] = @ + 1]
  /\ UNCHANGED <<row, at, granted, clock, deaths>>

SlotsNext ==
  \/ \E s \in Slots : Enter(s)
  \/ \E s \in Slots : Poll(s)
  \/ \E s \in Slots : Leave(s)
  \/ \E p \in Pids : Die(p)
  \/ \E p \in Pids : Reuse(p)

SlotsSpec == SlotsInit /\ [][SlotsNext]_slotVars

\* Living processes go on polling and their streams end.
SlotsFairness ==
  \A s \in Slots : WF_slotVars(Poll(s) \/ (at[s] = "stream" /\ Leave(s)))

-----------------------------------------------------------------------------
SlotsTypeOK ==
  /\ row \in [Slots -> [state : {"none", "waiting", "active"}, born : Nat \cup {Unknown}, queued : Nat]]
  /\ at \in [Slots -> {"idle", "poll", "stream", "done", "refused"}]
  /\ alive \subseteq Pids
  /\ birth \in [Pids -> Nat]
  /\ granted \in [Groups -> Nat]
  /\ {clock, deaths} \subseteq Nat

\* The streams of all processes stay within the limits of the machine and of
\* the domain: no cleaning ever frees the slot of a stream that still runs.
StreamsWithinLimits ==
  LET streams == {s \in Slots : at[s] = "stream"} IN
  /\ Cardinality(streams) <= Total
  /\ \A s \in streams : Cardinality({t \in streams : DomainOf[t] = DomainOf[s]}) <= PerDomain

\* A request of a living process keeps its row until it deletes it itself, also
\* when its pid had an owner before.
OwnRowsStay ==
  \A s \in Slots : (at[s] = "poll" => row[s].state = "waiting") /\ (at[s] = "stream" => row[s].state = "active")

\* The table gives no slot to two, and takes none from a process that lives.
SlotsSafety == SlotsTypeOK /\ StreamsWithinLimits /\ OwnRowsStay

\* A waiting request gets its slot, or leaves, although processes die in any
\* state, as long as no row hides the birth of its owner.
SlotsAreHandedOn ==
  \A s \in Slots :
    at[s] = "poll" ~> at[s] # "poll" \/ \E t \in Slots : row[t].born = Unknown
=============================================================================
