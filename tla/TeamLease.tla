------------------------------- MODULE TeamLease -------------------------------
(***************************************************************************)
(* Who may wake the teammates of a session,                                 *)
(*   src/src/services/teams/supervisor.ts  TeamSupervisor                   *)
(*   src/src/services/teams/manager.ts     acquireLease, renewLease,        *)
(*                                         releaseLease                     *)
(* The processes on a session share a lease in a file.  Its owner renews it *)
(* by a timer and wakes stopped teammates; a crash lets it run out.         *)
(***************************************************************************)
EXTENDS Integers, FiniteSets

CONSTANTS
  Supervisors, Teammates,
  Ttl, Heartbeat,      \* leaseTtlMs, leaseHeartbeatMs
  MaxNow,              \* bound: the clock
  MaxLeases,           \* bound: leases created
  MaxBadBeats          \* bound: renewals that end in an error

ASSUME TeamLeaseAssumption ==
  /\ {Ttl, Heartbeat, MaxNow, MaxLeases, MaxBadBeats} \subseteq Nat
  /\ 0 < Heartbeat /\ Heartbeat < Ttl

NoLease == [owner |-> "none", term |-> 0, expires |-> 0]

VARIABLES
  now,
  lease,        \* the lease file
  terms,        \* generations handed out
  held, term,   \* leaseHeld and leaseGeneration of a process
  beat,         \* when its heartbeat is due, or 0
  scanning,     \* recoverAll or resumeRecipients is past ensureLease
  waking,       \* teammates a process is resuming
  mode,         \* "up", "closing", "down"
  badBeats

leaseVars == <<now, lease, terms, held, term, beat, scanning, waking, mode, badBeats>>

LeaseInit ==
  /\ now = 0 /\ lease = NoLease /\ terms = 0
  /\ held = [p \in Supervisors |-> FALSE] /\ term = [p \in Supervisors |-> 0]
  /\ beat = term /\ scanning = held
  /\ waking = [p \in Supervisors |-> {}]
  /\ mode = [p \in Supervisors |-> "up"]
  /\ badBeats = 0

\* Timers are in time: the clock waits for a heartbeat that is due.
Later ==
  /\ now < MaxNow
  /\ \A p \in Supervisors : beat[p] = 0 \/ beat[p] > now
  /\ now' = now + 1
  /\ UNCHANGED <<lease, terms, held, term, beat, scanning, waking, mode, badBeats>>

Granted(p, l) ==
  /\ lease' = l
  /\ held' = [held EXCEPT ![p] = TRUE]
  /\ term' = [term EXCEPT ![p] = l.term]
  /\ beat' = [beat EXCEPT ![p] = now + Heartbeat]

\* Mutant: a lease of another owner is taken over before it has run out.
MayTakeAny(p) == TRUE

MayTake(p) == lease = NoLease \/ lease.expires <= now

\* acquireLease under the file lock, when leaseHeld is not set.
Acquire(p) ==
  /\ mode[p] = "up" /\ ~held[p]
  /\ \/ /\ ~MayTake(p) /\ lease.owner = p
        /\ Granted(p, [lease EXCEPT !.expires = now + Ttl])
        /\ UNCHANGED terms
     \/ /\ MayTake(p) /\ terms < MaxLeases
        /\ terms' = terms + 1
        /\ Granted(p, [owner |-> p, term |-> terms + 1, expires |-> now + Ttl])
  /\ UNCHANGED <<now, scanning, waking, mode, badBeats>>

\* renewLease by the timer.
Renew(p) ==
  IF lease.owner = p /\ lease.term = term[p] /\ lease.expires > now
  THEN /\ lease' = [lease EXCEPT !.expires = now + Ttl]
       /\ beat' = [beat EXCEPT ![p] = now + Heartbeat]
       /\ UNCHANGED held
  ELSE /\ held' = [held EXCEPT ![p] = FALSE]
       /\ beat' = [beat EXCEPT ![p] = 0]
       /\ UNCHANGED lease

Beat(p) ==
  /\ mode[p] = "up" /\ beat[p] # 0 /\ beat[p] <= now
  /\ Renew(p)
  /\ UNCHANGED <<now, terms, term, scanning, waking, mode, badBeats>>

\* The file lock cannot be had: the error is reported and nothing else is done.
BadBeat(p) ==
  /\ mode[p] = "up" /\ beat[p] # 0 /\ beat[p] <= now
  /\ badBeats < MaxBadBeats /\ badBeats' = badBeats + 1
  /\ beat' = [beat EXCEPT ![p] = 0]
  /\ UNCHANGED <<now, lease, terms, held, term, scanning, waking, mode>>

\* ensureLease: a lease once held is not looked at again.
Scan(p) ==
  /\ mode[p] = "up" /\ held[p] /\ ~scanning[p]
  /\ scanning' = [scanning EXCEPT ![p] = TRUE]
  /\ UNCHANGED <<now, lease, terms, held, term, beat, waking, mode, badBeats>>

\* One teammate after the other; a scan goes on when the supervisor is closed.
Wake(p, m) ==
  /\ scanning[p] /\ waking[p] = {} /\ mode[p] # "down"
  /\ waking' = [waking EXCEPT ![p] = {m}]
  /\ UNCHANGED <<now, lease, terms, held, term, beat, scanning, mode, badBeats>>

Woken(p) ==
  /\ waking[p] # {}
  /\ waking' = [waking EXCEPT ![p] = {}]
  /\ UNCHANGED <<now, lease, terms, held, term, beat, scanning, mode, badBeats>>

ScanEnds(p) ==
  /\ scanning[p] /\ waking[p] = {}
  /\ scanning' = [scanning EXCEPT ![p] = FALSE]
  /\ UNCHANGED <<now, lease, terms, held, term, beat, waking, mode, badBeats>>

CloseSupervisor(p) ==
  /\ mode[p] = "up"
  /\ mode' = [mode EXCEPT ![p] = "closing"]
  /\ beat' = [beat EXCEPT ![p] = 0]
  /\ UNCHANGED <<now, lease, terms, held, term, scanning, waking, badBeats>>

\* releaseLease
Release(p) ==
  lease' = IF lease.owner = p /\ lease.term = term[p] THEN NoLease ELSE lease

SupervisorClosed(p) ==
  /\ mode[p] = "closing" /\ ~scanning[p]
  /\ mode' = [mode EXCEPT ![p] = "down"]
  /\ IF held[p] THEN Release(p) ELSE UNCHANGED lease
  /\ held' = [held EXCEPT ![p] = FALSE]
  /\ UNCHANGED <<now, terms, term, beat, scanning, waking, badBeats>>

SupervisorDies(p) ==
  /\ mode[p] # "down"
  /\ mode' = [mode EXCEPT ![p] = "down"]
  /\ held' = [held EXCEPT ![p] = FALSE]
  /\ beat' = [beat EXCEPT ![p] = 0]
  /\ scanning' = [scanning EXCEPT ![p] = FALSE]
  /\ waking' = [waking EXCEPT ![p] = {}]
  /\ UNCHANGED <<now, lease, terms, term, badBeats>>

LeaseNext ==
  \/ Later
  \/ \E p \in Supervisors :
       \/ Acquire(p) \/ Beat(p) \/ BadBeat(p) \/ Scan(p) \/ Woken(p) \/ ScanEnds(p)
       \/ CloseSupervisor(p) \/ SupervisorClosed(p) \/ SupervisorDies(p)
       \/ \E m \in Teammates : Wake(p, m)

LeaseSpec == LeaseInit /\ [][LeaseNext]_leaseVars

-----------------------------------------------------------------------------
LeaseTypeOK ==
  /\ lease \in [owner : Supervisors \cup {"none"}, term : Nat, expires : Nat]
  /\ now \in Nat /\ terms \in Nat /\ badBeats \in Nat
  /\ term \in [Supervisors -> Nat] /\ beat \in [Supervisors -> Nat]
  /\ held \in [Supervisors -> BOOLEAN]
  /\ mode \in [Supervisors -> {"up", "closing", "down"}]

\* While a process that is not closing believes in its lease and its heartbeats
\* are answered, no other process believes the same.
OneHolder ==
  badBeats = 0 =>
    \A p, q \in Supervisors : held[p] /\ held[q] /\ mode[p] = "up" /\ mode[q] = "up" => p = q

\* Who closes takes only his own lease away.
ReleasesItsOwn ==
  [][\A p \in Supervisors : mode'[p] = "down" /\ lease' = NoLease /\ lease # NoLease => lease.owner = p \/ mode[p] = "down"]_leaseVars
=============================================================================
