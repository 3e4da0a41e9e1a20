----------------------------- MODULE Teams_proofs -----------------------------
(***************************************************************************)
(* What holds of the lease of a team's supervisor (TeamLease) and of the    *)
(* team's members and messages (TeamMailbox), for every number of           *)
(* processes, members, messages, writes that fail and deaths.               *)
(***************************************************************************)
EXTENDS TeamLease, TeamMailbox, FiniteSetTheorems, WellFoundedInduction, TLAPS

-----------------------------------------------------------------------------
(***************************************************************************)
(* The lease. OneHolder alone is not inductive: a holder must also be the   *)
(* owner in the file, under its own generation, and its next heartbeat must *)
(* come before the lease runs out.                                          *)
(***************************************************************************)

\* Who is up and holds the lease owns it in the file, and renews it in time.
HoldersOwn ==
  badBeats = 0 =>
    \A p \in Supervisors :
      held[p] /\ mode[p] = "up" =>
        /\ lease.owner = p /\ lease.term = term[p]
        /\ beat[p] # 0 /\ now <= beat[p] /\ beat[p] < lease.expires

LeaseInv == LeaseTypeOK /\ HoldersOwn

LEMMA LeaseInitInv == LeaseInit => LeaseInv
BY TeamLeaseAssumption DEF LeaseInit, LeaseInv, LeaseTypeOK, HoldersOwn, NoLease

LEMMA LeaseNextInv == LeaseInv /\ [LeaseNext]_leaseVars => LeaseInv'
<1> SUFFICES ASSUME LeaseInv, [LeaseNext]_leaseVars PROVE LeaseInv'
  OBVIOUS
<1> USE TeamLeaseAssumption DEF LeaseInv, LeaseTypeOK, HoldersOwn
<1>1. CASE Later
  BY <1>1 DEF Later
<1>2. ASSUME NEW p \in Supervisors, Acquire(p) PROVE LeaseInv'
  <2>1. CASE ~MayTake(p) /\ lease.owner = p /\ Granted(p, [lease EXCEPT !.expires = now + Ttl]) /\ UNCHANGED terms
    <3>1. LeaseTypeOK'
      BY <1>2, <2>1 DEF Acquire, Granted
    <3>2. HoldersOwn'
      BY <1>2, <2>1 DEF Acquire, Granted
    <3> QED BY <3>1, <3>2
  <2>2. CASE MayTake(p) /\ terms' = terms + 1 /\ Granted(p, [owner |-> p, term |-> terms + 1, expires |-> now + Ttl])
    <3>1. LeaseTypeOK'
      BY <1>2, <2>2 DEF Acquire, Granted
    <3>2. badBeats = 0 => \A q \in Supervisors : ~(held[q] /\ mode[q] = "up")
      BY <2>2 DEF MayTake, NoLease
    <3>3. HoldersOwn'
      <4>1. lease' = [owner |-> p, term |-> terms + 1, expires |-> now + Ttl] /\ badBeats' = badBeats
        BY <1>2, <2>2 DEF Acquire, Granted
      <4>2. lease'.owner = p /\ lease'.term = terms + 1 /\ lease'.expires = now + Ttl
        BY <4>1
      <4>3. term'[p] = terms + 1 /\ beat'[p] = now + Heartbeat /\ now' = now
        BY <1>2, <2>2 DEF Acquire, Granted
      <4>4. ASSUME NEW q \in Supervisors, q # p, badBeats = 0 PROVE ~(held'[q] /\ mode'[q] = "up")
        BY <1>2, <2>2, <3>2, <4>4 DEF Acquire, Granted
      <4> QED BY <4>1, <4>2, <4>3, <4>4
    <3> QED BY <3>1, <3>3
  <2> QED BY <1>2, <2>1, <2>2 DEF Acquire
<1>3. ASSUME NEW p \in Supervisors, Beat(p) PROVE LeaseInv'
  <2>1. UNCHANGED <<now, terms, term, mode, badBeats>>
    BY <1>3 DEF Beat
  <2>2. CASE lease.owner = p /\ lease.term = term[p] /\ lease.expires > now
    <3>1. lease' = [lease EXCEPT !.expires = now + Ttl] /\ beat' = [beat EXCEPT ![p] = now + Heartbeat] /\ held' = held
      BY <1>3, <2>2 DEF Beat, Renew
    <3>2. lease'.owner = p /\ lease'.term = term[p] /\ lease'.expires = now + Ttl
      BY <2>2, <3>1
    <3>3. ASSUME NEW q \in Supervisors, q # p, badBeats = 0 PROVE ~(held[q] /\ mode[q] = "up")
      BY <2>2, <3>3
    <3>4. LeaseTypeOK'
      BY <2>1, <3>1
    <3>5. HoldersOwn'
      BY <2>1, <3>1, <3>2, <3>3
    <3> QED BY <3>4, <3>5
  <2>3. CASE ~(lease.owner = p /\ lease.term = term[p] /\ lease.expires > now)
    <3>1. held' = [held EXCEPT ![p] = FALSE] /\ beat' = [beat EXCEPT ![p] = 0] /\ lease' = lease
      BY <1>3, <2>3 DEF Beat, Renew
    <3> QED BY <2>1, <3>1
  <2> QED BY <2>2, <2>3
<1>4. ASSUME NEW p \in Supervisors, BadBeat(p) PROVE LeaseInv'
  BY <1>4 DEF BadBeat
<1>5. ASSUME NEW p \in Supervisors, Scan(p) \/ Woken(p) \/ ScanEnds(p) \/ (\E m \in Teammates : Wake(p, m))
      PROVE LeaseInv'
  BY <1>5 DEF Scan, Woken, ScanEnds, Wake
<1>6. ASSUME NEW p \in Supervisors, CloseSupervisor(p) PROVE LeaseInv'
  BY <1>6 DEF CloseSupervisor
<1>7. ASSUME NEW p \in Supervisors, SupervisorClosed(p) PROVE LeaseInv'
  <2>1. LeaseTypeOK'
    BY <1>7 DEF SupervisorClosed, Release, NoLease
  <2>2. HoldersOwn'
    BY <1>7 DEF SupervisorClosed, Release, NoLease
  <2> QED BY <2>1, <2>2
<1>8. ASSUME NEW p \in Supervisors, SupervisorDies(p) PROVE LeaseInv'
  BY <1>8 DEF SupervisorDies
<1>9. CASE UNCHANGED leaseVars
  BY <1>9 DEF leaseVars
<1> QED BY <1>1, <1>2, <1>3, <1>4, <1>5, <1>6, <1>7, <1>8, <1>9 DEF LeaseNext

\* While heartbeats are answered, at most one process that is not closing
\* believes in the lease, whoever dies, closes or comes late.
THEOREM LeaseIsExclusive == LeaseSpec => []OneHolder
<1>1. LeaseInv => OneHolder
  BY DEF LeaseInv, HoldersOwn, OneHolder
<1> QED BY <1>1, LeaseInitInv, LeaseNextInv, PTL DEF LeaseSpec

LEMMA StepReleasesItsOwn ==
  ASSUME LeaseInv, [LeaseNext]_leaseVars,
         NEW p \in Supervisors, mode'[p] = "down", lease' = NoLease, lease # NoLease
  PROVE  lease.owner = p \/ mode[p] = "down"
<1> USE DEF LeaseInv, LeaseTypeOK
<1>1. ASSUME NEW q \in Supervisors, SupervisorClosed(q) PROVE lease.owner = p \/ mode[p] = "down"
  BY <1>1 DEF SupervisorClosed, Release
<1>2. ASSUME NEW q \in Supervisors, SupervisorDies(q) PROVE FALSE
  BY <1>2 DEF SupervisorDies
<1>3. ASSUME NEW q \in Supervisors, CloseSupervisor(q) PROVE FALSE
  BY <1>3 DEF CloseSupervisor
<1>4. ASSUME UNCHANGED mode PROVE mode[p] = "down"
  BY <1>4
<1> QED
  BY <1>1, <1>2, <1>3, <1>4
     DEF LeaseNext, leaseVars, Later, Acquire, Beat, BadBeat, Scan, Woken, ScanEnds, Wake

\* A process that closes takes only its own lease away.
THEOREM ClosingReleasesItsOwn == LeaseSpec => ReleasesItsOwn
<1>1. LeaseInv /\ [LeaseNext]_leaseVars =>
        [\A p \in Supervisors : mode'[p] = "down" /\ lease' = NoLease /\ lease # NoLease
                                  => lease.owner = p \/ mode[p] = "down"]_leaseVars
  BY StepReleasesItsOwn
<1> QED BY <1>1, LeaseInitInv, LeaseNextInv, PTL DEF LeaseSpec, ReleasesItsOwn

-----------------------------------------------------------------------------
(***************************************************************************)
(* The messages. Each commit carries the state it will write, and what it   *)
(* may change is judged against the file as it is when its turn comes; the  *)
(* name of a member is kept from its reservation on, in every copy.         *)
(***************************************************************************)

Suffixes == 0 .. Cardinality(Members)
Messages == [id : Letters, to : Suffixes]
MailMarks == Letters \X (1 .. Cardinality(Members))
Commits == [kind : {"reserve", "send", "drain", "load"}, who : Members \cup {Everyone},
            what : (SUBSET Messages) \cup (SUBSET MailMarks), copy : TeamShape]

\* The shape of the state: what MailboxTypeOK says, and of every variable.
MailboxShape ==
  /\ MailboxTypeOK
  /\ commits \in Seq(Commits)
  /\ joined \subseteq Members
  /\ failed \in BOOLEAN
  /\ ~alive => commits = <<>> /\ draining = {}

\* A state of the team has all that another one has.
Grown(old, new) ==
  /\ \A a \in Members : old.names[a] # NoName => new.names[a] = old.names[a]
  /\ old.sent \subseteq new.sent
  /\ old.marks \subseteq new.marks

\* A name once given is the same wherever it is known.
NameIsKept(a, name) ==
  /\ teamFile.names[a] \in {NoName, name} /\ team.names[a] \in {NoName, name}
  /\ \A i \in 1 .. Len(commits) : commits[i].copy.names[a] \in {NoName, name}

NamesAreKept ==
  \A a \in Members :
    /\ \E name \in Suffixes : NameIsKept(a, name)
    /\ a \notin posted => NameIsKept(a, NoName)

\* What a waiting operation has done is in its copy, and belongs to a member that
\* may do it: J, P and D are who joined, who reserved and who drains.
OperationFits(op, J, P, D, names) ==
  /\ op.kind \in {"reserve", "drain"} <=> op.who \in Members
  /\ op.kind = "reserve" => op.who \notin J /\ op.who \in P /\ op.copy.names[op.who] # NoName
  /\ op.kind = "send" => op.what \subseteq op.copy.sent
  /\ op.kind = "drain" =>
       /\ op.who \in D /\ op.who \in J
       /\ op.what \subseteq op.copy.marks
       /\ \A m \in op.what : m[2] = names[op.who]

OperationsFit ==
  /\ \A i \in 1 .. Len(commits) : OperationFits(commits[i], joined, posted, draining, teamFile.names)
  /\ \A i, j \in 1 .. Len(commits) :
       commits[i].kind = commits[j].kind /\ commits[i].kind \in {"reserve", "drain"} /\ commits[i].who = commits[j].who
         => i = j
  /\ \A i, j \in 1 .. Len(commits) : commits[i].kind = "reserve" /\ commits[j].kind = "reserve" => i = j

\* The state in memory is not behind the file, and who runs has a name there.
MemoryLeads ==
  /\ alive => Grown(teamFile, team)
  /\ \A a \in joined : teamFile.names[a] # NoName

\* While all names differ, nothing waits to be taken that was taken before.
NothingTwice ==
  NamesDiffer(teamFile) =>
    /\ again = {}
    /\ \A i \in 1 .. Len(commits) : commits[i].kind = "drain" => commits[i].what \cap got = {}

\* A name that is not in the file is that of the one reservation that waits, and
\* nobody has it there.
Reserving(ops, a, name, n) ==
  \E j \in 1 .. n : ops[j].kind = "reserve" /\ ops[j].who = a /\ ops[j].copy.names[a] = name

NamesAreReserved ==
  ~failed =>
    /\ NamesDiffer(teamFile)
    /\ \A a \in Members : team.names[a] # NoName =>
         team.names[a] = teamFile.names[a] \/ Reserving(commits, a, team.names[a], Len(commits))
    /\ \A i \in 1 .. Len(commits), a \in Members : commits[i].copy.names[a] # NoName =>
         commits[i].copy.names[a] = teamFile.names[a] \/ Reserving(commits, a, commits[i].copy.names[a], i)
    /\ \A i \in 1 .. Len(commits) : commits[i].kind = "reserve" =>
         \A b \in Members : teamFile.names[b] # commits[i].copy.names[commits[i].who]

MailboxInv ==
  /\ MailboxShape /\ NamesAreKept /\ OperationsFit /\ MemoryLeads
  /\ ReturnedIsOnFile /\ NothingTwice /\ NamesAreReserved

LEMMA InitMailbox == MailboxInit => MailboxInv
<1> SUFFICES ASSUME MailboxInit PROVE MailboxInv
  OBVIOUS
<1>1. NewTeam \in TeamShape /\ \A a \in Members : NewTeam.names[a] = NoName
  <2>1. Cardinality(Members) \in Nat
    BY TeamMailboxAssumption, FS_CardinalityType
  <2> QED BY <2>1 DEF NewTeam, TeamShape, NoName
<1>2. NewTeam.sent = {} /\ NewTeam.marks = {}
  BY DEF NewTeam
<1>3. /\ teamFile = NewTeam /\ team = NewTeam /\ commits = <<>> /\ alive = TRUE /\ failed = FALSE
      /\ acknowledged = {} /\ posted = {} /\ joined = {} /\ draining = {} /\ got = {} /\ again = {}
  BY DEF MailboxInit
<1>4. MailboxShape
  <2>1. alive \in BOOLEAN /\ failed \in BOOLEAN
    BY <1>3, Zenon
  <2>2. MailboxTypeOK
    BY <1>1, <1>3, <2>1 DEF MailboxTypeOK
  <2>3. commits \in Seq(Commits)
    BY <1>3
  <2> QED BY <1>3, <2>1, <2>2, <2>3 DEF MailboxShape
<1>5. NamesAreKept
  <2>1. NoName \in Suffixes
    BY TeamMailboxAssumption, FS_CardinalityType DEF NoName, Suffixes
  <2> QED BY <1>1, <1>3, <2>1 DEF NamesAreKept, NameIsKept
<1>6. OperationsFit /\ NothingTwice
  BY <1>3 DEF OperationsFit, NothingTwice
<1>7. MemoryLeads /\ ReturnedIsOnFile
  BY <1>2, <1>3 DEF MemoryLeads, Grown, ReturnedIsOnFile
<1>8. NamesAreReserved
  <2>1. NamesDiffer(teamFile)
    BY <1>1, <1>3 DEF NamesDiffer, Unnamed
  <2> QED BY <1>1, <1>3, <2>1 DEF NamesAreReserved
<1> QED BY <1>4, <1>5, <1>6, <1>7, <1>8 DEF MailboxInv

\* A set of natural numbers has a least one.
LEMMA LeastExists ==
  ASSUME NEW T, T \subseteq Nat, T # {} PROVE \E x \in T : \A y \in T : x <= y
<1> DEFINE R == OpToRel(<, Nat)
<1>1. IsWellFoundedOn(R, Nat)
  BY NatLessThanWellFounded
<1>2. \A x, y \in Nat : x < y => <<x, y>> \in R
  BY DEF OpToRel
<1> HIDE DEF R
<1>3. PICK x \in T : \A y \in T : ~ (<<y, x>> \in R)
  BY <1>1, WFMin, Zenon
<1>4. ASSUME NEW y \in T PROVE x <= y
  <2>1. ~(y < x)
    BY <1>2, <1>3
  <2> QED BY <2>1
<1> QED BY <1>4

\* Of N places that hold members of a set with less than N, two hold the same.
LEMMA Pigeons ==
  ASSUME NEW N \in Nat, NEW T, IsFiniteSet(T), Cardinality(T) < N, NEW f \in [1 .. N -> T]
  PROVE  \E x, y \in 1 .. N : x # y /\ f[x] = f[y]
<1> DEFINE S == 1 .. N
<1>1. IsFiniteSet(S) /\ Cardinality(S) = N
  BY FS_Interval
<1>2. Cardinality(T) < Cardinality(S)
  BY <1>1
<1>3. f \in [S -> T]
  OBVIOUS
<1> HIDE DEF S
<1>4. \E x, y \in S : x # y /\ f[x] = f[y]
  BY <1>1, <1>2, <1>3, FS_PigeonHole, Zenon
<1> QED BY <1>4 DEF S

\* There is a first suffix for a member that has none.
LEMMA FreeSuffix ==
  ASSUME NEW state \in TeamShape, NEW a \in Members, state.names[a] = NoName
  PROVE  LET free == CHOOSE n \in 1 .. Cardinality(Members) :
                       n \notin Names(state) /\ \A k \in 1 .. n - 1 : k \in Names(state)
         IN free \in 1 .. Cardinality(Members) /\ free \notin Names(state)
<1> DEFINE N == Cardinality(Members)
           named == Members \ {a}
           T == {n \in 1 .. N : n \notin Names(state)}
<1>1. N \in Nat /\ IsFiniteSet(Members)
  BY TeamMailboxAssumption, FS_CardinalityType
<1>2. IsFiniteSet(named) /\ Cardinality(named) = N - 1
  BY <1>1, FS_RemoveElement
<1>3. T # {}
  <2> SUFFICES ASSUME T = {} PROVE FALSE
    OBVIOUS
  <2> DEFINE f == [n \in 1 .. N |-> CHOOSE b \in named : state.names[b] = n]
  <2>1. ASSUME NEW n \in 1 .. N PROVE \E b \in named : state.names[b] = n
    <3>1. n \in Names(state)
      OBVIOUS
    <3>2. PICK b \in Members \ Unnamed(state) : state.names[b] = n
      BY <3>1 DEF Names
    <3>3. b # a
      BY <3>2 DEF Unnamed
    <3> QED BY <3>2, <3>3
  <2>2. \A n \in 1 .. N : f[n] \in named /\ state.names[f[n]] = n
    BY <2>1
  <2>3. f \in [1 .. N -> named]
    BY <2>2
  <2>4. Cardinality(named) < N
    <3> HIDE DEF N, named
    <3> QED BY <1>1, <1>2
  <2> HIDE DEF f, N, named
  <2>5. \E x, y \in 1 .. N : x # y /\ f[x] = f[y]
    BY <1>1, <1>2, <2>3, <2>4, Pigeons, Zenon
  <2> QED BY <2>2, <2>5
<1>4. PICK n \in T : \A k \in T : n <= k
  <2>1. T \subseteq Nat
    BY <1>1
  <2> HIDE DEF T
  <2> QED BY <1>3, <2>1, LeastExists
<1>5. \A k \in 1 .. n - 1 : k \in Names(state)
  BY <1>1, <1>4
<1>6. \E m \in 1 .. N : m \notin Names(state) /\ \A k \in 1 .. m - 1 : k \in Names(state)
  BY <1>4, <1>5
<1> QED BY <1>6

LEMMA AppendFacts ==
  ASSUME NEW S, NEW s \in Seq(S), NEW e \in S
  PROVE  /\ Append(s, e) \in Seq(S) /\ Len(Append(s, e)) = Len(s) + 1 /\ Len(s) \in Nat
         /\ \A i \in 1 .. Len(s) : Append(s, e)[i] = s[i]
         /\ Append(s, e)[Len(s) + 1] = e
  OBVIOUS

LEMMA TailFacts ==
  ASSUME NEW S, NEW s \in Seq(S), s # <<>>
  PROVE  /\ Tail(s) \in Seq(S) /\ Len(Tail(s)) = Len(s) - 1 /\ Len(s) \in Nat \ {0}
         /\ \A i \in 1 .. Len(s) - 1 : Tail(s)[i] = s[i + 1]
         /\ Head(s) = s[1] /\ s[1] \in S
  OBVIOUS

\* A new operation, queued with its copy, leaves everything in place if what it
\* did to the team may be done.
LEMMA CommitKeeps ==
  ASSUME MailboxInv, NEW op \in Commits,
         team' = op.copy, commits' = Append(commits, op), alive' = TRUE,
         UNCHANGED <<teamFile, acknowledged, got, again, failed>>,
         joined' \subseteq Members, \A a \in joined' : teamFile.names[a] # NoName,
         joined' = joined \/ commits = <<>>,
         posted \subseteq posted', draining \subseteq draining', draining' \subseteq Members,
         Grown(teamFile, op.copy),
         \A a \in Members :
           \/ op.copy.names[a] \in {NoName, team.names[a], teamFile.names[a]}
           \/ op.kind = "reserve" /\ op.who = a /\ a \notin posted /\ a \in posted',
         OperationFits(op, joined', posted', draining', teamFile.names),
         \A i \in 1 .. Len(commits) :
           /\ op.kind = "reserve" => commits[i].kind # "reserve"
           /\ op.kind = "drain" /\ commits[i].kind = "drain" => commits[i].who # op.who,
         op.kind = "drain" => op.what \cap got = {},
         ~failed /\ op.kind = "reserve" => \A b \in Members : teamFile.names[b] # op.copy.names[op.who]
  PROVE  MailboxInv'
<1> DEFINE n == Len(commits)
<1>1. commits \in Seq(Commits)
  BY DEF MailboxInv, MailboxShape
<1>2. /\ commits' \in Seq(Commits) /\ Len(commits') = n + 1 /\ n \in Nat
      /\ \A i \in 1 .. n : commits'[i] = commits[i]
      /\ commits'[n + 1] = op
  BY <1>1, AppendFacts
<1>3. \A i \in 1 .. n : commits[i] \in Commits
  BY <1>1
<1>4. op.copy \in TeamShape
  BY DEF Commits
<1> HIDE DEF n
<1>5. ASSUME NEW i \in 1 .. n + 1 PROVE i = n + 1 \/ i \in 1 .. n
  BY <1>2
<1>6. MailboxShape'
  <2>1. alive' \in BOOLEAN
    BY Zenon
  <2>2. MailboxTypeOK'
    BY <1>4, <2>1 DEF MailboxInv, MailboxShape, MailboxTypeOK
  <2> QED BY <1>2, <2>2 DEF MailboxInv, MailboxShape
<1>7. NamesAreKept'
  <2> SUFFICES ASSUME NEW a \in Members
               PROVE  /\ \E name \in Suffixes : NameIsKept(a, name)'
                      /\ a \notin posted' => NameIsKept(a, NoName)'
    BY DEF NamesAreKept
  <2>1. op.copy.names[a] \in Suffixes
    BY <1>4 DEF TeamShape, Suffixes
  <2>2. CASE op.kind = "reserve" /\ op.who = a /\ a \notin posted /\ a \in posted'
    <3>1. NameIsKept(a, NoName)
      BY <2>2 DEF MailboxInv, NamesAreKept
    <3>2. NameIsKept(a, op.copy.names[a])'
      BY <1>2, <1>5, <3>1 DEF NameIsKept, n
    <3> QED BY <2>1, <2>2, <3>2
  <2>3. CASE op.copy.names[a] \in {NoName, team.names[a], teamFile.names[a]}
    <3>1. ASSUME NEW name \in Suffixes, NameIsKept(a, name) PROVE NameIsKept(a, name)'
      BY <1>2, <1>5, <2>3, <3>1 DEF NameIsKept, n
    <3>2. NoName \in Suffixes
      BY <1>1, TeamMailboxAssumption, FS_CardinalityType DEF NoName, Suffixes
    <3> QED BY <3>1, <3>2 DEF MailboxInv, NamesAreKept
  <2> QED BY <2>2, <2>3
<1>8. OperationsFit'
  <2>1. ASSUME NEW i \in 1 .. n + 1
        PROVE  OperationFits(commits'[i], joined', posted', draining', teamFile'.names)
    <3>1. CASE i = n + 1
      BY <1>2, <3>1
    <3>2. CASE i \in 1 .. n
      <4>1. OperationFits(commits[i], joined, posted, draining, teamFile.names)
        BY <3>2 DEF MailboxInv, OperationsFit, n
      <4>2. joined' = joined
        BY <1>1, <3>2 DEF n
      <4> QED BY <1>2, <3>2, <4>1, <4>2 DEF OperationFits
    <3> QED BY <1>5, <3>1, <3>2
  <2>2. ASSUME NEW i \in 1 .. n + 1, NEW j \in 1 .. n + 1,
               commits'[i].kind = commits'[j].kind, commits'[i].kind \in {"reserve", "drain"},
               commits'[i].who = commits'[j].who \/ commits'[i].kind = "reserve"
        PROVE  i = j
    <3>1. CASE i \in 1 .. n /\ j \in 1 .. n
      BY <1>2, <2>2, <3>1 DEF MailboxInv, OperationsFit, n
    <3>2. CASE i = n + 1 /\ j \in 1 .. n
      BY <1>2, <2>2, <3>2 DEF n
    <3>3. CASE j = n + 1 /\ i \in 1 .. n
      BY <1>2, <2>2, <3>3 DEF n
    <3> QED BY <1>5, <3>1, <3>2, <3>3
  <2> QED BY <1>2, <2>1, <2>2 DEF OperationsFit
<1>9. MemoryLeads' /\ ReturnedIsOnFile'
  BY DEF MailboxInv, MemoryLeads, ReturnedIsOnFile, Grown
<1>10. NothingTwice'
  <2> SUFFICES ASSUME NamesDiffer(teamFile)
               PROVE  /\ again = {}
                      /\ \A i \in 1 .. n + 1 : commits'[i].kind = "drain" => commits'[i].what \cap got = {}
    BY <1>2 DEF NothingTwice, NamesDiffer, Unnamed
  <2> QED BY <1>2, <1>5 DEF MailboxInv, NothingTwice, n
<1>11. NamesAreReserved'
  <2> SUFFICES ASSUME ~failed PROVE NamesAreReserved'
    BY DEF NamesAreReserved
  <2>1. NamesDiffer(teamFile)'
    BY DEF MailboxInv, NamesAreReserved, NamesDiffer, Unnamed
  <2>2. ASSUME NEW a \in Members, NEW name, NEW m \in 1 .. n, Reserving(commits, a, name, m)
        PROVE  Reserving(commits', a, name, m)
    BY <1>2, <2>2 DEF Reserving
  <2>3. ASSUME NEW a \in Members, op.copy.names[a] # NoName
        PROVE  op.copy.names[a] = teamFile.names[a] \/ Reserving(commits', a, op.copy.names[a], n + 1)
    <3>1. CASE op.kind = "reserve" /\ op.who = a
      BY <1>2, <3>1 DEF Reserving
    <3>2. CASE op.copy.names[a] = team.names[a]
      <4>1. team.names[a] = teamFile.names[a] \/ Reserving(commits, a, team.names[a], n)
        BY <2>3, <3>2 DEF MailboxInv, NamesAreReserved, n
      <4> QED BY <1>2, <3>2, <4>1 DEF Reserving
    <3> QED BY <2>3, <3>1, <3>2
  <2>4. ASSUME NEW i \in 1 .. n + 1, NEW a \in Members, commits'[i].copy.names[a] # NoName
        PROVE  commits'[i].copy.names[a] = teamFile.names[a] \/ Reserving(commits', a, commits'[i].copy.names[a], i)
    <3>1. CASE i = n + 1
      BY <1>2, <2>3, <2>4, <3>1
    <3>2. CASE i \in 1 .. n
      <4>1. commits[i].copy.names[a] = teamFile.names[a] \/ Reserving(commits, a, commits[i].copy.names[a], i)
        BY <1>2, <2>4, <3>2 DEF MailboxInv, NamesAreReserved, n
      <4> QED BY <1>2, <2>2, <3>2, <4>1
    <3> QED BY <1>5, <3>1, <3>2
  <2>5. ASSUME NEW i \in 1 .. n + 1, commits'[i].kind = "reserve"
        PROVE  \A b \in Members : teamFile.names[b] # commits'[i].copy.names[commits'[i].who]
    <3>1. CASE i = n + 1
      BY <1>2, <2>5, <3>1
    <3>2. CASE i \in 1 .. n
      BY <1>2, <2>5, <3>2 DEF MailboxInv, NamesAreReserved, n
    <3> QED BY <1>5, <3>1, <3>2
  <2> QED BY <1>2, <2>1, <2>3, <2>4, <2>5 DEF NamesAreReserved
<1> QED BY <1>6, <1>7, <1>8, <1>9, <1>10, <1>11 DEF MailboxInv

\* Names stay unique: a write adds the name of the first reservation that waits,
\* which nobody has, or no name at all.
LEMMA WriteReserved ==
  ASSUME MailboxInv, NEW op \in Commits, NEW w \in TeamShape,
         op = commits[1], teamFile' = w, team' = w, failed' = failed,
         commits \in Seq(Commits), commits' \in Seq(Commits),
         Len(commits') = Len(commits) - 1, Len(commits) \in Nat \ {0},
         \A i \in 1 .. Len(commits) - 1 : commits'[i] = commits[i + 1],
         OperationFits(op, joined, posted, draining, teamFile.names),
         \A a \in Members : teamFile.names[a] # NoName => w.names[a] = teamFile.names[a],
         \A a \in Members :
           w.names[a] = IF op.copy.names[a] # NoName THEN op.copy.names[a] ELSE teamFile.names[a]
  PROVE  NamesAreReserved'
<1> SUFFICES ASSUME ~failed PROVE NamesAreReserved'
  BY DEF NamesAreReserved
<1> DEFINE n == Len(commits)
<1>1. NamesDiffer(teamFile)
  BY DEF MailboxInv, NamesAreReserved
<1>2. \A i \in 1 .. n, a \in Members : commits[i].copy.names[a] # NoName =>
        commits[i].copy.names[a] = teamFile.names[a] \/ Reserving(commits, a, commits[i].copy.names[a], i)
  BY DEF MailboxInv, NamesAreReserved
<1>3. \A i, j \in 1 .. n : commits[i].kind = "reserve" /\ commits[j].kind = "reserve" => i = j
  BY DEF MailboxInv, OperationsFit
<1>4. \A i \in 1 .. n : commits[i].kind = "reserve" =>
        \A b \in Members : teamFile.names[b] # commits[i].copy.names[commits[i].who]
  BY DEF MailboxInv, NamesAreReserved
<1>5. ASSUME NEW a \in Members, teamFile.names[a] = NoName, w.names[a] # NoName
      PROVE  op.kind = "reserve" /\ op.who = a /\ \A b \in Members : teamFile.names[b] # w.names[a]
  <2>1. w.names[a] = op.copy.names[a] /\ op.copy.names[a] # NoName
    BY <1>5
  <2>2. Reserving(commits, a, op.copy.names[a], 1)
    BY <1>2, <1>5, <2>1
  <2>3. op.kind = "reserve" /\ op.who = a
    BY <2>2 DEF Reserving
  <2> QED BY <1>4, <2>1, <2>3
<1>6. NamesDiffer(w)
  <2> SUFFICES ASSUME NEW a \in Members, NEW b \in Members, a # b,
                      w.names[a] # NoName, w.names[b] # NoName, w.names[a] = w.names[b]
               PROVE  FALSE
    BY DEF NamesDiffer, Unnamed
  <2>1. CASE teamFile.names[a] = NoName
    <3>1. op.who = a /\ teamFile.names[b] # w.names[a]
      BY <1>5, <2>1
    <3>2. teamFile.names[b] = NoName
      BY <3>1
    <3> QED BY <1>5, <3>1, <3>2
  <2>2. CASE teamFile.names[b] = NoName
    <3>1. op.who = b /\ teamFile.names[a] # w.names[b]
      BY <1>5, <2>2
    <3>2. teamFile.names[a] = NoName
      BY <3>1
    <3> QED BY <1>5, <3>1, <3>2
  <2>3. CASE teamFile.names[a] # NoName /\ teamFile.names[b] # NoName
    BY <1>1, <2>3 DEF NamesDiffer, Unnamed
  <2> QED BY <2>1, <2>2, <2>3
\* A name that was only reserved is now in the file, if its reservation was first.
<1>7. ASSUME NEW a \in Members, NEW name, NEW m \in 2 .. n, Reserving(commits, a, name, m), name # NoName
      PROVE  name = w.names[a] \/ Reserving(commits', a, name, m - 1)
  <2>1. PICK j \in 1 .. m : commits[j].kind = "reserve" /\ commits[j].who = a /\ commits[j].copy.names[a] = name
    BY <1>7 DEF Reserving
  <2>2. CASE j = 1
    BY <1>7, <2>1, <2>2
  <2>3. CASE j # 1
    <3>1. j - 1 \in 1 .. m - 1 /\ j - 1 \in 1 .. n - 1 /\ j - 1 + 1 = j
      BY <2>3
    <3>2. commits'[j - 1] = commits[j]
      BY <3>1
    <3> QED BY <2>1, <3>1, <3>2 DEF Reserving
  <2> QED BY <2>2, <2>3
<1>8. ASSUME NEW i \in 1 .. n - 1, NEW a \in Members, commits'[i].copy.names[a] # NoName
      PROVE  commits'[i].copy.names[a] = w.names[a] \/ Reserving(commits', a, commits'[i].copy.names[a], i)
  <2>1. i + 1 \in 2 .. n /\ i + 1 \in 1 .. n /\ commits'[i] = commits[i + 1] /\ i + 1 - 1 = i
    OBVIOUS
  <2>2. PICK name : name = commits[i + 1].copy.names[a]
    OBVIOUS
  <2>3. name # NoName /\ (name = teamFile.names[a] \/ Reserving(commits, a, name, i + 1))
    BY <1>2, <1>8, <2>1, <2>2
  <2>4. CASE name = teamFile.names[a]
    BY <2>1, <2>2, <2>3, <2>4
  <2>5. CASE Reserving(commits, a, name, i + 1)
    <3>1. name = w.names[a] \/ Reserving(commits', a, name, i + 1 - 1)
      BY <1>7, <2>1, <2>3, <2>5
    <3> QED BY <2>1, <2>2, <3>1
  <2> QED BY <2>3, <2>4, <2>5
<1>9. ASSUME NEW i \in 1 .. n - 1, commits'[i].kind = "reserve"
      PROVE  \A b \in Members : w.names[b] # commits'[i].copy.names[commits'[i].who]
  <2>1. i + 1 \in 1 .. n /\ 1 \in 1 .. n /\ i + 1 # 1 /\ commits'[i] = commits[i + 1]
    OBVIOUS
  <2>2. op.kind # "reserve"
    BY <1>3, <1>9, <2>1
  <2>3. \A b \in Members : w.names[b] = teamFile.names[b]
    BY <1>5, <2>2
  <2> QED BY <1>4, <1>9, <2>1, <2>3
<1> QED BY <1>6, <1>8, <1>9 DEF NamesAreReserved

\* What a write makes of the file and of the state in memory.
LEMMA WriteEffect ==
  ASSUME MailboxInv, WriteTeam
  PROVE  \E op \in Commits, w \in TeamShape :
           /\ op = commits[1] /\ teamFile' = w /\ team' = w
           /\ \A a \in Members :
                w.names[a] = IF op.copy.names[a] # NoName THEN op.copy.names[a] ELSE teamFile.names[a]
           /\ w.sent = teamFile.sent \cup op.copy.sent
           /\ w.marks = teamFile.marks \cup op.copy.marks
           /\ joined' = (IF op.kind = "reserve" THEN joined \cup {op.who} ELSE joined)
           /\ acknowledged' = (IF op.kind = "send" THEN acknowledged \cup op.what ELSE acknowledged)
           /\ got' = (IF op.kind = "drain" THEN got \cup op.what ELSE got)
           /\ again' = (IF op.kind = "drain" THEN again \cup (got \cap op.what) ELSE again)
           /\ draining' = (IF op.kind = "drain" THEN draining \ {op.who} ELSE draining)
<1>1. commits \in Seq(Commits) /\ commits # <<>> /\ teamFile \in TeamShape
  BY DEF MailboxInv, MailboxShape, MailboxTypeOK, WriteTeam
<1>2. PICK op \in Commits : op = Head(commits) /\ op = commits[1]
  BY <1>1
<1>3. op.copy \in TeamShape
  BY DEF Commits
<1> DEFINE w == Merged(teamFile, op.copy)
<1>4. w.names = [a \in Members |-> IF op.copy.names[a] # NoName THEN op.copy.names[a] ELSE teamFile.names[a]]
      /\ w.sent = teamFile.sent \cup op.copy.sent /\ w.marks = teamFile.marks \cup op.copy.marks
  BY DEF Merged
<1>5. w \in TeamShape
  <2> DEFINE names == [a \in Members |-> IF op.copy.names[a] # NoName THEN op.copy.names[a] ELSE teamFile.names[a]]
             sent == teamFile.sent \cup op.copy.sent
             marks == teamFile.marks \cup op.copy.marks
  <2>1. names \in [Members -> 0 .. Cardinality(Members)]
    BY <1>1, <1>3 DEF TeamShape
  <2>2. /\ sent \in SUBSET [id : Letters, to : 0 .. Cardinality(Members)]
        /\ marks \in SUBSET (Letters \X (1 .. Cardinality(Members)))
    BY <1>1, <1>3 DEF TeamShape
  <2>3. w = [names |-> names, sent |-> sent, marks |-> marks]
    BY DEF Merged
  <2> HIDE DEF names, sent, marks, w
  <2> QED BY <2>1, <2>2, <2>3 DEF TeamShape
<1>6. teamFile' = w /\ team' = w /\ Returned(op)
  BY <1>2 DEF WriteTeam, Adopted
<1> HIDE DEF w
<1>7. /\ joined' = (IF op.kind = "reserve" THEN joined \cup {op.who} ELSE joined)
      /\ acknowledged' = (IF op.kind = "send" THEN acknowledged \cup op.what ELSE acknowledged)
      /\ got' = (IF op.kind = "drain" THEN got \cup op.what ELSE got)
      /\ again' = (IF op.kind = "drain" THEN again \cup (got \cap op.what) ELSE again)
      /\ draining' = (IF op.kind = "drain" THEN draining \ {op.who} ELSE draining)
  BY <1>6 DEF Returned
<1>8. \A a \in Members :
        w.names[a] = IF op.copy.names[a] # NoName THEN op.copy.names[a] ELSE teamFile.names[a]
  BY <1>4
<1> QED BY <1>2, <1>4, <1>5, <1>6, <1>7, <1>8

LEMMA WriteKeeps == ASSUME MailboxInv, WriteTeam PROVE MailboxInv'
<1> DEFINE n == Len(commits)
<1>1. PICK op \in Commits, w \in TeamShape :
           /\ op = commits[1] /\ teamFile' = w /\ team' = w
           /\ \A a \in Members :
                w.names[a] = IF op.copy.names[a] # NoName THEN op.copy.names[a] ELSE teamFile.names[a]
           /\ w.sent = teamFile.sent \cup op.copy.sent
           /\ w.marks = teamFile.marks \cup op.copy.marks
           /\ joined' = (IF op.kind = "reserve" THEN joined \cup {op.who} ELSE joined)
           /\ acknowledged' = (IF op.kind = "send" THEN acknowledged \cup op.what ELSE acknowledged)
           /\ got' = (IF op.kind = "drain" THEN got \cup op.what ELSE got)
           /\ again' = (IF op.kind = "drain" THEN again \cup (got \cap op.what) ELSE again)
           /\ draining' = (IF op.kind = "drain" THEN draining \ {op.who} ELSE draining)
  BY WriteEffect
<1>2. alive /\ commits # <<>> /\ commits' = Tail(commits) /\ UNCHANGED <<alive, posted, failed>>
  BY DEF WriteTeam
<1>3. /\ commits \in Seq(Commits) /\ commits' \in Seq(Commits)
      /\ Len(commits') = n - 1 /\ n \in Nat \ {0}
      /\ \A i \in 1 .. n - 1 : commits'[i] = commits[i + 1]
  <2>1. commits \in Seq(Commits)
    BY DEF MailboxInv, MailboxShape
  <2> QED BY <1>2, <2>1, TailFacts
<1> HIDE DEF n
<1>4. OperationFits(op, joined, posted, draining, teamFile.names)
  BY <1>1, <1>3 DEF MailboxInv, OperationsFit, n
<1>5. \A a \in Members : teamFile.names[a] # NoName => w.names[a] = teamFile.names[a]
  <2> SUFFICES ASSUME NEW a \in Members, teamFile.names[a] # NoName PROVE w.names[a] = teamFile.names[a]
    OBVIOUS
  <2>1. PICK name \in Suffixes : NameIsKept(a, name)
    BY DEF MailboxInv, NamesAreKept
  <2>2. teamFile.names[a] = name /\ op.copy.names[a] \in {NoName, name}
    BY <1>1, <1>3, <2>1 DEF NameIsKept, n
  <2> QED BY <1>1, <2>2
<1>6. MailboxShape'
  <2>1. op.what \in (SUBSET Messages) \cup (SUBSET MailMarks) /\ op.copy \in TeamShape /\ op.who \in Members \cup {Everyone}
    BY DEF Commits
  <2>2. op.kind = "drain" => op.what \subseteq MailMarks
    BY <1>4, <2>1 DEF OperationFits, TeamShape, MailMarks
  <2>3. op.kind = "reserve" => op.who \in Members
    BY <1>4 DEF OperationFits
  <2>4. MailboxTypeOK'
    BY <1>1, <1>2, <2>2 DEF MailboxInv, MailboxShape, MailboxTypeOK, MailMarks
  <2> QED BY <1>1, <1>2, <1>3, <2>3, <2>4 DEF MailboxInv, MailboxShape
<1>7. NamesAreKept'
  <2>1. ASSUME NEW a \in Members, NEW name, NameIsKept(a, name) PROVE NameIsKept(a, name)'
    <3>1. \A i \in 1 .. n : commits[i].copy.names[a] \in {NoName, name}
      BY <2>1 DEF NameIsKept, n
    <3>2. \A i \in 1 .. n - 1 : commits'[i].copy.names[a] \in {NoName, name}
      <4> SUFFICES ASSUME NEW i \in 1 .. n - 1 PROVE commits'[i].copy.names[a] \in {NoName, name}
        OBVIOUS
      <4>1. i + 1 \in 1 .. n
        BY <1>3
      <4> QED BY <1>3, <3>1, <4>1
    <3>3. w.names[a] \in {NoName, name}
      BY <1>1, <1>3, <2>1, <3>1 DEF NameIsKept
    <3> QED BY <1>1, <1>3, <3>2, <3>3 DEF NameIsKept
  <2> QED BY <1>2, <2>1 DEF MailboxInv, NamesAreKept
<1>8. OperationsFit'
  <2>1. ASSUME NEW i \in 1 .. n - 1
        PROVE  OperationFits(commits'[i], joined', posted', draining', teamFile'.names)
    <3>1. i + 1 \in 1 .. n /\ 1 \in 1 .. n /\ i + 1 # 1 /\ commits'[i] = commits[i + 1]
      BY <1>3
    <3>2. PICK c \in Commits : c = commits[i + 1]
      BY <1>3, <3>1 DEF n
    <3>3. OperationFits(c, joined, posted, draining, teamFile.names)
      BY <3>1, <3>2 DEF MailboxInv, OperationsFit, n
    <3>4. ~(c.kind = "reserve" /\ op.kind = "reserve")
      BY <1>1, <3>1, <3>2 DEF MailboxInv, OperationsFit, n
    <3>5. ~(c.kind = "drain" /\ op.kind = "drain" /\ c.who = op.who)
      BY <1>1, <3>1, <3>2 DEF MailboxInv, OperationsFit, n
    <3>6. c.kind = "reserve" => c.who \notin joined' /\ c.who \in posted'
      BY <1>1, <1>2, <3>3, <3>4 DEF OperationFits
    <3>7. c.kind = "drain" =>
            c.who \in draining' /\ c.who \in joined' /\ \A m \in c.what : m[2] = w.names[c.who]
      <4> SUFFICES ASSUME c.kind = "drain"
                   PROVE  c.who \in draining' /\ c.who \in joined' /\ \A m \in c.what : m[2] = w.names[c.who]
        OBVIOUS
      <4>1. c.who \in draining /\ c.who \in joined /\ c.who \in Members /\ \A m \in c.what : m[2] = teamFile.names[c.who]
        BY <3>3 DEF OperationFits
      <4>2. teamFile.names[c.who] # NoName
        BY <4>1 DEF MailboxInv, MemoryLeads
      <4> QED BY <1>1, <1>5, <3>5, <4>1, <4>2
    <3> QED BY <1>1, <3>1, <3>2, <3>3, <3>6, <3>7 DEF OperationFits
  <2>2. ASSUME NEW i \in 1 .. n - 1, NEW j \in 1 .. n - 1,
               commits'[i].kind = commits'[j].kind, commits'[i].kind \in {"reserve", "drain"},
               commits'[i].who = commits'[j].who \/ commits'[i].kind = "reserve"
        PROVE  i = j
    <3>1. i + 1 \in 1 .. n /\ j + 1 \in 1 .. n /\ commits'[i] = commits[i + 1] /\ commits'[j] = commits[j + 1]
      BY <1>3
    <3>2. i + 1 = j + 1
      BY <2>2, <3>1 DEF MailboxInv, OperationsFit, n
    <3> QED BY <3>2
  <2> QED BY <1>3, <2>1, <2>2 DEF OperationsFit
<1>9. MemoryLeads'
  <2>1. op.kind = "reserve" => w.names[op.who] # NoName
    BY <1>1, <1>4 DEF OperationFits
  <2>2. joined \subseteq Members
    BY DEF MailboxInv, MailboxShape
  <2>3. \A a \in joined' : w.names[a] # NoName
    BY <1>1, <1>5, <2>1, <2>2 DEF MailboxInv, MemoryLeads
  <2> QED BY <1>1, <2>3 DEF MemoryLeads, Grown
<1>10. ReturnedIsOnFile'
  BY <1>1, <1>4 DEF MailboxInv, ReturnedIsOnFile, OperationFits
<1>11. NothingTwice'
  <2> SUFFICES ASSUME NamesDiffer(w)
               PROVE  again' = {} /\ \A i \in 1 .. n - 1 : commits'[i].kind = "drain" => commits'[i].what \cap got' = {}
    BY <1>1, <1>3 DEF NothingTwice, NamesDiffer, Unnamed
  <2>1. NamesDiffer(teamFile)
    BY <1>5 DEF NamesDiffer, Unnamed
  <2>2. again = {} /\ \A i \in 1 .. n : commits[i].kind = "drain" => commits[i].what \cap got = {}
    BY <2>1 DEF MailboxInv, NothingTwice, n
  <2>3. again' = {}
    <3>1. op.kind = "drain" => got \cap op.what = {}
      BY <1>1, <1>3, <2>2
    <3> QED BY <1>1, <2>2, <3>1
  <2>4. ASSUME NEW i \in 1 .. n - 1, commits'[i].kind = "drain" PROVE commits'[i].what \cap got' = {}
    <3>1. i + 1 \in 1 .. n /\ 1 \in 1 .. n /\ i + 1 # 1 /\ commits'[i] = commits[i + 1]
      BY <1>3
    <3>2. PICK c \in Commits : c = commits[i + 1]
      BY <1>3, <3>1 DEF n
    <3>3. c.kind = "drain" /\ c.what \cap got = {}
      BY <2>2, <2>4, <3>1, <3>2
    <3>4. CASE op.kind = "drain"
      <4>1. c.who # op.who
        BY <1>1, <3>1, <3>2, <3>3, <3>4 DEF MailboxInv, OperationsFit, n
      <4>2. OperationFits(c, joined, posted, draining, teamFile.names)
        BY <3>1, <3>2 DEF MailboxInv, OperationsFit, n
      <4>3. /\ c.who \in Members /\ c.who \in joined /\ op.who \in Members /\ op.who \in joined
            /\ \A m \in c.what : m[2] = teamFile.names[c.who]
            /\ \A m \in op.what : m[2] = teamFile.names[op.who]
        BY <1>4, <3>3, <3>4, <4>2 DEF OperationFits
      <4>4. teamFile.names[c.who] # teamFile.names[op.who]
        BY <2>1, <4>1, <4>3 DEF NamesDiffer, Unnamed, MailboxInv, MemoryLeads
      <4>5. c.what \cap op.what = {}
        BY <4>3, <4>4
      <4> QED BY <1>1, <3>1, <3>2, <3>3, <3>4, <4>5
    <3>5. CASE op.kind # "drain"
      BY <1>1, <3>1, <3>2, <3>3, <3>5
    <3> QED BY <3>4, <3>5
  <2> QED BY <2>3, <2>4
<1>12. NamesAreReserved'
  BY <1>1, <1>2, <1>3, <1>4, <1>5, WriteReserved DEF n
<1> QED BY <1>6, <1>7, <1>8, <1>9, <1>10, <1>11, <1>12 DEF MailboxInv

LEMMA FailKeeps == ASSUME MailboxInv, WriteTeamFails PROVE MailboxInv'
<1> DEFINE n == Len(commits)
<1>1. commits \in Seq(Commits) /\ commits # <<>>
  BY DEF MailboxInv, MailboxShape, WriteTeamFails
<1>2. PICK op \in Commits : op = Head(commits) /\ op = commits[1]
  BY <1>1
<1>3. /\ alive /\ commits' = Tail(commits) /\ draining' = draining \ {op.who} /\ failed' = TRUE
      /\ UNCHANGED <<teamFile, team, alive, acknowledged, posted, joined, got, again>>
  BY <1>2 DEF WriteTeamFails
<1>4. /\ commits' \in Seq(Commits) /\ Len(commits') = n - 1 /\ n \in Nat \ {0}
      /\ \A i \in 1 .. n - 1 : commits'[i] = commits[i + 1]
  BY <1>1, <1>3, TailFacts
<1> HIDE DEF n
<1>5. \A i \in 1 .. n - 1 : i + 1 \in 1 .. n /\ 1 \in 1 .. n /\ i + 1 # 1
  BY <1>4
<1>6. MailboxShape'
  <2>1. failed' \in BOOLEAN
    BY <1>3, Zenon
  <2>2. MailboxTypeOK'
    BY <1>3 DEF MailboxInv, MailboxShape, MailboxTypeOK
  <2> QED BY <1>3, <1>4, <2>1, <2>2 DEF MailboxInv, MailboxShape
<1>7. NamesAreKept'
  <2>1. ASSUME NEW a \in Members, NEW name, NameIsKept(a, name) PROVE NameIsKept(a, name)'
    BY <1>3, <1>4, <1>5, <2>1 DEF NameIsKept, n
  <2> QED BY <1>3, <2>1 DEF MailboxInv, NamesAreKept
<1>8. OperationsFit'
  <2>1. ASSUME NEW i \in 1 .. n - 1
        PROVE  OperationFits(commits'[i], joined', posted', draining', teamFile'.names)
    <3>1. PICK c \in Commits : c = commits[i + 1] /\ c = commits'[i]
      BY <1>1, <1>4, <1>5 DEF n
    <3>2. OperationFits(c, joined, posted, draining, teamFile.names)
      BY <1>5, <3>1 DEF MailboxInv, OperationsFit, n
    <3>3. OperationFits(op, joined, posted, draining, teamFile.names)
      BY <1>2, <1>5 DEF MailboxInv, OperationsFit, n
    <3>4. c.kind = "drain" => c.who # op.who
      <4>1. ~(c.kind = "drain" /\ op.kind = "drain" /\ c.who = op.who)
        BY <1>2, <1>5, <3>1 DEF MailboxInv, OperationsFit, n
      <4> QED BY <3>2, <3>3, <4>1 DEF OperationFits
    <3> QED BY <1>3, <3>1, <3>2, <3>4 DEF OperationFits
  <2>2. ASSUME NEW i \in 1 .. n - 1, NEW j \in 1 .. n - 1,
               commits'[i].kind = commits'[j].kind, commits'[i].kind \in {"reserve", "drain"},
               commits'[i].who = commits'[j].who \/ commits'[i].kind = "reserve"
        PROVE  i = j
    <3>1. i + 1 \in 1 .. n /\ j + 1 \in 1 .. n /\ commits'[i] = commits[i + 1] /\ commits'[j] = commits[j + 1]
      BY <1>4, <1>5
    <3>2. i + 1 = j + 1
      BY <2>2, <3>1 DEF MailboxInv, OperationsFit, n
    <3> QED BY <3>2
  <2> QED BY <1>4, <2>1, <2>2 DEF OperationsFit
<1>9. MemoryLeads' /\ ReturnedIsOnFile'
  BY <1>3 DEF MailboxInv, MemoryLeads, Grown, ReturnedIsOnFile
<1>10. NothingTwice'
  BY <1>3, <1>4, <1>5 DEF MailboxInv, NothingTwice, NamesDiffer, Unnamed, n
<1>11. NamesAreReserved'
  BY <1>3 DEF NamesAreReserved
<1> QED BY <1>6, <1>7, <1>8, <1>9, <1>10, <1>11 DEF MailboxInv

LEMMA DeathKeeps == ASSUME MailboxInv, TeamDies PROVE MailboxInv'
<1>1. /\ alive' = FALSE /\ team' = NewTeam /\ commits' = <<>> /\ draining' = {}
      /\ UNCHANGED <<teamFile, acknowledged, posted, joined, got, again, failed>>
  BY DEF TeamDies
<1>2. Cardinality(Members) \in Nat
  BY TeamMailboxAssumption, FS_CardinalityType
<1>3. NewTeam \in TeamShape /\ \A a \in Members : NewTeam.names[a] = NoName
  BY <1>2 DEF NewTeam, TeamShape, NoName
<1>4. MailboxShape'
  <2>1. alive' \in BOOLEAN
    BY <1>1, Zenon
  <2>2. MailboxTypeOK'
    BY <1>1, <1>3, <2>1 DEF MailboxInv, MailboxShape, MailboxTypeOK
  <2>3. commits' \in Seq(Commits)
    BY <1>1
  <2> QED BY <1>1, <2>2, <2>3 DEF MailboxInv, MailboxShape
<1>5. NamesAreKept'
  <2>1. ASSUME NEW a \in Members, NEW name, NameIsKept(a, name) PROVE NameIsKept(a, name)'
    BY <1>1, <1>3, <2>1 DEF NameIsKept
  <2> QED BY <1>1, <2>1 DEF MailboxInv, NamesAreKept
<1>6. OperationsFit'
  BY <1>1 DEF OperationsFit
<1>7. MemoryLeads' /\ ReturnedIsOnFile' /\ NothingTwice'
  <2>1. NamesDiffer(teamFile)' <=> NamesDiffer(teamFile)
    BY <1>1 DEF NamesDiffer, Unnamed
  <2> QED BY <1>1, <2>1 DEF MailboxInv, MemoryLeads, ReturnedIsOnFile, NothingTwice
<1>8. NamesAreReserved'
  BY <1>1, <1>3 DEF MailboxInv, NamesAreReserved, NamesDiffer, Unnamed
<1> QED BY <1>4, <1>5, <1>6, <1>7, <1>8 DEF MailboxInv

LEMMA NamedTeam ==
  ASSUME NEW t \in TeamShape, NEW a \in Members, NEW n \in Suffixes
  PROVE  LET s == [t EXCEPT !.names[a] = n]
         IN  /\ s \in TeamShape /\ s.names[a] = n /\ s.sent = t.sent /\ s.marks = t.marks
             /\ \A b \in Members : b # a => s.names[b] = t.names[b]
  BY DEF TeamShape, Suffixes

LEMMA MarkedTeam ==
  ASSUME NEW t \in TeamShape, NEW marks \in SUBSET MailMarks
  PROVE  LET s == [t EXCEPT !.marks = @ \cup marks]
         IN  s \in TeamShape /\ s.names = t.names /\ s.marks = t.marks \cup marks /\ s.sent = t.sent
  BY DEF TeamShape, MailMarks

LEMMA LoadKeeps == ASSUME MailboxInv, TeamLoads PROVE MailboxInv'
<1> DEFINE op == [kind |-> "load", who |-> Everyone, what |-> {}, copy |-> teamFile]
<1>1. /\ ~alive /\ alive' = TRUE /\ joined' = Members \ Unnamed(teamFile)
      /\ team' = teamFile /\ commits' = Append(commits, op)
      /\ UNCHANGED <<teamFile, acknowledged, posted, draining, got, again, failed>>
  BY DEF TeamLoads, CommitTeam
<1>2. commits = <<>> /\ teamFile \in TeamShape /\ draining \subseteq Members
  BY <1>1 DEF MailboxInv, MailboxShape, MailboxTypeOK
<1>3. op \in Commits
  BY <1>2 DEF Commits
<1>4. Grown(teamFile, op.copy)
  BY DEF Grown
<1>5. OperationFits(op, joined', posted', draining', teamFile.names)
  BY TeamMailboxAssumption DEF OperationFits, Everyone
<1>6. op.kind = "load" /\ op.copy = teamFile
  OBVIOUS
<1>7. joined' \subseteq Members /\ \A a \in joined' : teamFile.names[a] # NoName
  BY <1>1 DEF Unnamed
<1> HIDE DEF op
<1> QED BY <1>1, <1>2, <1>3, <1>4, <1>5, <1>6, <1>7, CommitKeeps

LEMMA ReserveKeepsNames == ASSUME MailboxInv, NEW a \in Members, ReserveName(a) PROVE MailboxInv'
<1> DEFINE free == CHOOSE n \in 1 .. Cardinality(Members) :
                     n \notin Names(team) /\ \A k \in 1 .. n - 1 : k \in Names(team)
           state == [team EXCEPT !.names[a] = free]
           op == [kind |-> "reserve", who |-> a, what |-> {}, copy |-> state]
<1>1. /\ alive /\ MayReserve /\ a \notin posted /\ posted' = posted \cup {a}
      /\ team' = state /\ commits' = Append(commits, op)
      /\ UNCHANGED <<teamFile, alive, acknowledged, joined, draining, got, again, failed>>
  BY DEF ReserveName, CommitTeam
<1>2. /\ team \in TeamShape /\ joined \subseteq Members /\ draining \subseteq Members
      /\ Cardinality(Members) \in Nat /\ commits \in Seq(Commits)
  BY TeamMailboxAssumption, FS_CardinalityType DEF MailboxInv, MailboxShape, MailboxTypeOK
<1>3. team.names[a] = NoName /\ teamFile.names[a] = NoName
  BY <1>1 DEF MailboxInv, NamesAreKept, NameIsKept
<1>4. free \in 1 .. Cardinality(Members) /\ free \notin Names(team)
  BY <1>2, <1>3, FreeSuffix
<1> HIDE DEF free
<1>5. /\ state \in TeamShape /\ state.names[a] = free /\ state.sent = team.sent /\ state.marks = team.marks
      /\ \A b \in Members : b # a => state.names[b] = team.names[b]
  <2>1. free \in Suffixes
    BY <1>2, <1>4 DEF Suffixes
  <2> QED BY <1>2, <2>1, NamedTeam
<1> HIDE DEF state
<1>6. op \in Commits /\ op.kind = "reserve" /\ op.who = a /\ op.copy = state
  BY <1>5 DEF Commits
<1>7. Grown(teamFile, state)
  BY <1>1, <1>3, <1>5 DEF Grown, MailboxInv, MemoryLeads
<1>8. free # NoName
  BY <1>2, <1>4 DEF NoName
<1>9. OperationFits(op, joined', posted', draining', teamFile.names)
  <2>1. a \notin joined
    BY <1>3 DEF MailboxInv, MemoryLeads
  <2> QED BY <1>1, <1>5, <1>6, <1>8, <2>1 DEF OperationFits
<1> HIDE DEF op
<1>10. \A b \in Members : teamFile.names[b] # op.copy.names[op.who]
  <2> SUFFICES ASSUME NEW b \in Members, teamFile.names[b] = free PROVE FALSE
    BY <1>5, <1>6
  <2>1. team.names[b] = free
    BY <1>1, <1>8 DEF MailboxInv, MemoryLeads, Grown
  <2> QED BY <1>4, <1>8, <2>1 DEF Names, Unnamed
<1>11. \A i \in 1 .. Len(commits) : commits[i].kind # "reserve"
  BY <1>1, <1>2 DEF MayReserve
<1>12. \A b \in Members :
         \/ op.copy.names[b] \in {NoName, team.names[b], teamFile.names[b]}
         \/ op.kind = "reserve" /\ op.who = b /\ b \notin posted /\ b \in posted'
  BY <1>1, <1>5, <1>6
<1>13. \A b \in joined' : teamFile.names[b] # NoName
  BY <1>1 DEF MailboxInv, MemoryLeads
<1> QED BY <1>1, <1>2, <1>6, <1>7, <1>9, <1>10, <1>11, <1>12, <1>13, CommitKeeps

LEMMA SendKeeps ==
  ASSUME MailboxInv, NEW letter \in Letters, NEW to \in Suffixes, SendLetter(letter, to)
  PROVE  MailboxInv'
<1> DEFINE message == [id |-> letter, to |-> to]
           state == [team EXCEPT !.sent = @ \cup {message}]
           op == [kind |-> "send", who |-> Everyone, what |-> {message}, copy |-> state]
<1>1. /\ alive /\ posted' = posted \cup {letter}
      /\ team' = state /\ commits' = Append(commits, op)
      /\ UNCHANGED <<teamFile, alive, acknowledged, joined, draining, got, again, failed>>
  BY DEF SendLetter, CommitTeam
<1>2. /\ team \in TeamShape /\ joined \subseteq Members /\ draining \subseteq Members
      /\ \A b \in joined : teamFile.names[b] # NoName
  BY DEF MailboxInv, MailboxShape, MailboxTypeOK, MemoryLeads
<1>3. message \in Messages
  BY DEF Messages
<1> HIDE DEF message
<1>4. /\ state \in TeamShape /\ state.names = team.names /\ state.marks = team.marks
      /\ state.sent = team.sent \cup {message}
  BY <1>2, <1>3 DEF TeamShape, Messages, Suffixes
<1> HIDE DEF state
<1>5. /\ op \in Commits /\ op.kind = "send" /\ op.copy = state /\ op.who = Everyone
      /\ op.what = {message}
  BY <1>3, <1>4 DEF Commits
<1> HIDE DEF op
<1>6. Grown(teamFile, state)
  BY <1>1, <1>4 DEF Grown, MailboxInv, MemoryLeads
<1>7. OperationFits(op, joined', posted', draining', teamFile.names)
  BY <1>4, <1>5, TeamMailboxAssumption DEF OperationFits, Everyone
<1> QED BY <1>1, <1>2, <1>4, <1>5, <1>6, <1>7, CommitKeeps

LEMMA DrainKeeps == ASSUME MailboxInv, NEW a \in Members, Drain(a) PROVE MailboxInv'
<1> DEFINE marks == {<<m.id, team.names[a]>> : m \in Unread(team.names[a])}
           state == [team EXCEPT !.marks = @ \cup marks]
           op == [kind |-> "drain", who |-> a, what |-> marks, copy |-> state]
<1>1. /\ alive /\ a \notin draining /\ a \in joined /\ team.names[a] # NoName /\ draining' = draining \cup {a}
      /\ team' = state /\ commits' = Append(commits, op)
      /\ UNCHANGED <<teamFile, alive, acknowledged, posted, joined, got, again, failed>>
  BY DEF Drain, CommitTeam
<1>2. /\ team \in TeamShape /\ joined \subseteq Members /\ draining \subseteq Members
      /\ \A b \in joined : teamFile.names[b] # NoName
      /\ commits \in Seq(Commits) /\ Cardinality(Members) \in Nat
  BY TeamMailboxAssumption, FS_CardinalityType
     DEF MailboxInv, MailboxShape, MailboxTypeOK, MemoryLeads
<1>3. team.names[a] = teamFile.names[a] /\ team.names[a] \in 1 .. Cardinality(Members)
  BY <1>1, <1>2 DEF MailboxInv, MemoryLeads, Grown, TeamShape, NoName
<1>4. /\ marks \subseteq MailMarks
      /\ \A m \in marks : m[2] = teamFile.names[a]
      /\ marks \cap team.marks = {}
  <2>1. ASSUME NEW k \in marks
        PROVE  k \in MailMarks /\ k[2] = teamFile.names[a] /\ k \notin team.marks
    <3>1. PICK m \in Unread(team.names[a]) : k = <<m.id, team.names[a]>>
      OBVIOUS
    <3>2. m \in team.sent /\ <<m.id, team.names[a]>> \notin team.marks
      BY <3>1 DEF Unread
    <3>3. m.id \in Letters
      BY <1>2, <3>2 DEF TeamShape
    <3> QED BY <1>3, <3>1, <3>2, <3>3 DEF MailMarks
  <2> HIDE DEF marks
  <2> QED BY <2>1
<1> HIDE DEF marks
<1>5. /\ state \in TeamShape /\ state.names = team.names /\ state.marks = team.marks \cup marks
      /\ state.sent = team.sent
  BY <1>2, <1>4, MarkedTeam
<1> HIDE DEF state
<1>6. op \in Commits /\ op.kind = "drain" /\ op.copy = state /\ op.who = a /\ op.what = marks
  <2>1. marks \subseteq MailMarks
    BY <1>4
  <2>2. marks \in SUBSET MailMarks
    BY <2>1
  <2>3. marks \in (SUBSET Messages) \cup (SUBSET MailMarks)
    BY <2>2
  <2> QED BY <1>5, <2>3 DEF Commits
<1> HIDE DEF op
<1>7. Grown(teamFile, state)
  BY <1>1, <1>5 DEF Grown, MailboxInv, MemoryLeads
<1>8. OperationFits(op, joined', posted', draining', teamFile.names)
  BY <1>1, <1>4, <1>5, <1>6 DEF OperationFits
<1>9. \A i \in 1 .. Len(commits) : commits[i].kind = "drain" => commits[i].who # op.who
  BY <1>1, <1>6 DEF MailboxInv, OperationsFit, OperationFits
<1>10. op.what \cap got = {}
  <2>1. got \subseteq team.marks
    BY <1>1 DEF MailboxInv, ReturnedIsOnFile, MemoryLeads, Grown
  <2> QED BY <1>4, <1>6, <2>1
<1> QED BY <1>1, <1>2, <1>5, <1>6, <1>7, <1>8, <1>9, <1>10, CommitKeeps

LEMMA StepMailbox == MailboxInv /\ [MailboxNext]_teamVars => MailboxInv'
<1> SUFFICES ASSUME MailboxInv, [MailboxNext]_teamVars PROVE MailboxInv'
  OBVIOUS
<1>1. CASE UNCHANGED teamVars
  <2>1. UNCHANGED <<teamFile, team, commits, alive, acknowledged, posted, joined, draining, got, again, failed>>
    BY <1>1 DEF teamVars
  <2>2. MailboxShape' /\ NamesAreKept' /\ OperationsFit'
    BY <2>1 DEF MailboxInv, MailboxShape, MailboxTypeOK, NamesAreKept, NameIsKept, OperationsFit, OperationFits
  <2>3. NamesDiffer(teamFile)' <=> NamesDiffer(teamFile)
    BY <2>1 DEF NamesDiffer, Unnamed
  <2>4. MemoryLeads' /\ ReturnedIsOnFile' /\ NothingTwice' /\ NamesAreReserved'
    BY <2>1, <2>3 DEF MailboxInv, MemoryLeads, Grown, ReturnedIsOnFile, NothingTwice, NamesAreReserved, Reserving
  <2> QED BY <2>2, <2>4 DEF MailboxInv
<1>2. ASSUME NEW letter \in Letters, NEW to \in 0 .. Cardinality(Members), SendLetter(letter, to)
      PROVE  MailboxInv'
  BY <1>2, SendKeeps DEF Suffixes
<1> QED BY <1>1, <1>2, WriteKeeps, FailKeeps, DeathKeeps, LoadKeeps, ReserveKeepsNames, DrainKeeps DEF MailboxNext

LEMMA MailboxInvariant == MailboxSpec => []MailboxInv
  BY InitMailbox, StepMailbox, PTL DEF MailboxSpec

\* What has returned is in the file, no message is taken twice while all names
\* differ, and they all differ unless a write has failed: for any number of
\* members and messages, deaths of the process and orders of the writes.
THEOREM MailboxIsSafe == MailboxSpec => []MailboxSafety
<1>1. MailboxInv => MailboxSafety
  BY DEF MailboxInv, MailboxShape, MailboxSafety, NothingTwice, TakenOnce, NamesAreReserved, NamesAreUnique
<1> QED BY <1>1, MailboxInvariant, PTL
=============================================================================
