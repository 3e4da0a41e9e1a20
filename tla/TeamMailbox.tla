------------------------------- MODULE TeamMailbox -------------------------------
(***************************************************************************)
(* The members and messages of an Agent Team,                               *)
(*   src/src/services/teams/manager.ts  TeamManager                         *)
(* Every operation changes the state in memory at once and queues a copy of *)
(* it to be merged into the file; what was written then replaces the state  *)
(* in memory, and with it whatever was changed in the meantime.  A change   *)
(* comes back when its own copy is written.                                 *)
(***************************************************************************)
EXTENDS Integers, FiniteSets, Sequences

CONSTANTS
  Members,             \* agent ids that may join
  Letters,             \* ids of messages
  MaxTeamTrouble       \* bound: deaths of the process and writes that fail

ASSUME TeamMailboxAssumption ==
  MaxTeamTrouble \in Nat /\ IsFiniteSet(Members) /\ 0 \notin Members

Everyone == 0          \* the address "*"
NoName == 0

(***************************************************************************)
(* A state of the team: the name of each member (they all ask for the same, *)
(* so a name is the suffix it gets), the messages with their address, and   *)
(* which message is marked as delivered to which name.                      *)
(***************************************************************************)
NewTeam == [names |-> [a \in Members |-> NoName], sent |-> {}, marks |-> {}]

Unnamed(team) == {a \in Members : team.names[a] = NoName}
Names(team) == {team.names[a] : a \in Members \ Unnamed(team)}

VARIABLES
  teamFile,
  team,         \* state in memory
  commits,      \* commits waiting for the write queue, each with its copy
  alive,        \* the process runs
  acknowledged, \* messages whose send has returned
  posted,       \* ids of messages and members that were used
  joined,       \* members that run
  draining,     \* members waiting for their drain to return
  got,          \* messages that drain returned, by name
  again,        \* those it returned again
  teamHitches,
  failed        \* a write has failed

teamVars == <<teamFile, team, commits, alive, acknowledged, posted, joined, draining, got, again, teamHitches, failed>>

MailboxInit ==
  /\ teamFile = NewTeam /\ team = NewTeam
  /\ commits = <<>> /\ alive = TRUE
  /\ acknowledged = {} /\ posted = {} /\ joined = {} /\ draining = {} /\ got = {} /\ again = {}
  /\ teamHitches = 0 /\ failed = FALSE

\* commit, up to its first await.
CommitTeam(state, operation, member, outcome) ==
  /\ team' = state
  /\ commits' = Append(commits, [kind |-> operation, who |-> member, what |-> outcome, copy |-> state])

\* The lead calls its tools one after the other (core/agent-loop.ts), so it waits
\* for a teammate's place before it launches the next.
MayReserve == \A i \in DOMAIN commits : commits[i].kind # "reserve"

\* reserveMember: the first suffix no member in memory has.
ReserveName(a) ==
  /\ alive /\ MayReserve
  /\ a \notin posted /\ posted' = posted \cup {a}
  /\ LET free == CHOOSE n \in 1 .. Cardinality(Members) :
                   n \notin Names(team) /\ \A k \in 1 .. n - 1 : k \in Names(team)
     IN CommitTeam([team EXCEPT !.names[a] = free], "reserve", a, {})
  /\ UNCHANGED <<teamFile, alive, acknowledged, joined, draining, got, again, teamHitches, failed>>

\* send, to a name that exists or to everyone.
SendLetter(letter, to) ==
  /\ alive /\ to \in Names(team) \cup {Everyone}
  /\ letter \notin posted /\ posted' = posted \cup {letter}
  /\ LET message == [id |-> letter, to |-> to]
     IN CommitTeam([team EXCEPT !.sent = @ \cup {message}], "send", Everyone, {message})
  /\ UNCHANGED <<teamFile, alive, acknowledged, joined, draining, got, again, teamHitches, failed>>

Unread(name) ==
  {m \in team.sent : m.to \in {name, Everyone} /\ <<m.id, name>> \notin team.marks}

\* drain, before every turn of the member and before it stops.
Drain(a) ==
  /\ alive /\ a \notin draining
  /\ a \in joined /\ team.names[a] # NoName
  /\ LET name == team.names[a]
         pending == Unread(name)
     IN /\ pending # {}
        /\ CommitTeam([team EXCEPT !.marks = @ \cup {<<m.id, name>> : m \in pending}],
                      "drain", a, {<<m.id, name>> : m \in pending})
  /\ draining' = draining \cup {a}
  /\ UNCHANGED <<teamFile, alive, acknowledged, posted, joined, got, again, teamHitches, failed>>

\* Mutant: of a message both have, the marks of the copy count.
MergedMarks(persisted, copy) ==
  [names |-> [a \in Members |-> IF copy.names[a] # NoName THEN copy.names[a] ELSE persisted.names[a]],
   sent |-> persisted.sent \cup copy.sent,
   marks |-> copy.marks \cup {k \in persisted.marks : ~ \E m \in copy.sent : m.id = k[1]}]

\* mergeTeamStates
Merged(persisted, copy) ==
  [names |-> [a \in Members |-> IF copy.names[a] # NoName THEN copy.names[a] ELSE persisted.names[a]],
   sent |-> persisted.sent \cup copy.sent,
   marks |-> persisted.marks \cup copy.marks]

\* What the state in memory becomes after a write.
Adopted(written, copy) == written

Returned(operation) ==
  /\ joined' = IF operation.kind = "reserve" THEN joined \cup {operation.who} ELSE joined
  /\ acknowledged' = IF operation.kind = "send" THEN acknowledged \cup operation.what ELSE acknowledged
  /\ IF operation.kind = "drain"
     THEN /\ got' = got \cup operation.what
          /\ again' = again \cup (got \cap operation.what)
          /\ draining' = draining \ {operation.who}
     ELSE UNCHANGED <<got, again, draining>>

WriteTeam ==
  /\ alive /\ commits # <<>>
  /\ LET operation == Head(commits)
         written == Merged(teamFile, operation.copy)
     IN /\ teamFile' = written
        /\ team' = Adopted(written, operation.copy)
        /\ Returned(operation)
  /\ commits' = Tail(commits)
  /\ UNCHANGED <<alive, posted, teamHitches, failed>>

\* The lock cannot be had: the operation fails, the state in memory stays.
WriteTeamFails ==
  /\ alive /\ commits # <<>>
  /\ failed' = TRUE
  /\ teamHitches < MaxTeamTrouble /\ teamHitches' = teamHitches + 1
  /\ draining' = draining \ {Head(commits).who}
  /\ commits' = Tail(commits)
  /\ UNCHANGED <<teamFile, team, alive, acknowledged, posted, joined, got, again>>

TeamDies ==
  /\ alive /\ alive' = FALSE
  /\ teamHitches < MaxTeamTrouble /\ teamHitches' = teamHitches + 1
  /\ team' = NewTeam /\ commits' = <<>> /\ draining' = {}
  /\ UNCHANGED <<teamFile, acknowledged, posted, joined, got, again, failed>>

\* load: the members that ran are recovered, which is committed at once.
TeamLoads ==
  /\ ~alive /\ alive' = TRUE
  /\ joined' = Members \ Unnamed(teamFile)
  /\ CommitTeam(teamFile, "load", Everyone, {})
  /\ UNCHANGED <<teamFile, acknowledged, posted, draining, got, again, teamHitches, failed>>

MailboxNext ==
  \/ WriteTeam \/ WriteTeamFails \/ TeamDies \/ TeamLoads
  \/ \E a \in Members : ReserveName(a) \/ Drain(a)
  \/ \E letter \in Letters, to \in 0 .. Cardinality(Members) : SendLetter(letter, to)

\* The process comes back, writes end, and members go on taking turns.
MailboxFairness ==
  /\ WF_teamVars(WriteTeam) /\ WF_teamVars(TeamLoads)
  /\ \A a \in Members : SF_teamVars(Drain(a))

MailboxSpec == MailboxInit /\ [][MailboxNext]_teamVars
MailboxFairSpec == MailboxSpec /\ MailboxFairness

-----------------------------------------------------------------------------
TeamShape ==
  [names : [Members -> 0 .. Cardinality(Members)],
   sent : SUBSET [id : Letters, to : 0 .. Cardinality(Members)],
   marks : SUBSET (Letters \X (1 .. Cardinality(Members)))]

MailboxTypeOK ==
  /\ teamFile \in TeamShape /\ team \in TeamShape
  /\ alive \in BOOLEAN /\ draining \subseteq Members
  /\ got \subseteq Letters \X (1 .. Cardinality(Members)) /\ again \subseteq got

NamesDiffer(state) ==
  \A a, b \in Members \ Unnamed(state) : a # b => state.names[a] # state.names[b]

\* docs/tasks.md: "Additional teammate names are made unique within that team."
\* They are, as long as every write succeeds.
NamesAreUnique == ~failed => NamesDiffer(teamFile)

\* A message whose send has returned is in the file, and so is the mark of
\* every message a drain has returned, whatever other copies were written.
ReturnedIsOnFile ==
  /\ acknowledged \subseteq teamFile.sent
  /\ got \subseteq teamFile.marks

\* As long as no two members share a name, no drain returns a message again.
TakenOnce == NamesDiffer(teamFile) => again = {}

\* What a member was told of the team stays true of the file.
MailboxSafety == MailboxTypeOK /\ ReturnedIsOnFile /\ TakenOnce /\ NamesAreUnique

\* A message whose send has returned is taken by every member that runs and that
\* it is for.
MailArrives ==
  \A letter \in Letters, a \in Members :
    (\E m \in acknowledged : m.id = letter /\ a \in joined /\ m.to \in {teamFile.names[a], Everyone})
      ~> <<letter, teamFile.names[a]>> \in team.marks
=============================================================================
