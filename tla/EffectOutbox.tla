----------------------------- MODULE EffectOutbox -----------------------------
(***************************************************************************)
(* The durable effect queue ("outbox") of the tnb runtime store and the    *)
(* loop of a dispatcher that drains it:                                    *)
(*   src/src/services/runtime/store.ts        enqueue, claimEffects,       *)
(*       settleEffect, reclaimEffects, nextDueAt, deleteTerminalRun        *)
(*   src/src/services/runtime/engine-core.ts  start, tick, #tick, #arm     *)
(*                                                                         *)
(* A row is keyed by (run, kind, key).  Enqueuing on an existing row       *)
(* coalesces: the generation moves on, the data is replaced and a lease    *)
(* that is out stays out.  A dispatcher claims rows under a lease token,   *)
(* works on each for an unbounded time, then settles it with the token.    *)
(*                                                                         *)
(* Time is abstracted to what the queries compare: a row is due or not, a  *)
(* lease has expired or not; both change in steps of the environment.  An  *)
(* owner that lost the directory lock (a suspended process) may go on      *)
(* running beside its successor.                                           *)
(***************************************************************************)
EXTENDS Integers, FiniteSets

CONSTANTS
  Owners,             \* identities of dispatcher processes
  NoOwner,            \* lease_owner IS NULL; also: the directory lock is free
  Runs,
  Keys,               \* the (run, kind, key) triples of the unique index
  RunOf,              \* [Keys -> Runs]
  ControlKeys,        \* the "run-control" key of each run
  Tokens,             \* lease tokens; a fresh one is one nobody holds
  NoToken,            \* lease_token IS NULL
  MaxEffects,         \* StoreLimits.maxEffects
  MaxEffectsPerRun,   \* StoreLimits.maxEffectsPerRun
  ClaimLimit,         \* claimEffects limit (16 in #tick)
  MaxPosts,           \* bound: enqueue calls per key
  MaxCrashes,         \* bound: owner processes that die or lose the lock
  MayFreeze           \* whether an owner may lose the lock and live on

ASSUME OutboxAssumption ==
  /\ RunOf \in [Keys -> Runs]
  /\ ControlKeys \subseteq Keys
  /\ NoToken \notin Tokens
  /\ NoOwner \notin Owners
  /\ MayFreeze \in BOOLEAN
  /\ {MaxEffects, MaxEffectsPerRun, ClaimLimit, MaxPosts, MaxCrashes} \subseteq Nat

VARIABLES
  rows,       \* the effects table
  runState,   \* runs.status, as far as the queue reads it
  owner,      \* holder of the directory lock
  live,       \* running dispatcher processes
  held,       \* claims a dispatcher still has to settle (the loop of #tick)
  dirty,      \* #dirty: a committed change asks for another tick
  watch,      \* rows nextDueAt took into account when the timer was armed
  crashes,
  latest,     \* history: enqueue calls committed for a key
  seen,       \* history: newest enqueue a dispatcher has been handed
  handled     \* history: newest enqueue whose row was settled away

vars == <<rows, runState, owner, live, held, dirty, watch, crashes, latest, seen, handled>>

Row == [present: BOOLEAN, gen: Nat, data: Nat, due: BOOLEAN,
        token: Tokens \cup {NoToken}, leaseOwner: Owners \cup {NoOwner},
        leaseGen: Nat, expired: BOOLEAN]

NoRow == [present |-> FALSE, gen |-> 0, data |-> 0, due |-> FALSE,
          token |-> NoToken, leaseOwner |-> NoOwner, leaseGen |-> 0, expired |-> FALSE]

Claim == [key: Keys, token: Tokens, data: Nat]

ClearLease(r) == [r EXCEPT !.token = NoToken, !.leaseOwner = NoOwner, !.leaseGen = 0, !.expired = FALSE]

Leased(k) == rows[k].token # NoToken

Claimable(k) ==
  /\ rows[k].present
  /\ rows[k].due
  /\ Leased(k) => rows[k].expired
  /\ k \in ControlKeys \/ runState[RunOf[k]] = "active"

Business == {k \in Keys \ ControlKeys : rows[k].present}

BusinessOf(r) == {k \in Business : RunOf[k] = r}

UsedTokens == {rows[k].token : k \in Keys} \cup UNION {{c.token : c \in held[o]} : o \in Owners}

\* Mutant: MIN over rows without a lease, forgetting expiry.
NextDueUnleased(table) ==
  {k \in Keys : /\ table[k].present /\ table[k].token = NoToken
                /\ k \in ControlKeys \/ runState[RunOf[k]] = "active"}

\* The rows the next timer accounts for: every row a claim could ever take.
NextDueIn(table) == {k \in Keys : table[k].present /\ (k \in ControlKeys \/ runState[RunOf[k]] = "active")}

Init ==
  /\ rows = [k \in Keys |-> NoRow]
  /\ runState = [r \in Runs |-> "active"]
  /\ owner = NoOwner
  /\ live = {}
  /\ held = [o \in Owners |-> {}]
  /\ dirty = [o \in Owners |-> FALSE]
  /\ watch = [o \in Owners |-> {}]
  /\ crashes = 0
  /\ latest = [k \in Keys |-> 0]
  /\ seen = [k \in Keys |-> 0]
  /\ handled = [k \in Keys |-> 0]

-----------------------------------------------------------------------------
(* A new owner takes the lock, clears the leases of every other owner and  *)
(* arms itself.  Owner identities are random, so one is reused here only   *)
(* when no row and no claim remembers it.                                  *)
Start(o) ==
  /\ owner = NoOwner
  /\ o \notin live
  /\ \A k \in Keys : rows[k].leaseOwner # o
  /\ owner' = o
  /\ live' = live \cup {o}
  /\ rows' = [k \in Keys |-> IF rows[k].leaseOwner \notin {NoOwner, o} THEN ClearLease(rows[k]) ELSE rows[k]]
  /\ dirty' = [dirty EXCEPT ![o] = TRUE]
  /\ watch' = [watch EXCEPT ![o] = {}]
  /\ UNCHANGED <<runState, held, crashes, latest, seen, handled>>

HasRoom(r) == Cardinality(Business) < MaxEffects /\ Cardinality(BusinessOf(r)) < MaxEffectsPerRun

\* INSERT ... ON CONFLICT DO UPDATE leaves the lease columns alone.
Upsert(r, data, due) ==
  IF r.present
  THEN [r EXCEPT !.gen = @ + 1, !.data = data, !.due = due]
  ELSE [NoRow EXCEPT !.present = TRUE, !.gen = 1, !.data = data, !.due = due]

\* A command of process o commits an enqueue and notifies the loop of o alone.
Enqueue(o, k) ==
  /\ o \in live
  /\ runState[RunOf[k]] # "pruned"
  /\ latest[k] < MaxPosts
  /\ rows[k].present \/ k \in ControlKeys \/ HasRoom(RunOf[k])
  /\ \E due \in BOOLEAN : rows' = [rows EXCEPT ![k] = Upsert(rows[k], latest[k] + 1, due)]
  /\ latest' = [latest EXCEPT ![k] = @ + 1]
  /\ dirty' = [dirty EXCEPT ![o] = TRUE]
  /\ UNCHANGED <<runState, owner, live, held, watch, crashes, seen, handled>>

\* Mutant: a claim of an expired row keeps the token it finds there.
ClaimRowsKeepingToken(o, S, token) ==
  LET Token(k) == IF Leased(k) THEN rows[k].token ELSE token[k] IN
  /\ rows' = [k \in Keys |->
       IF k \in S
       THEN [rows[k] EXCEPT !.token = Token(k), !.leaseOwner = o, !.leaseGen = rows[k].gen, !.expired = FALSE]
       ELSE rows[k]]
  /\ held' = [held EXCEPT ![o] = {[key |-> k, token |-> Token(k), data |-> rows[k].data] : k \in S}]
  /\ seen' = [k \in Keys |-> IF k \in S THEN rows[k].data ELSE seen[k]]
  /\ watch' = [watch EXCEPT ![o] = IF S = {} THEN NextDueIn(rows) ELSE {}]

\* One claim transaction: at most ClaimLimit rows, each under a fresh token.
ClaimRows(o, S, token) ==
  /\ rows' = [k \in Keys |->
       IF k \in S
       THEN [rows[k] EXCEPT !.token = token[k], !.leaseOwner = o, !.leaseGen = rows[k].gen, !.expired = FALSE]
       ELSE rows[k]]
  /\ held' = [held EXCEPT ![o] = {[key |-> k, token |-> token[k], data |-> rows[k].data] : k \in S}]
  /\ seen' = [k \in Keys |-> IF k \in S THEN rows[k].data ELSE seen[k]]
  /\ watch' = [watch EXCEPT ![o] = IF S = {} THEN NextDueIn(rows) ELSE {}]

\* tick clears #dirty before it reads; while claims are out no second tick
\* starts (#pumping).  Which rows a full batch leaves out is not modelled.
Tick(o) ==
  /\ o \in live
  /\ held[o] = {}
  /\ \E S \in SUBSET {k \in Keys : Claimable(k)} :
       /\ \/ S = {k \in Keys : Claimable(k)}
          \/ Cardinality(S) = ClaimLimit
       /\ Cardinality(S) <= ClaimLimit
       /\ \E token \in [S -> Tokens \ UsedTokens] :
            /\ \A j, k \in S : token[j] = token[k] => j = k
            /\ ClaimRows(o, S, token)
  /\ dirty' = [dirty EXCEPT ![o] = FALSE]
  /\ UNCHANGED <<runState, owner, live, crashes, latest, handled>>

\* The armed timer fires: at once when dirty, else when a watched row is due.
TimerFires(o) ==
  /\ dirty[o] \/ \E k \in watch[o] : Claimable(k)
  /\ Tick(o)

\* The storage check wakes the loop at least every 30 seconds.
StorageCheck(o) == ~dirty[o] /\ Tick(o)

\* Mutant: the generation is not compared.
SettleAnyGeneration(k, token, retry) ==
  LET r == rows[k] IN
  IF ~r.present \/ r.token # token \/ r.expired THEN r
  ELSE IF retry THEN [ClearLease(r) EXCEPT !.due = FALSE]
  ELSE NoRow

\* Mutant: a lease that ran out still settles.
SettleAfterExpiry(k, token, retry) ==
  LET r == rows[k] IN
  IF ~r.present \/ r.token # token THEN r
  ELSE IF r.gen # r.leaseGen THEN ClearLease(r)
  ELSE IF retry THEN [ClearLease(r) EXCEPT !.due = FALSE]
  ELSE NoRow

(* Settling a claim: stale when the row is gone, re-leased or the lease ran *)
(* out; superseded when the row was enqueued again meanwhile; else deleted  *)
(* or rescheduled.  The last settlement of a batch re-arms the timer.       *)
SettleRow(k, token, retry) ==
  LET r == rows[k] IN
  IF ~r.present \/ r.token # token \/ r.expired THEN r
  ELSE IF r.gen # r.leaseGen THEN ClearLease(r)
  ELSE IF retry THEN [ClearLease(r) EXCEPT !.due = FALSE]
  ELSE NoRow

Settle(o, c, retry) ==
  /\ o \in live
  /\ c \in held[o]
  /\ rows' = [rows EXCEPT ![c.key] = SettleRow(c.key, c.token, retry)]
  /\ handled' = [handled EXCEPT ![c.key] =
       IF rows[c.key].present /\ ~rows'[c.key].present THEN c.data ELSE @]
  /\ held' = [held EXCEPT ![o] = @ \ {c}]
  /\ watch' = [watch EXCEPT ![o] = IF held[o] = {c} THEN NextDueIn(rows') ELSE @]
  /\ UNCHANGED <<runState, owner, live, dirty, crashes, latest, seen>>

-----------------------------------------------------------------------------
\* Commands that move a run; resuming re-enqueues elsewhere and notifies.
SetRunState(o, r, s) ==
  /\ o \in live
  /\ runState[r] \in {"active", "stopped"}
  /\ s # runState[r]
  /\ runState' = [runState EXCEPT ![r] = s]
  /\ dirty' = [dirty EXCEPT ![o] = TRUE]
  /\ UNCHANGED <<rows, owner, live, held, watch, crashes, latest, seen, handled>>

\* Offline maintenance under the same lock deletes a terminal run.
PruneRun(r) ==
  /\ owner = NoOwner
  /\ runState[r] = "terminal"
  /\ runState' = [runState EXCEPT ![r] = "pruned"]
  /\ rows' = [k \in Keys |-> IF RunOf[k] = r THEN NoRow ELSE rows[k]]
  /\ UNCHANGED <<owner, live, held, dirty, watch, crashes, latest, seen, handled>>

Crash(o) ==
  /\ o \in live
  /\ crashes < MaxCrashes
  /\ crashes' = crashes + 1
  /\ live' = live \ {o}
  /\ owner' = IF owner = o THEN NoOwner ELSE owner
  /\ held' = [held EXCEPT ![o] = {}]
  /\ dirty' = [dirty EXCEPT ![o] = FALSE]
  /\ watch' = [watch EXCEPT ![o] = {}]
  /\ UNCHANGED <<rows, runState, latest, seen, handled>>

\* The lock goes stale under a suspended process, which may then run on.
LoseLock ==
  /\ MayFreeze
  /\ owner # NoOwner
  /\ crashes < MaxCrashes
  /\ crashes' = crashes + 1
  /\ owner' = NoOwner
  /\ UNCHANGED <<rows, runState, live, held, dirty, watch, latest, seen, handled>>

BecomeDue(k) ==
  /\ rows[k].present
  /\ ~rows[k].due
  /\ rows' = [rows EXCEPT ![k].due = TRUE]
  /\ UNCHANGED <<runState, owner, live, held, dirty, watch, crashes, latest, seen, handled>>

ExpireLease(k) ==
  /\ Leased(k)
  /\ ~rows[k].expired
  /\ rows' = [rows EXCEPT ![k].expired = TRUE]
  /\ UNCHANGED <<runState, owner, live, held, dirty, watch, crashes, latest, seen, handled>>

Next ==
  \/ \E o \in Owners : Start(o)
  \/ \E o \in Owners, k \in Keys : Enqueue(o, k)
  \/ \E o \in Owners : TimerFires(o)
  \/ \E o \in Owners : StorageCheck(o)
  \/ \E o \in Owners : \E c \in held[o], retry \in BOOLEAN : Settle(o, c, retry)
  \/ \E o \in Owners, r \in Runs, s \in {"active", "stopped", "terminal"} : SetRunState(o, r, s)
  \/ \E r \in Runs : PruneRun(r)
  \/ \E o \in Owners : Crash(o)
  \/ LoseLock
  \/ \E k \in Keys : BecomeDue(k)
  \/ \E k \in Keys : ExpireLease(k)

Spec == Init /\ [][Next]_vars

\* The event loop keeps running timers and settling what it claimed, the
\* supervisor restarts a dead owner, and the clock moves on.
Fairness ==
  /\ \A o \in Owners : WF_vars(TimerFires(o))
  /\ \A o \in Owners : WF_vars(\E c \in held[o], retry \in BOOLEAN : Settle(o, c, retry))
  /\ WF_vars(\E o \in Owners : Start(o))
  /\ \A k \in Keys : WF_vars(BecomeDue(k)) /\ WF_vars(ExpireLease(k))

FairSpec == Spec /\ Fairness

-----------------------------------------------------------------------------
\* Types of the table, the processes and the history variables.
TypeOK ==
  /\ rows \in [Keys -> Row]
  /\ runState \in [Runs -> {"active", "stopped", "terminal", "pruned"}]
  /\ owner \in Owners \cup {NoOwner}
  /\ live \in SUBSET Owners
  /\ held \in [Owners -> SUBSET Claim]
  /\ dirty \in [Owners -> BOOLEAN]
  /\ watch \in [Owners -> SUBSET Keys]
  /\ crashes \in Nat
  /\ latest \in [Keys -> Nat]
  /\ seen \in [Keys -> Nat]
  /\ handled \in [Keys -> Nat]

\* settleEffect deletes a row only for a dispatcher that was handed the newest
\* enqueue: an enqueue that lands while the row is out, under whatever mix of
\* expiry, crash, reclaim and zombie settlement, is never deleted unseen.
NoWorkLost ==
  \A k \in Keys : ~rows[k].present /\ runState[RunOf[k]] # "pruned" => handled[k] = latest[k]

\* The lease fields fence claims: at any moment at most one outstanding claim
\* on a row can still be settled with effect, and no lease outlives its row.
OneSettlingClaim ==
  \A k \in Keys :
    /\ Leased(k) => rows[k].present
    /\ \A o, p \in Owners : \A c \in held[o], d \in held[p] :
         /\ c.key = k /\ d.key = k
         /\ Leased(k) /\ c.token = rows[k].token /\ d.token = rows[k].token
         => o = p /\ c = d /\ rows[k].leaseOwner = o

\* Every enqueue on a run that stays active reaches a dispatcher with its own
\* data or newer, through crashes, expiry, retries and coalescing; a control
\* row does so whatever the state of its run.
EventuallyDelivered ==
  \A k \in Keys, n \in 1 .. MaxPosts :
    latest[k] >= n ~>
      \/ seen[k] >= n
      \/ k \notin ControlKeys /\ runState[RunOf[k]] # "active"
      \/ runState[RunOf[k]] = "pruned"

-----------------------------------------------------------------------------
\* What the queue promises: WakeSlots, one slot per key.
SlotOf(k) ==
  IF ~rows[k].present THEN "none"
  ELSE IF rows[k].token = NoToken \/ rows[k].expired THEN "pending"
  ELSE IF rows[k].gen = rows[k].leaseGen THEN "leased"
  ELSE "superseded"

Slots == INSTANCE WakeSlots WITH
  slot <- [k \in Keys |-> SlotOf(k)],
  open <- {k \in Keys : runState[RunOf[k]] # "pruned"}

\* The table implements the slots: a row disappears only when it is settled by
\* the current claim at its current generation, or with its pruned run.
SlotsSpec == Slots!Spec
=============================================================================
