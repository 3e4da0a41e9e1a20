------------------------- MODULE EffectOutbox_proofs -------------------------
(***************************************************************************)
(* Theorems about EffectOutbox for any number of owners, runs, keys and     *)
(* tokens and any bounds: types, the fencing of claims, and that no enqueue *)
(* is deleted before a dispatcher was handed it.                            *)
(***************************************************************************)
EXTENDS EffectOutbox, TLAPS

\* The work a claim carries is the newest enqueue of its key unless the row
\* was enqueued again, re-leased or removed since the claim.
RowIsNewest == \A k \in Keys : rows[k].present => rows[k].data = latest[k]

ClaimIsCurrent ==
  \A o \in Owners : \A c \in held[o] :
    rows[c.key].token = c.token /\ rows[c.key].gen = rows[c.key].leaseGen
      => c.data = rows[c.key].data

\* A lease was taken at a generation the row has had.
LeaseNotAhead == \A k \in Keys : rows[k].leaseGen <= rows[k].gen

\* No lease outlives its row.
LeasedIsPresent == \A k \in Keys : Leased(k) => rows[k].present

\* A claim whose token is on the row belongs to the lease owner, who holds one
\* claim per key.
ClaimsAreOwned ==
  \A o \in Owners : \A c \in held[o] :
    /\ rows[c.key].token = c.token => rows[c.key].leaseOwner = o
    /\ \A d \in held[o] : c.key = d.key => c = d

IInv == TypeOK /\ NoWorkLost /\ RowIsNewest /\ ClaimIsCurrent /\ LeaseNotAhead

FenceInv == TypeOK /\ LeasedIsPresent /\ ClaimsAreOwned

-----------------------------------------------------------------------------
\* What the row operators build is a row.
LEMMA RowTypes ==
  /\ NoRow \in Row
  /\ \A r \in Row : ClearLease(r) \in Row
BY OutboxAssumption DEF NoRow, Row, ClearLease

\* Each update of a row keeps it a row.
LEMMA RowUpdates ==
  ASSUME NEW r \in Row
  PROVE  /\ \A n, m \in Nat, due \in BOOLEAN : [r EXCEPT !.gen = n, !.data = m, !.due = due] \in Row
         /\ \A n, m \in Nat, due \in BOOLEAN :
              [r EXCEPT !.present = TRUE, !.gen = n, !.data = m, !.due = due] \in Row
         /\ \A t \in Tokens, o \in Owners :
              [r EXCEPT !.token = t, !.leaseOwner = o, !.leaseGen = r.gen, !.expired = FALSE] \in Row
         /\ \A b \in BOOLEAN : [r EXCEPT !.due = b] \in Row
         /\ \A b \in BOOLEAN : [r EXCEPT !.expired = b] \in Row
BY DEF Row

LEMMA UpsertType ==
  ASSUME NEW r \in Row, NEW n \in Nat, NEW due \in BOOLEAN
  PROVE  Upsert(r, n, due) \in Row
<1>1. r.gen + 1 \in Nat /\ NoRow \in Row
  BY RowTypes DEF Row
<1> QED
  BY <1>1, RowUpdates DEF Upsert

LEMMA SettleRowType ==
  ASSUME TypeOK, NEW k \in Keys, NEW token, NEW retry
  PROVE  SettleRow(k, token, retry) \in Row
<1>1. rows[k] \in Row
  BY DEF TypeOK
<1>2. ClearLease(rows[k]) \in Row
  BY <1>1, RowTypes
<1>3. [ClearLease(rows[k]) EXCEPT !.due = FALSE] \in Row
  BY <1>2, RowUpdates
<1> QED
  BY <1>1, <1>2, <1>3, RowTypes DEF SettleRow

\* The tokens a claim may take are on no row and in no claim.
LEMMA FreshTokens ==
  ASSUME NEW t \in Tokens \ UsedTokens
  PROVE  /\ \A k \in Keys : rows[k].token # t
         /\ \A o \in Owners : \A c \in held[o] : c.token # t
         /\ t # NoToken
BY OutboxAssumption DEF UsedTokens

-----------------------------------------------------------------------------
LEMMA TypeInit == Init => TypeOK
BY RowTypes, OutboxAssumption DEF Init, TypeOK

LEMMA TypeNext == TypeOK /\ [Next]_vars => TypeOK'
<1> SUFFICES ASSUME TypeOK, [Next]_vars PROVE TypeOK'
  OBVIOUS
<1> USE OutboxAssumption DEF TypeOK
<1>1. ASSUME NEW o \in Owners, Start(o) PROVE TypeOK'
  <2>1. rows' \in [Keys -> Row]
    BY <1>1, RowTypes DEF Start
  <2> QED
    BY <1>1, <2>1 DEF Start
<1>2. ASSUME NEW o \in Owners, NEW k \in Keys, Enqueue(o, k) PROVE TypeOK'
  <2>1. PICK due \in BOOLEAN : rows' = [rows EXCEPT ![k] = Upsert(rows[k], latest[k] + 1, due)]
    BY <1>2 DEF Enqueue
  <2>2. rows[k] \in Row /\ latest[k] + 1 \in Nat
    OBVIOUS
  <2>3. rows' \in [Keys -> Row]
    BY <2>1, <2>2, UpsertType
  <2> QED
    BY <1>2, <2>3 DEF Enqueue
<1>3. ASSUME NEW o \in Owners, Tick(o) PROVE TypeOK'
  <2>1. PICK S \in SUBSET {k \in Keys : Claimable(k)} :
          \E token \in [S -> Tokens \ UsedTokens] : ClaimRows(o, S, token)
    BY <1>3 DEF Tick
  <2>2. PICK token \in [S -> Tokens \ UsedTokens] : ClaimRows(o, S, token)
    BY <2>1
  <2>3. \A k \in S : [rows[k] EXCEPT !.token = token[k], !.leaseOwner = o, !.leaseGen = rows[k].gen, !.expired = FALSE] \in Row
    BY RowUpdates
  <2>4. rows' \in [Keys -> Row]
    BY <2>2, <2>3 DEF ClaimRows
  <2>5. \A k \in S : [key |-> k, token |-> token[k], data |-> rows[k].data] \in Claim
    BY DEF Row, Claim
  <2>6. held' \in [Owners -> SUBSET Claim]
    <3>1. {[key |-> k, token |-> token[k], data |-> rows[k].data] : k \in S} \subseteq Claim
      BY <2>5
    <3> QED
      BY <2>2, <3>1 DEF ClaimRows
  <2>7. seen' \in [Keys -> Nat]
    BY <2>2 DEF ClaimRows, Row
  <2>8. watch' \in [Owners -> SUBSET Keys]
    BY <2>2 DEF ClaimRows, NextDueIn
  <2> QED
    BY <1>3, <2>4, <2>6, <2>7, <2>8 DEF Tick
<1>4. ASSUME NEW o \in Owners, NEW c \in held[o], NEW retry \in BOOLEAN, Settle(o, c, retry) PROVE TypeOK'
  <2>1. c \in Claim
    OBVIOUS
  <2>2. c.key \in Keys /\ c.data \in Nat
    BY <2>1 DEF Claim
  <2>3. rows' \in [Keys -> Row]
    BY <1>4, <2>2, SettleRowType DEF Settle
  <2>4. handled' \in [Keys -> Nat]
    BY <1>4, <2>2 DEF Settle
  <2>5. watch' \in [Owners -> SUBSET Keys]
    BY <1>4 DEF Settle, NextDueIn
  <2> QED
    BY <1>4, <2>3, <2>4, <2>5 DEF Settle
<1>5. ASSUME NEW o \in Owners, NEW r \in Runs, NEW s \in {"active", "stopped", "terminal"}, SetRunState(o, r, s) PROVE TypeOK'
  BY <1>5 DEF SetRunState
<1>6. ASSUME NEW r \in Runs, PruneRun(r) PROVE TypeOK'
  BY <1>6, RowTypes DEF PruneRun
<1>7. ASSUME NEW o \in Owners, Crash(o) PROVE TypeOK'
  BY <1>7 DEF Crash
<1>8. CASE LoseLock
  BY <1>8 DEF LoseLock
<1>9. ASSUME NEW k \in Keys, BecomeDue(k) PROVE TypeOK'
  <2>1. [rows[k] EXCEPT !.due = TRUE] \in Row
    BY RowUpdates
  <2> QED
    BY <1>9, <2>1 DEF BecomeDue
<1>10. ASSUME NEW k \in Keys, ExpireLease(k) PROVE TypeOK'
  <2>1. [rows[k] EXCEPT !.expired = TRUE] \in Row
    BY RowUpdates
  <2> QED
    BY <1>10, <2>1 DEF ExpireLease
<1>11. CASE UNCHANGED vars
  BY <1>11 DEF vars
<1> QED
  BY <1>1, <1>2, <1>3, <1>4, <1>5, <1>6, <1>7, <1>8, <1>9, <1>10, <1>11 DEF Next, TimerFires, StorageCheck

\* Every reachable state of the queue and its dispatchers is well typed.
THEOREM TypeCorrect == Spec => []TypeOK
BY TypeInit, TypeNext, PTL DEF Spec

-----------------------------------------------------------------------------
LEMMA WorkInit == Init => IInv
<1> SUFFICES ASSUME Init PROVE IInv
  OBVIOUS
<1>1. TypeOK
  BY TypeInit
<1> QED
  BY <1>1 DEF Init, IInv, NoWorkLost, RowIsNewest, ClaimIsCurrent, LeaseNotAhead, NoRow

\* A claim transaction hands out what the rows hold, under tokens that match
\* no older claim.
LEMMA WorkTick ==
  ASSUME IInv, TypeOK', NEW o \in Owners, Tick(o)
  PROVE  IInv'
<1> USE DEF IInv, TypeOK
<1>1. PICK S \in SUBSET {k \in Keys : Claimable(k)} :
        \E token \in [S -> Tokens \ UsedTokens] : ClaimRows(o, S, token)
  BY DEF Tick
<1>2. PICK token \in [S -> Tokens \ UsedTokens] : ClaimRows(o, S, token)
  BY <1>1
<1>3. \A k \in Keys : rows[k] \in Row
  OBVIOUS
<1>4. \A k \in S : /\ rows'[k].token = token[k]
                   /\ rows'[k].gen = rows[k].gen
                   /\ rows'[k].leaseGen = rows[k].gen
                   /\ rows'[k].data = rows[k].data
                   /\ rows'[k].present = rows[k].present
  <2> SUFFICES ASSUME NEW k \in S
               PROVE  /\ rows'[k].token = token[k]
                      /\ rows'[k].gen = rows[k].gen
                      /\ rows'[k].leaseGen = rows[k].gen
                      /\ rows'[k].data = rows[k].data
                      /\ rows'[k].present = rows[k].present
    OBVIOUS
  <2>1. rows'[k] = [rows[k] EXCEPT !.token = token[k], !.leaseOwner = o, !.leaseGen = rows[k].gen, !.expired = FALSE]
    BY <1>2 DEF ClaimRows
  <2>2. rows[k] \in Row
    BY <1>3
  <2> QED
    BY <2>1, <2>2 DEF Row
<1>5. \A k \in Keys \ S : rows'[k] = rows[k]
  BY <1>2 DEF ClaimRows
<1>6. held'[o] = {[key |-> k, token |-> token[k], data |-> rows[k].data] : k \in S}
  BY <1>2 DEF ClaimRows
<1>7. \A p \in Owners \ {o} : held'[p] = held[p]
  BY <1>2 DEF ClaimRows
<1>8. NoWorkLost'
  BY <1>4, <1>5 DEF NoWorkLost, Tick
<1>9. RowIsNewest'
  BY <1>4, <1>5 DEF RowIsNewest, Tick
<1>10. LeaseNotAhead'
  BY <1>3, <1>4, <1>5 DEF LeaseNotAhead, Row
<1>11. ClaimIsCurrent'
  <2> SUFFICES ASSUME NEW p \in Owners, NEW c \in held'[p],
                      rows'[c.key].token = c.token, rows'[c.key].gen = rows'[c.key].leaseGen
               PROVE  c.data = rows'[c.key].data
    BY DEF ClaimIsCurrent
  <2>1. CASE p = o
    BY <2>1, <1>4, <1>6
  <2>2. CASE p # o
    <3>1. c \in held[p] /\ c \in Claim
      BY <2>2, <1>7
    <3>2. c.key \in Keys
      BY <3>1 DEF Claim
    <3>3. c.key \notin S
      BY <3>1, <1>4, FreshTokens
    <3> QED
      BY <3>1, <3>2, <3>3, <1>5 DEF ClaimIsCurrent
  <2> QED
    BY <2>1, <2>2
<1> QED
  BY <1>8, <1>9, <1>10, <1>11

\* An enqueue moves the generation past any lease that is out.
LEMMA WorkEnqueue ==
  ASSUME IInv, TypeOK', NEW o \in Owners, NEW k \in Keys, Enqueue(o, k)
  PROVE  IInv'
<1> USE DEF IInv, TypeOK
<1>1. PICK due \in BOOLEAN : rows' = [rows EXCEPT ![k] = Upsert(rows[k], latest[k] + 1, due)]
  BY DEF Enqueue
<1>2. rows[k] \in Row
  OBVIOUS
<1>3. /\ rows'[k].present
      /\ rows'[k].data = latest[k] + 1
      /\ rows'[k].leaseGen <= rows'[k].gen
      /\ rows'[k].token = NoToken \/ rows'[k].gen # rows'[k].leaseGen
  BY <1>1, <1>2 DEF Upsert, NoRow, Row, LeaseNotAhead
<1>4. \A j \in Keys \ {k} : rows'[j] = rows[j] /\ latest'[j] = latest[j]
  BY <1>1 DEF Enqueue
<1>5. latest'[k] = latest[k] + 1 /\ held' = held /\ handled' = handled /\ runState' = runState
  BY DEF Enqueue
<1>6. NoWorkLost'
  BY <1>3, <1>4, <1>5 DEF NoWorkLost
<1>7. RowIsNewest'
  BY <1>3, <1>4, <1>5 DEF RowIsNewest
<1>8. LeaseNotAhead'
  BY <1>3, <1>4 DEF LeaseNotAhead
<1>9. ClaimIsCurrent'
  <2> SUFFICES ASSUME NEW p \in Owners, NEW c \in held[p],
                      rows'[c.key].token = c.token, rows'[c.key].gen = rows'[c.key].leaseGen
               PROVE  c.data = rows'[c.key].data
    BY <1>5 DEF ClaimIsCurrent
  <2>1. c \in Claim
    OBVIOUS
  <2>2. c.key \in Keys /\ c.token # NoToken
    BY <2>1, OutboxAssumption DEF Claim
  <2> QED
    BY <2>2, <1>3, <1>4 DEF ClaimIsCurrent
<1> QED
  BY <1>6, <1>7, <1>8, <1>9

\* A settlement deletes the row only for the newest enqueue.
LEMMA WorkSettle ==
  ASSUME IInv, TypeOK', NEW o \in Owners, NEW c \in held[o], NEW retry \in BOOLEAN, Settle(o, c, retry)
  PROVE  IInv'
<1> USE DEF IInv, TypeOK
<1> DEFINE k == c.key
<1>1. c \in Claim
  OBVIOUS
<1>2. k \in Keys /\ c.token # NoToken
  BY <1>1, OutboxAssumption DEF Claim
<1>3. rows[k] \in Row /\ rows'[k] = SettleRow(k, c.token, retry)
  BY <1>2 DEF Settle
<1>4. \/ rows'[k] = rows[k]
      \/ /\ rows'[k].present = rows[k].present
         /\ rows'[k].data = rows[k].data
         /\ rows'[k].token = NoToken
         /\ rows'[k].leaseGen = 0
         /\ rows'[k].gen = rows[k].gen
      \/ /\ rows'[k] = NoRow
         /\ rows[k].present
         /\ rows[k].token = c.token
         /\ rows[k].gen = rows[k].leaseGen
  BY <1>3 DEF SettleRow, ClearLease, Row
<1>5. \A j \in Keys \ {k} : rows'[j] = rows[j] /\ handled'[j] = handled[j]
  BY <1>2 DEF Settle
<1>6. latest' = latest /\ runState' = runState /\ \A p \in Owners : held'[p] \subseteq held[p]
  BY DEF Settle
<1>7. handled'[k] = IF rows[k].present /\ ~rows'[k].present THEN c.data ELSE handled[k]
  BY <1>2 DEF Settle
<1>8. NoWorkLost'
  <2>1. ASSUME ~rows'[k].present, runState[RunOf[k]] # "pruned" PROVE handled'[k] = latest[k]
    <3>1. CASE rows[k].present
      <4>1. rows[k].token = c.token /\ rows[k].gen = rows[k].leaseGen
        BY <1>4, <2>1, <3>1
      <4>2. c.data = rows[k].data /\ rows[k].data = latest[k]
        BY <4>1, <3>1, <1>2 DEF ClaimIsCurrent, RowIsNewest
      <4> QED
        BY <4>2, <3>1, <2>1, <1>7
    <3>2. CASE ~rows[k].present
      BY <3>2, <2>1, <1>2, <1>7 DEF NoWorkLost
    <3> QED
      BY <3>1, <3>2
  <2> QED
    BY <2>1, <1>5, <1>6 DEF NoWorkLost
<1>9. RowIsNewest'
  BY <1>2, <1>4, <1>5, <1>6 DEF RowIsNewest, NoRow
<1>10. LeaseNotAhead'
  <2>1. rows'[k].leaseGen <= rows'[k].gen
    BY <1>2, <1>3, <1>4 DEF LeaseNotAhead, NoRow, Row
  <2> QED
    BY <2>1, <1>5 DEF LeaseNotAhead
<1>11. ClaimIsCurrent'
  <2> SUFFICES ASSUME NEW p \in Owners, NEW d \in held[p],
                      rows'[d.key].token = d.token, rows'[d.key].gen = rows'[d.key].leaseGen
               PROVE  d.data = rows'[d.key].data
    BY <1>6 DEF ClaimIsCurrent
  <2>1. d \in Claim
    OBVIOUS
  <2>2. d.key \in Keys /\ d.token # NoToken
    BY <2>1, OutboxAssumption DEF Claim
  <2>3. rows'[d.key] = rows[d.key]
    BY <2>2, <1>4, <1>5 DEF NoRow
  <2> QED
    BY <2>2, <2>3 DEF ClaimIsCurrent
<1> QED
  BY <1>8, <1>9, <1>10, <1>11

\* Steps that change no generation, token or data of a row that stays.
LEMMA WorkStart ==
  ASSUME IInv, TypeOK', NEW o \in Owners, Start(o)
  PROVE  IInv'
<1> USE DEF IInv, TypeOK
<1>1. \A k \in Keys : rows[k] \in Row
  OBVIOUS
<1>2. \A k \in Keys :
        \/ rows'[k] = rows[k]
        \/ /\ rows'[k].present = rows[k].present
           /\ rows'[k].data = rows[k].data
           /\ rows'[k].token = NoToken
           /\ rows'[k].leaseGen = 0
           /\ rows'[k].gen = rows[k].gen
  <2> TAKE k \in Keys
  <2>1. rows'[k] = rows[k] \/ rows'[k] = ClearLease(rows[k])
    BY DEF Start
  <2>2. rows[k] \in Row
    BY <1>1
  <2> QED
    BY <2>1, <2>2 DEF ClearLease, Row
<1>3. latest' = latest /\ handled' = handled /\ runState' = runState /\ held' = held
  BY DEF Start
<1>4. NoWorkLost' /\ RowIsNewest'
  BY <1>2, <1>3 DEF NoWorkLost, RowIsNewest
<1>5. LeaseNotAhead'
  <2> SUFFICES ASSUME NEW k \in Keys PROVE rows'[k].leaseGen <= rows'[k].gen
    BY DEF LeaseNotAhead
  <2>1. rows[k].gen \in Nat /\ rows[k].leaseGen <= rows[k].gen
    BY <1>1 DEF LeaseNotAhead, Row
  <2> QED
    BY <2>1, <1>2
<1>6. ClaimIsCurrent'
  <2> SUFFICES ASSUME NEW p \in Owners, NEW d \in held[p],
                      rows'[d.key].token = d.token, rows'[d.key].gen = rows'[d.key].leaseGen
               PROVE  d.data = rows'[d.key].data
    BY <1>3 DEF ClaimIsCurrent
  <2>1. d \in Claim
    OBVIOUS
  <2>2. d.key \in Keys /\ d.token # NoToken
    BY <2>1, OutboxAssumption DEF Claim
  <2> QED
    BY <2>2, <1>2 DEF ClaimIsCurrent
<1> QED
  BY <1>4, <1>5, <1>6

LEMMA WorkPrune ==
  ASSUME IInv, TypeOK', NEW r \in Runs, PruneRun(r)
  PROVE  IInv'
<1> USE DEF IInv, TypeOK
<1>1. \A k \in Keys : rows'[k] = IF RunOf[k] = r THEN NoRow ELSE rows[k]
  BY DEF PruneRun
<1>2. /\ latest' = latest /\ handled' = handled /\ held' = held
      /\ runState'[r] = "pruned"
      /\ \A q \in Runs \ {r} : runState'[q] = runState[q]
  BY DEF PruneRun
<1>3. NoWorkLost' /\ RowIsNewest' /\ LeaseNotAhead'
  BY <1>1, <1>2, OutboxAssumption DEF NoWorkLost, RowIsNewest, LeaseNotAhead, NoRow
<1>4. ClaimIsCurrent'
  <2> SUFFICES ASSUME NEW p \in Owners, NEW d \in held[p],
                      rows'[d.key].token = d.token, rows'[d.key].gen = rows'[d.key].leaseGen
               PROVE  d.data = rows'[d.key].data
    BY <1>2 DEF ClaimIsCurrent
  <2>1. d \in Claim
    OBVIOUS
  <2>2. d.key \in Keys /\ d.token # NoToken
    BY <2>1, OutboxAssumption DEF Claim
  <2> QED
    BY <2>2, <1>1 DEF ClaimIsCurrent, NoRow
<1> QED
  BY <1>3, <1>4

LEMMA WorkRest ==
  ASSUME IInv, TypeOK',
         \/ \E o \in Owners, r \in Runs, s \in {"active", "stopped", "terminal"} : SetRunState(o, r, s)
         \/ \E o \in Owners : Crash(o)
         \/ LoseLock
         \/ \E k \in Keys : BecomeDue(k)
         \/ \E k \in Keys : ExpireLease(k)
         \/ UNCHANGED vars
  PROVE  IInv'
<1> USE DEF IInv, TypeOK
<1>1. \A k \in Keys : rows[k] \in Row
  OBVIOUS
<1>2. \A k \in Keys : /\ rows'[k].present = rows[k].present
                      /\ rows'[k].data = rows[k].data
                      /\ rows'[k].token = rows[k].token
                      /\ rows'[k].leaseGen = rows[k].leaseGen
                      /\ rows'[k].gen = rows[k].gen
  BY <1>1 DEF SetRunState, Crash, LoseLock, BecomeDue, ExpireLease, vars, Row
<1>3. latest' = latest /\ handled' = handled /\ \A p \in Owners : held'[p] \subseteq held[p]
  BY DEF SetRunState, Crash, LoseLock, BecomeDue, ExpireLease, vars
<1>4. \A r \in Runs : runState[r] = "pruned" => runState'[r] = "pruned"
  BY DEF SetRunState, Crash, LoseLock, BecomeDue, ExpireLease, vars
<1>5. NoWorkLost' /\ RowIsNewest' /\ LeaseNotAhead'
  BY <1>2, <1>3, <1>4, OutboxAssumption DEF NoWorkLost, RowIsNewest, LeaseNotAhead
<1>6. ClaimIsCurrent'
  <2> SUFFICES ASSUME NEW p \in Owners, NEW d \in held[p],
                      rows'[d.key].token = d.token, rows'[d.key].gen = rows'[d.key].leaseGen
               PROVE  d.data = rows'[d.key].data
    BY <1>3 DEF ClaimIsCurrent
  <2>1. d \in Claim
    OBVIOUS
  <2>2. d.key \in Keys
    BY <2>1 DEF Claim
  <2> QED
    BY <2>2, <1>2 DEF ClaimIsCurrent
<1> QED
  BY <1>5, <1>6

LEMMA WorkNext == IInv /\ [Next]_vars => IInv'
<1> SUFFICES ASSUME IInv, [Next]_vars PROVE IInv'
  OBVIOUS
<1>1. TypeOK'
  BY TypeNext DEF IInv
<1> QED
  BY <1>1, WorkTick, WorkEnqueue, WorkSettle, WorkStart, WorkPrune, WorkRest
  DEF Next, TimerFires, StorageCheck

\* An enqueue that lands on a row in any state of its lease is handed to a
\* dispatcher before the row is deleted, unless its whole run is deleted.
THEOREM NoEnqueueLost == Spec => []NoWorkLost
<1>1. IInv => NoWorkLost
  BY DEF IInv
<1> QED
  BY <1>1, WorkInit, WorkNext, PTL DEF Spec

-----------------------------------------------------------------------------
LEMMA FenceInit == Init => FenceInv
BY TypeInit DEF Init, FenceInv, LeasedIsPresent, ClaimsAreOwned, Leased, NoRow

LEMMA FenceTick ==
  ASSUME FenceInv, TypeOK', NEW o \in Owners, Tick(o)
  PROVE  FenceInv'
<1> USE DEF FenceInv, TypeOK
<1>1. PICK S \in SUBSET {k \in Keys : Claimable(k)} :
        \E token \in [S -> Tokens \ UsedTokens] : ClaimRows(o, S, token)
  BY DEF Tick
<1>2. PICK token \in [S -> Tokens \ UsedTokens] : ClaimRows(o, S, token)
  BY <1>1
<1>3. ASSUME NEW k \in S
      PROVE  rows'[k].token = token[k] /\ rows'[k].leaseOwner = o /\ rows'[k].present
  <2>1. rows'[k] = [rows[k] EXCEPT !.token = token[k], !.leaseOwner = o, !.leaseGen = rows[k].gen, !.expired = FALSE]
    BY <1>2 DEF ClaimRows
  <2>2. rows[k] \in Row /\ rows[k].present
    BY DEF Claimable
  <2> QED
    BY <2>1, <2>2 DEF Row
<1>4. \A k \in Keys \ S : rows'[k] = rows[k]
  BY <1>2 DEF ClaimRows
<1>5. held'[o] = {[key |-> k, token |-> token[k], data |-> rows[k].data] : k \in S}
  BY <1>2 DEF ClaimRows
<1>6. \A p \in Owners \ {o} : held'[p] = held[p]
  BY <1>2 DEF ClaimRows
<1>7. LeasedIsPresent'
  BY <1>3, <1>4 DEF LeasedIsPresent, Leased
<1>8. ASSUME NEW p \in Owners, NEW c \in held'[p]
      PROVE  rows'[c.key].token = c.token => rows'[c.key].leaseOwner = p
  <2>1. CASE p = o
    BY <2>1, <1>3, <1>5
  <2>2. CASE p # o
    <3>1. c \in held[p] /\ c \in Claim
      BY <2>2, <1>6
    <3>2. c.key \in Keys
      BY <3>1 DEF Claim
    <3>3. c.key \in S => rows'[c.key].token # c.token
      BY <3>1, <1>3, FreshTokens
    <3> QED
      BY <3>1, <3>2, <3>3, <1>4 DEF ClaimsAreOwned
  <2> QED
    BY <2>1, <2>2
<1>9. ASSUME NEW p \in Owners, NEW c \in held'[p], NEW d \in held'[p], c.key = d.key
      PROVE  c = d
  <2>1. CASE p = o
    BY <2>1, <1>5, <1>9
  <2>2. CASE p # o
    BY <2>2, <1>6, <1>9 DEF ClaimsAreOwned
  <2> QED
    BY <2>1, <2>2
<1>10. ClaimsAreOwned'
  BY <1>8, <1>9 DEF ClaimsAreOwned
<1> QED
  BY <1>7, <1>10

\* Every other step leaves the lease of a row as it is or clears it, and adds
\* no claim.
LEMMA FenceKeepOrClear ==
  ASSUME FenceInv, TypeOK',
         \A k \in Keys :
           \/ /\ rows'[k].token = rows[k].token
              /\ rows'[k].leaseOwner = rows[k].leaseOwner
              /\ rows[k].present => rows'[k].present
           \/ rows'[k].token = NoToken,
         \A p \in Owners : held'[p] \subseteq held[p]
  PROVE  FenceInv'
<1> USE DEF FenceInv, TypeOK
<1>1. LeasedIsPresent'
  <2> SUFFICES ASSUME NEW k \in Keys, rows'[k].token # NoToken PROVE rows'[k].present
    BY DEF LeasedIsPresent, Leased
  <2>1. rows'[k].token = rows[k].token /\ (rows[k].present => rows'[k].present)
    OBVIOUS
  <2>2. rows[k].present
    BY <2>1 DEF LeasedIsPresent, Leased
  <2> QED
    BY <2>1, <2>2
<1>2. ASSUME NEW p \in Owners, NEW c \in held'[p]
      PROVE  rows'[c.key].token = c.token => rows'[c.key].leaseOwner = p
  <2>1. c \in held[p] /\ c \in Claim
    OBVIOUS
  <2>2. c.key \in Keys /\ c.token # NoToken
    BY <2>1, OutboxAssumption DEF Claim
  <2>3. ASSUME rows'[c.key].token = c.token PROVE rows'[c.key].leaseOwner = p
    <3>1. rows[c.key].token = c.token /\ rows'[c.key].leaseOwner = rows[c.key].leaseOwner
      BY <2>2, <2>3
    <3> QED
      BY <2>1, <3>1 DEF ClaimsAreOwned
  <2> QED
    BY <2>3
<1>3. ClaimsAreOwned'
  BY <1>2 DEF ClaimsAreOwned
<1> QED
  BY <1>1, <1>3

LEMMA FenceRest ==
  ASSUME FenceInv, TypeOK', [Next]_vars, ~ \E o \in Owners : Tick(o)
  PROVE  FenceInv'
<1> USE DEF FenceInv, TypeOK
<1> DEFINE Kept ==
      \A k \in Keys :
        \/ /\ rows'[k].token = rows[k].token
           /\ rows'[k].leaseOwner = rows[k].leaseOwner
           /\ rows[k].present => rows'[k].present
        \/ rows'[k].token = NoToken
<1> DEFINE Fewer == \A p \in Owners : held'[p] \subseteq held[p]
<1>0. \A k \in Keys : rows[k] \in Row
  OBVIOUS
<1>1. ASSUME NEW o \in Owners, Start(o) PROVE Kept /\ Fewer
  <2>1. ASSUME NEW k \in Keys PROVE rows'[k] = rows[k] \/ rows'[k] = ClearLease(rows[k])
    BY <1>1 DEF Start
  <2>2. \A k \in Keys : ClearLease(rows[k]).token = NoToken
    BY <1>0 DEF ClearLease, Row
  <2> QED
    BY <1>1, <2>1, <2>2 DEF Start
<1>2. ASSUME NEW o \in Owners, NEW k \in Keys, Enqueue(o, k) PROVE Kept /\ Fewer
  <2>1. PICK due \in BOOLEAN : rows' = [rows EXCEPT ![k] = Upsert(rows[k], latest[k] + 1, due)]
    BY <1>2 DEF Enqueue
  <2>2. \/ Upsert(rows[k], latest[k] + 1, due).token = NoToken
        \/ /\ Upsert(rows[k], latest[k] + 1, due).token = rows[k].token
           /\ Upsert(rows[k], latest[k] + 1, due).leaseOwner = rows[k].leaseOwner
           /\ Upsert(rows[k], latest[k] + 1, due).present = rows[k].present
    BY <1>0 DEF Upsert, NoRow, Row
  <2> QED
    BY <1>2, <2>1, <2>2 DEF Enqueue
<1>3. ASSUME NEW o \in Owners, NEW c \in held[o], NEW retry \in BOOLEAN, Settle(o, c, retry) PROVE Kept /\ Fewer
  <2>1. c.key \in Keys
    BY DEF Claim
  <2>2. rows' = [rows EXCEPT ![c.key] = SettleRow(c.key, c.token, retry)]
    BY <1>3 DEF Settle
  <2>3. SettleRow(c.key, c.token, retry) = rows[c.key] \/ SettleRow(c.key, c.token, retry).token = NoToken
    BY <2>1, <1>0 DEF SettleRow, ClearLease, NoRow, Row
  <2>4. Kept
    BY <2>1, <2>2, <2>3
  <2> QED
    BY <2>4, <1>3 DEF Settle
<1>4. ASSUME NEW o \in Owners, NEW r \in Runs, NEW s \in {"active", "stopped", "terminal"}, SetRunState(o, r, s) PROVE Kept /\ Fewer
  BY <1>4 DEF SetRunState
<1>5. ASSUME NEW r \in Runs, PruneRun(r) PROVE Kept /\ Fewer
  BY <1>5 DEF PruneRun, NoRow
<1>6. ASSUME NEW o \in Owners, Crash(o) PROVE Kept /\ Fewer
  BY <1>6 DEF Crash
<1>7. ASSUME LoseLock PROVE Kept /\ Fewer
  BY <1>7 DEF LoseLock
<1>8. ASSUME NEW k \in Keys, BecomeDue(k) PROVE Kept /\ Fewer
  BY <1>8, <1>0 DEF BecomeDue, Row
<1>9. ASSUME NEW k \in Keys, ExpireLease(k) PROVE Kept /\ Fewer
  BY <1>9, <1>0 DEF ExpireLease, Row
<1>10. ASSUME UNCHANGED vars PROVE Kept /\ Fewer
  BY <1>10 DEF vars
<1>11. Kept /\ Fewer
  BY <1>1, <1>2, <1>3, <1>4, <1>5, <1>6, <1>7, <1>8, <1>9, <1>10 DEF Next, TimerFires, StorageCheck
<1> QED
  BY <1>11, FenceKeepOrClear

LEMMA FenceNext == FenceInv /\ [Next]_vars => FenceInv'
<1> SUFFICES ASSUME FenceInv, [Next]_vars PROVE FenceInv'
  OBVIOUS
<1>1. TypeOK'
  BY TypeNext DEF FenceInv
<1> QED
  BY <1>1, FenceTick, FenceRest

LEMMA FenceImplies == FenceInv => OneSettlingClaim
BY DEF FenceInv, OneSettlingClaim, LeasedIsPresent, ClaimsAreOwned

\* However often a row was re-leased, expired or reclaimed, at most one claim
\* that is still out can settle it, and it belongs to the lease owner.
THEOREM ClaimsAreFenced == Spec => []OneSettlingClaim
BY FenceInit, FenceNext, FenceImplies, PTL DEF Spec

-----------------------------------------------------------------------------
(* Refinement: the slot of each key, and the keys whose run exists.          *)
SlotFn == [k \in Keys |-> SlotOf(k)]
OpenKeys == {k \in Keys : runState[RunOf[k]] # "pruned"}

SlotInv == TypeOK /\ LeasedIsPresent /\ LeaseNotAhead

LEMMA SlotsInit == Init => Slots!Init
BY OutboxAssumption DEF Init, Slots!Init, SlotOf, NoRow

\* A step that keeps these columns of every row keeps every slot.
LEMMA SlotsStutter ==
  ASSUME \A k \in Keys : SlotOf(k)' = SlotOf(k), OpenKeys' = OpenKeys
  PROVE  UNCHANGED <<SlotFn, OpenKeys>>
BY DEF SlotFn

\* Clearing leases is a release of the slots that were out.
LEMMA SlotsRelease ==
  ASSUME NEW S \in SUBSET Keys,
         \A k \in S : SlotOf(k) \in {"leased", "superseded"} /\ SlotOf(k)' = "pending",
         \A k \in Keys \ S : SlotOf(k)' = SlotOf(k),
         OpenKeys' = OpenKeys
  PROVE  Slots!Next
<1>1. SlotFn' = [k \in Keys |-> IF k \in S THEN "pending" ELSE SlotFn[k]]
  BY DEF SlotFn
<1>2. Slots!Release(S)
  BY <1>1 DEF Slots!Release, SlotFn, OpenKeys
<1> QED
  BY <1>2 DEF Slots!Next

LEMMA SlotsTick ==
  ASSUME SlotInv, NEW o \in Owners, Tick(o)
  PROVE  Slots!Next
<1> USE DEF SlotInv, TypeOK
<1>1. PICK S \in SUBSET {k \in Keys : Claimable(k)} :
        \E token \in [S -> Tokens \ UsedTokens] : ClaimRows(o, S, token)
  BY DEF Tick
<1>2. PICK token \in [S -> Tokens \ UsedTokens] : ClaimRows(o, S, token)
  BY <1>1
<1>3. ASSUME NEW k \in S PROVE SlotOf(k) = "pending" /\ SlotOf(k)' = "leased"
  <2>1. rows'[k] = [rows[k] EXCEPT !.token = token[k], !.leaseOwner = o, !.leaseGen = rows[k].gen, !.expired = FALSE]
    BY <1>2 DEF ClaimRows
  <2>2. rows[k] \in Row /\ rows[k].present /\ (rows[k].token # NoToken => rows[k].expired)
    BY DEF Claimable, Leased
  <2>3. /\ rows'[k].present = rows[k].present /\ rows'[k].token = token[k]
        /\ rows'[k].gen = rows'[k].leaseGen /\ rows'[k].expired = FALSE
    BY <2>1, <2>2 DEF Row
  <2>4. token[k] # NoToken
    BY OutboxAssumption
  <2> QED
    BY <2>2, <2>3, <2>4 DEF SlotOf
<1>4. ASSUME NEW k \in Keys \ S PROVE SlotOf(k)' = SlotOf(k)
  <2>1. rows'[k] = rows[k]
    BY <1>2 DEF ClaimRows
  <2> QED
    BY <2>1 DEF SlotOf
<1>5. OpenKeys' = OpenKeys
  BY DEF Tick, OpenKeys
<1>6. Slots!Claim(S)
  <2>1. SlotFn' = [k \in Keys |-> IF k \in S THEN "leased" ELSE SlotFn[k]]
    BY <1>3, <1>4 DEF SlotFn
  <2> QED
    BY <2>1, <1>3, <1>5 DEF Slots!Claim, SlotFn, OpenKeys
<1> QED
  BY <1>6 DEF Slots!Next

LEMMA SlotsEnqueue ==
  ASSUME SlotInv, NEW o \in Owners, NEW k \in Keys, Enqueue(o, k)
  PROVE  Slots!Next
<1> USE DEF SlotInv, TypeOK
<1>1. PICK due \in BOOLEAN : rows' = [rows EXCEPT ![k] = Upsert(rows[k], latest[k] + 1, due)]
  BY DEF Enqueue
<1>2. rows[k] \in Row /\ rows[k].leaseGen <= rows[k].gen
  BY DEF LeaseNotAhead
<1>3. SlotOf(k)' = CASE SlotOf(k) = "none" -> "pending"
                     [] SlotOf(k) = "leased" -> "superseded"
                     [] OTHER -> SlotOf(k)
  <2>1. CASE ~rows[k].present
    BY <2>1, <1>1, <1>2 DEF SlotOf, Upsert, NoRow, Row
  <2>2. CASE rows[k].present
    <3>1. /\ rows'[k].present /\ rows'[k].token = rows[k].token /\ rows'[k].expired = rows[k].expired
          /\ rows'[k].gen = rows[k].gen + 1 /\ rows'[k].leaseGen = rows[k].leaseGen
      BY <2>2, <1>1, <1>2 DEF Upsert, Row
    <3>2. rows[k].gen \in Nat /\ rows[k].leaseGen \in Nat
      BY <1>2 DEF Row
    <3>3. rows'[k].gen # rows'[k].leaseGen
      BY <3>1, <3>2, <1>2
    <3> QED
      BY <2>2, <3>1, <3>3 DEF SlotOf
  <2> QED
    BY <2>1, <2>2
<1>4. ASSUME NEW j \in Keys \ {k} PROVE SlotOf(j)' = SlotOf(j)
  <2>1. rows'[j] = rows[j]
    BY <1>1
  <2> QED
    BY <2>1 DEF SlotOf
<1>5. OpenKeys' = OpenKeys /\ k \in OpenKeys
  BY DEF Enqueue, OpenKeys
<1>6. SlotFn' = [SlotFn EXCEPT ![k] = CASE @ = "none" -> "pending"
                                         [] @ = "leased" -> "superseded"
                                         [] OTHER -> @]
  BY <1>3, <1>4 DEF SlotFn
<1>7. Slots!Enqueue(k)
  BY <1>5, <1>6 DEF Slots!Enqueue, SlotFn, OpenKeys
<1> QED
  BY <1>7 DEF Slots!Next

LEMMA SlotsSettle ==
  ASSUME SlotInv, NEW o \in Owners, NEW c \in held[o], NEW retry \in BOOLEAN, Settle(o, c, retry)
  PROVE  Slots!Next \/ UNCHANGED <<SlotFn, OpenKeys>>
<1> USE DEF SlotInv, TypeOK
<1> DEFINE k == c.key
<1>1. k \in Keys /\ c.token # NoToken
  BY OutboxAssumption DEF Claim
<1>2. rows' = [rows EXCEPT ![k] = SettleRow(k, c.token, retry)] /\ rows[k] \in Row
  BY <1>1 DEF Settle
<1>3. ASSUME NEW j \in Keys \ {k} PROVE SlotOf(j)' = SlotOf(j)
  <2>1. rows'[j] = rows[j]
    BY <1>2
  <2> QED
    BY <2>1 DEF SlotOf
<1>4. OpenKeys' = OpenKeys
  BY DEF Settle, OpenKeys
<1> DEFINE Out == rows[k].present /\ rows[k].token = c.token /\ ~rows[k].expired
<1>5. CASE ~Out
  <2>1. rows'[k] = rows[k]
    BY <1>1, <1>2, <1>5 DEF SettleRow
  <2>2. SlotOf(k)' = SlotOf(k)
    BY <2>1 DEF SlotOf
  <2> QED
    BY <2>2, <1>3, <1>4, SlotsStutter
<1>6. CASE Out /\ (rows[k].gen # rows[k].leaseGen \/ retry)
  <2>1. SlotOf(k) \in {"leased", "superseded"}
    BY <1>1, <1>6 DEF SlotOf
  <2>2. rows'[k].present /\ rows'[k].token = NoToken
    BY <1>1, <1>2, <1>6 DEF SettleRow, ClearLease, Row
  <2>3. SlotOf(k)' = "pending"
    BY <2>2 DEF SlotOf
  <2>4. \A j \in {k} : SlotOf(j) \in {"leased", "superseded"} /\ SlotOf(j)' = "pending"
    BY <2>1, <2>3
  <2> HIDE DEF k, SlotInv, TypeOK
  <2> QED
    BY <2>4, <1>1, <1>3, <1>4, SlotsRelease
<1>7. CASE Out /\ rows[k].gen = rows[k].leaseGen /\ ~retry
  <2>1. SlotOf(k) = "leased"
    BY <1>1, <1>7 DEF SlotOf
  <2>2. SlotOf(k)' = "none"
    BY <1>1, <1>2, <1>7 DEF SettleRow, NoRow, SlotOf
  <2>3. SlotFn' = [SlotFn EXCEPT ![k] = "none"]
    BY <2>2, <1>1, <1>3 DEF SlotFn
  <2>4. Slots!Done(k)
    BY <2>1, <2>3, <1>1, <1>4 DEF Slots!Done, SlotFn, OpenKeys
  <2> QED
    BY <2>4, <1>1 DEF Slots!Next
<1> QED
  BY <1>5, <1>6, <1>7

LEMMA SlotsStart ==
  ASSUME SlotInv, NEW o \in Owners, Start(o)
  PROVE  Slots!Next
<1> USE DEF SlotInv, TypeOK
<1> DEFINE S == {k \in Keys : rows[k].leaseOwner \notin {NoOwner, o} /\ SlotOf(k) \in {"leased", "superseded"}}
<1>1. ASSUME NEW k \in Keys
      PROVE  rows'[k] = IF rows[k].leaseOwner \notin {NoOwner, o} THEN ClearLease(rows[k]) ELSE rows[k]
  BY DEF Start
<1>2. ASSUME NEW k \in Keys PROVE ClearLease(rows[k]).token = NoToken /\ ClearLease(rows[k]).present = rows[k].present
  BY DEF ClearLease, Row
<1>3. ASSUME NEW k \in S PROVE SlotOf(k)' = "pending"
  BY <1>1, <1>2 DEF SlotOf
<1>4. ASSUME NEW k \in Keys \ S PROVE SlotOf(k)' = SlotOf(k)
  BY <1>1, <1>2 DEF SlotOf
<1>5. OpenKeys' = OpenKeys
  BY DEF Start, OpenKeys
<1>6. S \in SUBSET Keys /\ \A k \in S : SlotOf(k) \in {"leased", "superseded"}
  OBVIOUS
<1> HIDE DEF S, SlotInv, TypeOK
<1> QED
  BY <1>3, <1>4, <1>5, <1>6, SlotsRelease

LEMMA SlotsExpire ==
  ASSUME SlotInv, NEW k \in Keys, ExpireLease(k)
  PROVE  Slots!Next
<1> USE DEF SlotInv, TypeOK
<1>1. rows[k].present /\ rows[k].token # NoToken /\ ~rows[k].expired /\ rows[k] \in Row
  BY DEF ExpireLease, Leased, LeasedIsPresent
<1>2. /\ rows'[k].present = rows[k].present /\ rows'[k].token = rows[k].token /\ rows'[k].expired
      /\ \A j \in Keys \ {k} : rows'[j] = rows[j]
  BY <1>1 DEF ExpireLease, Row
<1>3. \A j \in {k} : SlotOf(j) \in {"leased", "superseded"} /\ SlotOf(j)' = "pending"
  BY <1>1, <1>2 DEF SlotOf
<1>4. \A j \in Keys \ {k} : SlotOf(j)' = SlotOf(j)
  BY <1>2 DEF SlotOf
<1>5. OpenKeys' = OpenKeys
  BY DEF ExpireLease, OpenKeys
<1> HIDE DEF SlotInv, TypeOK
<1> QED
  BY <1>3, <1>4, <1>5, SlotsRelease

LEMMA SlotsPrune ==
  ASSUME SlotInv, NEW r \in Runs, PruneRun(r)
  PROVE  Slots!Next
<1> USE DEF SlotInv, TypeOK
<1> DEFINE S == {k \in Keys : RunOf[k] = r}
<1>1. \A k \in Keys : rows'[k] = IF k \in S THEN NoRow ELSE rows[k]
  BY DEF PruneRun
<1>2. \A k \in S : SlotOf(k)' = "none"
  BY <1>1 DEF SlotOf, NoRow
<1>3. \A k \in Keys \ S : SlotOf(k)' = SlotOf(k)
  BY <1>1 DEF SlotOf
<1>4. SlotFn' = [k \in Keys |-> IF k \in S THEN "none" ELSE SlotFn[k]]
  BY <1>2, <1>3 DEF SlotFn
<1>5. S \subseteq OpenKeys /\ OpenKeys' = OpenKeys \ S
  BY OutboxAssumption DEF PruneRun, OpenKeys
<1>6. Slots!Drop(S)
  BY <1>4, <1>5 DEF Slots!Drop, SlotFn, OpenKeys
<1> QED
  BY <1>6 DEF Slots!Next

LEMMA SlotsRest ==
  ASSUME SlotInv,
         \/ \E o \in Owners, r \in Runs, s \in {"active", "stopped", "terminal"} : SetRunState(o, r, s)
         \/ \E o \in Owners : Crash(o)
         \/ LoseLock
         \/ \E k \in Keys : BecomeDue(k)
         \/ UNCHANGED vars
  PROVE  UNCHANGED <<SlotFn, OpenKeys>>
<1> USE DEF SlotInv, TypeOK
<1>1. ASSUME NEW k \in Keys
      PROVE  /\ rows'[k].present = rows[k].present
             /\ rows'[k].token = rows[k].token
             /\ rows'[k].expired = rows[k].expired
             /\ rows'[k].gen = rows[k].gen
             /\ rows'[k].leaseGen = rows[k].leaseGen
  <2>1. rows[k] \in Row
    OBVIOUS
  <2>2. CASE \E j \in Keys : BecomeDue(j)
    BY <2>1, <2>2 DEF BecomeDue, Row
  <2>3. CASE rows' = rows
    BY <2>3
  <2> QED
    BY <2>2, <2>3 DEF SetRunState, Crash, LoseLock, vars
<1>2. \A k \in Keys : SlotOf(k)' = SlotOf(k)
  BY <1>1 DEF SlotOf
<1>3. OpenKeys' = OpenKeys
  BY OutboxAssumption DEF SetRunState, Crash, LoseLock, BecomeDue, vars, OpenKeys
<1> QED
  BY <1>2, <1>3, SlotsStutter

LEMMA SlotsNext == SlotInv /\ [Next]_vars => [Slots!Next]_<<SlotFn, OpenKeys>>
<1> SUFFICES ASSUME SlotInv, [Next]_vars PROVE Slots!Next \/ UNCHANGED <<SlotFn, OpenKeys>>
  OBVIOUS
<1> QED
  BY SlotsTick, SlotsEnqueue, SlotsSettle, SlotsStart, SlotsExpire, SlotsPrune, SlotsRest
  DEF Next, TimerFires, StorageCheck

\* The table of rows, generations and tokens implements the wake slots: only
\* an undisturbed current lease, or deleting the run, empties a slot.
THEOREM OutboxImplementsSlots == Spec => SlotsSpec
<1>1. IInv /\ FenceInv => SlotInv
  BY DEF IInv, FenceInv, SlotInv
<1>2. [Slots!Next]_<<SlotFn, OpenKeys>> => [Slots!Next]_<<[k \in Keys |-> SlotOf(k)], {k \in Keys : runState[RunOf[k]] # "pruned"}>>
  BY DEF SlotFn, OpenKeys
<1> QED
  BY <1>1, <1>2, WorkInit, WorkNext, FenceInit, FenceNext, SlotsInit, SlotsNext, PTL DEF Spec, SlotsSpec, Slots!Spec
=============================================================================
