----------------------------- MODULE Usage_proofs -----------------------------
(***************************************************************************)
(* What is shared out to model requests is never given twice: the money of  *)
(* a run (RunCharges), the slots of an invocation (UsageGate) and those of  *)
(* the machine (MachineSlots).  The three share no state and are proved     *)
(* one after the other, each for every value of its constants.              *)
(***************************************************************************)
EXTENDS RunCharges, UsageGate, MachineSlots, FiniteSetTheorems, SequenceTheorems, TLAPS

-----------------------------------------------------------------------------
(***************************************************************************)
(* The books of a run's budget cover what its requests have cost.  BooksCover*)
(* alone is not inductive: when a request is settled it must be known that a*)
(* complete one has reported everything, and while it streams that its      *)
(* reservation is still pending.                                            *)
(***************************************************************************)

\* A request costs at most its reserve, and reports no more than it has cost.
WithinReserve ==
  \A c \in Charges : charge[c].reported <= spent[c] /\ spent[c] <= Reserve

\* A generator that has not begun, or was refused, costs nothing; one at work
\* has a pending reservation.
StagesMatch ==
  \A c \in Charges :
    /\ charge[c].state = "none" => spent[c] = 0
    /\ doing[c] = "idle" => charge[c].state = "none"
    /\ doing[c] \in {"stream", "finish"} => up /\ charge[c].state = "pending"

\* An answer that came to its end with usage events has reported all of it.
EndsAreReported ==
  \A c \in Charges :
    /\ c \in ended => doing[c] \in {"finish", "done"}
    /\ c \in ended \cap seenUsage => charge[c].reported = spent[c]
    /\ charge[c].state = "complete" => charge[c].reported = spent[c]

ChargesInv == ChargesTypeOK /\ WithinReserve /\ StagesMatch /\ EndsAreReported

LEMMA ChargesInitInv == ChargesInit => ChargesInv
<1> SUFFICES ASSUME ChargesInit PROVE ChargesInv
  OBVIOUS
<1> USE RunChargesAssumption DEF ChargesInit
<1>1. ChargesTypeOK
  BY DEF ChargesTypeOK
<1>2. WithinReserve /\ StagesMatch /\ EndsAreReported
  BY DEF WithinReserve, StagesMatch, EndsAreReported
<1> QED BY <1>1, <1>2 DEF ChargesInv

LEMMA ChargesNextInv == ChargesInv /\ [ChargesNext]_chargeVars => ChargesInv'
<1> SUFFICES ASSUME ChargesInv, [ChargesNext]_chargeVars PROVE ChargesInv'
  OBVIOUS
<1> USE RunChargesAssumption DEF ChargesInv, ChargesTypeOK, WithinReserve, StagesMatch, EndsAreReported
<1>1. ASSUME NEW c \in Charges, ReserveCharge(c) PROVE ChargesInv'
  <2>1. ChargesTypeOK'
    BY <1>1 DEF ReserveCharge
  <2>2. WithinReserve'
    BY <1>1 DEF ReserveCharge
  <2>3. StagesMatch'
    BY <1>1 DEF ReserveCharge
  <2>4. EndsAreReported'
    BY <1>1 DEF ReserveCharge
  <2> QED BY <2>1, <2>2, <2>3, <2>4
<1>2. ASSUME NEW c \in Charges, Produce(c) PROVE ChargesInv'
  BY <1>2 DEF Produce
<1>3. ASSUME NEW c \in Charges, ReportUsage(c) PROVE ChargesInv'
  <2>1. ChargesTypeOK'
    BY <1>3 DEF ReportUsage
  <2>2. WithinReserve'
    BY <1>3 DEF ReportUsage
  <2>3. StagesMatch'
    BY <1>3 DEF ReportUsage
  <2>4. EndsAreReported'
    BY <1>3 DEF ReportUsage
  <2> QED BY <2>1, <2>2, <2>3, <2>4
<1>4. ASSUME NEW c \in Charges, ResponseEnd(c) PROVE ChargesInv'
  BY <1>4 DEF ResponseEnd
<1>5. ASSUME NEW c \in Charges, BreakOff(c) PROVE ChargesInv'
  BY <1>5 DEF BreakOff
<1>6. ASSUME NEW c \in Charges, FinishCharge(c) PROVE ChargesInv'
  <2>1. ChargesTypeOK'
    BY <1>6 DEF FinishCharge, SettledState
  <2>2. WithinReserve'
    BY <1>6 DEF FinishCharge, SettledState
  <2>3. StagesMatch'
    BY <1>6 DEF FinishCharge, SettledState
  <2>4. EndsAreReported'
    BY <1>6 DEF FinishCharge, SettledState
  <2> QED BY <2>1, <2>2, <2>3, <2>4
<1>7. ASSUME OwnerDies PROVE ChargesInv'
  <2>1. ChargesTypeOK'
    <3>1. doing' \in [Charges -> {"idle", "done"}]
      BY <1>7 DEF OwnerDies
    <3>2. restarts' \in Nat
      BY <1>7 DEF OwnerDies
    <3> QED BY <1>7, <3>1, <3>2 DEF OwnerDies
  <2>2. WithinReserve'
    BY <1>7 DEF OwnerDies
  <2>3. StagesMatch'
    BY <1>7 DEF OwnerDies
  <2>4. EndsAreReported'
    BY <1>7 DEF OwnerDies
  <2> QED BY <2>1, <2>2, <2>3, <2>4
<1>8. ASSUME OwnerStarts PROVE ChargesInv'
  <2>1. ChargesTypeOK'
    BY <1>8 DEF OwnerStarts
  <2>2. WithinReserve'
    BY <1>8 DEF OwnerStarts
  <2>3. StagesMatch'
    BY <1>8 DEF OwnerStarts
  <2>4. EndsAreReported'
    BY <1>8 DEF OwnerStarts
  <2> QED BY <2>1, <2>2, <2>3, <2>4
<1>9. ASSUME UNCHANGED chargeVars PROVE ChargesInv'
  BY <1>9 DEF chargeVars
<1> QED BY <1>1, <1>2, <1>3, <1>4, <1>5, <1>6, <1>7, <1>8, <1>9 DEF ChargesNext

THEOREM ChargesInvariant == ChargesSpec => []ChargesInv
<1> QED BY ChargesInitInv, ChargesNextInv, PTL DEF ChargesSpec

LEMMA InvCovers == ChargesInv => BooksCover
BY RunChargesAssumption
   DEF ChargesInv, ChargesTypeOK, WithinReserve, StagesMatch, EndsAreReported, BooksCover, Held, AtLeastZero

\* Whatever breaks off, dies or is not reported, the books of a run hold at
\* least what each of its requests has cost.
THEOREM BooksAreSafe == ChargesSpec => []BooksCover
<1> QED BY ChargesInvariant, InvCovers, PTL

-----------------------------------------------------------------------------
(***************************************************************************)
(* The gate of an invocation.  To know that nobody waits beside a free slot *)
(* and that no slot leaks, the queue must hold each waiting request once and*)
(* a stop must have emptied it; the overrun of the ceiling is bounded by    *)
(* counting the streams that have not noticed the stop.                     *)
(***************************************************************************)

\* The requests whose generator hands on events.
Streaming == {r \in Requests : phase[r] = "stream"}

Phases == {"idle", "waiting", "granted", "machine", "stream", "persist", "done", "refused"}

HoldPhases == {"granted", "machine", "stream", "persist"}

\* A stop has refused everyone who waited, and nobody is let in after it.
StopDrains == abort # "none" => waiting = <<>>

\* Before the stop the ceiling is not reached; after it every stream that has
\* not noticed yet may add one event.
Overrun(c) ==
  /\ abort = "none" => total < MaxCost
  /\ abort # "none" => total + c * Cardinality(Streaming) < MaxCost + MaxConcurrent * c

Overruns == \A c \in Costs : (\A d \in Costs : d <= c) => Overrun(c)

GateSlotsInv == IsFiniteSet(Holding) /\ SlotsBalance /\ NoIdleSlot /\ StopDrains

GateInv == GateTypeOK /\ GateSlotsInv /\ Overruns

\* Products of an event's cost with a number of requests.
LEMMA TimesMonotone ==
  ASSUME NEW c \in Nat, NEW m \in Nat, NEW n \in Nat, m <= n PROVE c * m <= c * n /\ c * m = m * c /\ c * m \in Nat
BY SMT

LEMMA TimesOneMore ==
  ASSUME NEW c \in Nat, NEW m \in Nat PROVE c * (m + 1) = c * m + c
BY SMT

\* Taking one element out of a queue without duplicates.
LEMMA WithoutOne ==
  ASSUME NEW S, NEW q \in Seq(S), IsInjective(q), NEW i \in DOMAIN q
  PROVE  /\ RemoveAt(q, i) \in Seq(S)
         /\ IsInjective(RemoveAt(q, i))
         /\ Range(RemoveAt(q, i)) = Range(q) \ {q[i]}
         /\ Len(RemoveAt(q, i)) = Len(q) - 1
<1> DEFINE w == RemoveAt(q, i)
<1>1. i \in 1 .. Len(q) /\ Len(q) \in Nat
  BY LenProperties
<1>2. /\ SubSeq(q, 1, i - 1) \in Seq(S) /\ Len(SubSeq(q, 1, i - 1)) = i - 1
      /\ \A j \in 1 .. i - 1 : SubSeq(q, 1, i - 1)[j] = q[j]
      /\ SubSeq(q, i + 1, Len(q)) \in Seq(S) /\ Len(SubSeq(q, i + 1, Len(q))) = Len(q) - i
      /\ \A j \in 1 .. Len(q) - i : SubSeq(q, i + 1, Len(q))[j] = q[i + j]
  BY <1>1, SMT
<1> DEFINE a == SubSeq(q, 1, i - 1)
           b == SubSeq(q, i + 1, Len(q))
<1>c. /\ a \o b \in Seq(S) /\ Len(a \o b) = Len(a) + Len(b)
      /\ \A j \in 1 .. Len(a) + Len(b) : (a \o b)[j] = IF j <= Len(a) THEN a[j] ELSE b[j - Len(a)]
  <2> HIDE DEF a, b
  <2>1. a \in Seq(S) /\ b \in Seq(S)
    BY <1>2 DEF a, b
  <2> QED BY <2>1, ConcatProperties
<1>d. w = a \o b
  BY DEF RemoveAt
<1>3. w \in Seq(S) /\ Len(w) = Len(q) - 1
  <2>1. Len(a) = i - 1 /\ Len(b) = Len(q) - i
    BY <1>2
  <2> HIDE DEF a, b, w
  <2> QED BY <2>1, <1>1, <1>c, <1>d
<1> HIDE DEF w
<1>4. \A j \in 1 .. Len(w) : w[j] = IF j < i THEN q[j] ELSE q[j + 1]
  <2> SUFFICES ASSUME NEW j \in 1 .. Len(w) PROVE w[j] = IF j < i THEN q[j] ELSE q[j + 1]
    OBVIOUS
  <2> HIDE DEF a, b
  <2>0. Len(a) = i - 1 /\ Len(b) = Len(q) - i
    BY <1>2 DEF a, b
  <2>1. w[j] = IF j <= i - 1 THEN a[j] ELSE b[j - (i - 1)]
    BY <1>c, <1>d, <1>1, <1>3, <2>0
  <2>2. CASE j <= i - 1
    BY <2>1, <2>2, <1>1, <1>2, <1>3 DEF a
  <2>3. CASE j > i - 1
    <3>1. j - (i - 1) \in 1 .. Len(q) - i
      BY <2>3, <1>1, <1>3
    <3>2. b[j - (i - 1)] = q[i + (j - (i - 1))]
      BY <3>1, <1>2 DEF b
    <3> QED BY <2>1, <2>3, <3>1, <3>2, <1>1, <1>3
  <2> QED BY <2>2, <2>3, <1>1, <1>3
<1>5. IsInjective(w)
  BY <1>1, <1>3, <1>4, LenProperties DEF IsInjective
<1>6. Range(w) = Range(q) \ {q[i]}
  <2>1. ASSUME NEW x \in Range(w) PROVE x \in Range(q) \ {q[i]}
    <3>1. PICK j \in 1 .. Len(w) : x = w[j]
      BY <1>3, LenProperties DEF Range
    <3> QED BY <3>1, <1>1, <1>3, <1>4, LenProperties DEF Range, IsInjective
  <2>2. ASSUME NEW x \in Range(q) \ {q[i]} PROVE x \in Range(w)
    <3>1. PICK j \in 1 .. Len(q) : x = q[j] /\ j # i
      BY <1>1, LenProperties DEF Range
    <3>2. CASE j < i
      BY <3>1, <3>2, <1>1, <1>3, <1>4, LenProperties DEF Range
    <3>3. CASE j > i
      <4>1. j - 1 \in 1 .. Len(w) /\ w[j - 1] = x
        BY <3>1, <3>3, <1>1, <1>3, <1>4
      <4> QED BY <4>1, <1>3, LenProperties DEF Range
    <3> QED BY <3>1, <3>2, <3>3, <1>1
  <2> QED BY <2>1, <2>2
<1> QED BY <1>3, <1>5, <1>6 DEF w

\* The head of a queue without duplicates does not come again.
LEMMA TailOfQueue ==
  ASSUME NEW S, NEW q \in Seq(S), IsInjective(q), q # <<>>
  PROVE  /\ Head(q) \in S /\ Head(q) \in Range(q)
         /\ Tail(q) \in Seq(S) /\ IsInjective(Tail(q))
         /\ Range(Tail(q)) = Range(q) \ {Head(q)}
<1>1. Len(q) \in Nat \ {0} /\ Head(q) = q[1] /\ Tail(q) \in Seq(S) /\ Len(Tail(q)) = Len(q) - 1
  BY HeadTailProperties, EmptySeq, LenProperties
<1>2. \A j \in 1 .. Len(q) - 1 : Tail(q)[j] = q[j + 1]
  BY HeadTailProperties
<1>3. Head(q) \in S /\ Head(q) \in Range(q)
  BY <1>1, ElementOfSeq, LenProperties DEF Range
<1>4. IsInjective(Tail(q))
  BY <1>1, <1>2, LenProperties DEF IsInjective
<1>5. ASSUME NEW x \in Range(Tail(q)) PROVE x \in Range(q) \ {Head(q)}
  <2>1. PICK j \in 1 .. Len(q) - 1 : x = Tail(q)[j]
    BY <1>1, <1>5, LenProperties DEF Range
  <2> QED BY <2>1, <1>1, <1>2, LenProperties DEF Range, IsInjective
<1>6. ASSUME NEW x \in Range(q) \ {Head(q)} PROVE x \in Range(Tail(q))
  <2>1. PICK j \in 1 .. Len(q) : x = q[j] /\ j # 1
    BY <1>1, <1>6, LenProperties DEF Range
  <2>2. j - 1 \in 1 .. Len(q) - 1 /\ Tail(q)[j - 1] = x
    BY <2>1, <1>1, <1>2
  <2> QED BY <2>2, <1>1, LenProperties DEF Range
<1> QED BY <1>1, <1>3, <1>4, <1>5, <1>6

\* A new one joins at the end.
LEMMA JoinQueue ==
  ASSUME NEW S, NEW q \in Seq(S), IsInjective(q), NEW x \in S, x \notin Range(q)
  PROVE  /\ Append(q, x) \in Seq(S) /\ IsInjective(Append(q, x))
         /\ Range(Append(q, x)) = Range(q) \cup {x}
         /\ Append(q, x) # <<>>
<1>1. /\ Append(q, x) \in Seq(S) /\ Len(q) \in Nat /\ Len(Append(q, x)) = Len(q) + 1
      /\ \A j \in 1 .. Len(q) : Append(q, x)[j] = q[j]
      /\ Append(q, x)[Len(q) + 1] = x
  BY AppendProperties, LenProperties
<1>2. DOMAIN q = 1 .. Len(q) /\ DOMAIN Append(q, x) = 1 .. Len(q) + 1
  BY <1>1, LenProperties
<1>3. IsInjective(Append(q, x))
  BY <1>1, <1>2 DEF IsInjective, Range
<1>4. Range(Append(q, x)) = Range(q) \cup {x}
  <2>1. ASSUME NEW y \in Range(Append(q, x)) PROVE y \in Range(q) \cup {x}
    BY <2>1, <1>1, <1>2 DEF Range
  <2>2. ASSUME NEW y \in Range(q) PROVE y \in Range(Append(q, x))
    BY <2>2, <1>1, <1>2 DEF Range
  <2>3. x \in Range(Append(q, x))
    BY <1>1, <1>2 DEF Range
  <2> QED BY <2>1, <2>2, <2>3
<1> QED BY <1>1, <1>3, <1>4, EmptySeq

\* A generator that holds a slot and goes on holding it.
LEMMA KeepsSlot ==
  ASSUME GateTypeOK, GateSlotsInv, NEW r \in Requests, phase[r] \in HoldPhases, NEW x \in HoldPhases,
         phase' = [phase EXCEPT ![r] = x], running' = running, waiting' = waiting
  PROVE  /\ phase' \in [Requests -> {"idle", "waiting", "granted", "machine", "stream", "persist", "done", "refused"}]
         /\ IsFiniteSet(Holding') /\ SlotsBalance' /\ NoIdleSlot'
         /\ x # "stream" => Streaming' = Streaming \ {r}
<1> USE DEF HoldPhases, GateTypeOK
<1>1. Holding' = Holding
  BY DEF Holding
<1>2. {q \in Requests : phase'[q] = "waiting"} = {q \in Requests : phase[q] = "waiting"}
  OBVIOUS
<1>3. x # "stream" => Streaming' = Streaming \ {r}
  BY DEF Streaming
<1> QED BY <1>1, <1>2, <1>3 DEF GateSlotsInv, SlotsBalance, NoIdleSlot

\* The release of a slot: it is counted down, or the oldest waiter has it.
LEMMA GivesSlotBack ==
  ASSUME GateTypeOK, GateSlotsInv, NEW r \in Requests, phase[r] \in HoldPhases, End(r)
  PROVE  /\ phase' \in [Requests -> {"idle", "waiting", "granted", "machine", "stream", "persist", "done", "refused"}]
         /\ running' \in 0 .. MaxConcurrent /\ waiting' \in Seq(Requests)
         /\ IsFiniteSet(Holding') /\ SlotsBalance' /\ NoIdleSlot'
         /\ Streaming' = Streaming \ {r}
         /\ waiting = <<>> => waiting' = <<>>
<1> USE DEF HoldPhases, GateTypeOK
<1>a. MaxConcurrent \in Nat
  BY UsageGateAssumption
<1>0. r \in Holding /\ r \notin Range(waiting)
  BY DEF Holding, GateSlotsInv, NoIdleSlot
<1>1. /\ IsFiniteSet(Holding) /\ IsFiniteSet(Holding \ {r})
      /\ Cardinality(Holding \ {r}) = Cardinality(Holding) - 1
      /\ Cardinality(Holding \ {r}) \in Nat /\ running = Cardinality(Holding) /\ running <= MaxConcurrent
  BY <1>0, FS_RemoveElement, FS_CardinalityType DEF GateSlotsInv, SlotsBalance
<1>2. CASE waiting = <<>>
  <2>1. running' = running - 1 /\ phase' = [phase EXCEPT ![r] = "done"] /\ waiting' = waiting
    BY <1>2 DEF End, Release
  <2>2. Holding' = Holding \ {r} /\ Streaming' = Streaming \ {r}
    BY <2>1 DEF Holding, Streaming
  <2>3. {q \in Requests : phase'[q] = "waiting"} = {q \in Requests : phase[q] = "waiting"}
    BY <2>1
  <2>4. NoIdleSlot'
    BY <1>2, <2>1, <2>3 DEF GateSlotsInv, NoIdleSlot
  <2>5. SlotsBalance' /\ running' \in 0 .. MaxConcurrent
    BY <1>a, <1>1, <2>1, <2>2 DEF SlotsBalance
  <2> QED BY <1>1, <2>1, <2>2, <2>4, <2>5
<1>3. CASE waiting # <<>>
  <2> DEFINE h == Head(waiting)
  <2>1. /\ phase' = [[phase EXCEPT ![r] = "done"] EXCEPT ![h] = "granted"]
        /\ waiting' = Tail(waiting) /\ running' = running
    BY <1>3 DEF End, Release
  <2>2. /\ h \in Requests /\ h \in Range(waiting) /\ waiting' \in Seq(Requests)
        /\ IsInjective(waiting') /\ Range(waiting') = Range(waiting) \ {h}
    BY <1>3, <2>1, TailOfQueue DEF GateSlotsInv, NoIdleSlot
  <2>3. phase[h] = "waiting" /\ h # r
    BY <2>2, <1>0 DEF GateSlotsInv, NoIdleSlot
  <2> HIDE DEF h
  <2>4. \A q \in Requests : phase'[q] = IF q = r THEN "done" ELSE IF q = h THEN "granted" ELSE phase[q]
    BY <2>1, <2>3
  <2>5. phase' \in [Requests -> {"idle", "waiting", "granted", "machine", "stream", "persist", "done", "refused"}]
    BY <2>1
  <2>6. Holding' = (Holding \ {r}) \cup {h} /\ h \notin Holding \ {r} /\ Streaming' = Streaming \ {r}
    BY <2>2, <2>3, <2>4 DEF Holding, Streaming
  <2>7. IsFiniteSet(Holding') /\ Cardinality(Holding') = Cardinality(Holding \ {r}) + 1
    BY <2>6, <1>1, FS_AddElement
  <2>8. {q \in Requests : phase'[q] = "waiting"} = {q \in Requests : phase[q] = "waiting"} \ {h}
    BY <2>2, <2>3, <2>4
  <2>9. NoIdleSlot'
    BY <1>3, <2>1, <2>2, <2>8 DEF GateSlotsInv, NoIdleSlot
  <2>10. SlotsBalance'
    BY <1>a, <1>1, <2>1, <2>7 DEF SlotsBalance
  <2> QED BY <1>3, <2>1, <2>2, <2>5, <2>6, <2>7, <2>9, <2>10
<1> QED BY <1>2, <1>3

\* Everyone who waits is refused; what the others do is p.
LEMMA RefusesWaiting ==
  ASSUME GateTypeOK, GateSlotsInv, NEW p \in [Requests -> {"idle", "waiting", "granted", "machine", "stream", "persist", "done", "refused"}],
         RefuseWaiting(p), \A q \in Requests : p[q] = "waiting" <=> phase[q] = "waiting"
  PROVE  /\ phase' \in [Requests -> {"idle", "waiting", "granted", "machine", "stream", "persist", "done", "refused"}]
         /\ waiting' = <<>> /\ waiting' \in Seq(Requests) /\ NoIdleSlot'
         /\ \A q \in Requests : phase'[q] = IF phase[q] = "waiting" THEN "refused" ELSE p[q]
<1>1. waiting' = <<>> /\ phase' = [q \in Requests |-> IF q \in Range(waiting) THEN "refused" ELSE p[q]]
  BY DEF RefuseWaiting
<1>2. \A q \in Requests : q \in Range(waiting) <=> phase[q] = "waiting"
  BY DEF GateSlotsInv, NoIdleSlot
<1>3. \A q \in Requests : phase'[q] = IF phase[q] = "waiting" THEN "refused" ELSE p[q]
  BY <1>1, <1>2
<1>4. {q \in Requests : phase'[q] = "waiting"} = {}
  BY <1>3
<1>5. Range(waiting') = {} /\ IsInjective(waiting') /\ waiting' \in Seq(Requests)
  <2>1. DOMAIN waiting' = {} /\ waiting' \in Seq(Requests)
    BY <1>1, EmptySeq, LenProperties
  <2> QED BY <2>1 DEF Range, IsInjective
<1>6. NoIdleSlot'
  BY <1>1, <1>4, <1>5 DEF NoIdleSlot
<1> QED BY <1>1, <1>3, <1>5, <1>6

\* What was spent before the stop, and the streams that are left after it.
LEMMA NoNewStreams ==
  ASSUME GateInv, IsFiniteSet(Holding'), SlotsBalance', total' = total,
         abort' = "none" => abort = "none", abort # "none" => Streaming' \subseteq Streaming
  PROVE  Overruns'
<1> SUFFICES ASSUME NEW c \in Costs, \A d \in Costs : d <= c PROVE Overrun(c)'
  BY DEF Overruns
<1>0. c \in Nat /\ MaxConcurrent \in Nat /\ MaxCost \in Nat /\ total \in Nat
  BY UsageGateAssumption DEF GateInv, GateTypeOK
<1>1. Overrun(c)
  BY DEF GateInv, Overruns
<1>2. Streaming \subseteq Holding /\ Streaming' \subseteq Holding'
  BY DEF Streaming, Holding
<1>3. /\ IsFiniteSet(Streaming) /\ Cardinality(Streaming) \in Nat
      /\ IsFiniteSet(Streaming') /\ Cardinality(Streaming') \in Nat
      /\ Cardinality(Streaming') <= Cardinality(Holding') /\ Cardinality(Holding') \in Nat
  BY <1>2, FS_Subset, FS_CardinalityType DEF GateInv, GateSlotsInv
<1>4. CASE abort' = "none"
  BY <1>1, <1>4 DEF Overrun
<1>5. CASE abort' # "none" /\ abort = "none"
  <2>1. Cardinality(Streaming') <= MaxConcurrent
    BY <1>3, <1>0 DEF SlotsBalance
  <2>2. c * Cardinality(Streaming') <= MaxConcurrent * c /\ c * Cardinality(Streaming') \in Nat /\ MaxConcurrent * c \in Nat
    BY <2>1, <1>0, <1>3, TimesMonotone
  <2>3. total < MaxCost
    BY <1>1, <1>5 DEF Overrun
  <2>4. total' + c * Cardinality(Streaming') < MaxCost + MaxConcurrent * c
    <3> DEFINE k == c * Cardinality(Streaming')
               m == MaxConcurrent * c
    <3> HIDE DEF k, m
    <3>1. k <= m /\ k \in Nat /\ m \in Nat
      BY <2>2 DEF k, m
    <3>2. total' + k < MaxCost + m
      BY <3>1, <2>3, <1>0
    <3> QED BY <3>2 DEF k, m
  <2> QED BY <2>4, <1>5 DEF Overrun
<1>6. CASE abort' # "none" /\ abort # "none"
  <2>1. Cardinality(Streaming') <= Cardinality(Streaming)
    BY <1>3, <1>6, FS_Subset
  <2>2. c * Cardinality(Streaming') <= c * Cardinality(Streaming) /\ c * Cardinality(Streaming') \in Nat
        /\ c * Cardinality(Streaming) \in Nat /\ MaxConcurrent * c \in Nat
    BY <2>1, <1>0, <1>3, TimesMonotone
  <2>3. total + c * Cardinality(Streaming) < MaxCost + MaxConcurrent * c
    BY <1>1, <1>6 DEF Overrun
  <2>4. total' + c * Cardinality(Streaming') < MaxCost + MaxConcurrent * c
    <3> DEFINE k == c * Cardinality(Streaming')
               l == c * Cardinality(Streaming)
               m == MaxConcurrent * c
    <3> HIDE DEF k, l, m
    <3>1. k <= l /\ k \in Nat /\ l \in Nat /\ m \in Nat /\ total + l < MaxCost + m
      BY <2>2, <2>3 DEF k, l, m
    <3>2. total' + k < MaxCost + m
      BY <3>1, <1>0
    <3> QED BY <3>2 DEF k, m
  <2> QED BY <2>4, <1>6 DEF Overrun
<1> QED BY <1>4, <1>5, <1>6

LEMMA GateInitInv == GateInit => GateInv
<1> SUFFICES ASSUME GateInit PROVE GateInv
  OBVIOUS
<1> USE UsageGateAssumption DEF GateInit
<1>1. waiting \in Seq(Requests) /\ Range(waiting) = {} /\ IsInjective(waiting)
  <2>1. DOMAIN waiting = {} /\ waiting \in Seq(Requests)
    BY EmptySeq, LenProperties
  <2> QED BY <2>1 DEF Range, IsInjective
<1>2. GateTypeOK
  <2>1. 0 \in 0 .. MaxConcurrent
    OBVIOUS
  <2>2. phase \in [Requests -> Phases] /\ events \in [Requests -> Nat]
    BY DEF Phases
  <2> QED BY <1>1, <2>1, <2>2 DEF GateTypeOK, Phases
<1>3. Holding = {}
  BY DEF Holding
<1>4. IsFiniteSet(Holding) /\ SlotsBalance
  BY <1>3, FS_EmptySet DEF SlotsBalance
<1>5. {r \in Requests : phase[r] = "waiting"} = {}
  OBVIOUS
<1>6. NoIdleSlot /\ StopDrains
  BY <1>1, <1>5 DEF NoIdleSlot, StopDrains
<1>7. Overruns
  BY DEF Overruns, Overrun
<1> QED BY <1>2, <1>4, <1>6, <1>7 DEF GateInv, GateSlotsInv

\* The conjuncts of the type invariant that a request's own step leaves alone.
LEMMA RestOfType ==
  ASSUME GateTypeOK, phase' \in [Requests -> Phases], running' \in 0 .. MaxConcurrent, waiting' \in Seq(Requests),
         cancelled' \subseteq Requests, abort' \in {"none", "ceiling", "unrecorded", "ended"},
         total' \in Nat, events' \in [Requests -> Nat],
         closed' \in BOOLEAN, finished' \in BOOLEAN, leases' \in Nat, awaited' \in Nat \cup {-1}
  PROVE  GateTypeOK'
BY DEF GateTypeOK, Phases

LEMMA AskInv ==
  ASSUME GateInv, NEW r \in Requests, Ask(r) PROVE GateInv'
<1> USE DEF GateInv, GateSlotsInv
<1>a. MaxConcurrent \in Nat
  BY UsageGateAssumption
<1>0. /\ phase[r] = "idle" /\ phase \in [Requests -> Phases] /\ r \notin Holding /\ r \notin Range(waiting)
      /\ total' = total /\ abort' = abort
  BY DEF Ask, GateTypeOK, Phases, Holding, NoIdleSlot
<1>1. CASE phase' = [phase EXCEPT ![r] = "refused"] /\ running' = running /\ waiting' = waiting
  <2>1. Holding' = Holding /\ Streaming' = Streaming
    BY <1>0, <1>1 DEF Holding, Streaming, Phases
  <2>2. {q \in Requests : phase'[q] = "waiting"} = {q \in Requests : phase[q] = "waiting"}
    BY <1>0, <1>1
  <2>3. GateTypeOK'
    BY <1>0, <1>1 DEF Ask, GateTypeOK, gateLife, Phases
  <2>4. IsFiniteSet(Holding') /\ SlotsBalance' /\ NoIdleSlot' /\ StopDrains'
    BY <1>0, <1>1, <2>1, <2>2 DEF SlotsBalance, NoIdleSlot, StopDrains
  <2>5. Overruns'
    BY <1>0, <2>1, <2>4, NoNewStreams
  <2> QED BY <2>3, <2>4, <2>5
<1>2. CASE ~Signalled(r) /\ MayRun /\ phase' = [phase EXCEPT ![r] = "granted"] /\ running' = running + 1 /\ waiting' = waiting
  <2>1. Holding' = Holding \cup {r} /\ Streaming' = Streaming
    BY <1>0, <1>2 DEF Holding, Streaming, Phases
  <2>2. {q \in Requests : phase'[q] = "waiting"} = {q \in Requests : phase[q] = "waiting"}
    BY <1>0, <1>2
  <2>3. IsFiniteSet(Holding') /\ Cardinality(Holding') = Cardinality(Holding) + 1
    BY <1>0, <2>1, FS_AddElement
  <2>4. running \in Nat /\ running < MaxConcurrent
    BY <1>2, <1>a DEF MayRun, GateTypeOK
  <2>5. waiting = <<>>
    BY <2>4, <1>a DEF NoIdleSlot
  <2>6. running' \in 0 .. MaxConcurrent /\ SlotsBalance'
    BY <1>2, <1>a, <2>3, <2>4 DEF SlotsBalance
  <2>7. NoIdleSlot' /\ StopDrains'
    BY <1>0, <1>2, <2>2, <2>5 DEF NoIdleSlot, StopDrains
  <2>8. GateTypeOK'
    BY <1>0, <1>2, <2>6 DEF Ask, GateTypeOK, gateLife, Phases
  <2>9. Overruns'
    BY <1>0, <2>1, <2>3, <2>6, NoNewStreams
  <2> QED BY <2>3, <2>6, <2>7, <2>8, <2>9
<1>3. CASE ~Signalled(r) /\ ~MayRun /\ phase' = [phase EXCEPT ![r] = "waiting"] /\ waiting' = Append(waiting, r) /\ running' = running
  <2>1. Holding' = Holding /\ Streaming' = Streaming
    BY <1>0, <1>3 DEF Holding, Streaming, Phases
  <2>2. {q \in Requests : phase'[q] = "waiting"} = {q \in Requests : phase[q] = "waiting"} \cup {r}
    BY <1>0, <1>3
  <2>3. waiting' \in Seq(Requests) /\ IsInjective(waiting') /\ Range(waiting') = Range(waiting) \cup {r}
    BY <1>0, <1>3, JoinQueue DEF GateTypeOK, NoIdleSlot
  <2>4. running = MaxConcurrent
    BY <1>3, <1>a DEF MayRun, GateTypeOK
  <2>5. SlotsBalance' /\ NoIdleSlot' /\ IsFiniteSet(Holding')
    BY <1>3, <2>1, <2>2, <2>3, <2>4 DEF SlotsBalance, NoIdleSlot
  <2>6. StopDrains'
    BY <1>0, <1>3 DEF Signalled, StopDrains
  <2>7. GateTypeOK'
    BY <1>0, <1>3, <2>3 DEF Ask, GateTypeOK, gateLife, Phases
  <2>8. Overruns'
    BY <1>0, <2>1, <2>5, NoNewStreams
  <2> QED BY <2>5, <2>6, <2>7, <2>8
<1> QED BY <1>1, <1>2, <1>3 DEF Ask

\* Steps that release a slot: the stream ends, or a signal is noticed.
LEMMA EndInv ==
  ASSUME GateInv, NEW r \in Requests, phase[r] \in HoldPhases, End(r), UNCHANGED <<cancelled, abort, total, events, gateLife>>
  PROVE  GateInv'
<1>1. /\ phase' \in [Requests -> Phases] /\ running' \in 0 .. MaxConcurrent /\ waiting' \in Seq(Requests)
      /\ IsFiniteSet(Holding') /\ SlotsBalance' /\ NoIdleSlot' /\ Streaming' = Streaming \ {r}
      /\ waiting = <<>> => waiting' = <<>>
  BY GivesSlotBack DEF GateInv, Phases
<1>2. GateTypeOK'
  BY <1>1, RestOfType DEF GateInv, GateTypeOK, gateLife
<1>3. StopDrains'
  BY <1>1 DEF GateInv, GateSlotsInv, StopDrains
<1>4. Overruns'
  BY <1>1, NoNewStreams
<1> QED BY <1>1, <1>2, <1>3, <1>4 DEF GateInv, GateSlotsInv

\* Steps on which a generator keeps its slot and starts no stream after a stop.
LEMMA KeepInv ==
  ASSUME GateInv, NEW r \in Requests, phase[r] \in HoldPhases, abort = "none",
         NEW x \in {"machine", "stream"}, phase' = [phase EXCEPT ![r] = x],
         UNCHANGED <<running, waiting, cancelled, abort, total, events, gateLife>>
  PROVE  GateInv'
<1>1. /\ phase' \in [Requests -> Phases] /\ IsFiniteSet(Holding') /\ SlotsBalance' /\ NoIdleSlot'
  BY KeepsSlot DEF GateInv, Phases, HoldPhases
<1>2. GateTypeOK'
  BY <1>1, RestOfType DEF GateInv, GateTypeOK, gateLife
<1>3. StopDrains'
  BY DEF GateInv, GateSlotsInv, StopDrains
<1>4. Overruns'
  BY <1>1, NoNewStreams
<1> QED BY <1>1, <1>2, <1>3, <1>4 DEF GateInv, GateSlotsInv

LEMMA ProceedInv == ASSUME GateInv, NEW r \in Requests, Proceed(r) \/ Acquired(r) \/ Persisted(r) PROVE GateInv'
<1>1. phase[r] \in HoldPhases /\ UNCHANGED <<cancelled, abort, total, events, gateLife>>
  BY DEF Proceed, Acquired, Persisted, HoldPhases
<1>2. CASE End(r)
  BY <1>1, <1>2, EndInv
<1>3. CASE ~End(r)
  <2>1. abort = "none" /\ \E x \in {"machine", "stream"} : phase' = [phase EXCEPT ![r] = x]
    BY <1>3 DEF Proceed, Acquired, Persisted, Signalled
  <2>2. UNCHANGED <<running, waiting>>
    BY <1>3 DEF Proceed, Acquired, Persisted
  <2> QED BY <1>1, <2>1, <2>2, KeepInv
<1> QED BY <1>2, <1>3

\* A usage event: one stream fewer may still add to the total.
LEMMA UsageInv == ASSUME GateInv, NEW r \in Requests, NEW cost \in Costs, Usage(r, cost) PROVE GateInv'
<1> DEFINE persist == [phase EXCEPT ![r] = "persist"]
           stops == abort = "none" /\ total + cost >= MaxCost
<1>a. MaxConcurrent \in Nat /\ MaxCost \in Nat /\ cost \in Nat /\ Costs \subseteq Nat
  BY UsageGateAssumption
<1>0. /\ phase[r] = "stream" /\ total' = total + cost /\ running' = running /\ total \in Nat /\ phase \in [Requests -> Phases]
      /\ events' = [events EXCEPT ![r] = @ + 1] /\ UNCHANGED <<cancelled, gateLife>>
      /\ GateTypeOK /\ GateSlotsInv /\ Overruns
  BY DEF Usage, GateInv, GateTypeOK, Phases
<1>1. \/ stops /\ abort' = "ceiling" /\ RefuseWaiting(persist)
      \/ ~stops /\ abort' = abort /\ phase' = persist /\ waiting' = waiting
  BY DEF Usage
<1>2. persist \in [Requests -> Phases] /\ \A q \in Requests : persist[q] = IF q = r THEN "persist" ELSE phase[q]
  BY <1>0 DEF Phases
<1> HIDE DEF persist
<1>3. /\ phase' \in [Requests -> Phases] /\ waiting' \in Seq(Requests) /\ NoIdleSlot'
      /\ Holding' = Holding /\ Streaming' = Streaming \ {r} /\ StopDrains'
  <2>1. CASE stops /\ abort' = "ceiling" /\ RefuseWaiting(persist)
    <3>1. \A q \in Requests : persist[q] = "waiting" <=> phase[q] = "waiting"
      BY <1>0, <1>2
    <3>2. /\ phase' \in [Requests -> Phases] /\ waiting' = <<>> /\ waiting' \in Seq(Requests) /\ NoIdleSlot'
          /\ \A q \in Requests : phase'[q] = IF phase[q] = "waiting" THEN "refused" ELSE persist[q]
      BY <1>0, <1>2, <2>1, <3>1, RefusesWaiting DEF Phases
    <3>3. \A q \in Requests : phase'[q] = IF phase[q] = "waiting" THEN "refused" ELSE IF q = r THEN "persist" ELSE phase[q]
      BY <1>2, <3>2
    <3>4. Holding' = Holding /\ Streaming' = Streaming \ {r}
      BY <1>0, <3>3 DEF Holding, Streaming
    <3> QED BY <3>2, <3>4 DEF StopDrains
  <2>2. CASE ~stops /\ abort' = abort /\ phase' = persist /\ waiting' = waiting
    <3>1. Holding' = Holding /\ Streaming' = Streaming \ {r}
      BY <1>0, <1>2, <2>2 DEF Holding, Streaming
    <3>2. {q \in Requests : phase'[q] = "waiting"} = {q \in Requests : phase[q] = "waiting"}
      BY <1>0, <1>2, <2>2
    <3>3. NoIdleSlot' /\ StopDrains'
      BY <1>0, <2>2, <3>2 DEF GateSlotsInv, NoIdleSlot, StopDrains
    <3> QED BY <1>0, <1>2, <2>2, <3>1, <3>3 DEF GateTypeOK
  <2> QED BY <1>1, <2>1, <2>2
<1>4. IsFiniteSet(Holding') /\ SlotsBalance'
  BY <1>0, <1>3 DEF GateSlotsInv, SlotsBalance
<1>5. GateTypeOK'
  <2>1. abort' \in {"none", "ceiling", "unrecorded", "ended"} /\ events' \in [Requests -> Nat] /\ total' \in Nat
    BY <1>0, <1>1, <1>a DEF GateTypeOK
  <2> QED BY <1>0, <1>3, <2>1, RestOfType DEF GateTypeOK, gateLife
<1>6. Overruns'
  <2> SUFFICES ASSUME NEW c \in Costs, \A d \in Costs : d <= c PROVE Overrun(c)'
    BY DEF Overruns
  <2>1. Overrun(c) /\ cost <= c /\ c \in Nat
    BY <1>0, <1>a DEF Overruns
  <2>2. r \in Streaming /\ Streaming \subseteq Holding /\ IsFiniteSet(Holding)
    BY <1>0 DEF Streaming, Holding, GateSlotsInv
  <2> DEFINE n == Cardinality(Streaming')
  <2>3. n \in Nat /\ Cardinality(Streaming) = n + 1 /\ n + 1 <= MaxConcurrent
    <3>1. IsFiniteSet(Streaming) /\ Cardinality(Streaming) <= Cardinality(Holding) /\ Cardinality(Streaming) \in Nat
          /\ Cardinality(Holding) \in Nat
      BY <2>2, FS_Subset, FS_CardinalityType
    <3>2. Cardinality(Streaming \ {r}) = Cardinality(Streaming) - 1 /\ Cardinality(Streaming \ {r}) \in Nat
      BY <3>1, <2>2, FS_RemoveElement, FS_CardinalityType
    <3>3. Cardinality(Holding) <= MaxConcurrent
      BY <1>0 DEF GateSlotsInv, SlotsBalance
    <3> QED BY <3>1, <3>2, <3>3, <1>3, <1>a
  <2> HIDE DEF n
  <2>4. c * (n + 1) = c * n + c /\ c * (n + 1) <= MaxConcurrent * c /\ c * n \in Nat /\ c * (n + 1) \in Nat /\ MaxConcurrent * c \in Nat
    <3>1. c * (n + 1) = c * n + c
      BY <2>1, <2>3, TimesOneMore
    <3>2. c * (n + 1) <= c * MaxConcurrent /\ c * MaxConcurrent \in Nat /\ c * MaxConcurrent = MaxConcurrent * c
      BY <2>1, <2>3, <1>a, TimesMonotone
    <3>3. c * n \in Nat /\ c * (n + 1) \in Nat
      BY <2>1, <2>3, TimesMonotone
    <3> QED BY <3>1, <3>2, <3>3
  <2>5. abort' = "none" => total' < MaxCost
    BY <1>0, <1>1, <1>a, <2>1 DEF Overrun
  <2>6. abort' # "none" => total' + c * n < MaxCost + MaxConcurrent * c
    <3> DEFINE k == c * n
               l == c * (n + 1)
               m == MaxConcurrent * c
    <3>1. l = k + c /\ l <= m /\ k \in Nat /\ l \in Nat /\ m \in Nat
      BY <2>4
    <3>2. abort = "none" => total < MaxCost
      BY <2>1 DEF Overrun
    <3>3. abort # "none" => total + l < MaxCost + m
      BY <2>1, <2>3 DEF Overrun
    <3> HIDE DEF k, l, m
    <3>4. total' + k < MaxCost + m
      BY <3>1, <3>2, <3>3, <1>0, <1>a, <2>1
    <3> QED BY <3>4 DEF k, m
  <2> QED BY <2>5, <2>6 DEF Overrun, n
<1> QED BY <1>0, <1>3, <1>4, <1>5, <1>6 DEF GateInv, GateSlotsInv

\* The failed record of a usage event: its slot is counted down, nobody is let in.
LEMMA NotPersistedInv == ASSUME GateInv, NEW r \in Requests, NotPersisted(r) PROVE GateInv'
<1> DEFINE rest == [phase EXCEPT ![r] = "done"]
<1>a. MaxConcurrent \in Nat
  BY UsageGateAssumption
<1>0. /\ phase[r] = "persist" /\ running' = running - 1 /\ phase \in [Requests -> Phases] /\ r \in Holding
      /\ UNCHANGED <<cancelled, total, events, gateLife>>
      /\ GateTypeOK /\ GateSlotsInv /\ running \in 0 .. MaxConcurrent
  BY DEF NotPersisted, GateInv, GateTypeOK, Phases, Holding
<1>1. \/ abort = "none" /\ abort' = "unrecorded" /\ RefuseWaiting(rest)
      \/ abort # "none" /\ abort' = abort /\ phase' = rest /\ waiting' = waiting
  BY DEF NotPersisted
<1>2. rest \in [Requests -> Phases] /\ \A q \in Requests : rest[q] = IF q = r THEN "done" ELSE phase[q]
  BY <1>0 DEF Phases
<1> HIDE DEF rest
<1>3. /\ phase' \in [Requests -> Phases] /\ waiting' = <<>> /\ waiting' \in Seq(Requests) /\ NoIdleSlot'
      /\ Holding' = Holding \ {r} /\ Streaming' = Streaming
  <2>1. CASE RefuseWaiting(rest)
    <3>1. \A q \in Requests : rest[q] = "waiting" <=> phase[q] = "waiting"
      BY <1>0, <1>2
    <3>2. /\ phase' \in [Requests -> Phases] /\ waiting' = <<>> /\ waiting' \in Seq(Requests) /\ NoIdleSlot'
          /\ \A q \in Requests : phase'[q] = IF phase[q] = "waiting" THEN "refused" ELSE rest[q]
      BY <1>0, <1>2, <2>1, <3>1, RefusesWaiting DEF Phases
    <3>3. \A q \in Requests : phase'[q] = IF phase[q] = "waiting" THEN "refused" ELSE IF q = r THEN "done" ELSE phase[q]
      BY <1>2, <3>2
    <3>4. Holding' = Holding \ {r} /\ Streaming' = Streaming
      BY <1>0, <3>3 DEF Holding, Streaming
    <3> QED BY <3>2, <3>4
  <2>2. CASE abort # "none" /\ phase' = rest /\ waiting' = waiting
    <3>1. Holding' = Holding \ {r} /\ Streaming' = Streaming
      BY <1>0, <1>2, <2>2 DEF Holding, Streaming
    <3>2. {q \in Requests : phase'[q] = "waiting"} = {q \in Requests : phase[q] = "waiting"}
      BY <1>0, <1>2, <2>2
    <3>3. waiting = <<>>
      BY <1>0, <2>2 DEF GateSlotsInv, StopDrains
    <3>4. NoIdleSlot'
      BY <1>0, <2>2, <3>2, <3>3 DEF GateSlotsInv, NoIdleSlot
    <3> QED BY <1>0, <1>2, <2>2, <3>1, <3>3, <3>4 DEF GateTypeOK
  <2> QED BY <1>1, <2>1, <2>2
<1>4. IsFiniteSet(Holding') /\ SlotsBalance' /\ running' \in 0 .. MaxConcurrent
  <2>1. /\ IsFiniteSet(Holding') /\ Cardinality(Holding') = Cardinality(Holding) - 1 /\ Cardinality(Holding') \in Nat
        /\ running = Cardinality(Holding)
    BY <1>0, <1>3, FS_RemoveElement, FS_CardinalityType DEF GateSlotsInv, SlotsBalance
  <2> QED BY <2>1, <1>0, <1>a DEF SlotsBalance
<1>5. abort' \in {"none", "ceiling", "unrecorded", "ended"} /\ abort' # "none"
  BY <1>0, <1>1 DEF GateTypeOK
<1>6. GateTypeOK'
  BY <1>0, <1>3, <1>4, <1>5, RestOfType DEF GateTypeOK, gateLife
<1>7. Overruns'
  BY <1>0, <1>3, <1>4, <1>5, NoNewStreams
<1> QED BY <1>3, <1>4, <1>6, <1>7 DEF GateInv, GateSlotsInv, StopDrains

\* A caller's own signal: only a request that waits moves.
LEMMA CancelInv == ASSUME GateInv, NEW r \in Requests, CancelOne(r) PROVE GateInv'
<1>0. /\ cancelled' = cancelled \cup {r} /\ UNCHANGED <<running, abort, total, events, gateLife>>
      /\ GateTypeOK /\ GateSlotsInv /\ phase \in [Requests -> Phases] /\ cancelled' \subseteq Requests
  BY DEF CancelOne, GateInv, GateTypeOK, Phases
<1>1. /\ phase' \in [Requests -> Phases] /\ waiting' \in Seq(Requests) /\ NoIdleSlot' /\ StopDrains'
      /\ Holding' = Holding /\ Streaming' = Streaming
  <2>1. CASE phase[r] = "waiting"
    <3>1. PICK i \in DOMAIN waiting : waiting[i] = r /\ waiting' = RemoveAt(waiting, i)
      BY <2>1 DEF CancelOne
    <3>2. phase' = [phase EXCEPT ![r] = "refused"]
      BY <2>1 DEF CancelOne
    <3>3. /\ waiting' \in Seq(Requests) /\ IsInjective(waiting') /\ Range(waiting') = Range(waiting) \ {r}
      BY <1>0, <3>1, WithoutOne DEF GateSlotsInv, NoIdleSlot, GateTypeOK
    <3>4. waiting # <<>>
      BY <1>0, <3>1, LenProperties, EmptySeq DEF GateTypeOK
    <3>5. Holding' = Holding /\ Streaming' = Streaming
      BY <1>0, <2>1, <3>2 DEF Holding, Streaming
    <3>6. {q \in Requests : phase'[q] = "waiting"} = {q \in Requests : phase[q] = "waiting"} \ {r}
      BY <1>0, <3>2
    <3>7. NoIdleSlot' /\ StopDrains'
      BY <1>0, <3>3, <3>4, <3>6 DEF GateSlotsInv, NoIdleSlot, StopDrains
    <3>8. phase' \in [Requests -> Phases]
      BY <1>0, <3>2 DEF Phases
    <3> QED BY <3>3, <3>5, <3>7, <3>8
  <2>2. CASE phase[r] # "waiting"
    <3>1. phase' = phase /\ waiting' = waiting
      BY <2>2 DEF CancelOne
    <3> QED BY <1>0, <3>1 DEF Holding, Streaming, GateSlotsInv, NoIdleSlot, StopDrains, GateTypeOK
  <2> QED BY <2>1, <2>2
<1>2. IsFiniteSet(Holding') /\ SlotsBalance'
  BY <1>0, <1>1 DEF GateSlotsInv, SlotsBalance
<1>3. GateTypeOK'
  BY <1>0, <1>1, RestOfType DEF GateTypeOK, gateLife
<1>4. Overruns'
  BY <1>0, <1>1, <1>2, NoNewStreams
<1> QED BY <1>1, <1>2, <1>3, <1>4 DEF GateInv, GateSlotsInv

\* The end of the invocation: admission is closed and everyone who waits refused.
LEMMA CloseInv ==
  ASSUME GateInv, CloseGate, UNCHANGED <<cancelled, total, events>>,
         finished' \in BOOLEAN, leases' \in Nat, awaited' \in Nat \cup {-1}
  PROVE  GateInv'
<1>0. /\ closed' = TRUE /\ running' = running /\ UNCHANGED <<cancelled, total, events>>
      /\ GateTypeOK /\ GateSlotsInv /\ phase \in [Requests -> Phases]
  BY DEF CloseGate, GateInv, GateTypeOK, Phases
<1>1. \/ abort = "none" /\ abort' = "ended" /\ RefuseWaiting(phase)
      \/ abort # "none" /\ abort' = abort /\ phase' = phase /\ waiting' = waiting
  BY DEF CloseGate
<1>2. /\ phase' \in [Requests -> Phases] /\ waiting' \in Seq(Requests) /\ NoIdleSlot' /\ StopDrains'
      /\ Holding' = Holding /\ Streaming' = Streaming
  <2>1. CASE RefuseWaiting(phase)
    <3>1. /\ phase' \in [Requests -> Phases] /\ waiting' = <<>> /\ waiting' \in Seq(Requests) /\ NoIdleSlot'
          /\ \A q \in Requests : phase'[q] = IF phase[q] = "waiting" THEN "refused" ELSE phase[q]
      BY <1>0, <2>1, RefusesWaiting DEF Phases
    <3>2. Holding' = Holding /\ Streaming' = Streaming
      BY <3>1 DEF Holding, Streaming
    <3> QED BY <3>1, <3>2 DEF StopDrains
  <2>2. CASE phase' = phase /\ waiting' = waiting /\ abort' = abort
    BY <1>0, <2>2 DEF Holding, Streaming, GateSlotsInv, NoIdleSlot, StopDrains, GateTypeOK
  <2> QED BY <1>1, <2>1, <2>2
<1>3. IsFiniteSet(Holding') /\ SlotsBalance'
  BY <1>0, <1>2 DEF GateSlotsInv, SlotsBalance
<1>4. abort' \in {"none", "ceiling", "unrecorded", "ended"} /\ abort' # "none"
  BY <1>0, <1>1 DEF GateTypeOK
<1>5. GateTypeOK'
  BY <1>0, <1>2, <1>4, RestOfType DEF GateTypeOK
<1>6. Overruns'
  BY <1>0, <1>2, <1>3, <1>4, NoNewStreams
<1> QED BY <1>2, <1>3, <1>5, <1>6 DEF GateInv, GateSlotsInv

\* Activations come and go; the requests are left alone.
LEMMA LeavesRequests ==
  ASSUME GateInv, UNCHANGED <<phase, running, waiting, cancelled, abort, closed, total, events>>,
         finished' \in BOOLEAN, leases' \in Nat, awaited' \in Nat \cup {-1}
  PROVE  GateInv'
<1>1. Holding' = Holding /\ Streaming' = Streaming
  BY DEF Holding, Streaming
<1>2. GateSlotsInv'
  BY <1>1 DEF GateInv, GateSlotsInv, SlotsBalance, NoIdleSlot, StopDrains
<1>3. Overruns'
  BY <1>1 DEF GateInv, Overruns, Overrun
<1>4. GateTypeOK'
  BY RestOfType DEF GateInv, GateTypeOK, Phases
<1> QED BY <1>2, <1>3, <1>4 DEF GateInv

LEMMA GateNextInv == GateInv /\ [GateNext]_gateVars => GateInv'
<1> SUFFICES ASSUME GateInv, [GateNext]_gateVars PROVE GateInv'
  OBVIOUS
<1>0. closed \in BOOLEAN /\ finished \in BOOLEAN /\ leases \in Nat /\ awaited \in Nat \cup {-1}
  BY DEF GateInv, GateTypeOK
<1>1. ASSUME NEW r \in Requests, Ends(r) PROVE GateInv'
  <2>1. phase[r] \in HoldPhases /\ End(r) /\ UNCHANGED <<cancelled, abort, total, events, gateLife>>
    BY <1>1 DEF Ends, HoldPhases
  <2> QED BY <2>1, EndInv
<1>2. CASE Retain
  <2>1. leases' = leases + 1 /\ UNCHANGED <<phase, running, waiting, cancelled, abort, closed, finished, awaited, total, events>>
    BY <1>2 DEF Retain
  <2>2. leases' \in Nat
    BY <2>1, <1>0
  <2> QED BY <2>1, <2>2, <1>0, LeavesRequests
<1>3. CASE ReleaseLease
  <2>1. /\ leases > 0 /\ leases' = leases - 1 /\ awaited' = IF awaited > 0 THEN awaited - 1 ELSE awaited
        /\ UNCHANGED <<cancelled, finished, total, events>>
        /\ CloseGate \/ UNCHANGED <<phase, running, waiting, abort, closed>>
    BY <1>3 DEF ReleaseLease
  <2>2. leases' \in Nat /\ awaited' \in Nat \cup {-1}
    BY <2>1, <1>0
  <2> QED BY <2>1, <2>2, <1>0, CloseInv, LeavesRequests
<1>4. CASE Finish
  <2>1. /\ finished' = TRUE /\ awaited' = leases /\ UNCHANGED <<cancelled, leases, total, events>>
        /\ CloseGate \/ UNCHANGED <<phase, running, waiting, abort, closed>>
    BY <1>4 DEF Finish
  <2> QED BY <2>1, <1>0, CloseInv, LeavesRequests
<1>5. CASE UNCHANGED gateVars
  BY <1>0, <1>5, LeavesRequests DEF gateVars
<1> QED BY <1>1, <1>2, <1>3, <1>4, <1>5, AskInv, ProceedInv, UsageInv, NotPersistedInv, CancelInv DEF GateNext

\* The invariant of the gate, for every number of requests, slots, waiters and
\* activations, every ceiling and every price of an event.
THEOREM GateInvariant == GateSpec => []GateInv
<1> QED BY GateInitInv, GateNextInv, PTL DEF GateSpec

LEMMA InvGateSafe == GateInv => GateSafety
<1> SUFFICES ASSUME GateInv PROVE GateSafety
  OBVIOUS
<1>1. ASSUME NEW c \in Costs, \A d \in Costs : d <= c PROVE total < MaxCost + MaxConcurrent * c
  <2>1. Overrun(c)
    BY <1>1 DEF GateInv, Overruns
  <2>2. c \in Nat /\ MaxConcurrent \in Nat /\ MaxCost \in Nat /\ total \in Nat
    BY UsageGateAssumption DEF GateInv, GateTypeOK
  <2>3. Cardinality(Streaming) \in Nat
    <3>1. Streaming \subseteq Holding /\ IsFiniteSet(Holding)
      BY DEF Streaming, Holding, GateInv, GateSlotsInv
    <3> QED BY <3>1, FS_Subset, FS_CardinalityType
  <2> DEFINE k == c * Cardinality(Streaming)
             m == MaxConcurrent * c
  <2>4. k \in Nat /\ m \in Nat
    BY <2>2, <2>3, TimesMonotone
  <2>5. abort = "none" => total < MaxCost
    BY <2>1 DEF Overrun
  <2>6. abort # "none" => total + k < MaxCost + m
    BY <2>1 DEF Overrun
  <2> HIDE DEF k, m
  <2>7. total < MaxCost + m
    BY <2>2, <2>4, <2>5, <2>6
  <2> QED BY <2>7 DEF m
<1>2. OverrunBounded
  BY <1>1 DEF OverrunBounded
<1> QED BY <1>2 DEF GateInv, GateSlotsInv, GateSafety

\* No slot of the gate leaks, is handed out twice or idles while someone waits,
\* and what is reported beyond the ceiling is at most one event per slot.
THEOREM GateIsSafe == GateSpec => []GateSafety
<1> QED BY GateInvariant, InvGateSafe, PTL

LEMMA StepStartsNothing ==
  ASSUME GateInv, [GateNext]_gateVars, NEW r \in Requests, phase[r] # "stream", phase'[r] = "stream"
  PROVE  abort = "none"
<1>0. phase \in [Requests -> Phases] /\ GateTypeOK /\ GateSlotsInv
  BY DEF GateInv, GateTypeOK, Phases
<1>1. ASSUME NEW q \in Requests, End(q), phase[q] \in HoldPhases PROVE FALSE
  BY <1>0, <1>1, GivesSlotBack DEF Streaming
<1>2. ASSUME NEW q \in Requests, Ask(q) PROVE FALSE
  BY <1>0, <1>2 DEF Ask
<1>3. ASSUME NEW q \in Requests, Proceed(q) \/ Acquired(q) \/ Persisted(q) PROVE abort = "none"
  <2>1. phase[q] \in HoldPhases
    BY <1>3 DEF Proceed, Acquired, Persisted, HoldPhases
  <2>2. CASE End(q)
    BY <1>1, <2>1, <2>2
  <2>3. CASE ~End(q)
    BY <1>3, <2>3 DEF Proceed, Acquired, Persisted, Signalled
  <2> QED BY <2>2, <2>3
<1>4. ASSUME NEW q \in Requests, NEW x \in Phases \ {"stream"}, phase' = [phase EXCEPT ![q] = x] PROVE FALSE
  BY <1>0, <1>4
<1>5. ASSUME NEW q \in Requests, NEW x \in Phases \ {"stream"}, RefuseWaiting([phase EXCEPT ![q] = x]) PROVE FALSE
  BY <1>0, <1>5 DEF RefuseWaiting
<1>6. ASSUME RefuseWaiting(phase) PROVE FALSE
  BY <1>0, <1>6 DEF RefuseWaiting
<1>7. ASSUME NEW q \in Requests, NEW cost \in Costs, Usage(q, cost) PROVE FALSE
  BY <1>4, <1>5, <1>7 DEF Usage, Phases
<1>8. ASSUME NEW q \in Requests, NotPersisted(q) PROVE FALSE
  BY <1>4, <1>5, <1>8 DEF NotPersisted, Phases
<1>9. ASSUME NEW q \in Requests, CancelOne(q) PROVE FALSE
  BY <1>4, <1>9 DEF CancelOne, Phases
<1>10. ASSUME NEW q \in Requests, Ends(q) PROVE FALSE
  BY <1>1, <1>10 DEF Ends, HoldPhases
<1>11. ASSUME CloseGate \/ UNCHANGED phase PROVE FALSE
  BY <1>6, <1>11 DEF CloseGate
<1>12. CASE Retain \/ ReleaseLease \/ Finish \/ UNCHANGED gateVars
  BY <1>11, <1>12 DEF Retain, ReleaseLease, Finish, gateVars
<1> QED BY <1>2, <1>3, <1>7, <1>8, <1>9, <1>10, <1>12 DEF GateNext

\* Once the gate has stopped no request starts to stream, a slot handed over
\* before the stop included.
THEOREM NothingStarts == GateSpec => NothingStartsAfterStop
<1>1. GateInv /\ [GateNext]_gateVars =>
        [\A r \in Requests : phase[r] # "stream" /\ phase'[r] = "stream" => abort = "none"]_gateVars
  BY StepStartsNothing
<1> QED BY <1>1, GateInvariant, PTL DEF GateSpec, NothingStartsAfterStop

-----------------------------------------------------------------------------
(***************************************************************************)
(* The slots of the machine.  A row of a request at work is never taken for *)
(* dead: its process lives and the row names it or nobody.  The limits hold *)
(* of the rows, so that they hold of the streams.                           *)
(***************************************************************************)

SlotRow == [state : {"none", "waiting", "active"}, born : Nat \cup {Unknown}, queued : Nat]

\* The process of a request at work lives, and its row names that process or none.
OwnersLive ==
  \A s \in Slots : at[s] \in {"poll", "stream"} =>
    PidOf[s] \in alive /\ row[s].born \in {Unknown, birth[PidOf[s]]}

\* The rows stay within the limits, those of dead processes included.
RowsWithin(table) ==
  /\ IsFiniteSet(AllActive(table))
  /\ Cardinality(AllActive(table)) <= Total
  /\ \A s \in Slots : Cardinality(Active(table, DomainOf[s])) <= PerDomain

SlotsInv == SlotsTypeOK /\ OwnRowsStay /\ OwnersLive /\ RowsWithin(row)

\* Fewer active rows stay within the limits.
LEMMA FewerRows ==
  ASSUME NEW old, NEW new, RowsWithin(old), {Total, PerDomain} \subseteq Nat, AllActive(new) \subseteq AllActive(old)
  PROVE  RowsWithin(new)
<1>1. /\ IsFiniteSet(AllActive(old)) /\ Cardinality(AllActive(old)) <= Total
      /\ IsFiniteSet(AllActive(new)) /\ Cardinality(AllActive(new)) <= Cardinality(AllActive(old))
      /\ Cardinality(AllActive(new)) \in Nat /\ Cardinality(AllActive(old)) \in Nat
  BY FS_Subset, FS_CardinalityType DEF RowsWithin
<1>2. ASSUME NEW s \in Slots PROVE Cardinality(Active(new, DomainOf[s])) <= PerDomain
  <2>1. Active(new, DomainOf[s]) \subseteq Active(old, DomainOf[s]) /\ Active(old, DomainOf[s]) \subseteq AllActive(old)
    BY DEF Active, AllActive
  <2>2. IsFiniteSet(Active(old, DomainOf[s]))
    BY <1>1, <2>1, FS_Subset
  <2>3. /\ Cardinality(Active(new, DomainOf[s])) <= Cardinality(Active(old, DomainOf[s]))
        /\ Cardinality(Active(new, DomainOf[s])) \in Nat /\ Cardinality(Active(old, DomainOf[s])) \in Nat
    BY <2>1, <2>2, FS_Subset, FS_CardinalityType
  <2>4. Cardinality(Active(old, DomainOf[s])) <= PerDomain
    BY DEF RowsWithin
  <2> QED BY <2>3, <2>4
<1> QED BY <1>1, <1>2 DEF RowsWithin

\* A grant takes the last free place at most.
LEMMA OneMoreRow ==
  ASSUME NEW old, NEW new, NEW s \in Slots, RowsWithin(old), HasRoomFor(old, DomainOf[s]), {Total, PerDomain} \subseteq Nat,
         AllActive(new) = AllActive(old) \cup {s}
  PROVE  RowsWithin(new)
<1>1. /\ IsFiniteSet(AllActive(old)) /\ Cardinality(AllActive(old)) < Total /\ Cardinality(AllActive(old)) \in Nat
      /\ IsFiniteSet(AllActive(new)) /\ Cardinality(AllActive(new)) <= Total
  <2>1. IsFiniteSet(AllActive(old)) /\ Cardinality(AllActive(old)) < Total /\ Cardinality(AllActive(old)) \in Nat
    BY FS_CardinalityType DEF RowsWithin, HasRoomFor
  <2>2. /\ IsFiniteSet(AllActive(new))
        /\ Cardinality(AllActive(new)) \in {Cardinality(AllActive(old)), Cardinality(AllActive(old)) + 1}
    BY <2>1, FS_AddElement
  <2> QED BY <2>1, <2>2
<1>2. ASSUME NEW t \in Slots PROVE Cardinality(Active(new, DomainOf[t])) <= PerDomain
  <2>1. /\ IsFiniteSet(Active(old, DomainOf[t])) /\ Cardinality(Active(old, DomainOf[t])) \in Nat
        /\ Cardinality(Active(old, DomainOf[t])) <= PerDomain
    <3>1. Active(old, DomainOf[t]) \subseteq AllActive(old)
      BY DEF Active, AllActive
    <3> QED BY <1>1, <3>1, FS_Subset, FS_CardinalityType DEF RowsWithin
  <2>2. CASE DomainOf[t] = DomainOf[s]
    <3>1. Active(new, DomainOf[t]) = Active(old, DomainOf[t]) \cup {s}
      BY <2>2 DEF Active, AllActive
    <3>2. Cardinality(Active(old, DomainOf[t])) < PerDomain
      BY <2>2 DEF HasRoomFor
    <3>3. Cardinality(Active(new, DomainOf[t])) \in {Cardinality(Active(old, DomainOf[t])), Cardinality(Active(old, DomainOf[t])) + 1}
      BY <2>1, <3>1, FS_AddElement
    <3> QED BY <2>1, <3>2, <3>3
  <2>3. CASE DomainOf[t] # DomainOf[s]
    <3>1. Active(new, DomainOf[t]) = Active(old, DomainOf[t])
      BY <2>3 DEF Active, AllActive
    <3> QED BY <2>1, <3>1
  <2> QED BY <2>2, <2>3
<1> QED BY <1>1, <1>2 DEF RowsWithin

\* Cleaning only deletes rows, and none of a request at work.
LEMMA CleaningSpares ==
  ASSUME SlotsInv
  PROVE  /\ Cleaned \in [Slots -> SlotRow]
         /\ \A s \in Slots : Cleaned[s] = row[s] \/ Cleaned[s] = Absent
         /\ \A s \in Slots : at[s] \in {"poll", "stream"} => Cleaned[s] = row[s]
         /\ AllActive(Cleaned) \subseteq AllActive(row)
<1>1. row \in [Slots -> SlotRow] /\ Absent \in SlotRow /\ Absent.state = "none"
  BY DEF SlotsInv, SlotsTypeOK, SlotRow, Absent
<1>2. Cleaned \in [Slots -> SlotRow] /\ \A s \in Slots : Cleaned[s] = IF Dead(s) THEN Absent ELSE row[s]
  BY <1>1 DEF Cleaned
<1>3. \A s \in Slots : at[s] \in {"poll", "stream"} => ~Dead(s)
  BY DEF SlotsInv, OwnersLive, Dead, Unknown
<1>4. AllActive(Cleaned) \subseteq AllActive(row)
  BY <1>1, <1>2 DEF AllActive
<1> QED BY <1>2, <1>3, <1>4

LEMMA SlotsInitInv == SlotsInit => SlotsInv
<1> SUFFICES ASSUME SlotsInit PROVE SlotsInv
  OBVIOUS
<1> USE MachineSlotsAssumption DEF SlotsInit
<1>1. SlotsTypeOK
  <2>1. Absent \in SlotRow
    BY DEF Absent, SlotRow
  <2> QED BY <2>1 DEF SlotsTypeOK, SlotRow
<1>2. OwnRowsStay /\ OwnersLive
  BY DEF OwnRowsStay, OwnersLive
<1>3. AllActive(row) = {} /\ \A s \in Slots : Active(row, DomainOf[s]) = {}
  BY DEF AllActive, Active, Absent
<1>4. RowsWithin(row)
  <2>1. {Total, PerDomain} \subseteq Nat /\ IsFiniteSet({}) /\ Cardinality({}) = 0
    BY FS_EmptySet
  <2> HIDE DEF SlotsInit
  <2> QED BY <1>3, <2>1 DEF RowsWithin
<1> QED BY <1>1, <1>2, <1>4 DEF SlotsInv

\* A new row of a living process that is not at work yet.
LEMMA EnterInv == ASSUME SlotsInv, NEW s \in Slots, Enter(s) PROVE SlotsInv'
<1> USE MachineSlotsAssumption
<1>0. /\ at[s] = "idle" /\ PidOf[s] \in alive /\ alive' = alive /\ birth' = birth /\ granted' = granted /\ deaths' = deaths
      /\ row \in [Slots -> SlotRow] /\ at \in [Slots -> {"idle", "poll", "stream", "done", "refused"}]
      /\ clock \in Nat /\ birth \in [Pids -> Nat] /\ alive \subseteq Pids
  BY DEF Enter, SlotsInv, SlotsTypeOK, SlotRow
<1>1. CASE at' = [at EXCEPT ![s] = "refused"] /\ row' = row /\ clock' = clock
  <2>1. RowsWithin(row')
    BY <1>1 DEF SlotsInv
  <2>2. OwnRowsStay' /\ OwnersLive'
    BY <1>0, <1>1 DEF SlotsInv, OwnRowsStay, OwnersLive
  <2>3. SlotsTypeOK'
    BY <1>0, <1>1 DEF SlotsInv, SlotsTypeOK, SlotRow
  <2> QED BY <2>1, <2>2, <2>3 DEF SlotsInv
<1>2. CASE /\ \E born \in {birth[PidOf[s]], Unknown} :
                row' = [Cleaned EXCEPT ![s] = [state |-> "waiting", born |-> born, queued |-> clock + 1]]
           /\ at' = [at EXCEPT ![s] = "poll"] /\ clock' = clock + 1
  <2>0. PICK born \in {birth[PidOf[s]], Unknown} :
                row' = [Cleaned EXCEPT ![s] = [state |-> "waiting", born |-> born, queued |-> clock + 1]]
    BY <1>2
  <2>1. PICK r \in SlotRow : r.state = "waiting" /\ r.born = born /\ row' = [Cleaned EXCEPT ![s] = r]
    <3>1. born \in Nat \cup {Unknown}
      BY <1>0
    <3>2. [state |-> "waiting", born |-> born, queued |-> clock + 1] \in SlotRow
      BY <1>0, <3>1 DEF SlotRow
    <3> QED BY <2>0, <3>2
  <2>2. row' \in [Slots -> SlotRow] /\ \A t \in Slots : row'[t] = IF t = s THEN r ELSE Cleaned[t]
    BY <2>1, CleaningSpares
  <2>3. AllActive(row') \subseteq AllActive(Cleaned)
    BY <2>1, <2>2 DEF AllActive
  <2>4. RowsWithin(row')
    BY <2>3, CleaningSpares, FewerRows DEF SlotsInv
  <2>5. OwnRowsStay'
    BY <1>0, <1>2, <2>1, <2>2, CleaningSpares DEF SlotsInv, OwnRowsStay
  <2>6. OwnersLive'
    BY <1>0, <1>2, <2>1, <2>2, CleaningSpares DEF SlotsInv, OwnersLive
  <2>7. SlotsTypeOK'
    BY <1>0, <1>2, <2>2 DEF SlotsInv, SlotsTypeOK, SlotRow
  <2> QED BY <2>4, <2>5, <2>6, <2>7 DEF SlotsInv
<1> QED BY <1>1, <1>2 DEF Enter

\* The transaction of the loop: the dead are cleaned, and there is room or none.
LEMMA PollInv == ASSUME SlotsInv, NEW s \in Slots, Poll(s) PROVE SlotsInv'
<1> USE MachineSlotsAssumption
<1> DEFINE may == HasRoomFor(Cleaned, DomainOf[s]) /\ IsNext(Cleaned, s)
<1>0. /\ at[s] = "poll" /\ PidOf[s] \in alive /\ alive' = alive /\ birth' = birth /\ deaths' = deaths
      /\ row \in [Slots -> SlotRow] /\ at \in [Slots -> {"idle", "poll", "stream", "done", "refused"}]
      /\ clock \in Nat /\ birth \in [Pids -> Nat] /\ alive \subseteq Pids
  BY DEF Poll, SlotsInv, SlotsTypeOK, SlotRow
<1>1. CASE ~may
  <2>0. row' = Cleaned /\ at' = at /\ granted' = granted /\ clock' = clock
    BY <1>1 DEF Poll
  <2>1. RowsWithin(row')
    BY <2>0, CleaningSpares, FewerRows DEF SlotsInv
  <2>2. OwnRowsStay' /\ OwnersLive'
    BY <1>0, <2>0, CleaningSpares DEF SlotsInv, OwnRowsStay, OwnersLive
  <2>3. SlotsTypeOK'
    BY <1>0, <2>0, CleaningSpares DEF SlotsInv, SlotsTypeOK, SlotRow
  <2> QED BY <2>1, <2>2, <2>3 DEF SlotsInv
<1>2. CASE may
  <2>0. /\ row' = [Cleaned EXCEPT ![s].state = "active"] /\ at' = [at EXCEPT ![s] = "stream"]
        /\ granted' = [granted EXCEPT ![GroupOf(s)] = clock + 1] /\ clock' = clock + 1
    BY <1>2 DEF Poll
  <2>1. row' \in [Slots -> SlotRow] /\ \A t \in Slots : row'[t].state = (IF t = s THEN "active" ELSE Cleaned[t].state)
                                                     /\ row'[t].born = Cleaned[t].born
    BY <2>0, CleaningSpares DEF SlotRow
  <2>2. AllActive(row') = AllActive(Cleaned) \cup {s}
    BY <2>1 DEF AllActive
  <2>3. RowsWithin(Cleaned)
    BY CleaningSpares, FewerRows DEF SlotsInv
  <2>4. RowsWithin(row')
    BY <1>2, <2>2, <2>3, OneMoreRow
  <2>5. OwnRowsStay'
    BY <1>0, <2>0, <2>1, CleaningSpares DEF SlotsInv, OwnRowsStay
  <2>6. OwnersLive'
    BY <1>0, <2>0, <2>1, CleaningSpares DEF SlotsInv, OwnersLive
  <2>7. granted' \in [Groups -> Nat] /\ clock' \in Nat
    <3>1. granted \in [Groups -> Nat] /\ clock + 1 \in Nat
      BY <1>0 DEF SlotsInv, SlotsTypeOK
    <3> HIDE DEF may
    <3> QED BY <2>0, <3>1
  <2>8. SlotsTypeOK'
    BY <1>0, <2>0, <2>1, <2>7 DEF SlotsInv, SlotsTypeOK, SlotRow
  <2> QED BY <2>4, <2>5, <2>6, <2>8 DEF SlotsInv
<1> QED BY <1>1, <1>2

LEMMA LeaveInv == ASSUME SlotsInv, NEW s \in Slots, Leave(s) PROVE SlotsInv'
<1> USE MachineSlotsAssumption
<1>0. /\ at' = [at EXCEPT ![s] = "done"] /\ row' = [row EXCEPT ![s] = Absent]
      /\ UNCHANGED <<alive, birth, granted, clock, deaths>>
      /\ row \in [Slots -> SlotRow] /\ at \in [Slots -> {"idle", "poll", "stream", "done", "refused"}]
  BY DEF Leave, SlotsInv, SlotsTypeOK, SlotRow
<1>1. Absent \in SlotRow /\ Absent.state = "none"
  BY DEF Absent, SlotRow
<1>2. row' \in [Slots -> SlotRow] /\ AllActive(row') \subseteq AllActive(row)
  BY <1>0, <1>1 DEF AllActive
<1>3. RowsWithin(row')
  BY <1>2, FewerRows DEF SlotsInv
<1>4. OwnRowsStay' /\ OwnersLive'
  BY <1>0 DEF SlotsInv, OwnRowsStay, OwnersLive
<1>5. SlotsTypeOK'
  BY <1>0, <1>2 DEF SlotsInv, SlotsTypeOK, SlotRow
<1> QED BY <1>3, <1>4, <1>5 DEF SlotsInv

\* A process that dies takes its requests with it and leaves their rows.
LEMMA DieInv == ASSUME SlotsInv, NEW p \in Pids, Die(p) PROVE SlotsInv'
<1> USE MachineSlotsAssumption
<1>0. /\ deaths' = deaths + 1 /\ alive' = alive \ {p} /\ UNCHANGED <<row, birth, granted, clock>>
      /\ at' = [s \in Slots |-> IF PidOf[s] = p /\ at[s] # "idle" THEN "done" ELSE at[s]]
      /\ at \in [Slots -> {"idle", "poll", "stream", "done", "refused"}] /\ deaths \in Nat
  BY DEF Die, SlotsInv, SlotsTypeOK
<1>1. OwnRowsStay' /\ OwnersLive'
  BY <1>0 DEF SlotsInv, OwnRowsStay, OwnersLive
<1>2. SlotsTypeOK'
  BY <1>0 DEF SlotsInv, SlotsTypeOK
<1>3. RowsWithin(row')
  BY <1>0 DEF SlotsInv
<1> QED BY <1>1, <1>2, <1>3 DEF SlotsInv

\* The new owner of a pid finds rows of the old one only, none at work.
LEMMA ReuseInv == ASSUME SlotsInv, NEW p \in Pids, Reuse(p) PROVE SlotsInv'
<1> USE MachineSlotsAssumption
<1>0. /\ p \notin alive /\ alive' = alive \cup {p} /\ birth' = [birth EXCEPT ![p] = @ + 1]
      /\ UNCHANGED <<row, at, granted, clock, deaths>> /\ birth \in [Pids -> Nat]
  BY DEF Reuse, SlotsInv, SlotsTypeOK
<1>1. OwnRowsStay'
  BY <1>0 DEF SlotsInv, OwnRowsStay
<1>2. OwnersLive'
  BY <1>0 DEF SlotsInv, OwnersLive
<1>3. SlotsTypeOK'
  BY <1>0 DEF SlotsInv, SlotsTypeOK
<1>4. RowsWithin(row')
  BY <1>0 DEF SlotsInv
<1> QED BY <1>1, <1>2, <1>3, <1>4 DEF SlotsInv

LEMMA SlotsNextInv == SlotsInv /\ [SlotsNext]_slotVars => SlotsInv'
<1> SUFFICES ASSUME SlotsInv, [SlotsNext]_slotVars PROVE SlotsInv'
  OBVIOUS
<1>1. CASE UNCHANGED slotVars
  BY <1>1 DEF slotVars, SlotsInv, SlotsTypeOK, OwnRowsStay, OwnersLive
<1> QED BY <1>1, EnterInv, PollInv, LeaveInv, DieInv, ReuseInv DEF SlotsNext

\* The invariant of the shared table, for every number of processes, requests,
\* domains and deaths.
THEOREM SlotsInvariant == SlotsSpec => []SlotsInv
<1> QED BY SlotsInitInv, SlotsNextInv, PTL DEF SlotsSpec

LEMMA InvSlotsSafe == SlotsInv => SlotsSafety
<1> SUFFICES ASSUME SlotsInv PROVE SlotsSafety
  OBVIOUS
<1> USE MachineSlotsAssumption
<1> DEFINE streams == {s \in Slots : at[s] = "stream"}
<1>1. streams \subseteq AllActive(row)
  BY DEF SlotsInv, OwnRowsStay, AllActive
<1>2. IsFiniteSet(AllActive(row)) /\ Cardinality(AllActive(row)) <= Total
  BY DEF SlotsInv, RowsWithin
<1>3. Cardinality(streams) <= Total
  <2>1. Cardinality(streams) <= Cardinality(AllActive(row)) /\ Cardinality(streams) \in Nat /\ Cardinality(AllActive(row)) \in Nat
    BY <1>1, <1>2, FS_Subset, FS_CardinalityType
  <2> QED BY <2>1, <1>2
<1>4. ASSUME NEW s \in streams PROVE Cardinality({t \in streams : DomainOf[t] = DomainOf[s]}) <= PerDomain
  <2> DEFINE mine == {t \in streams : DomainOf[t] = DomainOf[s]}
  <2>1. mine \subseteq Active(row, DomainOf[s]) /\ Active(row, DomainOf[s]) \subseteq AllActive(row)
    BY <1>1 DEF Active, AllActive
  <2>2. IsFiniteSet(Active(row, DomainOf[s]))
    BY <1>2, <2>1, FS_Subset
  <2>3. /\ Cardinality(mine) <= Cardinality(Active(row, DomainOf[s])) /\ Cardinality(mine) \in Nat
        /\ Cardinality(Active(row, DomainOf[s])) \in Nat
    BY <2>1, <2>2, FS_Subset, FS_CardinalityType
  <2>4. Cardinality(Active(row, DomainOf[s])) <= PerDomain
    BY DEF SlotsInv, RowsWithin
  <2> QED BY <2>3, <2>4
<1>5. StreamsWithinLimits
  BY <1>3, <1>4 DEF StreamsWithinLimits
<1> QED BY <1>5 DEF SlotsInv, SlotsSafety

\* The streams of all processes stay within the limits of the machine and of
\* each domain, whoever dies and whoever gets the pid.
THEOREM SlotsAreSafe == SlotsSpec => []SlotsSafety
<1> QED BY SlotsInvariant, InvSlotsSafe, PTL
=============================================================================
