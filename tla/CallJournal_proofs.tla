-------------------------- MODULE CallJournal_proofs --------------------------
(***************************************************************************)
(* Theorems about CallJournal for any number of calls, any choice of the    *)
(* replay-safe ones and any number of crashes and pauses.                    *)
(***************************************************************************)
EXTENDS CallJournal, TLAPS

\* Places of the worker that are inside one call.
Inside == {"intendFile", "dispatch", "dispatchFile", "dispatchDb", "execute",
           "executing", "applied", "settle", "settleDb"}

\* Between the dispatch line and the effect.
Armed == {"dispatchDb", "execute", "executing"}

AtACall == (pc \in Inside => call \in Calls) /\ (reconStep # "none" => recon \in Calls)

\* A call that may not be replayed has no line beyond "intended" when its
\* dispatch line is about to be written, and no effect while it is armed.
FirstDispatch == pc = "dispatchFile" /\ call \notin Safe => Rank(file[call]) <= 1

ArmedOnce ==
  pc \in Armed => Rank(file[call]) >= 2 /\ (call \notin Safe => applied[call] = 0)

\* The operator only ever settles a call that was dispatched.
ReconDispatched == reconStep = "append" => Rank(file[recon]) >= 2

IInv ==
  /\ TypeOK /\ AtMostOnce /\ EvidenceFirst
  /\ AtACall /\ FirstDispatch /\ ArmedOnce /\ ReconDispatched

-----------------------------------------------------------------------------
\* Ranks of the states.
LEMMA Ranks ==
  /\ Rank("none") = 0 /\ Rank("intended") = 1 /\ Rank("dispatched") = 2
  /\ \A s \in Settled : Rank(s) = 3
  /\ \A s \in States : Rank(s) \in 0 .. 3
BY DEF Rank, Settled, States

\* What a lookup that succeeds says about the file.
LEMMA Lookup ==
  ASSUME TypeOK, NEW c \in Calls, ~LookupFails(c)
  PROVE  /\ View(c) \in States
         /\ View(c) \in {"dispatched"} \cup Settled => file[c] = View(c)
<1>1. db[c] \in States /\ file[c] \in States
  BY DEF TypeOK
<1>2. CASE file[c] # "none"
  BY <1>1, <1>2 DEF View
<1>3. CASE file[c] = "none"
  <2>1. db[c] = "intended" \/ Rank(db[c]) <= 0
    BY <1>1, <1>3, Ranks DEF LookupFails
  <2>2. db[c] \in {"intended", "none"}
    BY <2>1, <1>1, Ranks DEF States, Settled
  <2> QED
    BY <2>2, <1>3 DEF View, States, Settled
<1> QED
  BY <1>2, <1>3

\* A dispatch that goes on finds the unsafe call not dispatched before.
LEMMA DispatchChecks ==
  ASSUME TypeOK, call \in Calls \ Safe, View(call) \notin Settled, ~Uncertain(call)
  PROVE  Rank(file[call]) <= 1
<1>1. file[call] \in States
  BY DEF TypeOK
<1>2. file[call] \in {"none", "intended"}
  BY <1>1 DEF View, Uncertain, States
<1> QED
  BY <1>2, Ranks

LEMMA OutcomeType == \A c \in Calls : Outcome(c) \in Settled
BY DEF Outcome, Settled

-----------------------------------------------------------------------------
LEMMA TypeInit == Init => TypeOK
<1> SUFFICES ASSUME Init PROVE TypeOK
  OBVIOUS
<1>1. "none" \in States /\ 0 \in 0 .. N /\ 1 \in 1 .. N + 1
  BY JournalAssumption DEF States
<1>2. db \in [Calls -> States] /\ file \in [Calls -> States] /\ applied \in [Calls -> Nat]
  BY <1>1 DEF Init
<1>3. result \in [Calls -> {"none", "ok", "error"}]
  BY DEF Init
<1>4. corrupt \subseteq Calls /\ vouched \subseteq Calls /\ crashes \in Nat /\ pauses \in Nat
  BY DEF Init
<1> QED
  BY <1>1, <1>2, <1>3, <1>4 DEF Init, TypeOK

LEMMA TypeNext == TypeOK /\ AtACall /\ [Next]_vars => TypeOK'
<1> SUFFICES ASSUME TypeOK, AtACall, [Next]_vars PROVE TypeOK'
  OBVIOUS
<1> USE JournalAssumption DEF TypeOK
<1>1. \A c \in Calls : View(c) \in States
  BY DEF View
<1>2. \A c \in Calls : Outcome(c) \in States
  BY OutcomeType DEF States
<1>3. {"none", "intended", "dispatched", "confirmed"} \subseteq States
  BY DEF States, Settled
<1>4. Mirrored \in [Calls -> States]
  BY <1>1 DEF Mirrored
<1>5. call \in Calls => call + 1 \in 1 .. N + 1
  BY DEF Calls
<1>6. 1 \in 1 .. N + 1 /\ 0 \in 0 .. N /\ Calls \subseteq 0 .. N
  BY DEF Calls
<1> USE DEF store, operator, bounds, Go, NextCall
<1>7. CASE Launch
  BY <1>7, <1>6 DEF Launch
<1>8. CASE Check
  <2>1. db' \in [Calls -> States]
    BY <1>8, <1>1 DEF Check
  <2>2. pc' \in {"check", "blocked"} /\ call' \in 1 .. N + 1
    BY <1>8, <1>5 DEF Check
  <2> QED
    BY <1>8, <2>1, <2>2 DEF Check
<1>9. CASE Checked
  BY <1>9, <1>6 DEF Checked
<1>10. CASE Reuse
  BY <1>10, <1>1, <1>5 DEF Reuse
<1>11. CASE Refuse
  BY <1>11, <1>5 DEF Refuse, Pending
<1>12. CASE Intend
  <2>1. db' \in [Calls -> States]
    BY <1>12, <1>1, <1>3 DEF Intend, Pending
  <2> QED
    BY <1>12, <2>1 DEF Intend
<1>13. CASE IntendFile
  BY <1>13, <1>3 DEF IntendFile
<1>14. CASE Revoked
  BY <1>14 DEF Revoked
<1>15. CASE Dispatch
  BY <1>15 DEF Dispatch
<1>16. CASE DispatchFile
  <2>1. call \in Calls
    BY <1>16 DEF DispatchFile, AtACall, Inside
  <2> QED
    BY <1>16, <2>1, <1>3 DEF DispatchFile
<1>17. CASE DispatchDb
  BY <1>17, <1>3 DEF DispatchDb
<1>18. CASE Execute
  BY <1>18 DEF Execute
<1>19. CASE Apply
  <2>1. call \in Calls
    BY <1>19 DEF Apply, AtACall, Inside
  <2>2. applied' \in [Calls -> Nat]
    BY <1>19, <2>1 DEF Apply
  <2> QED
    BY <1>19, <2>2 DEF Apply
<1>20. CASE Return
  BY <1>20 DEF Return
<1>21. CASE SettleFile
  <2>1. call \in Calls
    BY <1>21 DEF SettleFile, AtACall, Inside
  <2>2. db' \in [Calls -> States] /\ file' \in [Calls -> States]
    BY <1>21, <2>1, <1>1, <1>2 DEF SettleFile
  <2> QED
    BY <1>21, <2>2 DEF SettleFile
<1>22. CASE SettleDb
  <2>1. call \in Calls
    BY <1>22 DEF SettleDb, AtACall, Inside
  <2>2. db' \in [Calls -> States]
    BY <1>22, <2>1, <1>2 DEF SettleDb
  <2> QED
    BY <1>22, <2>1, <2>2, <1>5 DEF SettleDb
<1>23. CASE Deliver
  BY <1>23 DEF Deliver
<1>24. CASE Block
  BY <1>24, <1>4 DEF Block
<1>25. CASE Restart
  BY <1>25, <1>4 DEF Restart
<1>26. CASE Resume
  BY <1>26, <1>4 DEF Resume
<1>27. CASE Pause
  <2>1. pauses' \in Nat
    <3>1. pauses' = pauses + 1
      BY <1>27 DEF Pause
    <3> QED
      BY <3>1
  <2>3. live' \in BOOLEAN
    <3>1. live' = FALSE
      BY <1>27 DEF Pause
    <3> QED
      BY <3>1, Zenon
  <2>2. UNCHANGED <<db, file, corrupt, applied, pc, call, result, delivered, recon, reconStep, vouched, crashes>>
    BY <1>27 DEF Pause
  <2> QED
    BY <2>1, <2>2, <2>3
<1>28. CASE Crash
  BY <1>28, <1>6 DEF Crash
<1>29. ASSUME NEW c \in Calls, Reconcile(c) PROVE TypeOK'
  <2>1. c \in 0 .. N
    BY <1>6
  <2> QED
    BY <1>29, <2>1, <1>1 DEF Reconcile
<1>30. CASE ReconcileFile
  <2>1. vouched' \subseteq Calls
    BY <1>30 DEF ReconcileFile, AtACall
  <2> QED
    BY <1>30, <2>1, <1>3 DEF ReconcileFile
<1>31. CASE ReconcileDb
  BY <1>31, <1>3, <1>6 DEF ReconcileDb
<1>32. CASE UNCHANGED vars
  BY <1>32 DEF vars
<1> QED
  BY <1>7, <1>8, <1>9, <1>10, <1>11, <1>12, <1>13, <1>14, <1>15, <1>16, <1>17, <1>18, <1>19, <1>20, <1>21,
     <1>22, <1>23, <1>24, <1>25, <1>26, <1>27, <1>28, <1>29, <1>30, <1>31, <1>32
  DEF Next, Worker, Operator

LEMMA PlaceNext == TypeOK /\ AtACall /\ [Next]_vars => AtACall'
<1> SUFFICES ASSUME TypeOK, AtACall, [Next]_vars PROVE AtACall'
  OBVIOUS
<1> USE DEF AtACall, Inside, store, operator, bounds, Go, NextCall
<1>1. CASE Worker
  BY <1>1 DEF Worker, Launch, Check, Checked, Reuse, Refuse, Intend, IntendFile, Revoked, Dispatch,
     DispatchFile, DispatchDb, Execute, Apply, Return, SettleFile, SettleDb, Deliver, Block, Pending
<1>2. CASE Operator
  BY <1>2 DEF Operator, Resume, Reconcile, ReconcileFile, ReconcileDb
<1>3. CASE Restart \/ Pause \/ Crash \/ UNCHANGED vars
  BY <1>3 DEF Restart, Pause, Crash, vars
<1> QED
  BY <1>1, <1>2, <1>3 DEF Next

\* Every reachable state of the two stores, the worker and the operator is
\* well typed.
THEOREM TypeCorrect == Spec => []TypeOK
<1>1. Init => AtACall
  BY DEF Init, AtACall, Inside
<1> QED
  BY <1>1, TypeInit, TypeNext, PlaceNext, PTL DEF Spec

-----------------------------------------------------------------------------
LEMMA OnceInit == Init => IInv
<1> SUFFICES ASSUME Init PROVE IInv
  OBVIOUS
<1>1. TypeOK
  BY TypeInit
<1> QED
  BY <1>1 DEF Init, IInv, AtMostOnce, EvidenceFirst, AtACall, Inside, FirstDispatch, ArmedOnce, Armed, ReconDispatched

\* A step that writes no line and applies nothing only has to respect where it
\* leaves the worker and the operator.
LEMMA OnceQuiet ==
  ASSUME IInv, TypeOK', AtACall', file' = file, applied' = applied,
         pc' = "dispatchFile" => FirstDispatch',
         pc' \in Armed => pc \in Armed /\ call' = call,
         reconStep' = "append" => Rank(file[recon']) >= 2
  PROVE  IInv'
BY DEF IInv, AtMostOnce, EvidenceFirst, FirstDispatch, ArmedOnce, ReconDispatched

LEMMA OnceNext == IInv /\ [Next]_vars => IInv'
<1> SUFFICES ASSUME IInv, [Next]_vars PROVE IInv'
  OBVIOUS
<1>1. TypeOK' /\ AtACall'
  BY TypeNext, PlaceNext DEF IInv
<1> USE DEF IInv, Armed, store, operator, bounds, Go, NextCall
<1>2. CASE Launch \/ Check \/ Checked \/ Reuse \/ Refuse \/ Intend \/ Revoked \/ Execute
  <2>1. pc' # "dispatchFile" /\ file' = file /\ applied' = applied /\ reconStep' = reconStep /\ recon' = recon
    BY <1>2 DEF Launch, Check, Checked, Reuse, Refuse, Intend, Revoked, Execute, Pending
  <2>2. pc' \in Armed => pc \in Armed /\ call' = call
    BY <1>2 DEF Launch, Check, Checked, Reuse, Refuse, Intend, Revoked, Execute, Pending
  <2> QED
    BY <1>1, <2>1, <2>2, OnceQuiet DEF ReconDispatched
<1>3. CASE Return \/ SettleDb \/ Deliver \/ Block \/ Restart \/ Resume \/ Pause \/ Crash \/ ReconcileDb \/ UNCHANGED vars
  <2>1. /\ file' = file /\ applied' = applied
        /\ reconStep' = "append" => reconStep = "append" /\ recon' = recon
    BY <1>3 DEF Return, SettleDb, Deliver, Block, Restart, Resume, Pause, Crash, ReconcileDb, vars
  <2>2. pc' \in Armed \cup {"dispatchFile"} => pc' = pc /\ call' = call
    BY <1>3 DEF Return, SettleDb, Deliver, Block, Restart, Resume, Pause, Crash, ReconcileDb, vars
  <2> QED
    BY <1>1, <2>1, <2>2, OnceQuiet DEF ReconDispatched, FirstDispatch
<1>4. CASE Dispatch
  <2>1. file' = file /\ applied' = applied /\ reconStep' = reconStep /\ recon' = recon /\ call' = call
    BY <1>4 DEF Dispatch
  <2>2. pc' \in {"dispatchFile", "blocked"} /\ call \in Calls
    BY <1>4 DEF Dispatch, AtACall, Inside
  <2>3. pc' = "dispatchFile" => FirstDispatch'
    BY <1>4, <2>1, <2>2, DispatchChecks DEF Dispatch, FirstDispatch
  <2> QED
    BY <1>1, <2>1, <2>2, <2>3, OnceQuiet DEF ReconDispatched
<1>5. ASSUME NEW c \in Calls, Reconcile(c) PROVE IInv'
  <2>1. file' = file /\ applied' = applied /\ pc' = "idle" /\ recon' = c
    BY <1>5 DEF Reconcile
  <2>2. Rank(file[c]) >= 2
    BY <1>5, Lookup, Ranks DEF Reconcile, Settled
  <2> QED
    BY <1>1, <2>1, <2>2, OnceQuiet
<1>6. CASE IntendFile
  <2>1. call \in Calls /\ pc' = "dispatch" /\ reconStep' = reconStep /\ recon' = recon /\ applied' = applied
    BY <1>6 DEF IntendFile, AtACall, Inside
  <2>2. \A c \in Calls : file'[c] = IF c = call /\ file[c] = "none" THEN "intended" ELSE file[c]
    BY <1>6, <2>1 DEF IntendFile, TypeOK
  <2>3. \A c \in Calls : Rank(file[c]) >= 2 => Rank(file'[c]) >= 2
    BY <2>2, Ranks
  <2> QED
    BY <1>1, <2>1, <2>3 DEF AtMostOnce, EvidenceFirst, FirstDispatch, ArmedOnce, ReconDispatched, AtACall
<1>7. CASE DispatchFile
  <2>1. call \in Calls /\ pc' = "dispatchDb" /\ call' = call /\ reconStep' = reconStep /\ recon' = recon /\ applied' = applied
    BY <1>7 DEF DispatchFile, AtACall, Inside
  <2>2. \A c \in Calls : file'[c] = IF c = call THEN "dispatched" ELSE file[c]
    BY <1>7, <2>1 DEF DispatchFile, TypeOK
  <2>3. call \notin Safe => applied[call] = 0
    <3>1. call \notin Safe => Rank(file[call]) <= 1
      BY <1>7 DEF DispatchFile, FirstDispatch
    <3>2. file[call] \in States /\ applied[call] \in Nat
      BY <2>1 DEF TypeOK
    <3> QED
      BY <2>1, <3>1, <3>2, Ranks DEF EvidenceFirst
  <2>4. \A c \in Calls : Rank(file[c]) >= 2 => Rank(file'[c]) >= 2
    BY <2>2, Ranks
  <2>5. Rank(file'[call]) >= 2
    BY <2>1, <2>2, Ranks
  <2> QED
    BY <1>1, <2>1, <2>3, <2>4, <2>5 DEF AtMostOnce, EvidenceFirst, FirstDispatch, ArmedOnce, ReconDispatched, AtACall
<1>8. CASE DispatchDb
  <2>1. /\ file' = file /\ applied' = applied /\ pc' # "dispatchFile"
        /\ pc \in Armed /\ call' = call /\ reconStep' = reconStep /\ recon' = recon
    BY <1>8 DEF DispatchDb
  <2> QED
    BY <1>1, <2>1, OnceQuiet DEF ReconDispatched
<1>9. CASE Apply
  <2>1. call \in Calls /\ pc' = "applied" /\ file' = file /\ reconStep' = reconStep /\ recon' = recon
    BY <1>9 DEF Apply, AtACall, Inside
  <2>2. \A c \in Calls : applied'[c] = IF c = call THEN applied[c] + 1 ELSE applied[c]
    BY <1>9, <2>1 DEF Apply, TypeOK
  <2>3. Rank(file[call]) >= 2 /\ (call \notin Safe => applied[call] = 0)
    BY <1>9 DEF Apply, ArmedOnce
  <2> QED
    BY <1>1, <2>1, <2>2, <2>3 DEF AtMostOnce, EvidenceFirst, FirstDispatch, ArmedOnce, ReconDispatched
<1>10. CASE SettleFile
  <2>1. call \in Calls /\ pc' \in {"blocked", "settleDb"} /\ reconStep' = reconStep /\ recon' = recon /\ applied' = applied
    BY <1>10 DEF SettleFile, AtACall, Inside
  <2>2. \A c \in Calls : file'[c] = file[c] \/ file'[c] \in Settled
    BY <1>10, <2>1, OutcomeType DEF SettleFile, TypeOK
  <2>3. \A c \in Calls : Rank(file[c]) >= 2 => Rank(file'[c]) >= 2
    BY <2>2, Ranks
  <2> QED
    BY <1>1, <2>1, <2>3 DEF AtMostOnce, EvidenceFirst, FirstDispatch, ArmedOnce, ReconDispatched, AtACall
<1>11. CASE ReconcileFile
  <2>1. recon \in Calls /\ Rank(file[recon]) >= 2 /\ pc' = pc /\ call' = call /\ reconStep' = "mirror" /\ applied' = applied
    BY <1>11 DEF ReconcileFile, AtACall, ReconDispatched
  <2>2. \A c \in Calls : file'[c] = IF c = recon THEN "confirmed" ELSE file[c]
    BY <1>11, <2>1 DEF ReconcileFile, TypeOK
  <2>3. \A c \in Calls : Rank(file[c]) >= 2 => Rank(file'[c]) >= 2
    BY <2>2, Ranks DEF Settled
  <2>4. FirstDispatch'
    <3>1. CASE pc = "dispatchFile" /\ call \notin Safe
      <4>1. call \in Calls /\ Rank(file[call]) <= 1 /\ file[call] \in States
        BY <3>1 DEF AtACall, Inside, FirstDispatch, TypeOK
      <4>2. call # recon
        BY <4>1, <2>1, Ranks
      <4> QED
        BY <4>1, <4>2, <2>1, <2>2 DEF FirstDispatch
    <3> QED
      BY <3>1, <2>1 DEF FirstDispatch
  <2>5. ArmedOnce'
    BY <2>1, <2>3 DEF ArmedOnce, AtACall, Inside
  <2> QED
    BY <1>1, <2>1, <2>3, <2>4, <2>5 DEF AtMostOnce, EvidenceFirst, ReconDispatched
<1> QED
  BY <1>2, <1>3, <1>4, <1>5, <1>6, <1>7, <1>8, <1>9, <1>10, <1>11 DEF Next, Worker, Operator

\* A call that may not be replayed takes effect at most once, wherever crashes,
\* pauses and the operator fall.
THEOREM EffectsAtMostOnce == Spec => []AtMostOnce
<1>1. IInv => AtMostOnce
  BY DEF IInv
<1> QED
  BY <1>1, OnceInit, OnceNext, PTL DEF Spec

\* Every effect has its dispatch line on disk before it happens.
THEOREM EffectsHaveEvidence == Spec => []EvidenceFirst
<1>1. IInv => EvidenceFirst
  BY DEF IInv
<1> QED
  BY <1>1, OnceInit, OnceNext, PTL DEF Spec

\* Both together: what the journal is there for.
THEOREM JournalIsSafe == Spec => []JournalSafety
<1>1. IInv => JournalSafety
  BY DEF IInv, JournalSafety
<1> QED
  BY <1>1, OnceInit, OnceNext, PTL DEF Spec

-----------------------------------------------------------------------------
(* The two accounts of a call, what it did, and what the model was told.     *)

\* A call has a record before it has a line.
RecordFirst ==
  /\ \A c \in Calls : file[c] # "none" => db[c] # "none"
  /\ pc \in Inside => db[call] # "none"

\* recover and dispatch let the worker go on only past calls that are known, so
\* while it is inside one call the outcomes of the others are.
CheckedKnown ==
  /\ pc = "check" => \A c \in Calls : c < call => ~Uncertain(c)
  /\ pc = "run" \/ delivered => \A c \in Calls : ~Uncertain(c)
  /\ pc \in Inside => \A c \in Calls \ {call} : ~Uncertain(c)

\* The worker has nothing to do for a message that is answered.
DeliveredRests == delivered => pc \in {"idle", "down"}

\* A result "ok" that is about to be settled comes from the tool.
ResultTrue ==
  /\ pc = "applied" => applied[call] > 0
  /\ pc \in {"settle", "settleDb"} /\ result[call] = "ok" => applied[call] > 0

\* The line is written before the record is settled; a line that the worker put
\* after the one of the operator makes the file illegal.
SettledLine ==
  /\ pc = "settleDb" => file[call] \in Settled /\ (file[call] = "unknown" => Outcome(call) = "unknown")
  /\ reconStep = "mirror" => file[recon] \in Settled \/ (recon \in corrupt /\ file[recon] # "none")

KInv ==
  /\ IInv /\ RecordFirst /\ CheckedKnown /\ DeliveredRests /\ ResultTrue /\ SettledLine
  /\ RecordNotAhead /\ EvidenceTruthful

\* Every step changes what lookup answers for one call at most: the one the
\* worker is at, or the one the operator vouches for.
LEMMA ViewNext ==
  ASSUME KInv, [Next]_vars, NEW c \in Calls
  PROVE  \/ View(c)' = View(c)
         \/ Intend /\ c = call /\ View(c)' = "intended"
         \/ IntendFile /\ c = call /\ View(c)' = "intended"
         \/ DispatchFile /\ c = call /\ View(c)' = "dispatched"
         \/ SettleFile /\ c = call /\ View(c)' = Outcome(c)
         \/ ReconcileFile /\ c = recon /\ View(c)' = "confirmed"
<1> USE DEF View, KInv, IInv, TypeOK, AtACall, Inside, Armed, store, operator, bounds, Go, NextCall, Calls
<1>1. CASE Launch \/ Checked \/ Refuse \/ Revoked \/ Dispatch \/ Execute \/ Apply \/ Return \/ Deliver \/ Pause \/ Crash \/ UNCHANGED vars
  BY <1>1 DEF Launch, Checked, Refuse, Revoked, Dispatch, Execute, Apply, Return, Deliver, Pause, Crash, vars
<1>2. CASE Check \/ Reuse
  BY <1>2 DEF Check, Reuse
<1>3. CASE Block \/ Restart \/ Resume
  BY <1>3 DEF Block, Restart, Resume, Mirrored
<1>4. ASSUME NEW d \in Calls, Reconcile(d) PROVE View(c)' = View(c)
  BY <1>4 DEF Reconcile
<1>5. CASE Intend
  BY <1>5 DEF Intend, Pending
<1>6. CASE IntendFile
  BY <1>6 DEF IntendFile
<1>7. CASE DispatchFile
  BY <1>7 DEF DispatchFile
<1>8. CASE DispatchDb
  <2>1. file[call] # "none"
    BY <1>8, Ranks DEF DispatchDb, ArmedOnce
  <2> QED
    BY <1>8, <2>1 DEF DispatchDb
<1>9. CASE SettleFile
  <2>1. Outcome(call) # "none" /\ call \in Calls
    BY <1>9, OutcomeType DEF Settled, SettleFile
  <2> QED
    BY <1>9, <2>1 DEF SettleFile
<1>10. CASE SettleDb
  <2>1. file[call] # "none"
    BY <1>10 DEF SettleDb, SettledLine, Settled
  <2> QED
    BY <1>10, <2>1 DEF SettleDb
<1>11. CASE ReconcileFile
  BY <1>11 DEF ReconcileFile
<1>12. CASE ReconcileDb
  <2>1. file[recon] # "none"
    BY <1>12 DEF ReconcileDb, SettledLine, Settled
  <2> QED
    BY <1>12, <2>1 DEF ReconcileDb
<1> QED
  BY <1>1, <1>2, <1>3, <1>4, <1>5, <1>6, <1>7, <1>8, <1>9, <1>10, <1>11, <1>12 DEF Next, Worker, Operator

-----------------------------------------------------------------------------
LEMMA KnownInit == Init => KInv
<1> SUFFICES ASSUME Init PROVE KInv
  OBVIOUS
<1>1. IInv
  BY OnceInit
<1>2. \A c \in Calls : Rank(db[c]) <= Rank(file[c])
  BY Ranks DEF Init
<1>3. \A c \in Calls : ~Uncertain(c)
  BY DEF Init, Uncertain, View
<1> QED
  BY <1>1, <1>2, <1>3 DEF Init, KInv, RecordFirst, CheckedKnown, DeliveredRests, ResultTrue, SettledLine,
     RecordNotAhead, EvidenceTruthful, Inside

LEMMA RecordFirstNext == KInv /\ [Next]_vars => RecordFirst'
<1> SUFFICES ASSUME KInv, [Next]_vars PROVE RecordFirst'
  OBVIOUS
<1> USE DEF KInv, IInv, TypeOK, RecordFirst, View, AtACall, Inside, store, operator, bounds, Go, NextCall
<1>1. CASE Launch \/ Check \/ Checked \/ Reuse \/ Refuse
  BY <1>1 DEF Launch, Check, Checked, Reuse, Refuse, Pending
<1>2. CASE Intend
  BY <1>2 DEF Intend, Pending
<1>3. CASE Dispatch \/ DispatchDb \/ Execute \/ Apply \/ Return \/ Deliver \/ Revoked
  BY <1>3 DEF Dispatch, DispatchDb, Execute, Apply, Return, Deliver, Revoked
<1>4. CASE Block \/ Restart \/ Resume
  BY <1>4 DEF Block, Restart, Resume, Mirrored, Consulted
<1>5. CASE IntendFile \/ DispatchFile
  BY <1>5 DEF IntendFile, DispatchFile
<1>6. CASE SettleFile
  BY <1>6 DEF SettleFile
<1>7. CASE SettleDb
  BY <1>7, OutcomeType DEF SettleDb, Settled
<1>8. CASE ReconcileFile
  <2>1. recon \in Calls /\ file[recon] # "none"
    BY <1>8, Ranks DEF ReconcileFile, ReconDispatched
  <2> QED
    BY <1>8, <2>1 DEF ReconcileFile
<1>9. CASE ReconcileDb
  BY <1>9 DEF ReconcileDb
<1>10. ASSUME NEW c \in Calls, Reconcile(c) PROVE RecordFirst'
  BY <1>10 DEF Reconcile
<1>11. CASE Pause \/ Crash \/ UNCHANGED vars
  BY <1>11 DEF Pause, Crash, vars
<1> QED
  BY <1>1, <1>2, <1>3, <1>4, <1>5, <1>6, <1>7, <1>8, <1>9, <1>10, <1>11 DEF Next, Worker, Operator

LEMMA RestsNext == KInv /\ [Next]_vars => DeliveredRests'
<1> SUFFICES ASSUME KInv, [Next]_vars PROVE DeliveredRests'
  OBVIOUS
<1> USE DEF KInv, DeliveredRests, store, operator, bounds, Go, NextCall
<1>1. CASE Worker
  BY <1>1 DEF Worker, Launch, Check, Checked, Reuse, Refuse, Intend, IntendFile, Revoked, Dispatch,
     DispatchFile, DispatchDb, Execute, Apply, Return, SettleFile, SettleDb, Deliver, Block, Pending
<1>2. CASE Operator
  BY <1>2 DEF Operator, Resume, Reconcile, ReconcileFile, ReconcileDb
<1>3. CASE Restart \/ Pause \/ Crash \/ UNCHANGED vars
  BY <1>3 DEF Restart, Pause, Crash, vars
<1> QED
  BY <1>1, <1>2, <1>3 DEF Next

LEMMA ResultNext == KInv /\ [Next]_vars => ResultTrue'
<1> SUFFICES ASSUME KInv, [Next]_vars PROVE ResultTrue'
  OBVIOUS
<1> USE DEF KInv, IInv, TypeOK, AtACall, Inside, ResultTrue, store, operator, bounds, Go, NextCall
<1>1. CASE Launch \/ Check \/ Checked \/ Reuse \/ Refuse \/ Intend \/ IntendFile \/ Dispatch \/ DispatchFile \/ DispatchDb \/ Execute \/ SettleDb \/ Deliver \/ Block
  BY <1>1 DEF Launch, Check, Checked, Reuse, Refuse, Intend, IntendFile, Dispatch,
     DispatchFile, DispatchDb, Execute, SettleDb, Deliver, Block, Pending
<1>2. CASE Revoked \/ Return
  BY <1>2 DEF Revoked, Return
<1>3. CASE Apply
  BY <1>3 DEF Apply
<1>4. CASE SettleFile
  BY <1>4 DEF SettleFile
<1>5. CASE Operator
  BY <1>5 DEF Operator, Resume, Reconcile, ReconcileFile, ReconcileDb
<1>6. CASE Restart \/ Pause \/ Crash \/ UNCHANGED vars
  BY <1>6 DEF Restart, Pause, Crash, vars
<1> QED
  BY <1>1, <1>2, <1>3, <1>4, <1>5, <1>6 DEF Next, Worker

LEMMA SettledLineNext == KInv /\ [Next]_vars => SettledLine'
<1> SUFFICES ASSUME KInv, [Next]_vars PROVE SettledLine'
  OBVIOUS
<1> USE DEF KInv, IInv, TypeOK, AtACall, Inside, SettledLine, store, operator, bounds, Go, NextCall
<1>1. CASE Launch \/ Check \/ Checked \/ Reuse \/ Refuse \/ Intend \/ Dispatch \/ DispatchDb \/ Execute \/ SettleDb \/ Deliver \/ Block
  BY <1>1 DEF Launch, Check, Checked, Reuse, Refuse, Intend, Dispatch,
     DispatchDb, Execute, SettleDb, Deliver, Block, Pending
<1>2. CASE Revoked \/ Return \/ Apply
  BY <1>2 DEF Revoked, Return, Apply
<1>3. CASE IntendFile
  BY <1>3 DEF IntendFile, Settled
<1>4. CASE DispatchFile
  BY <1>4 DEF DispatchFile
<1>5. CASE SettleFile
  <2>1. Outcome(call) \in Settled /\ Outcome(call)' = Outcome(call)
    BY <1>5, OutcomeType DEF SettleFile, Outcome
  <2>2. \A c \in Calls : file'[c] = file[c] \/ file'[c] \in Settled
    BY <1>5, <2>1 DEF SettleFile
  <2> QED
    BY <1>5, <2>1, <2>2 DEF SettleFile
<1>6. CASE ReconcileFile
  <2>1. recon \in Calls /\ reconStep' = "mirror" /\ recon' = recon /\ pc' = pc /\ call' = call /\ "confirmed" \in Settled
    BY <1>6 DEF ReconcileFile, Settled
  <2>2. \A c \in Calls : file'[c] = IF c = recon THEN "confirmed" ELSE file[c]
    BY <1>6, <2>1 DEF ReconcileFile
  <2>3. Outcome(call)' = Outcome(call)
    BY <1>6 DEF ReconcileFile, Outcome
  <2> QED
    BY <2>1, <2>2, <2>3
<1>7. CASE Resume \/ ReconcileDb
  BY <1>7 DEF Resume, ReconcileDb, Outcome
<1>10. ASSUME NEW c \in Calls, Reconcile(c) PROVE SettledLine'
  BY <1>10 DEF Reconcile
<1>8. CASE Restart \/ Crash
  BY <1>8 DEF Restart, Crash
<1>9. CASE Pause \/ UNCHANGED vars
  BY <1>9 DEF Pause, vars, Outcome
<1> QED
  BY <1>1, <1>2, <1>3, <1>4, <1>5, <1>6, <1>7, <1>8, <1>9, <1>10 DEF Next, Worker, Operator

\* A worker that is past its checks goes past no call whose outcome is unknown.
LEMMA CheckedNext == KInv /\ [Next]_vars => CheckedKnown'
<1> SUFFICES ASSUME KInv, [Next]_vars PROVE CheckedKnown'
  OBVIOUS
<1> USE DEF KInv, IInv, AtACall, Inside, CheckedKnown, store, operator, bounds, Go, NextCall
<1>1. \A c \in Calls : View(c)' = View(c) => (Uncertain(c)' <=> Uncertain(c))
  BY DEF Uncertain
<1>2. CASE \A c \in Calls : View(c)' = View(c)
  <2>1. \A c \in Calls : Uncertain(c)' <=> Uncertain(c)
    BY <1>1, <1>2
  <2>2. CASE Revoked \/ Dispatch \/ DispatchDb \/ Execute \/ Apply \/ Return
    BY <2>1, <2>2 DEF Revoked, Dispatch, DispatchDb, Execute, Apply, Return
  <2>12. CASE Refuse
    BY <2>1, <2>12 DEF Refuse, Pending
  <2>13. CASE Launch
    <3>1. \A c \in Calls : ~(c < 1)
      BY DEF Calls
    <3> QED
      BY <2>1, <2>13, <3>1 DEF Launch
  <2>3. CASE Checked
    <3>1. \A c \in Calls : c < call
      BY <2>3, JournalAssumption DEF Checked, Calls
    <3>2. \A c \in Calls : ~Uncertain(c)
      BY <2>3, <3>1 DEF Checked
    <3> QED
      BY <2>1, <2>3, <3>2 DEF Checked
  <2>4. CASE Deliver
    BY <2>1, <2>4 DEF Deliver
  <2>11. CASE Pause \/ Crash \/ Restart \/ Resume \/ Block \/ UNCHANGED vars
    <3>1. delivered' = delivered /\ (pc' \in {"idle", "down"} \/ (pc' = pc /\ call' = call))
      BY <2>11 DEF Pause, Crash, Restart, Resume, Block, vars
    <3> QED
      BY <2>1, <3>1
  <2>5. CASE ReconcileDb \/ ReconcileFile \/ \E c \in Calls : Reconcile(c)
    BY <2>1, <2>5 DEF ReconcileDb, ReconcileFile, Reconcile
  <2>6. CASE Check
    <3>1. pc' = "check" => ~Uncertain(call)
      BY <2>6 DEF Check, Uncertain, View, RecordFirst
    <3>2. pc' \in {"check", "blocked"} /\ (pc' = "check" => call' = call + 1) /\ call \in Nat /\ delivered' = delivered
      BY <2>6 DEF Check, Calls
    <3>3. \A c \in Calls : c < call + 1 => c < call \/ c = call
      BY <3>2 DEF Calls
    <3> QED
      BY <2>1, <2>6, <3>1, <3>2, <3>3 DEF Check
  <2>7. CASE Reuse
    BY <2>1, <2>7 DEF Reuse
  <2>8. CASE Intend
    BY <2>1, <2>8 DEF Intend, Pending
  <2>9. CASE IntendFile \/ DispatchFile \/ SettleFile
    BY <2>1, <2>9 DEF IntendFile, DispatchFile, SettleFile
  <2>10. CASE SettleDb
    BY <2>1, <2>10 DEF SettleDb, SettledLine, Uncertain, View, Settled
  <2> QED
    BY <2>2, <2>3, <2>4, <2>5, <2>6, <2>7, <2>8, <2>9, <2>10, <2>11, <2>12, <2>13 DEF Next, Worker, Operator
<1>3. ASSUME NEW d \in Calls, d = call, View(d)' # View(d), Intend \/ IntendFile \/ DispatchFile \/ SettleFile
      PROVE  CheckedKnown'
  <2>1. \A c \in Calls \ {d} : View(c)' = View(c)
    BY <1>3, ViewNext DEF Intend, IntendFile, DispatchFile, SettleFile, ReconcileFile, Pending
  <2>2. \A c \in Calls \ {d} : Uncertain(c)' <=> Uncertain(c)
    BY <1>1, <2>1
  <2>3. call' = call /\ pc' \in Inside \cup {"blocked"} /\ ~delivered' /\ pc \in Inside \cup {"run"}
    BY <1>3 DEF Intend, IntendFile, DispatchFile, SettleFile, Pending, DeliveredRests
  <2> QED
    BY <1>3, <2>2, <2>3
<1>4. CASE ReconcileFile
  <2>1. pc' = pc /\ call' = call /\ delivered' = delivered
    BY <1>4 DEF ReconcileFile
  <2>2. \A c \in Calls : View(c)' = View(c) \/ View(c)' = "confirmed"
    BY <1>4, ViewNext DEF ReconcileFile, Intend, IntendFile, DispatchFile, SettleFile, Pending
  <2>3. \A c \in Calls : Uncertain(c)' => Uncertain(c)
    BY <2>2 DEF Uncertain
  <2> QED
    BY <2>1, <2>3
<1> QED
  BY <1>2, <1>3, <1>4, ViewNext

LEMMA RankNext == KInv /\ [Next]_vars => RecordNotAhead'
<1> SUFFICES ASSUME KInv, [Next]_vars PROVE RecordNotAhead'
  OBVIOUS
<1> USE DEF KInv, IInv, TypeOK, AtACall, Inside, RecordNotAhead, store, operator, bounds, Go, NextCall
<1>1. \A c \in Calls : /\ Rank(db[c]) \in 0 .. 3 /\ Rank(file[c]) \in 0 .. 3
                       /\ Rank(View(c)) = Rank(file[c]) \/ View(c) = db[c]
  BY Ranks DEF View
<1>2. ASSUME file' = file, corrupt' = corrupt, \A c \in Calls : db'[c] = db[c] \/ db'[c] = View(c) \/ db'[c] = "intended"
      PROVE  RecordNotAhead'
  BY <1>1, <1>2
<1>3. CASE Launch \/ Checked \/ Refuse \/ Revoked \/ Dispatch \/ Execute \/ Apply \/ Return \/ Deliver \/ Pause \/ Crash \/ UNCHANGED vars
  BY <1>3, <1>2 DEF Launch, Checked, Refuse, Revoked, Dispatch, Execute, Apply, Return, Deliver, Pause, Crash, vars
<1>4. CASE Check \/ Reuse \/ Intend
  <2>1. file' = file /\ corrupt' = corrupt /\ \A c \in Calls : db'[c] = db[c] \/ db'[c] = View(c) \/ db'[c] = "intended"
    BY <1>4 DEF Check, Reuse, Intend
  <2> QED
    BY <2>1, <1>2
<1>5. CASE Block \/ Restart \/ Resume
  <2>1. file' = file /\ corrupt' = corrupt /\ \A c \in Calls : db'[c] = db[c] \/ db'[c] = View(c)
    BY <1>5 DEF Block, Restart, Resume, Mirrored
  <2> QED
    BY <2>1, <1>2
<1>6. ASSUME NEW d \in Calls, Reconcile(d) PROVE RecordNotAhead'
  <2>1. file' = file /\ corrupt' = corrupt /\ \A c \in Calls : db'[c] = db[c] \/ db'[c] = View(c)
    BY <1>6 DEF Reconcile
  <2> QED
    BY <2>1, <1>2
<1>7. CASE IntendFile
  <2>1. \A c \in Calls : file'[c] = IF c = call /\ file[c] = "none" THEN "intended" ELSE file[c]
    BY <1>7 DEF IntendFile
  <2> QED
    BY <1>7, <1>1, <2>1, Ranks DEF IntendFile
<1>8. CASE DispatchFile
  <2>1. call \in Calls /\ db' = db
    BY <1>8 DEF DispatchFile
  <2>2. \A c \in Calls : file'[c] = IF c = call THEN "dispatched" ELSE file[c]
    BY <1>8, <2>1 DEF DispatchFile
  <2>3. corrupt \subseteq corrupt' /\ (call \notin corrupt' => file[call] \notin Settled)
    BY <1>8 DEF DispatchFile
  <2>4. \A c \in Calls : file[c] \notin Settled => Rank(file[c]) <= 2
    BY Ranks DEF States
  <2> QED
    BY <1>1, <2>1, <2>2, <2>3, <2>4, Ranks
<1>9. CASE DispatchDb
  <2>1. Rank(file[call]) >= 2
    BY <1>9 DEF DispatchDb, ArmedOnce, Armed
  <2> QED
    BY <1>9, <2>1, <1>1, Ranks DEF DispatchDb
<1>10. CASE SettleFile
  <2>1. call \in Calls /\ corrupt' = corrupt /\ Outcome(call) \in Settled
    BY <1>10, OutcomeType DEF SettleFile
  <2>2. \A c \in Calls : (file'[c] = file[c] \/ Rank(file'[c]) = 3) /\ (db'[c] = db[c] \/ db'[c] = View(c))
    BY <1>10, <2>1, Ranks DEF SettleFile
  <2> QED
    BY <1>1, <2>1, <2>2
<1>11. CASE SettleDb
  <2>1. call \in Calls /\ file' = file /\ corrupt' = corrupt /\ Rank(file[call]) = 3 /\ Outcome(call) \in Settled
    BY <1>11, OutcomeType, Ranks DEF SettleDb, SettledLine
  <2>2. \A c \in Calls : db'[c] = IF c = call THEN Outcome(call) ELSE db[c]
    BY <1>11 DEF SettleDb
  <2> QED
    BY <1>1, <2>1, <2>2, Ranks
<1>12. CASE ReconcileFile
  <2>1. \A c \in Calls : file'[c] = IF c = recon THEN "confirmed" ELSE file[c]
    BY <1>12 DEF ReconcileFile
  <2>2. db' = db /\ corrupt' = corrupt /\ Rank("confirmed") = 3
    BY <1>12, Ranks DEF ReconcileFile, Settled
  <2> QED
    BY <1>1, <2>1, <2>2
<1>13. CASE ReconcileDb
  <2>1. file' = file /\ corrupt' = corrupt /\ Rank("confirmed") = 3
    BY <1>13, Ranks DEF ReconcileDb, Settled
  <2>2. \A c \in Calls : db'[c] = IF c = recon THEN "confirmed" ELSE db[c]
    BY <1>13 DEF ReconcileDb
  <2>3. recon \in corrupt \/ Rank(file[recon]) = 3
    BY <1>13, Ranks DEF ReconcileDb, SettledLine
  <2> QED
    BY <1>1, <2>1, <2>2, <2>3
<1> QED
  BY <1>3, <1>4, <1>5, <1>6, <1>7, <1>8, <1>9, <1>10, <1>11, <1>12, <1>13 DEF Next, Worker, Operator

LEMMA TruthNext == KInv /\ [Next]_vars => EvidenceTruthful'
<1> SUFFICES ASSUME KInv, [Next]_vars PROVE EvidenceTruthful'
  OBVIOUS
<1> USE DEF KInv, IInv, TypeOK, AtACall, Inside, EvidenceTruthful, store, operator, bounds, Go, NextCall
<1>1. ASSUME file' = file, applied' = applied, vouched' = vouched PROVE EvidenceTruthful'
  BY <1>1
<1>2. CASE Launch \/ Check \/ Checked \/ Reuse \/ Refuse \/ Intend \/ Revoked \/ Dispatch \/ DispatchDb \/ Execute \/ Return \/ SettleDb \/ Deliver \/ Block
  BY <1>1, <1>2 DEF Launch, Check, Checked, Reuse, Refuse, Intend, Revoked, Dispatch, DispatchDb, Execute, Return,
     SettleDb, Deliver, Block
<1>3. CASE Resume \/ ReconcileDb \/ Restart \/ Pause \/ Crash \/ UNCHANGED vars \/ \E c \in Calls : Reconcile(c)
  BY <1>1, <1>3 DEF Resume, ReconcileDb, Restart, Pause, Crash, vars, Reconcile
<1>4. CASE IntendFile
  <2>1. \A c \in Calls : file'[c] = file[c] \/ file'[c] = "intended"
    BY <1>4 DEF IntendFile
  <2> QED
    BY <1>4, <2>1 DEF IntendFile
<1>5. CASE DispatchFile
  BY <1>5 DEF DispatchFile
<1>6. CASE Apply
  <2>1. \A c \in Calls : applied'[c] >= applied[c] /\ applied[c] \in Nat
    BY <1>6 DEF Apply
  <2> QED
    BY <1>6, <2>1 DEF Apply
<1>7. CASE SettleFile
  <2>1. applied' = applied /\ vouched' = vouched
    BY <1>7 DEF SettleFile
  <2>2. \A c \in Calls : file'[c] = file[c] \/ (c = call /\ file'[c] = Outcome(c))
    BY <1>7 DEF SettleFile
  <2>3. Outcome(call) = "confirmed" => applied[call] > 0
    BY <1>7 DEF SettleFile, Outcome, ResultTrue
  <2>4. Outcome(call) = "not_applied" => call \in Safe
    BY DEF Outcome
  <2> QED
    BY <2>1, <2>2, <2>3, <2>4
<1>8. CASE ReconcileFile
  BY <1>8 DEF ReconcileFile
<1> QED
  BY <1>2, <1>3, <1>4, <1>5, <1>6, <1>7, <1>8 DEF Next, Worker, Operator

LEMMA KnownNext == KInv /\ [Next]_vars => KInv'
BY OnceNext, RecordFirstNext, CheckedNext, RestsNext, ResultNext, SettledLineNext, RankNext, TruthNext DEF KInv

\* The record never runs ahead of the line, a line tells the truth about the
\* effect, and the model gets its results only when all of them are known: for
\* any number of calls, crashes and pauses.
THEOREM EvidenceIsSound == Spec => []EvidenceAgrees
<1>1. KInv => EvidenceAgrees
  BY DEF KInv, EvidenceAgrees, CheckedKnown, DeliveredIsKnown
<1> QED
  BY <1>1, KnownInit, KnownNext, PTL DEF Spec

\* No call takes effect while the outcome of another is unknown.
THEOREM EffectsWaitForKnowledge == Spec => NothingRunsPastUnknown
<1> DEFINE Quiet == \A c \in Calls : applied'[c] > applied[c] =>
                      \A d \in Calls \ {c} : file[d] # "unknown" /\ (file[d] = "dispatched" => d \in Safe)
<1>1. KInv /\ [Next]_vars => [Quiet]_vars
  <2> SUFFICES ASSUME KInv, [Next]_vars, NEW c \in Calls, applied'[c] > applied[c]
               PROVE  \A d \in Calls \ {c} : file[d] # "unknown" /\ (file[d] = "dispatched" => d \in Safe)
    OBVIOUS
  <2>1. applied[c] \in Nat /\ applied' # applied
    BY DEF KInv, IInv, TypeOK
  <2>2. Apply
    BY <2>1 DEF Next, Worker, Operator, Launch, Check, Checked, Reuse, Refuse, Intend, IntendFile, Revoked, Dispatch,
       DispatchFile, DispatchDb, Execute, Return, SettleFile, SettleDb, Deliver, Block, Resume, Reconcile,
       ReconcileFile, ReconcileDb, Restart, Pause, Crash, vars
  <2>3. c = call
    BY <2>1, <2>2 DEF Apply, KInv, IInv, TypeOK
  <2>4. \A d \in Calls \ {c} : ~Uncertain(d)
    BY <2>2, <2>3 DEF Apply, KInv, CheckedKnown, Inside
  <2> QED
    BY <2>4 DEF Uncertain, View
<1> QED
  BY <1>1, KnownInit, KnownNext, PTL DEF Spec, NothingRunsPastUnknown

-----------------------------------------------------------------------------
(* The two stores implement CallOnce.                                        *)

\* From the check in dispatch to the effect.
Begun == {"dispatchFile", "dispatchDb", "execute", "executing", "applied"}

\* The worker is never inside a call that was settled, and is not replayable,
\* and never begins one whose file is illegal.
UnsafeNew ==
  /\ pc \in Inside \ {"settleDb"} /\ call \notin Safe => file[call] \notin Settled
  /\ pc \in Begun /\ call \notin Safe => call \notin corrupt

\* While the operator vouches for a call that is not replayable, the run stays
\* paused: its effect is unresolved.
AppendSafe ==
  reconStep = "append" =>
    \/ recon \in Safe
    \/ pc = "idle" /\ ~live /\ db[recon] = View(recon) /\ View(recon) \in {"dispatched", "unknown"}

OInv == KInv /\ UnsafeNew /\ AppendSafe

LEMMA RefineInit == Init => OInv
BY KnownInit DEF Init, OInv, UnsafeNew, AppendSafe, Inside, Begun, Settled

LEMMA UnsafeNewNext == OInv /\ [Next]_vars => UnsafeNew'
<1> SUFFICES ASSUME OInv, [Next]_vars PROVE UnsafeNew'
  OBVIOUS
<1> USE DEF OInv, KInv, IInv, TypeOK, AtACall, Inside, Begun, UnsafeNew, store, operator, bounds, Go, NextCall
<1>1. CASE Launch \/ Check \/ Checked \/ Reuse \/ Refuse \/ Deliver \/ Block
  BY <1>1 DEF Launch, Check, Checked, Reuse, Refuse, Deliver, Block, Pending
<1>2. CASE Revoked \/ DispatchDb \/ Execute \/ Apply \/ Return \/ SettleDb
  BY <1>2 DEF Revoked, DispatchDb, Execute, Apply, Return, SettleDb
<1>3. CASE Intend
  <2>1. file' = file /\ call' = call /\ (pc' = "intendFile" \/ pc' = "blocked") /\ call \in Calls
    BY <1>3 DEF Intend, Pending
  <2>2. pc' = "intendFile" => file[call] \notin Settled
    BY <1>3 DEF Intend, Pending, View, RecordFirst, Settled
  <2> QED
    BY <2>1, <2>2
<1>4. CASE IntendFile
  BY <1>4 DEF IntendFile, Settled
<1>5. CASE Dispatch
  BY <1>5 DEF Dispatch, LookupFails
<1>6. CASE DispatchFile
  <2>1. call \in Calls /\ pc' = "dispatchDb" /\ call' = call
    BY <1>6 DEF DispatchFile
  <2>2. file'[call] = "dispatched"
    BY <1>6, <2>1 DEF DispatchFile
  <2>3. call \notin Safe => corrupt' = corrupt
    <3>1. call \notin Safe => Rank(file[call]) <= 1
      BY <1>6 DEF DispatchFile, FirstDispatch
    <3> QED
      BY <1>6, <3>1, Ranks DEF DispatchFile
  <2> QED
    BY <1>6, <2>1, <2>2, <2>3 DEF DispatchFile, Settled
<1>7. CASE SettleFile
  BY <1>7 DEF SettleFile
<1>8. CASE ReconcileFile
  <2>1. pc' = pc /\ call' = call /\ corrupt' = corrupt
    BY <1>8 DEF ReconcileFile
  <2>2. \A c \in Calls : c # recon => file'[c] = file[c]
    BY <1>8 DEF ReconcileFile
  <2>3. recon \in Safe \/ pc = "idle"
    BY <1>8 DEF ReconcileFile, AppendSafe
  <2> QED
    BY <2>1, <2>2, <2>3
<1>9. CASE Resume \/ ReconcileDb \/ \E c \in Calls : Reconcile(c)
  BY <1>9 DEF Resume, ReconcileDb, Reconcile
<1>10. CASE Restart \/ Pause \/ Crash \/ UNCHANGED vars
  BY <1>10 DEF Restart, Pause, Crash, vars
<1> QED
  BY <1>1, <1>2, <1>3, <1>4, <1>5, <1>6, <1>7, <1>8, <1>9, <1>10 DEF Next, Worker, Operator

LEMMA AppendSafeNext == OInv /\ [Next]_vars => AppendSafe'
<1> SUFFICES ASSUME OInv, [Next]_vars, reconStep' = "append" PROVE AppendSafe'
  BY DEF AppendSafe
<1> USE DEF OInv, KInv, IInv, AtACall, AppendSafe, store, operator, bounds, Go, NextCall
<1>1. ASSUME NEW c \in Calls, Reconcile(c) PROVE AppendSafe'
  <2>1. db' = [db EXCEPT ![c] = View(c)] /\ file' = file /\ recon' = c /\ pc' = "idle" /\ ~live' /\ View(c) \in {"dispatched", "unknown"}
    BY <1>1 DEF Reconcile
  <2>2. db'[c] = View(c) /\ View(c)' = View(c)
    BY <2>1 DEF View, TypeOK
  <2> QED
    BY <2>1, <2>2
<1>2. CASE ReconcileFile \/ ReconcileDb \/ Crash
  BY <1>2 DEF ReconcileFile, ReconcileDb, Crash
<1>3. CASE Resume
  <2>1. recon' = recon /\ reconStep = "append" /\ recon \in Calls
    BY <1>3 DEF Resume
  <2>2. ASSUME recon \notin Safe PROVE FALSE
    <3>1. db[recon] \in {"dispatched", "unknown"} /\ Uncertain(recon)
      BY <2>1, <2>2 DEF Uncertain
    <3>2. recon \in Unresolved
      BY <2>1, <3>1 DEF Unresolved, Consulted
    <3> QED
      BY <1>3, <3>2 DEF Resume
  <2> QED
    BY <2>1, <2>2
<1>4. CASE Worker \/ Restart \/ Pause \/ UNCHANGED vars
  <2>1. reconStep = "append" /\ recon' = recon
    BY <1>4 DEF Worker, Launch, Check, Checked, Reuse, Refuse, Intend, IntendFile, Revoked, Dispatch, DispatchFile,
       DispatchDb, Execute, Apply, Return, SettleFile, SettleDb, Deliver, Block, Restart, Pause, vars
  <2>2. CASE UNCHANGED vars
    BY <2>1, <2>2 DEF vars, View
  <2>3. CASE Worker \/ Restart \/ Pause
    <3>1. ~(pc = "idle" /\ ~live)
      BY <2>3 DEF Worker, Launch, Check, Checked, Reuse, Refuse, Intend, IntendFile, Revoked, Dispatch, DispatchFile,
         DispatchDb, Execute, Apply, Return, SettleFile, SettleDb, Deliver, Block, Restart, Pause, Pending
    <3> QED
      BY <2>1, <3>1
  <2> QED
    BY <1>4, <2>2, <2>3
<1> QED
  BY <1>1, <1>2, <1>3, <1>4 DEF Next, Operator

LEMMA RefineNext == OInv /\ [Next]_vars => OInv'
BY KnownNext, UnsafeNewNext, AppendSafeNext DEF OInv

Phases == [c \in Calls |-> PhaseOf(c)]

\* Where the phase of a call may go.
Goes(c, to) ==
  \/ to = PhaseOf(c)
  \/ PhaseOf(c) = "new" /\ to \in {"started", "done"}
  \/ PhaseOf(c) \in {"started", "unknown"} /\ to = "done"
  \/ PhaseOf(c) \in {"new", "started"} /\ to = "unknown" /\ c \notin Safe

\* One call moves on: a step of the abstract journal, or none.
LEMMA OneMoves ==
  ASSUME NEW c \in Calls, applied' = applied, Goes(c, PhaseOf(c)'),
         \A d \in Calls \ {c} : PhaseOf(d)' = PhaseOf(d)
  PROVE  Once!Next \/ UNCHANGED <<Phases, applied>>
<1>1. Phases' = [Phases EXCEPT ![c] = PhaseOf(c)'] /\ Phases[c] = PhaseOf(c)
  BY DEF Phases
<1>2. CASE PhaseOf(c)' = PhaseOf(c)
  <2>1. Phases' = Phases
    BY <1>1, <1>2 DEF Phases
  <2> QED
    BY <2>1
<1>3. CASE PhaseOf(c) = "new" /\ PhaseOf(c)' = "started"
  <2>1. Once!Start(c)
    BY <1>1, <1>3 DEF Once!Start, Once!Move, Phases
  <2> QED
    BY <2>1 DEF Once!Next
<1>4. CASE PhaseOf(c) = "new" /\ PhaseOf(c)' = "done"
  <2>1. Once!Finish(c)
    BY <1>1, <1>4 DEF Once!Finish, Once!Move, Phases
  <2> QED
    BY <2>1 DEF Once!Next
<1>5. CASE PhaseOf(c) \in {"started", "unknown"} /\ PhaseOf(c)' = "done"
  <2>1. Once!Vouch(c)
    BY <1>1, <1>5 DEF Once!Vouch, Once!Move, Phases
  <2> QED
    BY <2>1 DEF Once!Next
<1>6. CASE PhaseOf(c) \in {"new", "started"} /\ PhaseOf(c)' = "unknown" /\ c \notin Safe
  <2>1. Once!GiveUp(c)
    BY <1>1, <1>6 DEF Once!GiveUp, Once!Move, Phases
  <2> QED
    BY <2>1 DEF Once!Next
<1> QED
  BY <1>2, <1>3, <1>4, <1>5, <1>6 DEF Goes

\* A step that writes no line moves no call.
LEMMA NoneMoves ==
  ASSUME file' = file, corrupt' = corrupt PROVE Phases' = Phases
BY DEF Phases, PhaseOf

LEMMA OnceStep == OInv /\ [Next]_vars => [Once!Next]_<<Phases, applied>>
<1> SUFFICES ASSUME OInv, [Next]_vars PROVE Once!Next \/ UNCHANGED <<Phases, applied>>
  OBVIOUS
<1> USE DEF OInv, KInv, IInv, TypeOK, AtACall, Inside, store, operator, bounds, Go, NextCall
<1>1. CASE Launch \/ Check \/ Checked \/ Reuse \/ Refuse \/ Intend \/ Revoked \/ Dispatch \/ DispatchDb \/ Execute \/ Return \/ SettleDb \/ Deliver \/ Block
  <2>1. file' = file /\ corrupt' = corrupt /\ applied' = applied
    BY <1>1 DEF Launch, Check, Checked, Reuse, Refuse, Intend, Revoked, Dispatch, DispatchDb, Execute, Return,
       SettleDb, Deliver, Block
  <2> QED
    BY <2>1, NoneMoves
<1>2. CASE Resume \/ ReconcileDb \/ Restart \/ Pause \/ Crash \/ UNCHANGED vars \/ \E c \in Calls : Reconcile(c)
  <2>1. file' = file /\ corrupt' = corrupt /\ applied' = applied
    BY <1>2 DEF Resume, ReconcileDb, Restart, Pause, Crash, vars, Reconcile
  <2> QED
    BY <2>1, NoneMoves
<1>3. CASE IntendFile
  <2>1. \A c \in Calls : PhaseOf(c)' = PhaseOf(c)
    BY <1>3 DEF IntendFile, PhaseOf
  <2>2. Phases' = Phases /\ applied' = applied
    BY <1>3, <2>1 DEF Phases, IntendFile
  <2> QED
    BY <2>2
<1>4. ASSUME NEW c \in Calls, c = call, DispatchFile PROVE Once!Next \/ UNCHANGED <<Phases, applied>>
  <2>1. applied' = applied /\ file'[c] = "dispatched" /\ corrupt \subseteq corrupt'
    BY <1>4 DEF DispatchFile
  <2>2. \A d \in Calls \ {c} : PhaseOf(d)' = PhaseOf(d)
    BY <1>4 DEF DispatchFile, PhaseOf
  <2>3. file[c] \in Settled => c \in corrupt'
    BY <1>4 DEF DispatchFile
  <2>4. c \in corrupt' => c \in corrupt \/ file[c] \in Settled \/ file[c] = "dispatched"
    BY <1>4 DEF DispatchFile
  <2>5. Goes(c, PhaseOf(c)')
    BY <2>1, <2>3, <2>4 DEF Goes, PhaseOf, States, Settled
  <2> QED
    BY <2>1, <2>2, <2>5, OneMoves
<1>5. CASE Apply
  <2>1. call \in Calls /\ file' = file /\ corrupt' = corrupt
    BY <1>5 DEF Apply
  <2>2. Phases' = Phases
    BY <2>1, NoneMoves
  <2>3. call \in Safe \/ (PhaseOf(call) = "started" /\ applied[call] = 0)
    <3>1. call \notin Safe => Rank(file[call]) >= 2 /\ file[call] \notin Settled /\ call \notin corrupt /\ applied[call] = 0
      BY <1>5 DEF Apply, ArmedOnce, Armed, UnsafeNew, Begun
    <3>2. call \notin Safe => file[call] = "dispatched"
      BY <2>1, <3>1, Ranks DEF States
    <3> QED
      BY <3>1, <3>2 DEF PhaseOf
  <2>4. Phases[call] = PhaseOf(call) /\ applied' = [applied EXCEPT ![call] = @ + 1]
    BY <2>1, <1>5 DEF Apply, Phases
  <2>5. Once!Apply(call)
    BY <2>1, <2>2, <2>3, <2>4 DEF Once!Apply, Phases
  <2> QED
    BY <2>1, <2>5 DEF Once!Next
<1>6. CASE SettleFile
  <2>1. call \in Calls /\ applied' = applied /\ corrupt' = corrupt
    BY <1>6 DEF SettleFile
  <2>2. CASE LookupFails(call)
    BY <1>6, <2>1, <2>2, NoneMoves DEF SettleFile
  <2>3. ASSUME NEW c \in Calls, c = call, ~LookupFails(call)
        PROVE  Once!Next \/ UNCHANGED <<Phases, applied>>
    <3>1. file' = [file EXCEPT ![c] = Outcome(c)] /\ c \notin corrupt
      BY <1>6, <2>3 DEF SettleFile, LookupFails
    <3>2. file'[c] = Outcome(c) /\ \A d \in Calls \ {c} : file'[d] = file[d]
      BY <3>1
    <3>3. \A d \in Calls \ {c} : PhaseOf(d)' = PhaseOf(d)
      BY <2>1, <3>2 DEF PhaseOf
    <3>4. Outcome(c) \in Settled /\ (Outcome(c) = "unknown" => c \notin Safe)
      BY OutcomeType DEF Outcome
    <3>5. c \notin Safe => file[c] \notin Settled
      BY <1>6, <2>3 DEF SettleFile, UnsafeNew
    <3>6. PhaseOf(c)' = IF Outcome(c) = "unknown" THEN "unknown" ELSE "done"
      BY <2>1, <3>1, <3>2, <3>4 DEF PhaseOf, Settled
    <3>7. Goes(c, PhaseOf(c)')
      BY <3>1, <3>4, <3>5, <3>6 DEF Goes, PhaseOf, States, Settled
    <3> QED
      BY <2>1, <3>3, <3>7, OneMoves
  <2> QED
    BY <2>1, <2>2, <2>3
<1>7. ASSUME NEW c \in Calls, c = recon, ReconcileFile PROVE Once!Next \/ UNCHANGED <<Phases, applied>>
  <2>1. applied' = applied /\ corrupt' = corrupt /\ Rank(file[c]) >= 2
    BY <1>7 DEF ReconcileFile, ReconDispatched
  <2>2. file'[c] = "confirmed" /\ \A d \in Calls \ {c} : file'[d] = file[d]
    BY <1>7 DEF ReconcileFile
  <2>3. \A d \in Calls \ {c} : PhaseOf(d)' = PhaseOf(d)
    BY <2>1, <2>2 DEF PhaseOf
  <2>4. file[c] \in States /\ file[c] \notin {"none", "intended"}
    BY <2>1, Ranks
  <2>5. PhaseOf(c)' = "done" /\ PhaseOf(c) \in {"started", "unknown", "done"}
    BY <2>1, <2>2, <2>4 DEF PhaseOf
  <2> QED
    BY <2>1, <2>3, <2>5, OneMoves DEF Goes
<1>8. (DispatchFile => call \in Calls) /\ (ReconcileFile => recon \in Calls)
  BY DEF DispatchFile, ReconcileFile
<1> QED
  BY <1>1, <1>2, <1>3, <1>4, <1>5, <1>6, <1>7, <1>8 DEF Next, Worker, Operator

\* The record and the line of each call, read as lookup reads them, implement
\* the journal without stores: every step is a step of CallOnce or none.
THEOREM JournalImplementsOnce == Spec => OnceSpec
<1>1. Init => Once!Init
  BY DEF Init, Once!Init, PhaseOf
<1>2. [Once!Next]_<<Phases, applied>> => [Once!Next]_<<[c \in Calls |-> PhaseOf(c)], applied>>
  BY DEF Phases
<1> QED
  BY <1>1, <1>2, RefineInit, RefineNext, OnceStep, PTL DEF Spec, OnceSpec, Once!Spec
=============================================================================
