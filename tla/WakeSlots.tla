------------------------------- MODULE WakeSlots -------------------------------
(***************************************************************************)
(* What the effect queue of src/src/services/runtime/store.ts promises to  *)
(* the code that enqueues on it, without rows, generations or tokens: one  *)
(* slot per key.  A slot is empty, waits for a dispatcher, is leased by    *)
(* one, or was enqueued again while leased.  Only an undisturbed lease     *)
(* empties it; a superseded slot goes back to waiting.                     *)
(***************************************************************************)
CONSTANT Keys

VARIABLES
  slot,   \* state of each key
  open    \* keys whose run still exists

SlotStates == {"none", "pending", "leased", "superseded"}

\* Types of the slots and the open keys.
TypeOK ==
  /\ slot \in [Keys -> SlotStates]
  /\ open \in SUBSET Keys

Init ==
  /\ slot = [k \in Keys |-> "none"]
  /\ open = Keys

Enqueue(k) ==
  /\ k \in open
  /\ slot' = [slot EXCEPT ![k] = CASE @ = "none" -> "pending"
                                   [] @ = "leased" -> "superseded"
                                   [] OTHER -> @]
  /\ UNCHANGED open

Claim(S) ==
  /\ \A k \in S : slot[k] = "pending"
  /\ slot' = [k \in Keys |-> IF k \in S THEN "leased" ELSE slot[k]]
  /\ UNCHANGED open

\* The claim ended with the work done.
Done(k) ==
  /\ slot[k] = "leased"
  /\ slot' = [slot EXCEPT ![k] = "none"]
  /\ UNCHANGED open

\* A retry, a superseded settlement, an expired lease, a dead dispatcher.
Release(S) ==
  /\ \A k \in S : slot[k] \in {"leased", "superseded"}
  /\ slot' = [k \in Keys |-> IF k \in S THEN "pending" ELSE slot[k]]
  /\ UNCHANGED open

\* The run of these keys is deleted.
Drop(S) ==
  /\ S \subseteq open
  /\ slot' = [k \in Keys |-> IF k \in S THEN "none" ELSE slot[k]]
  /\ open' = open \ S

Next ==
  \/ \E k \in Keys : Enqueue(k)
  \/ \E S \in SUBSET Keys : Claim(S)
  \/ \E k \in Keys : Done(k)
  \/ \E S \in SUBSET Keys : Release(S)
  \/ \E S \in SUBSET Keys : Drop(S)

Spec == Init /\ [][Next]_<<slot, open>>
=============================================================================
