------------------------------ MODULE MCSharing ------------------------------
(***************************************************************************)
(* The parts that share out something scarce, side by side.  They share no *)
(* state: a behaviour picks one of them and lets the others rest.  No fair  *)
(* action of a part is enabled in its initial state, so that resting is     *)
(* fair to it.                                                              *)
(***************************************************************************)
EXTENDS UsageGate, MachineSlots, TLC

CONSTANTS q1, q2, q3, s1, s2, s3, p1, p2

VARIABLE focus      \* the part this behaviour is about

MCDomainOf == [s \in Slots |-> IF s = s3 THEN "e" ELSE "d"]
MCProjectOf == [s \in Slots |-> IF s = s1 THEN "x" ELSE "y"]
MCPidOf == [s \in Slots |-> IF s = s2 THEN p2 ELSE p1]

sharingVars == <<focus, gateVars, slotVars>>

SharingInit ==
  /\ focus \in {"gate", "slots"}
  /\ GateInit /\ SlotsInit

On(part) == focus = part /\ UNCHANGED focus

SharingNext ==
  \/ On("gate") /\ GateNext /\ UNCHANGED slotVars
  \/ On("slots") /\ SlotsNext /\ UNCHANGED gateVars

SharingSpec == SharingInit /\ [][SharingNext]_sharingVars

SharingFairSpec == SharingSpec /\ GateFairness /\ SlotsFairness

\* Nobody waits for ever, neither for a slot nor for the end.
SharingMovesOn == NobodyWaitsForever /\ CloseReturns /\ SlotsAreHandedOn

=============================================================================
