------------------------------ MODULE DeliveryLog ------------------------------
(***************************************************************************)
(* What a durable transcript promises: a log that only grows, in which      *)
(* every follow-up of the user appears at most once.                        *)
(***************************************************************************)
EXTENDS Sequences, FiniteSets

CONSTANTS FollowUps, Others

VARIABLE log

Init == log = <<>>

Deliver(x) ==
  /\ x \in FollowUps => \A i \in DOMAIN log : log[i] # x
  /\ log' = Append(log, x)

Next == \E x \in FollowUps \cup Others : Deliver(x)

Spec == Init /\ [][Next]_log
=============================================================================
