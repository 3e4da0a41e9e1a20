------------------------------- MODULE CallOnce --------------------------------
(***************************************************************************)
(* What the durable call journal of tnb promises about the tool calls of    *)
(* one assistant message, without stores, crashes or workers: a call that   *)
(* may not be replayed takes effect at most once and only after it was       *)
(* started; what is over stays over; only evidence from the operator turns   *)
(* an unknown outcome into a finished one.                                   *)
(***************************************************************************)
EXTENDS Integers

CONSTANTS Calls, Safe

VARIABLES phase, applied

Init == phase = [c \in Calls |-> "new"] /\ applied = [c \in Calls |-> 0]

Move(c, from, to) == phase[c] \in from /\ phase' = [phase EXCEPT ![c] = to] /\ UNCHANGED applied

Start(c) == Move(c, {"new"}, "started")

Apply(c) ==
  /\ c \in Safe \/ (phase[c] = "started" /\ applied[c] = 0)
  /\ applied' = [applied EXCEPT ![c] = @ + 1]
  /\ UNCHANGED phase

\* The call ended, or it was given up before it started.
Finish(c) == Move(c, {"new", "started"}, "done")

GiveUp(c) == c \notin Safe /\ Move(c, {"new", "started"}, "unknown")

Vouch(c) == Move(c, {"started", "unknown"}, "done")

Next == \E c \in Calls : Start(c) \/ Apply(c) \/ Finish(c) \/ GiveUp(c) \/ Vouch(c)

Spec == Init /\ [][Next]_<<phase, applied>>
=============================================================================
