---------------------------- MODULE MCEffectOutbox ----------------------------
(* Small instances of EffectOutbox: a run with two business rows, or with one *)
(* and its control row, and two owner identities.                            *)
EXTENDS EffectOutbox, TLC

CONSTANTS r1, a, b, ctl, o1, o2, t1, t2, t3, t4

OneRun == [k \in Keys |-> r1]

Interchangeable == Permutations(Tokens)
=============================================================================
