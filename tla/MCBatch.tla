------------------------------- MODULE MCBatch -------------------------------
(* m1 has accepted two minions, m2 the third; m3, used alone, all of them.  *)
EXTENDS SaltxBatch, MCFaults, TLC

CONSTANTS m1, m2, m3, a, b, c, fa, t, super

MCAccepted == [m \in Maids |->
    CASE m = m1 -> {a, b} [] m = m2 -> {c} [] m = m3 -> {a, b, c}]

\* two different faults of the maid, of its greenlets or of the connection
MCPlans == {Plan(1, 1, 0, 0, 0, 0), Plan(1, 0, 1, 0, 0, 0), Plan(0, 1, 1, 0, 0, 0),
            Plan(1, 0, 0, 0, 1, 0), Plan(0, 0, 1, 0, 1, 0)}
Symmetry == Permutations({a, b, c})
=============================================================================
