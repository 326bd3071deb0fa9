------------------------------- MODULE MCSync -------------------------------
(* m1 has accepted two of the three minions, m2 one, m3 none.               *)
EXTENDS SaltxSync, MCFaults, TLC

CONSTANTS m1, m2, m3, a, b, c, t, super

MCAccepted ==
    [m \in Maids |-> (CASE m = m1 -> {a, b} [] m = m2 -> {c} [] OTHER -> {}) \cap Minions]

\* salt '*', and salt -L a,c
All  == [kind |-> "all", ids |-> {}]
List == [kind |-> "list", ids |-> {a, c}]

\* two deaths, at most one of them of a maid, or two losses on the way to the
\* report
MCPlans == (TwoDeaths \ {Plan(2, 0, 0, 0, 0, 0)}) \cup TwoLosses
=============================================================================
