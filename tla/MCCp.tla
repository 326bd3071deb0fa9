-------------------------------- MODULE MCCp --------------------------------
(* m1 has accepted two minions, m2 one, m3 none. *)
EXTENDS SaltCp, MCFaults, TLC

CONSTANTS m1, m2, m3, a, b, c, t

MCAccepted ==
    [m \in Maids |-> CASE m = m1 -> {a, b} [] m = m2 -> {c} [] OTHER -> {}]

\* two deaths, or one and what may happen to the results at the client
MCPlans == TwoDeaths \cup
    {Plan(1, 0, 0, 1, 0, 0), Plan(1, 0, 0, 0, 1, 0), Plan(0, 0, 0, 1, 1, 0)}

\* salt-cp -L a,c
List == [kind |-> "list", ids |-> {a, c}]
=============================================================================
