------------------------------- MODULE MCJobs -------------------------------
(* Two maids: m1 has accepted two minions, m2 one.                          *)
EXTENDS SaltxJobs, MCFaults, TLC

CONSTANTS m1, m2, a, b, c, ta, t, super

MCAccepted == [m \in Maids |-> IF m = m1 THEN {a, b} ELSE {c}]

\* two deaths, or one and a lost connection
MCPlans == TwoDeaths \cup {Plan(1, 0, 0, 0, 1, 0)}

\* POST /minions with tgt=*
All == [kind |-> "all", ids |-> {}]
=============================================================================
