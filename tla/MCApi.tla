-------------------------------- MODULE MCApi --------------------------------
(* One maid with two minions, two requests.                                 *)
EXTENDS SaltxApi, MCFaults, TLC

CONSTANTS m1, m2, a, b, c, r1, r2, run, root, super

MCAccepted == [m \in Maids |-> (IF m = m1 THEN {a, b} ELSE {c}) \cap Minions]

\* a maid dies, or the connection to Redis fails
MCPlans == OneCrash \cup {Plan(0, 0, 0, 0, 1, 0)}

\* both requests to one endpoint, or each to its own
SameApi  == [r \in Requests |-> run]
OtherApi == [r \in Requests |-> IF r = r1 THEN run ELSE root]

\* one request for a list of minions, one for a single address
MixTgt  == [r \in Requests |-> IF r = r1 THEN [kind |-> "list", ids |-> {a, b}]
                                         ELSE [kind |-> "ip", ids |-> {a}]]
=============================================================================
