------------------------------ MODULE MCFaults ------------------------------
(* Plans of faults: the bound on what goes wrong in one behaviour.          *)
EXTENDS Maid

\* how many crashes of maids, deaths of greenlets, lost results, display
\* errors, lost connections and repeated returns
Plan(crash, abort, drop, display, redis, again) ==
    [f \in FaultKinds |-> CASE f = "crash"   -> crash
                            [] f = "abort"   -> abort
                            [] f = "drop"    -> drop
                            [] f = "display" -> display
                            [] f = "redis"   -> redis
                            [] f = "again"   -> again]

NoFaults  == {Plan(0, 0, 0, 0, 0, 0)}
OneCrash  == {Plan(1, 0, 0, 0, 0, 0)}
TwoDeaths == {Plan(2, 0, 0, 0, 0, 0), Plan(1, 1, 0, 0, 0, 0), Plan(0, 2, 0, 0, 0, 0)}

\* two of what may happen to a result on its way to the report, or a return
\* that comes again
TwoLosses == {Plan(0, 0, 1, 1, 0, 0), Plan(0, 0, 1, 0, 1, 0), Plan(0, 0, 0, 1, 1, 0),
              Plan(0, 0, 0, 0, 0, 1)}
=============================================================================
