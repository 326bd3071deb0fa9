----------------------------- MODULE LocalClient -----------------------------
(***************************************************************************)
(* The client that a greenlet of a maid runs for a command: cmd_cli for a  *)
(* SYNC_RUN and cmd for a SALT_CP, with get_cli_event_returns and          *)
(* get_iter_returns, in salt/client/__init__.py.                           *)
(*                                                                         *)
(* The client publishes a job and polls the master's event bus.  A pass of *)
(* its loop reads the returns of the job, counts who is missing, asks the  *)
(* missing minions with saltutil.find_job whether they still run the job,  *)
(* reads what they answer, and decides whether to go on.  This fork has    *)
(* added a limit: it ends when CheckLimit passes have found nobody new and *)
(* Timeout has passed, whatever find_job says.  The times of the code are  *)
(* countdowns here, and 0 is a time that has passed.                       *)
(*                                                                         *)
(* order_masters is false: a maid has no masters below it.                 *)
(***************************************************************************)
EXTENDS Integers, FiniteSets

CONSTANTS
    Minions,        \* the minions the master matched with the target
    Timeout,        \* 'timeout', in units of the clock
    GatherTimeout,  \* 'gather_job_timeout'
    CheckLimit,     \* passes without a new return; 5 in the code
    ShowTimeout,    \* 'verbose' or 'show_timeout': report who is missing
    MaxFaults       \* bound: deaths, losses, repeats and errors in a behaviour

ASSUME ClientAssumption ==
    /\ IsFiniteSet(Minions) /\ Minions # {}
    /\ Timeout \in Nat \ {0} /\ GatherTimeout \in Nat \ {0}
    /\ CheckLimit \in Nat \ {0}
    /\ ShowTimeout \in BOOLEAN
    /\ MaxFaults \in Nat

VARIABLES
    caller,         \* which of the two runs: "cmd_cli" or "cmd"
    job,            \* job[k]: how far minion k is with the job
    returns,        \* the minions whose return is queued for the client
    asked,          \* the minions that have the last find_job to answer
    answers,        \* <<k, a>>: the answers to it that are queued
    pc,             \* where in a pass of its loop the client is
    minions, found, \* whom it expects, who has returned
    missed,         \* whom it has reported with no_return
    minions_running,\* somebody has answered that the job is running
    totalCheckCount, calCount,      \* passes without a new return, missing
    timeout_at, timeout_loop,       \* the next find_job, the fork's limit
    minion_timeouts,                \* per minion; -1 when it has none yet
    quiet, unheard, unasked,        \* the clocks of the properties, see Tick
    faults          \* how many faults have happened

minionVars == <<job, returns, asked, answers, faults>>
reportVars == <<minions, found, missed>>
checkVars  == <<totalCheckCount, calCount>>
timerVars  == <<timeout_at, timeout_loop, minion_timeouts>>
history    == <<quiet, unheard, unasked>>
vars == <<caller, minionVars, pc, reportVars, minions_running, checkVars, timerVars,
          history>>

\* what find_job finds out about the job: it runs here, it does not, or
\* find_job itself failed (a return code greater than 0)
Answer == {"running", "idle", "error"}

\* the places of the loop where the client waits or reads
Looping == {"returns", "jinfo", "test"}

\* counters stop at a limit, countdowns at 0 (and -1 stays)
Up(n, limit) == IF n < limit THEN n + 1 ELSE n
Down(n) == IF n > 0 THEN n - 1 ELSE n

TypeOK ==
    /\ caller \in {"cmd_cli", "cmd"}
    /\ job \in [Minions -> {"none", "sent", "running", "returned", "dead"}]
    /\ returns \subseteq Minions
    /\ asked \subseteq Minions
    /\ answers \subseteq Minions \X Answer
    /\ pc \in {"start", "done", "empty", "raised"} \cup Looping
    /\ minions \subseteq Minions /\ found \subseteq Minions
    /\ missed \subseteq Minions \ found
    /\ minions_running \in BOOLEAN
    /\ totalCheckCount \in 0 .. CheckLimit
    /\ calCount \in 0 .. Cardinality(Minions)
    /\ timeout_at \in 0 .. Timeout + GatherTimeout
    /\ timeout_loop \in 0 .. Timeout
    /\ minion_timeouts \in [Minions -> -1 .. Timeout]
    /\ quiet \in 0 .. Timeout
    /\ unheard \in [Minions -> 0 .. Timeout]
    /\ unasked \in 0 .. GatherTimeout
    /\ faults \in 0 .. MaxFaults

Init ==
    /\ caller \in {"cmd_cli", "cmd"}
    /\ job = [k \in Minions |-> "none"]
    /\ returns = {} /\ asked = {} /\ answers = {}
    /\ pc = "start"
    /\ minions = Minions /\ found = {} /\ missed = {}
    /\ minions_running = TRUE
    /\ totalCheckCount = 0 /\ calCount = 0
    /\ timeout_at = Timeout /\ timeout_loop = Timeout
    /\ minion_timeouts = [k \in Minions |-> -1]
    /\ quiet = 0 /\ unheard = [k \in Minions |-> 0] /\ unasked = 0
    /\ faults = 0

-----------------------------------------------------------------------------
(* The minions, and the master that passes their events on.                *)

Fault == faults < MaxFaults /\ faults' = faults + 1

Receive(k) ==
    /\ job[k] = "sent"
    /\ job' = [job EXCEPT ![k] = "running"]
    /\ UNCHANGED <<returns, asked, answers, faults>>

Return(k) ==
    /\ job[k] = "running"
    /\ job' = [job EXCEPT ![k] = "returned"]
    /\ returns' = returns \cup {k}
    /\ UNCHANGED <<asked, answers, faults>>

\* find_job runs beside the job; it sees it from Receive to Return
AnswerFindJob(k) ==
    /\ k \in asked
    /\ job[k] # "dead"
    /\ answers' = answers \cup
            {<<k, IF job[k] = "running" THEN "running" ELSE "idle">>}
    /\ asked' = asked \ {k}
    /\ UNCHANGED <<job, returns, faults>>

\* fault: find_job fails on the minion
FailFindJob(k) ==
    /\ k \in asked
    /\ job[k] # "dead"
    /\ Fault
    /\ answers' = answers \cup {<<k, "error">>}
    /\ asked' = asked \ {k}
    /\ UNCHANGED <<job, returns>>

\* fault: the minion does not hear that its return has arrived, and sends it
\* again
ReturnAgain(k) ==
    /\ job[k] = "returned"
    /\ Fault
    /\ returns' = returns \cup {k}
    /\ UNCHANGED <<job, asked, answers>>

\* fault: the minion dies; or its return gets lost
Die(k) ==
    /\ job[k] \in {"sent", "running"}
    /\ Fault
    /\ job' = [job EXCEPT ![k] = "dead"]
    /\ UNCHANGED <<returns, asked, answers>>

LoseReturn(k) ==
    /\ job[k] = "running"
    /\ Fault
    /\ job' = [job EXCEPT ![k] = "returned"]
    /\ UNCHANGED <<returns, asked, answers>>

Minion(k) ==
    \/ Receive(k) \/ Return(k) \/ AnswerFindJob(k)
    \/ FailFindJob(k) \/ ReturnAgain(k) \/ Die(k) \/ LoseReturn(k)

-----------------------------------------------------------------------------
(* The client.                                                             *)

\* run_job: publish the job; get_iter_returns sets its clocks
Publish ==
    /\ pc = "start"
    /\ pc' = "returns"
    /\ job' = [k \in Minions |-> "sent"]
    /\ UNCHANGED <<returns, asked, answers, faults, reportVars,
                   minions_running, checkVars, timerVars, history>>

\* fault: the job cannot be published.  run_job gives {}, which is the whole
\* report, or raises.
PublishFails ==
    /\ pc = "start"
    /\ Fault
    /\ pc' \in {"empty", "raised"}
    /\ UNCHANGED <<job, returns, asked, answers, reportVars, minions_running,
                   checkVars, timerVars, history>>

\* the next return event of the job; one of them may come again
ReadReturn ==
    /\ pc = "returns"
    /\ \E k \in returns :
         /\ returns' = returns \ {k}
         /\ found' = found \cup {k}
         /\ quiet' = IF k \in minions \ found THEN 0 ELSE quiet
    /\ UNCHANGED <<job, asked, answers, faults, pc, minions, missed,
                   minions_running, checkVars, timerVars, unheard, unasked>>

\* Mutant of EndOfReturns: everybody who was expected is reported as missing.
EndOfReturnsAll ==
    /\ pc' = "done"
    /\ missed' = minions

\* The end of the generator: cmd_cli reports who is missing, if that is
\* wanted; cmd reports everyone of whom it has no return.
EndOfReturns ==
    /\ pc' = "done"
    /\ missed' = CASE caller = "cmd" -> Minions \ found
                   [] caller = "cmd_cli" ->
                        IF ShowTimeout THEN minions \ found ELSE {}

\* Mutant of CountReturns: the limit that this fork added is not there.
CountReturnsUpstream ==
    /\ calCount' = Cardinality(minions \ found)
    /\ UNCHANGED <<totalCheckCount, timeout_loop>>

\* Mutant of CountReturns: a new return does not put the limit off.
CountReturnsOnce ==
    /\ calCount' = Cardinality(minions \ found)
    /\ totalCheckCount' = Up(totalCheckCount, CheckLimit)
    /\ UNCHANGED timeout_loop

\* No event is left: has the number of missing minions changed?  The count
\* that has reached CheckLimit stands for every greater one, which one
\* decrement may leave there.
CountReturns ==
    LET currentCalCount == Cardinality(minions \ found) IN
    IF currentCalCount = calCount
    THEN /\ totalCheckCount' = Up(totalCheckCount, CheckLimit)
         /\ UNCHANGED <<calCount, timeout_loop>>
    ELSE /\ calCount' = currentCalCount
         /\ timeout_loop' = Timeout
         /\ totalCheckCount' \in
              IF totalCheckCount = 0 THEN {0}
              ELSE IF totalCheckCount = CheckLimit
              THEN {CheckLimit - 1, CheckLimit} ELSE {totalCheckCount - 1}

\* gather_job_info: ask the minions that are missing; nobody has answered yet,
\* and what answers an earlier find_job has a tag that nobody reads any more
GatherJobInfo ==
    /\ asked' = minions \ found
    /\ answers' = {}
    /\ minions_running' = FALSE
    /\ timeout_at' = GatherTimeout
    /\ unasked' = 0

\* the limit of this fork is reached
LimitReached == timeout_loop' = 0 /\ totalCheckCount' >= CheckLimit

\* the checks after the last return event, before find_job
CheckReturns ==
    /\ pc = "returns"
    /\ returns = {}
    /\ CountReturns
    /\ \/ /\ LimitReached \/ minions \subseteq found
          /\ EndOfReturns
          /\ UNCHANGED <<asked, answers, minions_running, timeout_at,
                         minion_timeouts, unasked>>
       \/ /\ ~LimitReached
          /\ ~(minions \subseteq found)
          /\ pc' = "jinfo"
          /\ minion_timeouts' = [k \in Minions |->
                IF k \in minions \ found /\ minion_timeouts[k] = -1
                THEN Timeout ELSE minion_timeouts[k]]
          /\ IF timeout_at = 0 /\ minions_running
             THEN GatherJobInfo
             ELSE UNCHANGED <<asked, answers, minions_running, timeout_at,
                              unasked>>
          /\ UNCHANGED missed
    /\ UNCHANGED <<job, returns, faults, minions, found, quiet, unheard>>

\* fault: the master does not answer the publish of find_job, which raises
GatherRaises ==
    /\ pc = "returns"
    /\ returns = {}
    /\ timeout_at = 0 /\ minions_running
    /\ Fault
    /\ pc' = "raised"
    /\ UNCHANGED <<job, returns, asked, answers, reportVars, minions_running,
                   checkVars, timerVars, history>>

\* An answer to find_job.  A minion on which it failed is struck off the list,
\* and the rest of the answers is left for the next pass.
ReadAnswer ==
    /\ pc = "jinfo"
    /\ \E k \in Minions, a \in Answer :
         /\ <<k, a>> \in answers
         /\ answers' = answers \ {<<k, a>>}
         /\ \/ /\ a = "error"
               /\ minions' = minions \ {k}
               /\ pc' = "test"
               /\ UNCHANGED <<minions_running, minion_timeouts, unheard>>
            \/ /\ a = "running"
               /\ minions_running' = TRUE
               /\ minion_timeouts' = [minion_timeouts EXCEPT ![k] = Timeout]
               /\ unheard' = [unheard EXCEPT ![k] = 0]
               /\ UNCHANGED <<minions, pc>>
            \/ /\ a = "idle"
               /\ UNCHANGED <<minions, pc, minions_running, minion_timeouts,
                              unheard>>
    /\ UNCHANGED <<job, returns, asked, faults, found, missed, checkVars,
                   timeout_at, timeout_loop, quiet, unasked>>

NoMoreAnswers ==
    /\ pc = "jinfo"
    /\ answers = {}
    /\ pc' = "test"
    /\ UNCHANGED <<minionVars, reportVars, minions_running, checkVars,
                   timerVars, history>>

\* every minion that is missing has had its time, and so had find_job
Done ==
    /\ timeout_at = 0
    /\ ~minions_running
    /\ \A k \in minions \ found : minion_timeouts[k] = 0

\* the end of a pass: all timeouts, or sleep and go on
TestTimeouts ==
    /\ pc = "test"
    /\ IF Done THEN EndOfReturns ELSE pc' = "returns" /\ UNCHANGED missed
    /\ UNCHANGED <<minionVars, minions, found, minions_running, checkVars,
                   timerVars, history>>

Loop ==
    \/ Publish \/ ReadReturn \/ CheckReturns \/ ReadAnswer \/ NoMoreAnswers
    \/ TestTimeouts

\* Time passes.  The clocks count from the last new return (quiet), from the
\* moment a minion was known to run the job (unheard) and from the last
\* find_job (unasked).
Tick ==
    /\ pc \in Looping
    /\ timeout_at' = Down(timeout_at)
    /\ timeout_loop' = Down(timeout_loop)
    /\ minion_timeouts' = [k \in Minions |-> Down(minion_timeouts[k])]
    /\ quiet' = Up(quiet, Timeout)
    /\ unheard' = [k \in Minions |-> Up(unheard[k], Timeout)]
    /\ unasked' = Up(unasked, GatherTimeout)
    /\ UNCHANGED <<minionVars, pc, reportVars, minions_running, checkVars>>

\* what the minions do while the client listens
MinionSteps ==
    /\ pc \in Looping
    /\ \E k \in Minions : Minion(k)
    /\ UNCHANGED <<pc, reportVars, minions_running, checkVars, timerVars,
                   history>>

\* the report is final; what the minions still do does not reach it
Ended == pc \in {"done", "empty", "raised"} /\ UNCHANGED vars

Next ==
    \/ /\ Loop \/ PublishFails \/ GatherRaises \/ Tick \/ MinionSteps
       /\ UNCHANGED caller
    \/ Ended

Spec == Init /\ [][Next]_vars

\* the client polls and time passes; nothing is asked of the minions
FairSpec == Spec /\ WF_vars(Loop /\ UNCHANGED caller)
                  /\ WF_vars(Tick /\ UNCHANGED caller)

-----------------------------------------------------------------------------
(* Properties.                                                             *)

\* A minion is reported with no_return only when the client has waited:
\* 'timeout' since the last new return, or 'timeout' since the minion was last
\* known to run the job and 'gather_job_timeout' for an answer to find_job.
GivesUpInTime ==
    \A k \in missed \cap minions :
        \/ quiet = Timeout
        \/ unheard[k] = Timeout /\ unasked = GatherTimeout

\* How far the promise of FanOut has been kept.
status ==
    IF pc = "start" THEN "idle"
    ELSE IF pc \in Looping THEN "waiting"
    ELSE IF pc = "done" /\ (caller = "cmd" \/ ShowTimeout)
         THEN "complete" ELSE "partial"

\* What a client promises, see FanOut: in the end every minion is reported,
\* with its return or as missing; only cmd_cli leaves out those on which
\* find_job failed.
Abstract == INSTANCE FanOut WITH
    Everyone <- Minions,
    Wanted <- Minions,
    status <- status,
    accounted <- found \cup missed,
    missing <- IF pc = "done" /\ caller = "cmd_cli" THEN Minions \ minions ELSE {}

\* The client keeps the promise and, though a minion that runs the job may
\* never return, comes to an end.
ImplementsFairFanOut == Abstract!FairSpec
=============================================================================
