------------------------- MODULE LocalClientProofs -------------------------
(***************************************************************************)
(* Theorems about the client of a greenlet, LocalClient, for every set of  *)
(* minions, every value of the timeouts and of the limit, and any number   *)
(* of faults.                                                              *)
(***************************************************************************)
EXTENDS LocalClient, FiniteSetTheorems, TLAPS

-----------------------------------------------------------------------------
(* The inductive invariant.                                                *)

\* nobody is reported as missing before the end
NothingMissedYet == pc # "done" => missed = {}

\* The limit of the fork: calCount is the number of the missing at the last
\* check, or no check has been made; and as long as nobody has returned since,
\* timeout_loop has not run out before 'timeout' has passed.
LimitInStep ==
    /\ Cardinality(minions \ found) <= calCount \/ calCount = 0
    /\ \/ minions \subseteq found
       \/ calCount # Cardinality(minions \ found)
       \/ timeout_loop + quiet >= Timeout

\* The other timeouts: none has run out before its time has passed.
ClocksInStep ==
    /\ \A k \in minions : minion_timeouts[k] # -1 =>
            minion_timeouts[k] + unheard[k] >= Timeout
    /\ ~minions_running => timeout_at + unasked >= GatherTimeout

IInv == TypeOK /\ NothingMissedYet /\ LimitInStep /\ ClocksInStep /\ GivesUpInTime

-----------------------------------------------------------------------------
(* Lemmas.                                                                 *)

\* the number of those who are missing
LEMMA Counting ==
    ASSUME NEW S, S \subseteq Minions
    PROVE  /\ IsFiniteSet(S) /\ Cardinality(S) \in Nat
           /\ Cardinality(S) <= Cardinality(Minions)
           /\ Cardinality(S) = 0 <=> S = {}
BY FS_Subset, FS_CardinalityType, FS_EmptySet, ClientAssumption

\* there are fewer of them when one is found or struck off
LEMMA CountingLess ==
    ASSUME NEW S, S \subseteq Minions, NEW T, T \subseteq S, T # S
    PROVE  Cardinality(T) < Cardinality(S)
BY FS_Subset, FS_CardinalityType, ClientAssumption, Counting

\* a minion's step keeps the types of what it changes
LEMMA MinionType ==
    ASSUME TypeOK, MinionSteps
    PROVE  /\ job' \in [Minions -> {"none", "sent", "running", "returned", "dead"}]
           /\ returns' \subseteq Minions /\ asked' \subseteq Minions
           /\ answers' \subseteq Minions \X Answer
           /\ faults' \in 0 .. MaxFaults
<1> SUFFICES ASSUME NEW k \in Minions, Minion(k) PROVE
           /\ job' \in [Minions -> {"none", "sent", "running", "returned", "dead"}]
           /\ returns' \subseteq Minions /\ asked' \subseteq Minions
           /\ answers' \subseteq Minions \X Answer
           /\ faults' \in 0 .. MaxFaults
  BY DEF MinionSteps
<1> USE ClientAssumption DEF TypeOK, Answer, Fault
<1>1. CASE Receive(k)
  BY <1>1 DEF Receive
<1>2. CASE Return(k)
  BY <1>2 DEF Return
<1>3. CASE AnswerFindJob(k)
  BY <1>3 DEF AnswerFindJob
<1>4. CASE FailFindJob(k)
  BY <1>4 DEF FailFindJob
<1>5. CASE ReturnAgain(k)
  BY <1>5 DEF ReturnAgain
<1>6. CASE Die(k)
  BY <1>6 DEF Die
<1>7. CASE LoseReturn(k)
  BY <1>7 DEF LoseReturn
<1> QED
  BY <1>1, <1>2, <1>3, <1>4, <1>5, <1>6, <1>7 DEF Minion

\* whom the end of the loop reports as missing
LEMMA EndMisses ==
    ASSUME TypeOK, EndOfReturns
    PROVE  /\ missed' \subseteq Minions \ found
           /\ missed' \cap minions \subseteq minions \ found
           /\ pc' = "done"
BY DEF TypeOK, EndOfReturns

\* the count of the passes and the fork's limit, after the last return event
LEMMA CountType ==
    ASSUME TypeOK, CountReturns
    PROVE  /\ totalCheckCount' \in 0 .. CheckLimit
           /\ calCount' = Cardinality(minions \ found)
           /\ calCount' \in 0 .. Cardinality(Minions)
           /\ timeout_loop' \in 0 .. Timeout
           /\ timeout_loop' = Timeout \/
                (calCount = calCount' /\ timeout_loop' = timeout_loop)
<1>1. Cardinality(minions \ found) \in 0 .. Cardinality(Minions)
  BY Counting, FS_CardinalityType, ClientAssumption DEF TypeOK
<1>2. totalCheckCount' \in 0 .. CheckLimit
  BY ClientAssumption DEF TypeOK, CountReturns, Up
<1> QED
  BY <1>1, <1>2, ClientAssumption DEF TypeOK, CountReturns
-----------------------------------------------------------------------------
(* The invariant is inductive.                                             *)

\* At the beginning nothing is published, and every clock agrees with its timer.
LEMMA InductiveInit == Init => IInv
<1> SUFFICES ASSUME Init PROVE IInv
  OBVIOUS
<1>1. Cardinality(Minions) \in Nat
  BY Counting
<1>2. TypeOK
  BY <1>1, ClientAssumption DEF Init, TypeOK
<1> QED
  BY <1>2, ClientAssumption
  DEF Init, IInv, NothingMissedYet, LimitInStep, ClocksInStep, GivesUpInTime

\* Publishing the command sets the timers and resets their clocks.
LEMMA PublishKeeps == ASSUME IInv, Publish, caller' = caller PROVE IInv'
<1>1. TypeOK'
  BY DEF IInv, TypeOK, Publish, reportVars, checkVars, timerVars, history, Looping
<1> QED
  BY <1>1 DEF IInv, Publish, reportVars, checkVars, timerVars, history,
              NothingMissedYet, LimitInStep, ClocksInStep, GivesUpInTime

\* a new return makes the count of the missing differ from that of the last
\* check
LEMMA ReadReturnKeeps == ASSUME IInv, ReadReturn, caller' = caller PROVE IInv'
<1> PICK k \in returns : /\ returns' = returns \ {k}
                         /\ found' = found \cup {k}
                         /\ quiet' = IF k \in minions \ found THEN 0 ELSE quiet
  BY DEF ReadReturn
<1>1. pc = "returns" /\ pc' = pc /\ missed = {} /\ missed' = {}
  BY DEF ReadReturn, IInv, NothingMissedYet
<1>2. TypeOK'
  BY <1>1, ClientAssumption
  DEF IInv, TypeOK, ReadReturn, checkVars, timerVars
<1>3. LimitInStep'
  <2>1. minions \ found \subseteq Minions /\ minions' \ found' \subseteq minions \ found
    BY DEF IInv, TypeOK, ReadReturn
  <2>2. CASE k \in minions \ found
    <3>1. Cardinality(minions' \ found') < Cardinality(minions \ found)
      BY <2>1, <2>2, CountingLess DEF ReadReturn
    <3>2. Cardinality(minions' \ found') \in Nat /\ Cardinality(minions \ found) \in Nat
          /\ (Cardinality(minions' \ found') = 0 => minions' \ found' = {})
      BY <2>1, Counting
    <3> QED
      BY <3>1, <3>2 DEF IInv, LimitInStep, TypeOK, ReadReturn, checkVars
  <2>3. CASE k \notin minions \ found
    <3>1. minions' \ found' = minions \ found /\ quiet' = quiet
      BY <2>3 DEF ReadReturn
    <3> QED
      BY <3>1 DEF IInv, LimitInStep, ReadReturn, checkVars, timerVars
  <2> QED
    BY <2>2, <2>3
<1> QED
  BY <1>1, <1>2, <1>3
  DEF IInv, ReadReturn, timerVars, NothingMissedYet, ClocksInStep, GivesUpInTime

\* the end of the loop by the limit comes when 'timeout' has passed
LEMMA CheckReturnsKeeps == ASSUME IInv, CheckReturns, caller' = caller PROVE IInv'
<1>t. TypeOK /\ CountReturns /\ pc = "returns" /\ missed = {}
  BY DEF IInv, CheckReturns, NothingMissedYet
<1>c. /\ totalCheckCount' \in 0 .. CheckLimit
      /\ calCount' = Cardinality(minions \ found)
      /\ calCount' \in 0 .. Cardinality(Minions)
      /\ timeout_loop' \in 0 .. Timeout
      /\ timeout_loop' = Timeout \/
           (calCount = calCount' /\ timeout_loop' = timeout_loop)
  BY <1>t, CountType
<1>m. minions' = minions /\ found' = found /\ quiet' = quiet /\ unheard' = unheard
  BY DEF CheckReturns
<1>l. LimitInStep'
  <2>1. /\ minions' \ found' = minions \ found
        /\ minions' \subseteq found' <=> minions \subseteq found
        /\ calCount' \in Int
    BY <1>c, <1>m
  <2>2. CASE timeout_loop' = Timeout
    <3>1. timeout_loop' + quiet' >= Timeout
      BY <1>t, <1>m, <2>2, ClientAssumption DEF TypeOK
    <3> QED
      BY <1>c, <2>1, <3>1 DEF LimitInStep
  <2>3. CASE calCount = calCount' /\ timeout_loop' = timeout_loop
    <3>1. minions \subseteq found \/ timeout_loop' + quiet' >= Timeout
      BY <1>c, <1>m, <2>3 DEF IInv, LimitInStep
    <3> QED
      BY <1>c, <2>1, <3>1 DEF LimitInStep
  <2> QED
    BY <1>c, <2>2, <2>3
<1>1. CASE /\ LimitReached \/ minions \subseteq found
           /\ EndOfReturns
           /\ UNCHANGED <<asked, answers, minions_running, timeout_at,
                          minion_timeouts, unasked>>
  <2>1. /\ missed' \subseteq Minions \ found
        /\ missed' \cap minions \subseteq minions \ found
        /\ pc' = "done"
    BY <1>1, <1>t, EndMisses
  <2>2. TypeOK'
    BY <1>1, <1>t, <1>c, <1>m, <2>1 DEF TypeOK, CheckReturns
  <2>3. CASE minions \subseteq found
    BY <1>1, <1>m, <1>l, <2>1, <2>2, <2>3
    DEF IInv, NothingMissedYet, ClocksInStep, GivesUpInTime
  <2>4. CASE LimitReached /\ ~(minions \subseteq found)
    <3>1. timeout_loop' = 0 /\ timeout_loop = 0 /\ calCount = Cardinality(minions \ found)
      BY <2>4, <1>c, ClientAssumption DEF LimitReached
    <3>2. quiet = Timeout
      BY <3>1, <2>4, <1>t, ClientAssumption DEF IInv, LimitInStep, TypeOK
    <3> QED
      BY <1>1, <1>m, <1>l, <2>1, <2>2, <3>2
      DEF IInv, NothingMissedYet, ClocksInStep, GivesUpInTime
  <2> QED
    BY <1>1, <2>3, <2>4
<1>2. CASE /\ ~LimitReached
           /\ ~(minions \subseteq found)
           /\ pc' = "jinfo"
           /\ minion_timeouts' = [k \in Minions |->
                 IF k \in minions \ found /\ minion_timeouts[k] = -1
                 THEN Timeout ELSE minion_timeouts[k]]
           /\ IF timeout_at = 0 /\ minions_running
              THEN GatherJobInfo
              ELSE UNCHANGED <<asked, answers, minions_running, timeout_at,
                               unasked>>
           /\ UNCHANGED missed
  <2>1. /\ asked' \subseteq Minions /\ answers' \subseteq Minions \X Answer
        /\ minions_running' \in BOOLEAN
        /\ timeout_at' \in 0 .. Timeout + GatherTimeout
        /\ unasked' \in 0 .. GatherTimeout
        /\ ~minions_running' => timeout_at' + unasked' >= GatherTimeout
    <3>1. CASE GatherJobInfo
      <4>1. timeout_at' = GatherTimeout /\ unasked' = 0
        BY <3>1 DEF GatherJobInfo
      <4>2. /\ timeout_at' \in 0 .. Timeout + GatherTimeout
            /\ unasked' \in 0 .. GatherTimeout
            /\ timeout_at' + unasked' >= GatherTimeout
        BY <4>1, ClientAssumption
      <4>3. /\ asked' \subseteq Minions /\ answers' \subseteq Minions \X Answer
            /\ minions_running' \in BOOLEAN
        BY <3>1, <1>t DEF TypeOK, GatherJobInfo
      <4> QED
        BY <4>2, <4>3
    <3>2. CASE UNCHANGED <<asked, answers, minions_running, timeout_at, unasked>>
      BY <3>2, <1>t DEF IInv, TypeOK, ClocksInStep
    <3> QED
      BY <1>2, <3>1, <3>2
  <2>2. minion_timeouts' \in [Minions -> -1 .. Timeout]
    BY <1>2, <1>t, ClientAssumption DEF TypeOK
  <2>3. TypeOK'
    BY <1>2, <1>t, <1>c, <1>m, <2>1, <2>2 DEF TypeOK, CheckReturns, Looping
  <2>4. \A k \in minions' : minion_timeouts'[k] # -1 =>
            minion_timeouts'[k] + unheard'[k] >= Timeout
    <3> SUFFICES ASSUME NEW k \in minions, minion_timeouts'[k] # -1
                 PROVE  minion_timeouts'[k] + unheard[k] >= Timeout
      BY <1>m
    <3>1. k \in Minions /\ unheard[k] \in 0 .. Timeout
      BY <1>t DEF TypeOK
    <3> QED
      BY <1>2, <3>1, ClientAssumption DEF IInv, ClocksInStep
  <2> QED
    BY <1>2, <1>t, <1>l, <2>1, <2>3, <2>4
    DEF IInv, NothingMissedYet, ClocksInStep, GivesUpInTime
<1> QED
  BY <1>1, <1>2 DEF CheckReturns

\* The client that cannot publish its job ends with what it has begun with.
LEMMA PublishFailsKeeps == ASSUME IInv, PublishFails, caller' = caller PROVE IInv'
<1>1. TypeOK'
  BY ClientAssumption
  DEF IInv, TypeOK, PublishFails, Fault, reportVars, checkVars, timerVars, history
<1> QED
  BY <1>1 DEF IInv, PublishFails, reportVars, checkVars, timerVars, history,
              NothingMissedYet, LimitInStep, ClocksInStep, GivesUpInTime, Looping

\* A find_job that fails strikes its minions off, and keeps the invariant.
LEMMA GatherRaisesKeeps == ASSUME IInv, GatherRaises, caller' = caller PROVE IInv'
<1>1. TypeOK'
  BY ClientAssumption
  DEF IInv, TypeOK, GatherRaises, Fault, reportVars, checkVars, timerVars, history
<1> QED
  BY <1>1 DEF IInv, GatherRaises, reportVars, checkVars, timerVars, history,
              NothingMissedYet, LimitInStep, ClocksInStep, GivesUpInTime

\* a minion that is struck off makes the count of the missing differ, too
LEMMA ReadAnswerKeeps == ASSUME IInv, ReadAnswer, caller' = caller PROVE IInv'
<1>t. TypeOK /\ pc = "jinfo" /\ missed = {} /\ missed' = {} /\ found' = found
      /\ quiet' = quiet
  BY DEF IInv, ReadAnswer, NothingMissedYet
<1> PICK k \in Minions, a \in Answer :
         /\ <<k, a>> \in answers
         /\ answers' = answers \ {<<k, a>>}
         /\ \/ /\ a = "error"
               /\ minions' = minions \ {k}
               /\ pc' = "test"
               /\ UNCHANGED <<minions_running, minion_timeouts, unheard>>
            \/ /\ a = "running"
               /\ minions_running' = TRUE
               /\ minion_timeouts' = [minion_timeouts EXCEPT ![k] = Timeout]
               /\ unheard' = [unheard EXCEPT ![k] = 0]
               /\ UNCHANGED <<minions, pc>>
            \/ /\ a = "idle"
               /\ UNCHANGED <<minions, pc, minions_running, minion_timeouts,
                              unheard>>
  BY DEF ReadAnswer
<1>1. TypeOK'
  <2>1. /\ answers' \subseteq Minions \X Answer
        /\ minions' \subseteq Minions
        /\ pc' \in Looping
        /\ minions_running' \in BOOLEAN
    BY <1>t DEF TypeOK, Looping
  <2>2. minion_timeouts' \in [Minions -> -1 .. Timeout]
    BY <1>t, ClientAssumption DEF TypeOK
  <2>3. unheard' \in [Minions -> 0 .. Timeout]
    BY <1>t, ClientAssumption DEF TypeOK
  <2> QED
    BY <1>t, <2>1, <2>2, <2>3 DEF TypeOK, ReadAnswer, checkVars
<1>2. LimitInStep'
  <2>1. minions \ found \subseteq Minions /\ minions' \ found' \subseteq minions \ found
    BY <1>t DEF TypeOK
  <2>2. CASE minions' \ found' = minions \ found
    BY <1>t, <2>2 DEF IInv, LimitInStep, ReadAnswer, checkVars
  <2>3. CASE minions' \ found' # minions \ found
    <3>1. Cardinality(minions' \ found') < Cardinality(minions \ found)
      BY <2>1, <2>3, CountingLess
    <3>2. Cardinality(minions' \ found') \in Nat /\ Cardinality(minions \ found) \in Nat
          /\ (Cardinality(minions' \ found') = 0 => minions' \ found' = {})
      BY <2>1, Counting
    <3> QED
      BY <1>t, <3>1, <3>2 DEF IInv, LimitInStep, TypeOK, ReadAnswer, checkVars
  <2> QED
    BY <2>2, <2>3
<1>3. ClocksInStep'
  BY <1>t, ClientAssumption DEF IInv, TypeOK, ClocksInStep, ReadAnswer
<1> QED
  BY <1>t, <1>1, <1>2, <1>3 DEF IInv, NothingMissedYet, GivesUpInTime

\* The end of a find_job, with the checks that follow it in the loop's body.
LEMMA NoMoreAnswersKeeps ==
    ASSUME IInv, NoMoreAnswers, caller' = caller PROVE IInv'
<1>1. TypeOK'
  BY DEF IInv, TypeOK, NoMoreAnswers, minionVars, reportVars, checkVars,
         timerVars, history, Looping
<1> QED
  BY <1>1 DEF IInv, NoMoreAnswers, reportVars, checkVars, timerVars, history,
              NothingMissedYet, LimitInStep, ClocksInStep, GivesUpInTime

\* the end of the loop by the timeouts comes when all of them have passed
LEMMA TestTimeoutsKeeps ==
    ASSUME IInv, TestTimeouts, caller' = caller PROVE IInv'
<1>t. /\ TypeOK /\ pc = "test" /\ missed = {}
      /\ UNCHANGED <<minionVars, minions, found, minions_running, checkVars,
                     timerVars, history>>
  BY DEF IInv, TestTimeouts, NothingMissedYet
<1>1. LimitInStep' /\ ClocksInStep'
  BY <1>t DEF IInv, checkVars, timerVars, history, LimitInStep, ClocksInStep
<1>2. CASE Done /\ EndOfReturns
  <2>1. /\ missed' \subseteq Minions \ found
        /\ missed' \cap minions \subseteq minions \ found
        /\ pc' = "done"
    BY <1>2, <1>t, EndMisses
  <2>2. TypeOK'
    BY <1>t, <2>1 DEF TypeOK, minionVars, checkVars, timerVars, history
  <2>3. \A k \in minions \ found : unheard[k] = Timeout /\ unasked = GatherTimeout
    <3> SUFFICES ASSUME NEW k \in minions \ found
                 PROVE  unheard[k] = Timeout /\ unasked = GatherTimeout
      OBVIOUS
    <3>1. minion_timeouts[k] = 0 /\ timeout_at = 0 /\ ~minions_running
      BY <1>2 DEF Done
    <3>2. k \in Minions /\ unheard[k] \in 0 .. Timeout /\ unasked \in 0 .. GatherTimeout
      BY <1>t DEF TypeOK
    <3> QED
      BY <3>1, <3>2, ClientAssumption DEF IInv, ClocksInStep
  <2> QED
    BY <1>t, <1>1, <2>1, <2>2, <2>3
    DEF IInv, NothingMissedYet, GivesUpInTime, history
<1>3. CASE pc' = "returns" /\ UNCHANGED missed
  <2>1. TypeOK'
    BY <1>t, <1>3
    DEF TypeOK, minionVars, checkVars, timerVars, history, Looping
  <2> QED
    BY <1>t, <1>1, <1>3, <2>1 DEF IInv, NothingMissedYet, GivesUpInTime
<1> QED
  BY <1>2, <1>3 DEF TestTimeouts

\* a countdown and the clock beside it move together
LEMMA TickKeeps == ASSUME IInv, Tick, caller' = caller PROVE IInv'
<1>t. TypeOK /\ pc # "done" /\ missed = {}
  BY DEF IInv, Tick, NothingMissedYet, Looping
<1>u. UNCHANGED <<minionVars, pc, reportVars, minions_running, checkVars>>
  BY DEF Tick
<1>1. /\ timeout_at' = Down(timeout_at) /\ timeout_loop' = Down(timeout_loop)
      /\ minion_timeouts' = [k \in Minions |-> Down(minion_timeouts[k])]
      /\ quiet' = Up(quiet, Timeout)
      /\ unheard' = [k \in Minions |-> Up(unheard[k], Timeout)]
      /\ unasked' = Up(unasked, GatherTimeout)
  BY DEF Tick
<1>2. /\ timeout_at' \in 0 .. Timeout + GatherTimeout
      /\ timeout_loop' \in 0 .. Timeout
      /\ quiet' \in 0 .. Timeout
      /\ unasked' \in 0 .. GatherTimeout
      /\ timeout_loop + quiet >= Timeout => timeout_loop' + quiet' >= Timeout
      /\ timeout_at + unasked >= GatherTimeout =>
            timeout_at' + unasked' >= GatherTimeout
  BY <1>t, <1>1, ClientAssumption DEF TypeOK, Up, Down
<1>3. ASSUME NEW k \in Minions
      PROVE  /\ minion_timeouts'[k] \in -1 .. Timeout
             /\ unheard'[k] \in 0 .. Timeout
             /\ minion_timeouts'[k] # -1 => minion_timeouts[k] # -1
             /\ minion_timeouts[k] # -1 /\ minion_timeouts[k] + unheard[k] >= Timeout
                  => minion_timeouts'[k] + unheard'[k] >= Timeout
  <2>1. minion_timeouts[k] \in -1 .. Timeout /\ unheard[k] \in 0 .. Timeout
    BY <1>t DEF TypeOK
  <2>2. minion_timeouts'[k] = Down(minion_timeouts[k])
        /\ unheard'[k] = Up(unheard[k], Timeout)
    BY <1>1
  <2> QED
    BY <2>1, <2>2, ClientAssumption DEF Up, Down
<1>4. TypeOK'
  <2>1. minion_timeouts' \in [Minions -> -1 .. Timeout]
        /\ unheard' \in [Minions -> 0 .. Timeout]
    BY <1>1, <1>3
  <2> QED
    BY <1>t, <1>u, <1>2, <2>1 DEF TypeOK, minionVars, reportVars, checkVars
<1>5. LimitInStep'
  BY <1>u, <1>2 DEF IInv, LimitInStep, reportVars, checkVars
<1>6. ClocksInStep'
  <2>1. minions \subseteq Minions
    BY <1>t DEF TypeOK
  <2> QED
    BY <1>u, <1>2, <1>3, <2>1 DEF IInv, ClocksInStep, reportVars
<1> QED
  BY <1>t, <1>u, <1>4, <1>5, <1>6
  DEF IInv, NothingMissedYet, GivesUpInTime, reportVars

\* What the minions do is not seen by the client before it reads.
LEMMA MinionStepsKeep == ASSUME IInv, MinionSteps, caller' = caller PROVE IInv'
<1>1. UNCHANGED <<pc, reportVars, minions_running, checkVars, timerVars, history>>
  BY DEF MinionSteps
<1>2. TypeOK'
  BY <1>1, MinionType
  DEF IInv, TypeOK, reportVars, checkVars, timerVars, history
<1> QED
  BY <1>1, <1>2 DEF IInv, reportVars, checkVars, timerVars, history,
                    NothingMissedYet, LimitInStep, ClocksInStep, GivesUpInTime

\* Every step keeps the invariant.
LEMMA InductiveStep == IInv /\ [Next]_vars => IInv'
<1> SUFFICES ASSUME IInv, [Next]_vars PROVE IInv'
  OBVIOUS
<1>1. CASE Loop /\ UNCHANGED caller
  BY <1>1, PublishKeeps, ReadReturnKeeps, CheckReturnsKeeps, ReadAnswerKeeps,
     NoMoreAnswersKeeps, TestTimeoutsKeeps DEF Loop
<1>2. CASE (PublishFails \/ GatherRaises \/ Tick \/ MinionSteps) /\ UNCHANGED caller
  BY <1>2, PublishFailsKeeps, GatherRaisesKeeps, TickKeeps, MinionStepsKeep
<1>3. CASE UNCHANGED vars
  BY <1>3 DEF vars, minionVars, reportVars, checkVars, timerVars, history, IInv,
              TypeOK, NothingMissedYet, LimitInStep, ClocksInStep, GivesUpInTime
<1> QED
  BY <1>1, <1>2, <1>3 DEF Next, Ended

\* The invariant holds in every state.
LEMMA Inductive == Spec => []IInv
BY InductiveInit, InductiveStep, PTL DEF Spec

-----------------------------------------------------------------------------
(* Theorems.                                                               *)

\* The variables of the client and of its minions have their types
\* (get_iter_returns, get_cli_event_returns).
THEOREM ClientTypeCorrect == Spec => []TypeOK
<1>1. IInv => TypeOK
  BY DEF IInv
<1> QED
  BY <1>1, Inductive, PTL

\* Nobody is reported with no_return before 'timeout' has passed since the
\* last new return, or since the minion was last known to run the job, with
\* 'gather_job_timeout' for an answer to find_job: whatever the values of the
\* timeouts and of the fork's limit, and whatever gets lost (get_iter_returns).
THEOREM GivesUpOnlyInTime == Spec => []GivesUpInTime
<1>1. IInv => GivesUpInTime
  BY DEF IInv
<1> QED
  BY <1>1, Inductive, PTL

\* The client implements the safety part of FanOut: when it comes to an end
\* every minion is in its report, with its return or as missing, but for those
\* on which find_job failed (cmd, cmd_cli).
THEOREM ClientImplementsFanOut == Spec => Abstract!Spec
<1> DEFINE struck == IF pc = "done" /\ caller = "cmd_cli" THEN Minions \ minions ELSE {}
<1>1. Init => Abstract!Init
  BY DEF Init, Abstract!Init, status
<1>2. ASSUME IInv, IInv', [Next]_vars PROVE [Abstract!Next]_Abstract!vars
  <2>t. TypeOK /\ TypeOK' /\ (pc # "done" => missed = {})
    BY <1>2 DEF IInv, NothingMissedYet
  <2>1. CASE Publish /\ UNCHANGED caller
    <3>1. /\ status = "idle" /\ status' = "waiting"
          /\ UNCHANGED <<found, missed>> /\ struck = {} /\ struck' = {} \cup {}
      BY <2>1 DEF Publish, status, Looping, reportVars
    <3> QED
      BY <3>1 DEF Abstract!Next, Abstract!Ask, Abstract!Lose
  <2>2. CASE ReadReturn /\ UNCHANGED caller
    <3>1. PICK k \in returns : found' = found \cup {k}
      BY <2>2 DEF ReadReturn
    <3>2. /\ status = "waiting" /\ status' = "waiting"
          /\ found' \cup missed' = (found \cup missed) \cup {k}
          /\ {k} \in SUBSET Minions
          /\ struck = {} /\ struck' = {} \cup {}
      BY <2>2, <2>t, <3>1 DEF ReadReturn, status, Looping, TypeOK
    <3> QED
      BY <3>2 DEF Abstract!Next, Abstract!Gather, Abstract!Collect, Abstract!Lose
  <2>3. ASSUME pc \in {"returns", "test"}, EndOfReturns, minions' = minions,
               found' = found, caller' = caller
        PROVE  Abstract!Next
    <3>1. /\ status = "waiting" /\ struck = {} /\ missed = {} /\ pc' = "done"
          /\ missed' \subseteq Minions \ found
      BY <2>3, <2>t, EndMisses DEF status, Looping
    <3>2. Abstract!Collect
      <4>1. found' \cup missed' = (found \cup missed) \cup missed'
            /\ missed' \in SUBSET Minions
            /\ struck' = struck \cup struck' /\ struck' \in SUBSET Minions
        BY <2>3, <3>1
      <4> HIDE DEF struck
      <4>2. Abstract!Lose
        BY <4>1 DEF Abstract!Lose, struck
      <4> QED
        BY <4>1, <4>2 DEF Abstract!Collect
    <3>3. CASE caller = "cmd" \/ ShowTimeout
      <4>1. status' = "complete"
        BY <2>3, <3>1, <3>3 DEF status, Looping
      <4>2. Minions \subseteq (found' \cup missed') \cup struck'
        BY <2>3, <2>t, <3>1, <3>3 DEF EndOfReturns, TypeOK
      <4> QED
        BY <3>1, <3>2, <4>1, <4>2 DEF Abstract!Next, Abstract!Complete
    <3>4. CASE ~(caller = "cmd" \/ ShowTimeout)
      <4>1. status' = "partial"
        BY <2>3, <3>1, <3>4 DEF status, Looping
      <4> QED
        BY <3>1, <3>2, <4>1 DEF Abstract!Next, Abstract!GiveUp
    <3> QED
      BY <3>3, <3>4
  <2>4. ASSUME pc \in Looping, pc' \in Looping, UNCHANGED <<found, missed, caller>>
        PROVE  UNCHANGED Abstract!vars
    BY <2>4 DEF Abstract!vars, status, Looping
  <2>5. CASE CheckReturns /\ UNCHANGED caller
    <3>1. pc = "returns" /\ minions' = minions /\ found' = found
          /\ (EndOfReturns \/ (pc' = "jinfo" /\ UNCHANGED missed))
      BY <2>5 DEF CheckReturns
    <3> QED
      BY <2>3, <2>4, <2>5, <3>1 DEF Looping
  <2>6. CASE TestTimeouts /\ UNCHANGED caller
    <3>1. pc = "test" /\ minions' = minions /\ found' = found
          /\ (EndOfReturns \/ (pc' = "returns" /\ UNCHANGED missed))
      BY <2>6 DEF TestTimeouts
    <3> QED
      BY <2>3, <2>4, <2>6, <3>1 DEF Looping
  <2>7. CASE (ReadAnswer \/ NoMoreAnswers \/ Tick \/ MinionSteps) /\ UNCHANGED caller
    <3>1. pc \in Looping /\ pc' \in Looping /\ UNCHANGED <<found, missed, caller>>
      BY <2>7 DEF ReadAnswer, NoMoreAnswers, Tick, MinionSteps, reportVars, Looping
    <3> QED
      BY <2>4, <3>1
  <2>8. CASE GatherRaises /\ UNCHANGED caller
    <3>1. /\ status = "waiting" /\ status' = "partial"
          /\ found' \cup missed' = (found \cup missed) \cup {}
          /\ struck = {} /\ struck' = {} \cup {}
      BY <2>8 DEF GatherRaises, status, Looping, reportVars
    <3> QED
      BY <3>1 DEF Abstract!Next, Abstract!GiveUp, Abstract!Collect, Abstract!Lose
  <2>9. CASE PublishFails /\ UNCHANGED caller
    <3>1. /\ status = "idle" /\ status' = "partial"
          /\ UNCHANGED <<found, missed>> /\ struck = {} /\ struck' = {} \cup {}
      BY <2>9 DEF PublishFails, status, Looping, reportVars
    <3> QED
      BY <3>1 DEF Abstract!Next, Abstract!GiveUp, Abstract!Lose
  <2>10. CASE UNCHANGED vars
    BY <2>10 DEF vars, reportVars, Abstract!vars, status, Looping
  <2> QED
    BY <1>2, <2>1, <2>2, <2>5, <2>6, <2>7, <2>8, <2>9, <2>10 DEF Next, Loop, Ended
<1> QED
  BY <1>1, <1>2, Inductive, PTL DEF Spec, Abstract!Spec
=============================================================================
