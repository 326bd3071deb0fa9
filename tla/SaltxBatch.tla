----------------------------- MODULE SaltxBatch -----------------------------
(***************************************************************************)
(* The batch mode of the salt command line: the batch branch of new_run,   *)
(* batchExecuteCallback and batchRun in salt/cli/salt.py.                  *)
(*                                                                         *)
(* With target '*' the client first asks every maid for its minions        *)
(* (FIND_ACCEPT).  It then runs the targets in rounds of at most Hold: a   *)
(* round publishes a SYNC_RUN for the minions of batch_running and reads   *)
(* messages until all of them have been reported.  All rounds share one    *)
(* topic and the two lists resultPingSet and resultExeSet.                 *)
(***************************************************************************)
EXTENDS Maid

CONSTANTS
    Keys,       \* the nodes whose keys the super master has accepted
    SelfIp,     \* the super master's own id
    TgtAll,     \* the target is '*'
    Targets,    \* else: the list of minions that is the target
    Hold,       \* the batch size, when it is given as a number
    FaTopic,    \* the private topic of the FIND_ACCEPT
    Topic       \* the private topic of the rounds

ASSUME BatchAssumption ==
    /\ Keys \subseteq Maids
    /\ TgtAll \in BOOLEAN
    /\ Targets \subseteq Minions
    /\ Hold \in Nat \ {0}
    /\ {FaTopic, Topic} \subseteq Topics /\ FaTopic # Topic

VARIABLES
    percent,        \* the size is given as a percentage: batch_hold is a float
    pc,             \* "start", "gather", "fill", "listening", "done", "raised"
    ping1stCount,   \* PINGs of known maids to the FIND_ACCEPT
    work1stcount,   \* WORKs and INTERRUPTs to the FIND_ACCEPT
    batch_init,     \* the targets still to be run
    batch_running,  \* the targets of this round that have not been reported
    intry,          \* this round runs inside the try, not in its handler
    round,          \* how many commands have been published on Topic
    resultPings,    \* len(resultPingSet)
    resultExes,     \* len(resultExeSet)
    sucset,         \* the minions that have returned
    notReturned,    \* the minions of noResponseRet and noConnectRet
    repeatet,       \* the minions that have returned again
    expired         \* time.time() - executeStart > sub_timeout

gatherVars == <<percent, ping1stCount, work1stcount>>
batchVars  == <<batch_init, batch_running, intry, round>>
countVars  == <<resultPings, resultExes>>
reportVars == <<sucset, notReturned, repeatet>>
clientVars == <<pc, gatherVars, batchVars, countVars, reportVars, expired>>
vars == <<maidVars, clientVars>>

comeSubList == Keys \ {SelfIp}

TypeOK ==
    /\ MaidTypeOK
    /\ percent \in BOOLEAN
    /\ pc \in {"start", "gather", "fill", "listening", "done", "raised"}
    /\ ping1stCount \in Nat /\ work1stcount \in Nat
    /\ batch_init \subseteq Minions
    /\ batch_running \subseteq Minions
    /\ intry \in BOOLEAN
    /\ round \in Nat
    /\ resultPings \in Nat /\ resultExes \in Nat
    /\ sucset \subseteq Minions
    /\ notReturned \subseteq Minions
    /\ repeatet \subseteq sucset
    /\ expired \in BOOLEAN

Init ==
    /\ MaidInit
    /\ percent \in BOOLEAN
    /\ pc = "start"
    /\ ping1stCount = 0 /\ work1stcount = 0
    /\ batch_init = {} /\ batch_running = {}
    /\ intry = TRUE
    /\ round = 0
    /\ resultPings = 0 /\ resultExes = 0
    /\ sucset = {} /\ notReturned = {} /\ repeatet = {}
    /\ expired = FALSE

callResult(t) == Head(inbox[t])

Reads(t, kinds) ==
    /\ inbox[t] # <<>>
    /\ callResult(t).kind \in kinds

-----------------------------------------------------------------------------
(* Which minions?                                                          *)

\* the target is a list: subscribe to the topic of the rounds
TakeList ==
    /\ pc = "start" /\ ~TgtAll
    /\ batch_init' = Targets
    /\ Subscribe(Topic)
    /\ pc' = "fill"
    /\ UNCHANGED <<up, cmdq, tasks, sent, lost, faults, gatherVars, batch_running,
                   intry, round, countVars, reportVars, expired>>

\* the target is '*': subscribe, then publish FIND_ACCEPT
FindAccept ==
    /\ pc = "start" /\ TgtAll
    /\ Subscribe(FaTopic)
    /\ PublishToSyndicSub([topic |-> FaTopic, round |-> 1,
            type |-> FIND_ACCEPT, tgt |-> [kind |-> "all", ids |-> {}]])
    /\ pc' = "gather"
    /\ UNCHANGED <<up, tasks, sent, lost, faults, gatherVars, batchVars, countVars,
                   reportVars, expired>>

GatherNext == inbox' = [inbox EXCEPT ![FaTopic] = Tail(@)]

\* Mutant of GatherGoesOn: a maid's minions are appended as one target.
GatherGoesOnNested ==
    /\ pc = "gather"
    /\ Reads(FaTopic, {"subscribe", "ping", "data"})
    /\ ping1stCount' = ping1stCount +
         (IF callResult(FaTopic).kind = "ping" THEN 1 ELSE 0)
    /\ batch_init' = IF callResult(FaTopic).kind = "data"
                     THEN batch_init \cup {callResult(FaTopic).items}
                     ELSE batch_init
    /\ GatherNext
    /\ UNCHANGED <<up, cmdq, tasks, subscribed, sent, lost, faults, pc, percent,
                   work1stcount, batch_running, intry, round, countVars,
                   reportVars, expired>>

\* a message that the loop of the FIND_ACCEPT goes on after
GatherGoesOn ==
    /\ pc = "gather"
    /\ Reads(FaTopic, {"subscribe", "ping", "data"})
    /\ ping1stCount' = IF /\ callResult(FaTopic).kind = "ping"
                          /\ callResult(FaTopic).sub_ip \in Keys
                       THEN ping1stCount + 1 ELSE ping1stCount
    /\ batch_init' = IF callResult(FaTopic).kind = "data"
                     THEN batch_init \cup callResult(FaTopic).items
                     ELSE batch_init
    /\ GatherNext
    /\ UNCHANGED <<up, cmdq, tasks, subscribed, sent, lost, faults, pc, percent,
                   work1stcount, batch_running, intry, round, countVars,
                   reportVars, expired>>

\* WORK or INTERRUPT: the loop ends when all the known maids have answered
\* both ways; then the client moves to the topic of the rounds
GatherResult ==
    /\ pc = "gather"
    /\ Reads(FaTopic, {"work", "interrupt"})
    /\ work1stcount' = work1stcount + 1
    /\ IF ping1stCount = work1stcount' /\ work1stcount' = Cardinality(Keys)
       THEN /\ pc' = "fill"
            /\ subscribed' = {Topic}
            /\ inbox' = [inbox EXCEPT ![FaTopic] = <<>>,
                                      ![Topic] = <<[kind |-> "subscribe"]>>]
       ELSE GatherNext /\ UNCHANGED <<pc, subscribed>>
    /\ UNCHANGED <<up, cmdq, tasks, sent, lost, faults, percent, ping1stCount, batchVars,
                   countVars, reportVars, expired>>

-----------------------------------------------------------------------------
(* The rounds.                                                             *)

\* batchRun starts: publish a SYNC_RUN for the minions in S
PublishRound(S) ==
    /\ PublishToSyndicSub([topic |-> Topic, round |-> round + 1,
            type |-> SYNC_RUN, tgt |-> [kind |-> "list", ids |-> S]])
    /\ round' = round + 1
    /\ expired' = FALSE
    /\ pc' = "listening"

\* Mutants of FillBatch: one target too many; the targets of the round stay
\* in batch_init; the targets that are not in the round are dropped.
FillBatchOneMore ==
    /\ pc = "fill"
    /\ \E S \in SUBSET batch_init :
         /\ Cardinality(S) = Hold + 1
         /\ batch_running' = S
         /\ batch_init' = batch_init \ S
         /\ PublishRound(S)
    /\ UNCHANGED <<up, tasks, subscribed, inbox, sent, lost, faults, gatherVars,
                   intry, countVars, reportVars>>

FillBatchAgain ==
    /\ pc = "fill"
    /\ \E S \in SUBSET batch_init :
         /\ Cardinality(S) = Hold
         /\ batch_running' = S
         /\ PublishRound(S)
    /\ UNCHANGED <<up, tasks, subscribed, inbox, sent, lost, faults, gatherVars,
                   batch_init, intry, countVars, reportVars>>

FillBatchDropsRest ==
    /\ pc = "fill"
    /\ \E S \in SUBSET batch_init :
         /\ Cardinality(S) = Hold
         /\ batch_running' = S
         /\ batch_init' = {}
         /\ PublishRound(S)
    /\ UNCHANGED <<up, tasks, subscribed, inbox, sent, lost, faults, gatherVars,
                   intry, countVars, reportVars>>

\* batchExecuteCallback: move up to Hold targets to batch_running.  When
\* fewer are left pop() raises, and the handler runs those there are.
FillBatch ==
    /\ pc = "fill"
    /\ batch_init # {} /\ ~percent
    /\ \E S \in SUBSET batch_init :
         /\ \/ Cardinality(S) = Hold
            \/ S = batch_init /\ Cardinality(S) < Hold
         /\ batch_running' = S
         /\ batch_init' = batch_init \ S
         /\ intry' = (Cardinality(S) = Hold)
         /\ PublishRound(S)
    /\ UNCHANGED <<up, tasks, subscribed, inbox, sent, lost, faults, gatherVars,
                   countVars, reportVars>>

\* Mutant of FillNothing: a last round that is not full is left out.
FillNothingPartial ==
    /\ pc = "fill"
    /\ Cardinality(batch_init) < Hold
    /\ pc' = "done"
    /\ subscribed' = subscribed \ {Topic}
    /\ inbox' = [inbox EXCEPT ![Topic] = <<>>]
    /\ UNCHANGED <<up, cmdq, tasks, sent, lost, faults, gatherVars, batchVars,
                   countVars, reportVars, expired>>

\* nothing is left to run, or range(batch_hold) of a float raises
\* TypeError: the handler finds batch_running empty and leaves the loop
FillNothing ==
    /\ pc = "fill"
    /\ batch_init = {} \/ percent
    /\ pc' = "done"
    /\ subscribed' = subscribed \ {Topic}
    /\ inbox' = [inbox EXCEPT ![Topic] = <<>>]
    /\ UNCHANGED <<up, cmdq, tasks, sent, lost, faults, gatherVars, batchVars,
                   countVars, reportVars, expired>>

\* sub_timeout seconds pass without a return
Expire ==
    /\ pc = "listening"
    /\ ~expired
    /\ expired' = TRUE
    /\ UNCHANGED <<maidVars, pc, gatherVars, batchVars, countVars, reportVars>>

\* The end of the loop's body in batchRun: the round is over when
\* batch_running is empty, and given up when it is late and the two lists
\* differ in length; giving up a round ends the whole command.
EndOfBody ==
    LET roundOver == batch_running' = {}
        givenUp   == ~roundOver /\ resultPings' # resultExes' /\ expired'
    IN /\ pc' = CASE roundOver -> "fill" [] givenUp -> "done"
                  [] OTHER -> "listening"
       /\ IF givenUp
          THEN /\ inbox' = [inbox EXCEPT ![Topic] = <<>>]
               /\ subscribed' = subscribed \ {Topic}
          ELSE /\ inbox' = [inbox EXCEPT ![Topic] = Tail(@)]
               /\ UNCHANGED subscribed
       /\ UNCHANGED <<up, cmdq, tasks, sent, lost, faults, gatherVars, batch_init,
                      intry, round>>

\* a confirmation, a PING (which counts from a known maid), an empty return
OnSignal ==
    /\ pc = "listening"
    /\ Reads(Topic, {"subscribe", "ping"})
    /\ resultPings' = IF /\ callResult(Topic).kind = "ping"
                         /\ callResult(Topic).sub_ip \in comeSubList
                      THEN resultPings + 1 ELSE resultPings
    /\ UNCHANGED <<resultExes, batch_running, reportVars, expired>>
    /\ EndOfBody

\* Mutant of OnResult: a WORK ends the round.
OnResultEndsRound ==
    /\ pc = "listening"
    /\ Reads(Topic, {"work", "interrupt"})
    /\ resultExes' = resultExes + 1
    /\ batch_running' = {}
    /\ UNCHANGED <<resultPings, reportVars, expired>>
    /\ EndOfBody

\* WORK and INTERRUPT count whoever sends them
OnResult ==
    /\ pc = "listening"
    /\ Reads(Topic, {"work", "interrupt"})
    /\ resultExes' = resultExes + 1
    /\ UNCHANGED <<resultPings, batch_running, reportVars, expired>>
    /\ EndOfBody

\* Mutant of OnReturn: a minion that did not answer is not recorded.
OnReturnForgets ==
    /\ pc = "listening"
    /\ Reads(Topic, {"data"})
    /\ batch_running' = batch_running \ callResult(Topic).items
    /\ expired' = FALSE
    /\ sucset' = IF callResult(Topic).out = "no_return" THEN sucset
                 ELSE sucset \cup callResult(Topic).items
    /\ UNCHANGED <<notReturned, repeatet, countVars>>
    /\ EndOfBody

\* a return, whatever it says, takes its minions out of batch_running
OnReturn ==
    /\ pc = "listening"
    /\ Reads(Topic, {"data"})
    /\ batch_running' = batch_running \ callResult(Topic).items
    /\ expired' = (expired /\ callResult(Topic).items = {})
    /\ IF callResult(Topic).out = "no_return"
       THEN /\ notReturned' = notReturned \cup callResult(Topic).items
            /\ UNCHANGED <<sucset, repeatet>>
       ELSE /\ sucset' = sucset \cup callResult(Topic).items
            /\ repeatet' = repeatet \cup (callResult(Topic).items \cap sucset)
            /\ UNCHANGED notReturned
    /\ UNCHANGED countVars
    /\ EndOfBody

\* fault "redis": listen() loses its connection and raises.  Inside the try
\* the handler runs the round again; inside the handler nothing catches it.
ListenRaises ==
    /\ pc = "listening"
    /\ Fault("redis")
    /\ subscribed' = subscribed \ {Topic}
    /\ inbox' = [inbox EXCEPT ![Topic] = <<>>]
    /\ LoseQueues({Topic})
    /\ intry' = FALSE
    /\ IF intry
       THEN PublishRound(batch_running)
       ELSE pc' = "raised" /\ UNCHANGED <<cmdq, round, expired>>
    /\ UNCHANGED <<up, tasks, sent, gatherVars, batch_init, batch_running,
                   countVars, reportVars>>

\* fault "redis": the connection is lost and with it what is queued on topic
\* t; listen() subscribes again on a new one and says nothing
LosesConnection(t) ==
    /\ Fault("redis")
    /\ Subscribe(t)
    /\ LoseQueues({t})
    /\ UNCHANGED <<up, cmdq, tasks, sent, clientVars>>

LoseConnection ==
    \/ pc = "gather" /\ LosesConnection(FaTopic)
    \/ pc = "listening" /\ LosesConnection(Topic)

\* fault "redis": the listen() of the FIND_ACCEPT raises, and no try is
\* around it
GatherRaises ==
    /\ pc = "gather"
    /\ Fault("redis")
    /\ pc' = "raised"
    /\ subscribed' = subscribed \ {FaTopic}
    /\ inbox' = [inbox EXCEPT ![FaTopic] = <<>>]
    /\ LoseQueues({FaTopic})
    /\ UNCHANGED <<up, cmdq, tasks, sent, gatherVars, batchVars,
                   countVars, reportVars, expired>>

\* the next listen() connects and subscribes again
Reconnect ==
    /\ pc = "listening"
    /\ Topic \notin subscribed
    /\ Subscribe(Topic)
    /\ UNCHANGED <<up, cmdq, tasks, sent, lost, faults, clientVars>>

Listen ==
    \/ GatherGoesOn \/ GatherResult
    \/ OnSignal \/ OnResult \/ OnReturn \/ Reconnect

Client ==
    \/ TakeList \/ FindAccept \/ FillBatch \/ FillNothing
    \/ Expire \/ Listen \/ LoseConnection \/ GatherRaises \/ ListenRaises

Terminated ==
    /\ pc \in {"done", "raised"}
    /\ \A m \in Maids : tasks[m] = {} /\ cmdq[m] = <<>>
    /\ UNCHANGED vars

Next == Client \/ (MaidNext /\ UNCHANGED clientVars) \/ Terminated

Spec == Init /\ [][Next]_vars

Fairness ==
    /\ WF_vars(TakeList \/ FindAccept \/ FillBatch \/ FillNothing)
    /\ WF_vars(Expire)
    /\ WF_vars(Listen)
    /\ \A m \in Maids : WF_vars(MaidWork(m) /\ UNCHANGED clientVars)

FairSpec == Spec /\ Fairness

-----------------------------------------------------------------------------
(* Properties.                                                             *)

accounted == sucset \cup notReturned

\* the minions whose name, or a result of whom, got lost on its way
unheard == {k \in Minions : <<FaTopic, k>> \in lost}
missing == unheard \cup {k \in Minions : <<Topic, k>> \in lost}

\* the minions the command is for
Wanted == IF TgtAll THEN UNION {Accepted[m] : m \in Keys} ELSE Targets

\* the minions that the command has been sent to and that have not returned:
\* they may be working on it
Unreturned == {k \in Minions : sent[k] > 0} \ sucset

\* "the number of minions to batch at a time" (help of --batch-size): of the
\* minions that may be working on the command no more than Hold are not yet
\* reported, whatever round is repeated.  Those reported with no_return may
\* work on beside the next round: the client has stopped to wait for them.
BatchBound == Cardinality(Unreturned \ notReturned) <= Hold

\* A round is repeated only after its connection failed: every failure
\* explains at most one more command to a minion.
ResentOnlyAfterFailure == \A k \in Minions : sent[k] <= 1 + faults["redis"]

\* A round is over only when each of its minions has been reported, and no
\* target disappears between the rounds; from the FIND_ACCEPT only those are
\* missing whose name got lost with the connection.
NoTargetLost ==
    pc \in {"fill", "listening", "done"} =>
        Wanted \subseteq batch_init \cup batch_running \cup accounted \cup unheard

\* "pass either the number of minions to batch at a time, or the percentage
\* of minions to have running": a command that ends without giving up a round
\* has been sent to every target that the client has heard of, if the size is
\* a number; and to none, if it is a percentage.
RunsEveryTarget ==
    pc = "done" /\ batch_running = {} =>
        \A k \in Wanted \ unheard : sent[k] > 0 <=> ~percent

status ==
    CASE pc = "start" -> "idle"
      [] pc \in {"gather", "fill", "listening"} -> "waiting"
      [] pc = "done" /\ batch_init \cup batch_running = {} -> "complete"
      [] OTHER                        -> "partial"

\* What the client promises, see FanOut: complete when no target is left.
Abstract == INSTANCE FanOut WITH
    Everyone <- Minions,
    Wanted <- Wanted,
    status <- status,
    accounted <- accounted,
    missing <- missing

ImplementsFanOut == Abstract!Spec
ImplementsFairFanOut == Abstract!FairSpec
=============================================================================
