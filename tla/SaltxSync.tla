------------------------------ MODULE SaltxSync ------------------------------
(***************************************************************************)
(* The synchronous fan-out of the salt command line: new_run and           *)
(* executeCallback in salt/cli/salt.py.                                    *)
(*                                                                         *)
(* The client subscribes to a fresh topic, reads which maids it knows,     *)
(* publishes one SYNC_RUN and reads messages until one of three stop tests *)
(* holds.  The tests run only when a message has arrived, whatever it is.  *)
(***************************************************************************)
EXTENDS Maid

CONSTANTS
    Keys,       \* the nodes whose keys the super master has accepted
    SelfIp,     \* the super master's own id
    Tgt,        \* the target of the command
    Topic       \* the private topic of the command

ASSUME SyncAssumption ==
    /\ Keys \subseteq Maids
    /\ Tgt \in Target
    /\ Topic \in Topics

VARIABLES
    pc,             \* "start", "subscribed", "listening", "done", "raised"
    pingCount,      \* PINGs from known maids
    resultCount,    \* WORKs and INTERRUPTs, plus messages that raised
    resultPingSet,  \* the maids that have sent those PINGs
    resultExeSet,   \* the maids that have sent WORK or INTERRUPT
    sucset,         \* the minions that have returned (debugSet is the same)
    missedList,     \* the minions reported with no_return
    repeatet,       \* the minions that have returned again
    normalsize,     \* number of returns printed at once
    emptyRet,       \* number of returns printed at the end
    expired,        \* time.time() - executeStart > sub_timeout
    stop            \* which stop test ended the loop

reportVars == <<sucset, missedList, repeatet, normalsize, emptyRet>>
countVars  == <<pingCount, resultCount, resultPingSet, resultExeSet>>
clientVars == <<pc, countVars, reportVars, expired, stop>>
vars == <<maidVars, clientVars>>

\* comeSubList: the accepted keys without the super master itself
comeSubList == Keys \ {SelfIp}
syndic_count == Cardinality(comeSubList)

wrapMesage == [topic |-> Topic, round |-> 1, type |-> SYNC_RUN, tgt |-> Tgt]

TypeOK ==
    /\ MaidTypeOK
    /\ pc \in {"start", "subscribed", "listening", "done", "raised"}
    /\ pingCount \in Nat
    /\ resultCount \in Nat
    /\ resultPingSet \subseteq comeSubList
    /\ resultExeSet \subseteq Maids
    /\ sucset \subseteq Minions
    /\ missedList \subseteq Minions
    /\ repeatet \subseteq sucset
    /\ normalsize \in Nat
    /\ emptyRet \in Nat
    /\ expired \in BOOLEAN
    /\ stop \in {"none", "T0", "T1", "T2"}

Init ==
    /\ MaidInit
    /\ pc = "start"
    /\ pingCount = 0 /\ resultCount = 0
    /\ resultPingSet = {} /\ resultExeSet = {}
    /\ sucset = {} /\ missedList = {} /\ repeatet = {}
    /\ normalsize = 0 /\ emptyRet = 0
    /\ expired = FALSE
    /\ stop = "none"

-----------------------------------------------------------------------------
\* redisChannel.subscribe(tempTopic), then pullAccept
SubscribeTopic ==
    /\ pc = "start"
    /\ pc' = "subscribed"
    /\ Subscribe(Topic)
    /\ UNCHANGED <<up, cmdq, tasks, sent, lost, faults, countVars, reportVars,
                   expired, stop>>

\* publishToSyndicSub
PublishCommand ==
    /\ pc = "subscribed"
    /\ pc' = "listening"
    /\ PublishToSyndicSub(wrapMesage)
    /\ UNCHANGED <<up, tasks, subscribed, inbox, sent, lost, faults, countVars,
                   reportVars, expired, stop>>

\* sub_timeout seconds pass without a return
Expire ==
    /\ pc = "listening"
    /\ ~expired
    /\ expired' = TRUE
    /\ UNCHANGED <<maidVars, pc, countVars, reportVars, stop>>

\* Mutants of StopTest: T2 one result too early; T0 while one maid still runs;
\* a timeout that is taken for the normal end.
StopTestEarly(pings, results, late) ==
    IF pings = syndic_count /\ results >= syndic_count - 1 THEN "T2" ELSE "none"

StopTestRunning(pings, results, late) ==
    IF late /\ results + 1 >= pings THEN "T0" ELSE "none"

StopTestMislabelled(pings, results, late) ==
    IF pings = syndic_count /\ (late \/ results = syndic_count)
    THEN "T2" ELSE "none"

\* The stop tests at the end of the loop's body, on the counts it leaves.
StopTest(pings, results, late) ==
    LET losePingCount == syndic_count - pings
        runningCount  == syndic_count - results - losePingCount
    IN CASE pings < syndic_count /\ runningCount <= 0 ->
              IF late THEN "T0" ELSE "none"
         [] pings = syndic_count /\ runningCount > 0 ->
              IF late THEN "T1" ELSE "none"
         [] pings = syndic_count /\ results = syndic_count -> "T2"
         [] OTHER -> "none"

\* The rest of the loop's body once a message has been handled: test, and
\* unsubscribe on a stop; what is still queued is then thrown away.
EndOfBody ==
    /\ stop' = StopTest(pingCount', resultCount', expired')
    /\ IF stop' = "none"
       THEN /\ inbox' = [inbox EXCEPT ![Topic] = Tail(@)]
            /\ UNCHANGED <<pc, subscribed>>
       ELSE /\ inbox' = [inbox EXCEPT ![Topic] = <<>>]
            /\ pc' = "done"
            /\ subscribed' = subscribed \ {Topic}
    /\ UNCHANGED <<up, cmdq, tasks, sent, lost>>

\* the message the client reads
callResult == Head(inbox[Topic])

Reads(kinds) ==
    /\ pc = "listening"
    /\ inbox[Topic] # <<>>
    /\ callResult.kind \in kinds

\* Mutant of OnConfirmation: the next message is never asked for.
OnConfirmationAgain == Reads({"subscribe"}) /\ UNCHANGED vars

\* the confirmation of the subscription: the loop's body runs, counting nothing
OnConfirmation ==
    /\ Reads({"subscribe"})
    /\ UNCHANGED <<countVars, reportVars, expired, faults>>
    /\ EndOfBody

\* PING counts only from a known maid
OnPing ==
    /\ Reads({"ping"})
    /\ IF callResult.sub_ip \in comeSubList
       THEN /\ pingCount' = pingCount + 1
            /\ resultPingSet' = resultPingSet \cup {callResult.sub_ip}
       ELSE UNCHANGED <<pingCount, resultPingSet>>
    /\ UNCHANGED <<resultCount, resultExeSet, reportVars, expired, faults>>
    /\ EndOfBody

\* Mutant of OnResult: the message is recorded in place of its sender.
OnResultWhole ==
    /\ Reads({"work", "interrupt"})
    /\ resultCount' = resultCount + 1
    /\ resultExeSet' = resultExeSet \cup {callResult}
    /\ UNCHANGED <<pingCount, resultPingSet, reportVars, expired, faults>>
    /\ EndOfBody

\* WORK and INTERRUPT count whoever sends them
OnResult ==
    /\ Reads({"work", "interrupt"})
    /\ resultCount' = resultCount + 1
    /\ resultExeSet' = resultExeSet \cup {callResult.sub_ip}
    /\ UNCHANGED <<pingCount, resultPingSet, reportVars, expired, faults>>
    /\ EndOfBody

\* a return with an empty 'ret_' is ignored
OnEmptyReturn ==
    /\ Reads({"data"})
    /\ callResult.items = {}
    /\ UNCHANGED <<countVars, reportVars, expired, faults>>
    /\ EndOfBody

\* Mutant of OnMissed: a minion that did not answer is not recorded.
OnMissedForgotten ==
    /\ Reads({"data"})
    /\ callResult.items # {} /\ callResult.out = "no_return"
    /\ expired' = FALSE
    /\ UNCHANGED <<countVars, reportVars, faults>>
    /\ EndOfBody

OnMissed ==
    /\ Reads({"data"})
    /\ callResult.items # {}
    /\ callResult.out = "no_return"
    /\ expired' = FALSE
    /\ missedList' = missedList \cup callResult.items
    /\ UNCHANGED <<countVars, sucset, repeatet, normalsize, emptyRet, faults>>
    /\ EndOfBody

\* Mutant of OnReturn: a return that is kept for the end is counted as
\* printed as well.
OnReturnCountsBoth ==
    /\ Reads({"data"})
    /\ callResult.items # {} /\ callResult.out # "no_return"
    /\ expired' = FALSE
    /\ sucset' = sucset \cup callResult.items
    /\ normalsize' = normalsize + 1
    /\ emptyRet' = IF callResult.out = "bad" THEN emptyRet + 1 ELSE emptyRet
    /\ UNCHANGED <<countVars, repeatet, missedList, faults>>
    /\ EndOfBody

\* A return: printed at once when it is fine, kept for the end otherwise.
\* Fault "display": printing it raises, and the handler of that exception
\* counts the message as a result.
OnReturn ==
    /\ Reads({"data"})
    /\ callResult.items # {}
    /\ callResult.out # "no_return"
    /\ expired' = FALSE
    /\ sucset' = sucset \cup callResult.items
    /\ repeatet' = repeatet \cup (callResult.items \cap sucset)
    /\ \/ /\ callResult.out = "ok"
          /\ normalsize' = normalsize + 1
          /\ \/ UNCHANGED <<resultCount, faults>>
             \/ Fault("display") /\ resultCount' = resultCount + 1
          /\ UNCHANGED emptyRet
       \/ /\ callResult.out = "bad"
          /\ emptyRet' = emptyRet + 1
          /\ UNCHANGED <<normalsize, resultCount, faults>>
    /\ UNCHANGED <<pingCount, resultPingSet, resultExeSet, missedList>>
    /\ EndOfBody

\* Mutant of LoseConnection: the client publishes the command again.
LoseConnectionRepublish ==
    /\ pc = "listening"
    /\ Fault("redis")
    /\ Subscribe(Topic)
    /\ PublishToSyndicSub(wrapMesage)
    /\ LoseQueues({Topic})
    /\ UNCHANGED <<up, tasks, sent, pc, countVars, reportVars, expired, stop>>

\* fault "redis": the connection is lost and with it what is queued; listen()
\* subscribes again on a new one, or raises, which nothing catches
LoseConnection ==
    /\ pc = "listening"
    /\ Fault("redis")
    /\ \/ Subscribe(Topic) /\ UNCHANGED pc
       \/ /\ pc' = "raised"
          /\ subscribed' = subscribed \ {Topic}
          /\ inbox' = [inbox EXCEPT ![Topic] = <<>>]
    /\ LoseQueues({Topic})
    /\ UNCHANGED <<up, cmdq, tasks, sent, countVars, reportVars, expired, stop>>

Listen ==
    \/ OnConfirmation \/ OnPing \/ OnResult
    \/ OnEmptyReturn \/ OnMissed \/ OnReturn

Client ==
    \/ SubscribeTopic \/ PublishCommand \/ Expire \/ Listen
    \/ LoseConnection

\* the command has come to an end, and so has what the maids did for it
Terminated ==
    /\ pc \in {"done", "raised"}
    /\ \A m \in Maids : tasks[m] = {} /\ cmdq[m] = <<>>
    /\ UNCHANGED vars

Next == Client \/ (MaidNext /\ UNCHANGED clientVars) \/ Terminated

Spec == Init /\ [][Next]_vars

\* the client reads what arrives, time passes, and every maid's scheduler
\* runs its listener and its greenlets
Fairness ==
    /\ WF_vars(SubscribeTopic \/ PublishCommand)
    /\ WF_vars(Expire)
    /\ WF_vars(Listen)
    /\ \A m \in Maids : WF_vars(MaidWork(m) /\ UNCHANGED clientVars)

FairSpec == Spec /\ Fairness

-----------------------------------------------------------------------------
(* Properties.                                                             *)

accounted == sucset \cup missedList

\* the minions a result of whom got lost on its way to this client
missing == {k \in Minions : <<Topic, k>> \in lost}

\* what maid m had to report is in the client's report, or was lost
AllReturned(m) ==
    \/ Refuses(m, wrapMesage)
    \/ Matched(m, Tgt) \subseteq accounted \cup missing

\* A maid's WORK never overtakes its results: when the client has counted a
\* maid as finished, it has recorded every minion of that maid whose result
\* did not get lost by a failure to format it or with a connection.
ReturnsBeforeWork == \A m \in resultExeSet : AllReturned(m)

\* The loop's normal end (T2) loses nothing but these results: all the
\* minions of all the known maids are in the report, unless a message that
\* could not be displayed has been counted for a maid's WORK.
CompleteStop ==
    stop = "T2" /\ faults["display"] = 0 =>
        \A m \in comeSubList : AllReturned(m)

\* "check sub timeout, if no node running again": T0 and T2 never leave a
\* maid behind that has answered PING and is still running, as long as the
\* client misses no PING and counts no message wrongly.
NoneLeftRunning ==
    stop \in {"T0", "T2"} /\ faults["display"] = 0 /\ faults["redis"] = 0 =>
        resultPingSet \subseteq resultExeSet

\* The counters that decide the stop are the sizes of the sets they count,
\* whatever is lost and whoever restarts: no message of a maid is counted
\* twice, and a message that could not be displayed once.
CountsAreExact ==
    /\ pingCount = Cardinality(resultPingSet)
    /\ resultCount = Cardinality(resultExeSet) + faults["display"]

\* A command reaches a minion at most once through each maid that has
\* accepted it, whatever crashes and restarts.
SentAtMostOnce ==
    \A k \in Minions : sent[k] <= Cardinality({m \in Maids : k \in Accepted[m]})

\* The sizes printed at the end ("normal size", "missed size", "empty size")
\* against the minions in the report (no minion has two maids): they add up
\* to their number unless the client lists a repeated minion ("Find some
\* minion run repeated"), and to more when it does, for normalsize and
\* emptyRet count a repeated return again.
SizesAddUp ==
    LET printed == normalsize + emptyRet + Cardinality(missedList)
    IN pc = "done" =>
         /\ printed >= Cardinality(accounted)
         /\ printed = Cardinality(accounted) <=> repeatet = {}

\* The command ends, and not by an exception.
Terminates == <>(pc = "done")

\* How far the promise of FanOut has been kept.  After a display error the
\* counts say nothing any more, and T2 promises nothing.
status ==
    IF pc \in {"start", "subscribed"} THEN "idle"
    ELSE IF pc = "listening" THEN "waiting"
    ELSE IF stop = "T2" /\ faults["display"] = 0 THEN "complete" ELSE "partial"

\* What the client promises, see FanOut.
Abstract == INSTANCE FanOut WITH
    Everyone <- Minions,
    Wanted <- UNION {IF Refuses(m, wrapMesage) THEN {} ELSE Matched(m, Tgt) :
                     m \in comeSubList},
    status <- status,
    accounted <- accounted,
    missing <- missing

\* The detailed client implements the promise: safety, and with fairness.
ImplementsFanOut == Abstract!Spec
ImplementsFairFanOut == Abstract!FairSpec

-----------------------------------------------------------------------------
(* Why ReturnsBeforeWork and CompleteStop hold: the strengthening that is   *)
(* inductive, whatever faults happen.                                       *)

\* maid m still has something to do for the command
Busy(m) == cmdq[m] # <<>> \/ tasks[m] # {}

\* msg is the last message that maid m sends for the command
IsEnd(msg, m) == msg.kind \in {"work", "interrupt"} /\ msg.sub_ip = m

\* minion k is in the report or lost, or in one of the next n messages
Received(k, n) ==
    \/ k \in accounted \cup missing
    \/ \E j \in 1 .. n : /\ inbox[Topic][j].kind = "data"
                         /\ k \in inbox[Topic][j].items

\* the subscription to the topic follows the phases of the client
TopicFollowsPhase ==
    /\ pc = "start" => Topic \notin subscribed /\ inbox[Topic] = <<>>
    /\ pc = "subscribed" => inbox[Topic] = <<[kind |-> "subscribe"]>>
    /\ pc \in {"start", "subscribed"} => resultExeSet = {}
    /\ pc \in {"subscribed", "listening"} => Topic \in subscribed
    /\ pc = "done" => Topic \notin subscribed /\ inbox[Topic] = <<>>
    /\ stop # "none" => pc = "done"

\* a maid holds the command at most once, in its queue or in one greenlet
OneCommandEach ==
    \A m \in Maids :
        /\ cmdq[m] \in {<<>>, <<wrapMesage>>}
        /\ \A tk \in tasks[m] : /\ cmdq[m] = <<>>
                                /\ tk.cmd = wrapMesage
                                /\ tk.phase # "waiting"
                                /\ tasks[m] = {tk}
        /\ pc \in {"start", "subscribed"} => ~Busy(m)

\* a maid ends at most once, and has nothing left to do when it has
EndsOnce ==
    /\ \A m \in resultExeSet : ~Busy(m)
    /\ \A m \in Maids : \A i \in 1 .. Len(inbox[Topic]) :
          IsEnd(inbox[Topic][i], m) =>
            /\ ~Busy(m)
            /\ m \notin resultExeSet
            /\ \A j \in 1 .. Len(inbox[Topic]) :
                  IsEnd(inbox[Topic][j], m) => i = j
    /\ resultCount = Cardinality(resultExeSet) + faults["display"]

\* the results of a maid are underway or received before it ends
ReturnsUnderway ==
    pc = "listening" => \A m \in Maids :
        /\ \A tk \in tasks[m] : tk.phase = "running" =>
              \A k \in Matched(m, Tgt) :
                {k} \in tk.todo \/ Received(k, Len(inbox[Topic]))
        /\ \A i \in 1 .. Len(inbox[Topic]) : IsEnd(inbox[Topic][i], m) =>
              \/ Refuses(m, wrapMesage)
              \/ \A k \in Matched(m, Tgt) : Received(k, i)

\* T2 means that the known maids have all ended, when no other maid answers
StopMeansAllEnded ==
    stop = "T2" /\ faults["display"] = 0 /\ Maids \subseteq comeSubList =>
        Maids \subseteq resultExeSet

IInv ==
    /\ TypeOK
    /\ TopicFollowsPhase
    /\ OneCommandEach
    /\ EndsOnce
    /\ ReturnsUnderway
    /\ ReturnsBeforeWork
    /\ StopMeansAllEnded
=============================================================================
