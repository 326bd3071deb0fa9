------------------------------ MODULE SaltxJobs ------------------------------
(***************************************************************************)
(* Asynchronous commands and their jobs in the REST service: apiv2_async   *)
(* and apiv2_jobs of NetapiClient in salt/netapi/__init__.py.              *)
(*                                                                         *)
(* The caller first posts an ASYNC_RUN, which is published and answered    *)
(* with a job id at once; the maids' answers go to a topic without a       *)
(* subscriber.  Then it asks for the job (LOOKUP_JID) or for all jobs      *)
(* (LIST_JOBS) while the maids may still be starting it.                   *)
(***************************************************************************)
EXTENDS Maid

CONSTANTS
    Keys,       \* the nodes whose keys the super master has accepted
    SelfIp,     \* the super master's own id
    Tgt,        \* the target of the asynchronous command
    AsyncTopic, \* the private topic of the asynchronous command
    Topic       \* the private topic of the request for jobs

ASSUME JobsAssumption ==
    /\ Keys \subseteq Maids
    /\ Tgt \in Target
    /\ {AsyncTopic, Topic} \subseteq Topics /\ AsyncTopic # Topic

VARIABLES
    pc,             \* "start", "posted", "subscribed", "listening", "done"
    fun,            \* what is asked for: LOOKUP_JID, LIST_JOBS, or "none" yet
    pingCount,      \* PINGs from known maids
    resultPingSet,  \* the senders of those PINGs
    resultExeSet,   \* the senders of WORK or INTERRUPT; resultCount is its size
    retReturns,     \* the minions of the jobs gathered so far
    expired,        \* time.time() - executeStart > sub_timeout
    stop,           \* which stop test ended the loop
    before          \* the minions with a job when the request was published
                    \* (history)

clientVars == <<pc, fun, pingCount, resultPingSet, resultExeSet, retReturns,
                expired, stop, before>>
vars == <<maidVars, clientVars>>

comeSubList == Keys \ {SelfIp}
syndic_count == Cardinality(comeSubList)

Everything == [kind |-> "all", ids |-> {}]
asyncMesage == [topic |-> AsyncTopic, round |-> 1, type |-> ASYNC_RUN, tgt |-> Tgt]
wrapMesage(f) == [topic |-> Topic, round |-> 1, type |-> f, tgt |-> Everything]

TypeOK ==
    /\ MaidTypeOK
    /\ pc \in {"start", "posted", "subscribed", "listening", "done"}
    /\ fun \in {"none", LOOKUP_JID, LIST_JOBS}
    /\ pingCount \in Nat
    /\ resultPingSet \subseteq comeSubList
    /\ resultExeSet \subseteq Maids
    /\ retReturns \subseteq Minions
    /\ expired \in BOOLEAN
    /\ stop \in {"none", "all", "T0", "count"}
    /\ before \subseteq Minions

Init ==
    /\ MaidInit
    /\ pc = "start"
    /\ fun = "none"
    /\ pingCount = 0
    /\ resultPingSet = {} /\ resultExeSet = {}
    /\ retReturns = {}
    /\ expired = FALSE
    /\ stop = "none"
    /\ before = {}

-----------------------------------------------------------------------------
\* apiv2_async: publish the command, disconnect the pool (nothing is
\* subscribed yet); the job id is the answer
PostAsync ==
    /\ pc = "start"
    /\ PublishToSyndicSub(asyncMesage)
    /\ pc' = "posted"
    /\ UNCHANGED <<up, tasks, subscribed, inbox, sent, lost, faults, fun, pingCount,
                   resultPingSet, resultExeSet, retReturns, expired, stop,
                   before>>

\* apiv2_jobs: subscribe, then read the accepted keys
SubscribeTopic ==
    /\ pc = "posted"
    /\ fun' \in {LOOKUP_JID, LIST_JOBS}
    /\ Subscribe(Topic)
    /\ pc' = "subscribed"
    /\ UNCHANGED <<up, cmdq, tasks, sent, lost, faults, pingCount, resultPingSet,
                   resultExeSet, retReturns, expired, stop, before>>

PublishCommand ==
    /\ pc = "subscribed"
    /\ PublishToSyndicSub(wrapMesage(fun))
    /\ pc' = "listening"
    /\ before' = {k \in Minions : sent[k] > 0}
    /\ UNCHANGED <<up, tasks, subscribed, inbox, sent, lost, faults, fun, pingCount,
                   resultPingSet, resultExeSet, retReturns, expired, stop>>

\* sub_timeout seconds pass; nothing resets executeStart
Expire ==
    /\ pc = "listening"
    /\ ~expired
    /\ expired' = TRUE
    /\ UNCHANGED <<maidVars, pc, fun, pingCount, resultPingSet, resultExeSet,
                   retReturns, stop, before>>

\* Mutant of StopTest: the results are not looked at.
StopTestPingsOnly(pings, results) ==
    IF pings = syndic_count THEN "all" ELSE "none"

\* the stop tests, in the order of the code; there is none for a maid that
\* has answered PING and does not go on
StopTest(pings, results) ==
    LET losePingCount == syndic_count - pings
        runningCount  == syndic_count - results - losePingCount
    IN CASE syndic_count = pings /\ pings = results -> "all"
         [] pings < syndic_count /\ runningCount <= 0 /\ expired -> "T0"
         [] results - syndic_count >= 0 -> "count"
         [] OTHER -> "none"

\* the rest of the loop's body: resultCount = len(resultExeSet), the tests,
\* and on a stop unsubscribe and disconnect
EndOfBody ==
    /\ stop' = StopTest(pingCount', Cardinality(resultExeSet'))
    /\ IF stop' = "none"
       THEN /\ inbox' = [inbox EXCEPT ![Topic] = Tail(@)]
            /\ UNCHANGED <<pc, subscribed>>
       ELSE /\ inbox' = [inbox EXCEPT ![Topic] = <<>>]
            /\ pc' = "done"
            /\ subscribed' = subscribed \ {Topic}
    /\ UNCHANGED <<up, cmdq, tasks, sent, lost, faults, fun, expired, before>>

callResult == Head(inbox[Topic])

Reads(kinds) ==
    /\ pc = "listening"
    /\ inbox[Topic] # <<>>
    /\ callResult.kind \in kinds

OnConfirmation ==
    /\ Reads({"subscribe"})
    /\ UNCHANGED <<pingCount, resultPingSet, resultExeSet, retReturns>>
    /\ EndOfBody

\* PING counts only from a known maid
OnPing ==
    /\ Reads({"ping"})
    /\ IF callResult.sub_ip \in comeSubList
       THEN /\ pingCount' = pingCount + 1
            /\ resultPingSet' = resultPingSet \cup {callResult.sub_ip}
       ELSE UNCHANGED <<pingCount, resultPingSet>>
    /\ UNCHANGED <<resultExeSet, retReturns>>
    /\ EndOfBody

\* Mutant of OnResult: WORK takes its maid out of the set.
OnResultForgets ==
    /\ Reads({"work", "interrupt"})
    /\ resultExeSet' = resultExeSet \ {callResult.sub_ip}
    /\ UNCHANGED <<pingCount, resultPingSet, retReturns>>
    /\ EndOfBody

\* WORK and INTERRUPT count whoever sends them, once for each maid
OnResult ==
    /\ Reads({"work", "interrupt"})
    /\ resultExeSet' = resultExeSet \cup {callResult.sub_ip}
    /\ UNCHANGED <<pingCount, resultPingSet, retReturns>>
    /\ EndOfBody

\* Mutants of OnJobs: the jobs of one maid replace those of the others; they
\* are added as one job.
OnJobsReplaces ==
    /\ Reads({"data"})
    /\ retReturns' = callResult.items
    /\ UNCHANGED <<pingCount, resultPingSet, resultExeSet>>
    /\ EndOfBody

OnJobsNested ==
    /\ Reads({"data"})
    /\ retReturns' = retReturns \cup {callResult.items}
    /\ UNCHANGED <<pingCount, resultPingSet, resultExeSet>>
    /\ EndOfBody

\* 'jobrets': what one maid knows is added to what the others know
OnJobs ==
    /\ Reads({"data"})
    /\ retReturns' = retReturns \cup callResult.items
    /\ UNCHANGED <<pingCount, resultPingSet, resultExeSet>>
    /\ EndOfBody

\* fault "redis": the connection is lost and with it what is queued; listen()
\* subscribes again on a new one, or raises, and the except clause of the
\* request returns what there is
LoseConnection ==
    /\ pc = "listening"
    /\ Fault("redis")
    /\ \/ Subscribe(Topic) /\ UNCHANGED pc
       \/ /\ pc' = "done"
          /\ subscribed' = subscribed \ {Topic}
          /\ inbox' = [inbox EXCEPT ![Topic] = <<>>]
    /\ LoseQueues({Topic})
    /\ UNCHANGED <<up, cmdq, tasks, sent, fun, pingCount, resultPingSet,
                   resultExeSet, retReturns, expired, stop, before>>

Listen == OnConfirmation \/ OnPing \/ OnResult \/ OnJobs

Client ==
    \/ PostAsync \/ SubscribeTopic \/ PublishCommand \/ Expire \/ Listen
    \/ LoseConnection

Terminated ==
    /\ pc = "done"
    /\ \A m \in Maids : tasks[m] = {} /\ cmdq[m] = <<>>
    /\ UNCHANGED vars

Next == Client \/ (MaidNext /\ UNCHANGED clientVars) \/ Terminated

Spec == Init /\ [][Next]_vars

Fairness ==
    /\ WF_vars(PostAsync \/ SubscribeTopic \/ PublishCommand)
    /\ WF_vars(Expire)
    /\ WF_vars(Listen)
    /\ \A m \in Maids : WF_vars(MaidWork(m) /\ UNCHANGED clientVars)

FairSpec == Spec /\ Fairness

-----------------------------------------------------------------------------
(* Properties.                                                             *)

\* the minions a result of whom got lost with the client's connection
missing == {k \in Minions : <<Topic, k>> \in lost}

\* A list that ends normally shows every job that a known maid had started
\* when the list was asked for, although each maid reads its own job cache at
\* a time of its own and crashes may come between; only what a lost connection
\* took with it is not there.
ListsWhatWasStarted ==
    stop \in {"all", "count"} /\ fun = LIST_JOBS =>
        before \cap UNION {Accepted[m] : m \in comeSubList}
            \subseteq retReturns \cup missing

\* A request never ends while a maid that has answered its PING is at work,
\* as long as it misses no PING.
NoneLeftRunning ==
    stop # "none" /\ faults["redis"] = 0 => resultPingSet \subseteq resultExeSet

\* A request for jobs ends unless a maid that the super master knows is down
\* or dies, a greenlet dies, or the connection is lost.
EndsUnlessDown ==
    []((\A f \in FaultKinds : faults[f] = 0) /\ \A m \in Keys : up[m]) => <>(pc = "done")
=============================================================================
