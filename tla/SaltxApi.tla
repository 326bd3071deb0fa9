------------------------------ MODULE SaltxApi ------------------------------
(***************************************************************************)
(* Synchronous requests to the REST service: apiv2_sync of NetapiClient in *)
(* salt/netapi/__init__.py, called by the threads of salt/apiv2/handler.py.*)
(*                                                                         *)
(* Each request is a fan-out of its own, on its own topic, but they share: *)
(* every endpoint has one NetapiClient, whose attribute retReturns         *)
(* collects the result of whatever request it serves, and the whole        *)
(* process has one Redis client (RedisWrapper.Singleton), which the first  *)
(* request creates and then fills in, and whose connection pool every      *)
(* request disconnects when it is done.                                    *)
(***************************************************************************)
EXTENDS Maid

CONSTANTS
    Requests,       \* the requests; each is the name of its private topic
    NetapiClients,  \* the endpoints' clients
    Api,            \* Api[r]: the client that serves request r
    Tgt,            \* Tgt[r]: the target of request r
    Keys,           \* the nodes whose keys the super master has accepted
    SelfIp          \* the super master's own id

ASSUME ApiAssumption ==
    /\ Topics = Requests
    /\ Api \in [Requests -> NetapiClients]
    /\ Tgt \in [Requests -> Target]
    /\ \A r \in Requests : Tgt[r].kind \in {"all", "list", "ip"}
    /\ Keys \subseteq Maids

VARIABLES
    pc,             \* pc[r]: "start", "reset", "creating", "subscribed",
                    \* "listening", "storing", "merging", "mergestoring", "done"
    singleton,      \* Singleton._instance: "absent", "partial" or "ready"
    pingCount,      \* pingCount[r]: PINGs from known maids
    resultCount,    \* resultCount[r]: WORKs and INTERRUPTs
    resultPingSet,  \* resultPingSet[r]: the senders of those PINGs
    resultExeSet,   \* resultExeSet[r]: the senders of WORK or INTERRUPT
    minionLogList,  \* minionLogList[r]: the named targets without a return
    later,          \* later[r]: minions of emptyRet, noResponseRet, noConnectRet
    expired,        \* expired[r]: time.time() - executeStart > sub_timeout
    stop,           \* stop[r]: which stop test ended the loop
    retReturns,     \* retReturns[c]: the results in that attribute of client c
    loaded,         \* loaded[r]: the attribute's value that r has read
    response,       \* response[r]: what request r has returned
    cut             \* the requests that have lost their subscription: another
                    \* one closed it, or the connection failed (history)

countVars == <<pingCount, resultCount, resultPingSet, resultExeSet>>
clientVars == <<pc, singleton, countVars, minionLogList, later, expired, stop,
                retReturns, loaded, response, cut>>
vars == <<maidVars, clientVars>>

comeSubList == Keys \ {SelfIp}
syndic_count == Cardinality(comeSubList)

\* a result in a response: of which request, from which minion
Result == Requests \X Minions

wrapMesage(r) ==
    [topic |-> r, round |-> 1, type |-> SYNC_RUN, tgt |-> Tgt[r]]

TypeOK ==
    /\ MaidTypeOK
    /\ pc \in [Requests -> {"start", "reset", "creating", "subscribed",
                            "listening", "storing", "merging", "mergestoring",
                            "done"}]
    /\ singleton \in {"absent", "partial", "ready"}
    /\ pingCount \in [Requests -> Nat]
    /\ resultCount \in [Requests -> Nat]
    /\ resultPingSet \in [Requests -> SUBSET comeSubList]
    /\ resultExeSet \in [Requests -> SUBSET Maids]
    /\ minionLogList \in [Requests -> SUBSET Minions]
    /\ later \in [Requests -> SUBSET Minions]
    /\ expired \in [Requests -> BOOLEAN]
    /\ stop \in [Requests -> {"none", "T0", "T1", "all", "targets"}]
    /\ retReturns \in [NetapiClients -> SUBSET Result]
    /\ loaded \in [Requests -> SUBSET Result]
    /\ response \in [Requests -> SUBSET Result]
    /\ cut \subseteq Requests

Init ==
    /\ MaidInit
    /\ pc = [r \in Requests |-> "start"]
    /\ singleton \in {"absent", "ready"}
    /\ pingCount = [r \in Requests |-> 0]
    /\ resultCount = [r \in Requests |-> 0]
    /\ resultPingSet = [r \in Requests |-> {}]
    /\ resultExeSet = [r \in Requests |-> {}]
    /\ minionLogList = [r \in Requests |-> Tgt[r].ids]
    /\ later = [r \in Requests |-> {}]
    /\ expired = [r \in Requests |-> FALSE]
    /\ stop = [r \in Requests |-> "none"]
    /\ retReturns = [c \in NetapiClients |-> {}]
    /\ loaded = [r \in Requests |-> {}]
    /\ response = [r \in Requests |-> {}]
    /\ cut = {}

-----------------------------------------------------------------------------
\* self.retReturns = {}
ResetReturns(r) ==
    /\ pc[r] = "start"
    /\ retReturns' = [retReturns EXCEPT ![Api[r]] = {}]
    /\ pc' = [pc EXCEPT ![r] = "reset"]
    /\ UNCHANGED <<maidVars, singleton, countVars, minionLogList, later, expired,
                   stop, loaded, response, cut>>

\* Singleton.__new__, under the lock: _instance is there before it is filled in
CreateInstance(r) ==
    /\ pc[r] = "reset"
    /\ singleton = "absent"
    /\ singleton' = "partial"
    /\ pc' = [pc EXCEPT ![r] = "creating"]
    /\ UNCHANGED <<maidVars, countVars, minionLogList, later, expired, stop,
                   retReturns, loaded, response, cut>>

\* fault "redis": filling it in raises, which is logged; it stays as it is
FillInstance(r) ==
    /\ pc[r] = "creating"
    /\ \/ singleton' = "ready" /\ UNCHANGED faults
       \/ Fault("redis") /\ UNCHANGED singleton
    /\ pc' = [pc EXCEPT ![r] = "reset"]
    /\ UNCHANGED <<up, cmdq, tasks, subscribed, inbox, sent, lost, countVars,
                   minionLogList, later, expired, stop, retReturns, loaded,
                   response, cut>>

\* A thread finds _instance, the others without the lock, and in it no
\* redisInstance: the request's except clause returns what there is.
UsePartialInstance(r) ==
    /\ pc[r] = "reset"
    /\ singleton = "partial"
    /\ response' = [response EXCEPT ![r] = retReturns[Api[r]]]
    /\ pc' = [pc EXCEPT ![r] = "done"]
    /\ UNCHANGED <<maidVars, singleton, countVars, minionLogList, later, expired,
                   stop, retReturns, loaded, cut>>

SubscribeTopic(r) ==
    /\ pc[r] = "reset"
    /\ singleton = "ready"
    /\ Subscribe(r)
    /\ pc' = [pc EXCEPT ![r] = "subscribed"]
    /\ UNCHANGED <<up, cmdq, tasks, sent, lost, faults, singleton, countVars,
                   minionLogList, later, expired, stop, retReturns, loaded,
                   response, cut>>

PublishCommand(r) ==
    /\ pc[r] = "subscribed"
    /\ PublishToSyndicSub(wrapMesage(r))
    /\ pc' = [pc EXCEPT ![r] = "listening"]
    /\ UNCHANGED <<up, tasks, subscribed, inbox, sent, lost, faults, singleton,
                   countVars, minionLogList, later, expired, stop, retReturns,
                   loaded, response, cut>>

\* sub_timeout seconds pass without a return to request r
Expire(r) ==
    /\ pc[r] = "listening"
    /\ ~expired[r]
    /\ expired' = [expired EXCEPT ![r] = TRUE]
    /\ UNCHANGED <<maidVars, pc, singleton, countVars, minionLogList, later, stop,
                   retReturns, loaded, response, cut>>

\* listen() finds its connection closed: connect and subscribe again
Reconnect(r) ==
    /\ pc[r] = "listening"
    /\ r \notin subscribed
    /\ Subscribe(r)
    /\ UNCHANGED <<up, cmdq, tasks, sent, lost, faults, clientVars>>

\* fault "redis": the connection of r is lost and with it what is queued;
\* listen() subscribes again on a new one, or raises, and the request's except
\* clause returns what there is
LoseConnection(r) ==
    /\ pc[r] = "listening"
    /\ Fault("redis")
    /\ \/ Subscribe(r) /\ UNCHANGED <<pc, response>>
       \/ /\ pc' = [pc EXCEPT ![r] = "done"]
          /\ response' = [response EXCEPT ![r] = retReturns[Api[r]]]
          /\ subscribed' = subscribed \ {r}
          /\ inbox' = [inbox EXCEPT ![r] = <<>>]
    /\ LoseQueues({r})
    /\ cut' = cut \cup {r}
    /\ UNCHANGED <<up, cmdq, tasks, sent, singleton, countVars, minionLogList,
                   later, expired, stop, retReturns, loaded>>

\* Mutant of StopTest: one result too early.
StopTestEarly(pings, results, late, unreturned) ==
    IF pings = syndic_count /\ results >= syndic_count - 1 THEN "all" ELSE "none"

\* the stop tests, in the order of the code
StopTest(pings, results, late, unreturned) ==
    LET losePingCount == syndic_count - pings
        runningCount  == syndic_count - results - losePingCount
    IN CASE pings < syndic_count /\ runningCount <= 0 ->
              IF late THEN "T0" ELSE "none"
         [] pings = syndic_count /\ results = syndic_count -> "all"
         [] pings = syndic_count /\ runningCount > 0 ->
              IF late THEN "T1" ELSE "none"
         [] OTHER -> IF unreturned = {} THEN "targets" ELSE "none"

\* The end of the loop's body, rest is still unread.  On a stop: unsubscribe
\* and disconnect the connection pool, and with it the subscriptions of all
\* other requests.
EndOfBody(r, rest) ==
    /\ stop' = [stop EXCEPT ![r] = StopTest(pingCount'[r], resultCount'[r],
                                            expired'[r], minionLogList'[r])]
    /\ IF stop'[r] = "none"
       THEN /\ inbox' = [inbox EXCEPT ![r] = rest]
            /\ pc' = [pc EXCEPT ![r] = "listening"]
            /\ UNCHANGED <<subscribed, lost, cut>>
       ELSE /\ inbox' = [q \in Topics |-> <<>>]
            /\ LoseQueues(Topics \ {r})
            /\ cut' = cut \cup (subscribed \ {r})
            /\ pc' = [pc EXCEPT ![r] = "merging"]
            /\ subscribed' = {}
    /\ UNCHANGED <<up, cmdq, tasks, sent, faults, singleton, response>>

callResult(r) == Head(inbox[r])

Reads(r, kinds) ==
    /\ pc[r] = "listening"
    /\ inbox[r] # <<>>
    /\ callResult(r).kind \in kinds

OnSignal(r) ==
    /\ Reads(r, {"subscribe", "ping"})
    /\ IF /\ callResult(r).kind = "ping"
          /\ callResult(r).sub_ip \in comeSubList
       THEN /\ pingCount' = [pingCount EXCEPT ![r] = @ + 1]
            /\ resultPingSet' =
                 [resultPingSet EXCEPT ![r] = @ \cup {callResult(r).sub_ip}]
       ELSE UNCHANGED <<pingCount, resultPingSet>>
    /\ UNCHANGED <<resultCount, resultExeSet, minionLogList, later, expired,
                   retReturns, loaded>>
    /\ EndOfBody(r, Tail(inbox[r]))

\* WORK and INTERRUPT count whoever sends them
OnResult(r) ==
    /\ Reads(r, {"work", "interrupt"})
    /\ resultCount' = [resultCount EXCEPT ![r] = @ + 1]
    /\ resultExeSet' =
         [resultExeSet EXCEPT ![r] = @ \cup {callResult(r).sub_ip}]
    /\ UNCHANGED <<pingCount, resultPingSet, minionLogList, later, expired,
                   retReturns, loaded>>
    /\ EndOfBody(r, Tail(inbox[r]))

\* a return that is not fine is kept for the end; only a minion that has
\* answered leaves minionLogList
OnLateReturn(r) ==
    /\ Reads(r, {"data"})
    /\ callResult(r).items = {} \/ callResult(r).out # "ok"
    /\ later' = [later EXCEPT ![r] = @ \cup callResult(r).items]
    /\ minionLogList' = [minionLogList EXCEPT ![r] =
            IF callResult(r).out = "no_return" THEN @
            ELSE @ \ callResult(r).items]
    /\ expired' = [expired EXCEPT ![r] = @ /\ callResult(r).items = {}]
    /\ UNCHANGED <<countVars, retReturns, loaded>>
    /\ EndOfBody(r, Tail(inbox[r]))

\* self.retReturns = dict(self.retReturns, **tmpRet): read ...
OnReturn(r) ==
    /\ Reads(r, {"data"})
    /\ callResult(r).items # {} /\ callResult(r).out = "ok"
    /\ minionLogList' =
         [minionLogList EXCEPT ![r] = @ \ callResult(r).items]
    /\ expired' = [expired EXCEPT ![r] = FALSE]
    /\ loaded' = [loaded EXCEPT ![r] =
            retReturns[Api[r]] \cup ({r} \X callResult(r).items)]
    /\ pc' = [pc EXCEPT ![r] = "storing"]
    /\ inbox' = [inbox EXCEPT ![r] = Tail(@)]
    /\ UNCHANGED <<up, cmdq, tasks, subscribed, sent, lost, faults, singleton,
                   countVars, later, stop, retReturns, response, cut>>

\* Mutant of StoreReturn: the attribute belongs to the class, and with it to
\* every client.
StoreReturnShared(r) ==
    /\ pc[r] = "storing"
    /\ retReturns' = [c \in NetapiClients |-> loaded[r]]
    /\ loaded' = [loaded EXCEPT ![r] = {}]
    /\ UNCHANGED <<countVars, minionLogList, later, expired>>
    /\ EndOfBody(r, inbox[r])

\* ... and store
StoreReturn(r) ==
    /\ pc[r] = "storing"
    /\ retReturns' = [retReturns EXCEPT ![Api[r]] = loaded[r]]
    /\ loaded' = [loaded EXCEPT ![r] = {}]
    /\ UNCHANGED <<countVars, minionLogList, later, expired>>
    /\ EndOfBody(r, inbox[r])

\* Mutants of MergeLoad: a return is added without its request; a return that
\* has been added stays in the list.
MergeLoadBare(r) ==
    /\ pc[r] = "merging"
    /\ \E k \in later[r] :
         /\ later' = [later EXCEPT ![r] = @ \ {k}]
         /\ loaded' = [loaded EXCEPT ![r] = retReturns[Api[r]] \cup {k}]
    /\ pc' = [pc EXCEPT ![r] = "mergestoring"]
    /\ UNCHANGED <<maidVars, singleton, countVars, minionLogList, expired, stop,
                   retReturns, response, cut>>

MergeLoadAgain(r) ==
    /\ pc[r] = "merging"
    /\ \E k \in later[r] :
         loaded' = [loaded EXCEPT ![r] = retReturns[Api[r]] \cup {<<r, k>>}]
    /\ pc' = [pc EXCEPT ![r] = "mergestoring"]
    /\ UNCHANGED <<maidVars, singleton, countVars, minionLogList, later, expired, stop,
                   retReturns, response, cut>>

\* after the loop the returns kept for the end are added, one by one
MergeLoad(r) ==
    /\ pc[r] = "merging"
    /\ \E k \in later[r] :
         /\ later' = [later EXCEPT ![r] = @ \ {k}]
         /\ loaded' = [loaded EXCEPT ![r] = retReturns[Api[r]] \cup {<<r, k>>}]
    /\ pc' = [pc EXCEPT ![r] = "mergestoring"]
    /\ UNCHANGED <<maidVars, singleton, countVars, minionLogList, expired, stop,
                   retReturns, response, cut>>

MergeStore(r) ==
    /\ pc[r] = "mergestoring"
    /\ retReturns' = [retReturns EXCEPT ![Api[r]] = loaded[r]]
    /\ loaded' = [loaded EXCEPT ![r] = {}]
    /\ pc' = [pc EXCEPT ![r] = "merging"]
    /\ UNCHANGED <<maidVars, singleton, countVars, minionLogList, later, expired, stop,
                   response, cut>>

\* Mutant of Return: the returns kept for the end are left out.
ReturnEarly(r) ==
    /\ pc[r] = "merging"
    /\ response' = [response EXCEPT ![r] = retReturns[Api[r]]]
    /\ pc' = [pc EXCEPT ![r] = "done"]
    /\ UNCHANGED <<maidVars, singleton, countVars, minionLogList, later, expired, stop,
                   retReturns, loaded, cut>>

\* return self.retReturns
Return(r) ==
    /\ pc[r] = "merging"
    /\ later[r] = {}
    /\ response' = [response EXCEPT ![r] = retReturns[Api[r]]]
    /\ pc' = [pc EXCEPT ![r] = "done"]
    /\ UNCHANGED <<maidVars, singleton, countVars, minionLogList, later, expired, stop,
                   retReturns, loaded, cut>>

Listen(r) ==
    \/ OnSignal(r) \/ OnResult(r) \/ OnLateReturn(r) \/ OnReturn(r)
    \/ Reconnect(r)

Thread(r) ==
    \/ ResetReturns(r) \/ CreateInstance(r) \/ FillInstance(r)
    \/ UsePartialInstance(r) \/ SubscribeTopic(r) \/ PublishCommand(r)
    \/ Listen(r) \/ StoreReturn(r) \/ MergeLoad(r) \/ MergeStore(r) \/ Return(r)

Terminated ==
    /\ \A r \in Requests : pc[r] = "done"
    /\ \A m \in Maids : tasks[m] = {} /\ cmdq[m] = <<>>
    /\ UNCHANGED vars

Next ==
    \/ \E r \in Requests : Thread(r) \/ Expire(r) \/ LoseConnection(r)
    \/ MaidNext /\ UNCHANGED clientVars
    \/ Terminated

Spec == Init /\ [][Next]_vars

Fairness ==
    /\ \A r \in Requests : WF_vars(Thread(r)) /\ WF_vars(Expire(r))
    /\ \A m \in Maids : WF_vars(MaidWork(m) /\ UNCHANGED clientVars)

FairSpec == Spec /\ Fairness

-----------------------------------------------------------------------------
(* Properties.                                                             *)

\* A response holds results of its own request only.
ResponseIsOwn ==
    \A r \in Requests : response[r] \subseteq {r} \X Minions

\* A request that ends because all the maids are through, or because every
\* minion it names has returned, answers with all of these minions, except
\* for results that its connection took with it, closed by another request or
\* lost.
ResponseIsComplete ==
    \A r \in Requests : pc[r] = "done" =>
        /\ stop[r] = "all" => \A m \in comeSubList :
              {r} \X Matched(m, Tgt[r]) \subseteq response[r] \cup lost
        /\ stop[r] = "targets" => {r} \X Tgt[r].ids \subseteq response[r]

\* "check sub timeout, if no node running again": a request does not stop
\* while a maid that has answered PING is still at work on it, unless the
\* timeout has passed or every minion it names has returned.  It may have
\* missed a PING when it lost its subscription.
NoneLeftRunning ==
    \A r \in Requests \ cut :
        \/ stop[r] \in {"none", "T1"}
        \/ stop[r] = "targets" /\ Tgt[r].ids # {}
        \/ resultPingSet[r] \subseteq resultExeSet[r]

\* Every request is answered, unless another one closes its subscription, its
\* connection is lost, a maid dies, or a greenlet of one.
EveryRequestEnds ==
    \A r \in Requests :
        [](r \notin cut /\ \A f \in FaultKinds : faults[f] = 0)
            => <>(pc[r] = "done")
=============================================================================
