--------------------------- MODULE SaltxApiProofs ---------------------------
(***************************************************************************)
(* Theorems about the REST service's synchronous requests, SaltxApi, for   *)
(* every set of maids, minions, requests and targets, and whatever faults. *)
(***************************************************************************)
EXTENDS SaltxApi, MaidProofs, FiniteSetTheorems

\* The command that a request publishes is a command, on a topic of its own.
LEMMA WrapMesageType ==
    ASSUME NEW r \in Requests
    PROVE  /\ wrapMesage(r) \in Command
           /\ wrapMesage(r).topic = r /\ wrapMesage(r).type = SYNC_RUN
           /\ wrapMesage(r).tgt = Tgt[r] /\ r \in Topics
BY ApiAssumption DEF wrapMesage, Command, FunctionType, Targeted, SYNC_RUN

\* The maids that the super master knows are finitely many.
LEMMA SyndicCountType == IsFiniteSet(comeSubList) /\ syndic_count \in Nat
<1>1. comeSubList \subseteq Maids
  BY ApiAssumption DEF comeSubList
<1>2. IsFiniteSet(comeSubList)
  BY <1>1, MaidAssumption, FS_Subset
<1> QED
  BY <1>2, FS_CardinalityType DEF syndic_count

\* What a request reads is the head of its queue.
LEMMA ReadsStep ==
    ASSUME MaidTypeOK, NEW r \in Requests, NEW kinds, Reads(r, kinds)
    PROVE  /\ pc[r] = "listening" /\ inbox[r] # <<>>
           /\ callResult(r) = inbox[r][1] /\ Len(inbox[r]) > 0
           /\ callResult(r).kind \in kinds
           /\ Tail(inbox[r]) \in Seq(Message)
           /\ callResult(r).kind \in {"ping", "work", "interrupt"} =>
                callResult(r).sub_ip \in Maids
           /\ callResult(r).kind = "data" =>
                callResult(r).items \subseteq Minions
<1>1. r \in Topics /\ inbox[r] # <<>>
  BY ApiAssumption DEF Reads
<1>2. inbox[r] \in Seq(Message)
  BY <1>1, QueueType
<1>3. Tail(inbox[r]) \in Seq(Message)
  BY <1>1, <1>2, HeadTailProperties
<1> QED
  BY <1>1, <1>3, HeadType DEF Reads, callResult

\* What the end of the loop's body does to the bus and to the control.
LEMMA EndOfBodyType ==
    ASSUME TypeOK, NEW r \in Requests, NEW rest \in Seq(Message),
           EndOfBody(r, rest)
    PROVE  /\ MaidTypeOK'
           /\ pc' \in [Requests -> {"start", "reset", "creating", "subscribed",
                            "listening", "storing", "merging", "mergestoring",
                            "done"}]
           /\ stop' \in [Requests -> {"none", "T0", "T1", "all", "targets"}]
           /\ cut' \subseteq Requests
           /\ UNCHANGED <<singleton, response>>
<1>t. MaidTypeOK /\ Topics = Requests
  BY ApiAssumption DEF TypeOK
<1>1. StopTest(pingCount'[r], resultCount'[r], expired'[r], minionLogList'[r])
        \in {"none", "T0", "T1", "all", "targets"}
  BY DEF StopTest
<1>2. stop' \in [Requests -> {"none", "T0", "T1", "all", "targets"}]
  BY <1>1 DEF EndOfBody, TypeOK
<1>3. UNCHANGED <<up, cmdq, tasks, sent, faults, singleton, response>>
  BY DEF EndOfBody
<1>4. CASE stop'[r] = "none"
  <2>1. /\ inbox' = [inbox EXCEPT ![r] = rest]
        /\ pc' = [pc EXCEPT ![r] = "listening"]
        /\ UNCHANGED <<subscribed, lost, cut>>
    BY <1>4 DEF EndOfBody
  <2>2. inbox' \in [Topics -> Seq(Message)]
    BY <1>t, <2>1 DEF MaidTypeOK
  <2>3. MaidTypeOK'
    BY <1>3, <1>t, <2>1, <2>2 DEF MaidTypeOK
  <2> QED
    BY <1>2, <1>3, <2>1, <2>3 DEF TypeOK
<1>5. CASE stop'[r] # "none"
  <2>1. LoseQueues(Topics \ {r}) /\ inbox' = [q \in Topics |-> <<>>]
        /\ cut' = cut \cup (subscribed \ {r}) /\ subscribed' = {}
        /\ pc' = [pc EXCEPT ![r] = "merging"]
    BY <1>5 DEF EndOfBody
  <2>2. lost' \subseteq Topics \X Minions
    BY <1>t, <2>1, LoseQueuesType
  <2>3. inbox' \in [Topics -> Seq(Message)]
    BY <2>1
  <2> QED
    BY <1>2, <1>3, <1>t, <2>1, <2>2, <2>3 DEF TypeOK, MaidTypeOK
<1> QED
  BY <1>4, <1>5

\* Every step of a request's thread keeps TypeOK.
LEMMA ThreadType ==
    ASSUME TypeOK, NEW r \in Requests,
           Thread(r) \/ Expire(r) \/ LoseConnection(r)
    PROVE  TypeOK'
<1>t. MaidTypeOK /\ r \in Topics /\ inbox[r] \in Seq(Message)
      /\ Api[r] \in NetapiClients
  BY QueueType, ApiAssumption DEF TypeOK
<1>1. CASE ResetReturns(r) \/ CreateInstance(r) \/ FillInstance(r)
  <2>1. CASE ResetReturns(r) \/ CreateInstance(r)
    BY <1>t, <2>1
    DEF ResetReturns, CreateInstance, TypeOK, maidVars, MaidTypeOK, countVars
  <2>2. CASE FillInstance(r)
    <3>1. /\ faults' \in [FaultKinds -> Nat]
          /\ singleton' \in {"absent", "partial", "ready"}
      BY <1>t, <2>2, FaultType DEF FillInstance, MaidTypeOK, TypeOK
    <3> QED
      BY <2>2, <3>1 DEF FillInstance, TypeOK, MaidTypeOK, countVars
  <2> QED
    BY <1>1, <2>1, <2>2
<1>2. CASE UsePartialInstance(r) \/ Return(r)
  <2>1. /\ response' = [response EXCEPT ![r] = retReturns[Api[r]]]
        /\ pc' = [pc EXCEPT ![r] = "done"]
        /\ UNCHANGED <<maidVars, singleton, countVars, minionLogList, later,
                       expired, stop, retReturns, loaded, cut>>
    BY <1>2 DEF UsePartialInstance, Return
  <2>2. response' \in [Requests -> SUBSET Result]
    BY <1>t, <2>1 DEF TypeOK
  <2> QED
    BY <2>1, <2>2 DEF TypeOK, maidVars, MaidTypeOK, countVars
<1>3. CASE SubscribeTopic(r)
  <2>1. inbox' \in [Topics -> Seq(Message)] /\ subscribed' \subseteq Topics
    BY <1>3, <1>t, SubscribeType DEF SubscribeTopic, MaidTypeOK
  <2> QED
    BY <1>3, <2>1 DEF SubscribeTopic, TypeOK, MaidTypeOK, countVars
<1>4. CASE PublishCommand(r)
  <2>1. cmdq' \in [Maids -> Seq(Command)]
    BY <1>4, <1>t, PublishToSyndicSubType, WrapMesageType
    DEF PublishCommand, MaidTypeOK
  <2> QED
    BY <1>4, <2>1 DEF PublishCommand, TypeOK, MaidTypeOK, countVars
<1>5. CASE Expire(r)
  BY <1>5 DEF Expire, TypeOK, maidVars, MaidTypeOK, countVars
<1>6. CASE Reconnect(r)
  <2>1. inbox' \in [Topics -> Seq(Message)] /\ subscribed' \subseteq Topics
    BY <1>6, <1>t, SubscribeType DEF Reconnect, MaidTypeOK
  <2> QED
    BY <1>6, <2>1 DEF Reconnect, clientVars, TypeOK, MaidTypeOK, countVars
<1>7. CASE OnSignal(r)
  <2>1. callResult(r).kind = "ping" => callResult(r).sub_ip \in Maids
    BY <1>7, <1>t, ReadsStep DEF OnSignal
  <2>2. Tail(inbox[r]) \in Seq(Message) /\ EndOfBody(r, Tail(inbox[r]))
    BY <1>7, <1>t, ReadsStep DEF OnSignal
  <2>3. /\ pingCount' \in [Requests -> Nat]
        /\ resultPingSet' \in [Requests -> SUBSET comeSubList]
    BY <1>7 DEF OnSignal, TypeOK
  <2> QED
    BY <1>7, <2>2, <2>3, EndOfBodyType DEF OnSignal, TypeOK
<1>8. CASE OnResult(r)
  <2>1. callResult(r).sub_ip \in Maids
    BY <1>8, <1>t, ReadsStep DEF OnResult
  <2>2. Tail(inbox[r]) \in Seq(Message) /\ EndOfBody(r, Tail(inbox[r]))
    BY <1>8, <1>t, ReadsStep DEF OnResult
  <2>3. /\ resultCount' \in [Requests -> Nat]
        /\ resultExeSet' \in [Requests -> SUBSET Maids]
    BY <1>8, <2>1 DEF OnResult, TypeOK
  <2> QED
    BY <1>8, <2>2, <2>3, EndOfBodyType DEF OnResult, TypeOK
<1>9. CASE OnLateReturn(r)
  <2>1. callResult(r).items \subseteq Minions
    BY <1>9, <1>t, ReadsStep DEF OnLateReturn
  <2>2. Tail(inbox[r]) \in Seq(Message) /\ EndOfBody(r, Tail(inbox[r]))
    BY <1>9, <1>t, ReadsStep DEF OnLateReturn
  <2>3. /\ later' \in [Requests -> SUBSET Minions]
        /\ minionLogList' \in [Requests -> SUBSET Minions]
        /\ expired' \in [Requests -> BOOLEAN]
    BY <1>9, <2>1 DEF OnLateReturn, TypeOK
  <2> QED
    BY <1>9, <2>2, <2>3, EndOfBodyType DEF OnLateReturn, TypeOK, countVars
<1>10. CASE OnReturn(r)
  <2>1. callResult(r).items \subseteq Minions /\ Tail(inbox[r]) \in Seq(Message)
    BY <1>10, <1>t, ReadsStep DEF OnReturn
  <2>2. retReturns[Api[r]] \cup ({r} \X callResult(r).items) \in SUBSET Result
    BY <1>t, <2>1 DEF TypeOK, Result
  <2>3. /\ loaded' \in [Requests -> SUBSET Result]
        /\ inbox' \in [Topics -> Seq(Message)]
        /\ minionLogList' \in [Requests -> SUBSET Minions]
    BY <1>10, <1>t, <2>1, <2>2 DEF OnReturn, TypeOK, MaidTypeOK
  <2> QED
    BY <1>10, <2>3 DEF OnReturn, TypeOK, MaidTypeOK, countVars
<1>11. CASE StoreReturn(r)
  <2>1. EndOfBody(r, inbox[r])
    BY <1>11 DEF StoreReturn
  <2>2. /\ retReturns' \in [NetapiClients -> SUBSET Result]
        /\ loaded' \in [Requests -> SUBSET Result]
    BY <1>11, <1>t DEF StoreReturn, TypeOK
  <2> QED
    BY <1>11, <1>t, <2>1, <2>2, EndOfBodyType DEF StoreReturn, TypeOK, countVars
<1>12. CASE MergeLoad(r)
  <2>1. PICK k \in later[r] :
          /\ later' = [later EXCEPT ![r] = @ \ {k}]
          /\ loaded' = [loaded EXCEPT ![r] = retReturns[Api[r]] \cup {<<r, k>>}]
    BY <1>12 DEF MergeLoad
  <2>2. retReturns[Api[r]] \cup {<<r, k>>} \in SUBSET Result
    BY <1>t DEF TypeOK, Result
  <2>3. /\ later' \in [Requests -> SUBSET Minions]
        /\ loaded' \in [Requests -> SUBSET Result]
    BY <2>1, <2>2 DEF TypeOK
  <2> QED
    BY <1>12, <2>3 DEF MergeLoad, TypeOK, maidVars, MaidTypeOK, countVars
<1>13. CASE MergeStore(r)
  BY <1>13, <1>t DEF MergeStore, TypeOK, maidVars, MaidTypeOK, countVars
<1>14. CASE LoseConnection(r)
  <2>1. /\ faults' \in [FaultKinds -> Nat] /\ lost' \subseteq Topics \X Minions
        /\ cut' \subseteq Requests
    <3>1. {r} \in SUBSET Topics /\ LoseQueues({r}) /\ cut' = cut \cup {r}
      BY <1>14, <1>t DEF LoseConnection
    <3>2. lost' \subseteq Topics \X Minions
      BY <1>t, <3>1, LoseQueuesType
    <3>3. faults' \in [FaultKinds -> Nat]
      BY <1>14, <1>t, FaultType DEF LoseConnection, MaidTypeOK
    <3> QED
      BY <3>1, <3>2, <3>3 DEF TypeOK
  <2>2. /\ inbox' \in [Topics -> Seq(Message)] /\ subscribed' \subseteq Topics
        /\ response' \in [Requests -> SUBSET Result]
        /\ \/ UNCHANGED pc
           \/ pc' = [pc EXCEPT ![r] = "done"]
    <3>1. CASE Subscribe(r) /\ UNCHANGED <<pc, response>>
      BY <1>14, <1>t, <3>1, SubscribeType DEF MaidTypeOK, TypeOK
    <3>2. CASE /\ pc' = [pc EXCEPT ![r] = "done"]
               /\ response' = [response EXCEPT ![r] = retReturns[Api[r]]]
               /\ subscribed' = subscribed \ {r}
               /\ inbox' = [inbox EXCEPT ![r] = <<>>]
      <4>1. <<>> \in Seq(Message)
        OBVIOUS
      <4> QED
        BY <1>t, <3>2, <4>1 DEF MaidTypeOK, TypeOK
    <3> QED
      BY <1>14, <3>1, <3>2 DEF LoseConnection
  <2> QED
    BY <1>14, <2>1, <2>2 DEF LoseConnection, TypeOK, MaidTypeOK, countVars
<1> QED
  BY <1>1, <1>2, <1>3, <1>4, <1>5, <1>6, <1>7, <1>8, <1>9, <1>10, <1>11,
     <1>12, <1>13, <1>14
  DEF Thread, Listen

\* Every step keeps TypeOK.
LEMMA TypeStep == TypeOK /\ [Next]_vars => TypeOK'
<1> SUFFICES ASSUME TypeOK, [Next]_vars PROVE TypeOK'
  OBVIOUS
<1>1. CASE \E r \in Requests : Thread(r) \/ Expire(r) \/ LoseConnection(r)
  BY <1>1, ThreadType
<1>2. CASE MaidNext /\ UNCHANGED clientVars
  BY <1>2, MaidNextType DEF clientVars, countVars, TypeOK
<1>3. CASE UNCHANGED vars
  BY <1>3 DEF vars, maidVars, clientVars, countVars, TypeOK, MaidTypeOK
<1> QED
  BY <1>1, <1>2, <1>3 DEF Next, Terminated

\* The initial states are well typed.
LEMMA TypeInit == Init => TypeOK
<1> SUFFICES ASSUME Init PROVE TypeOK
  OBVIOUS
<1>1. \A r \in Requests : Tgt[r].ids \subseteq Minions
  BY ApiAssumption DEF Target
<1> QED
  BY <1>1, MaidInitType DEF Init, TypeOK

\* Types: maids, bus, the requests and the attributes that they share keep
\* their types in every behaviour.
THEOREM TypeCorrect == Spec => []TypeOK
<1> QED
  BY TypeInit, TypeStep, PTL DEF Spec
-----------------------------------------------------------------------------
(* Whose results a response holds.  Requests that do not share a client    *)
(* have an attribute retReturns each.                                      *)

\* every request is served by a client of its own
OwnClients == \A q, r \in Requests : Api[q] = Api[r] => q = r

\* the results in the attribute of a request's client
returns(r) == retReturns[Api[r]]

\* Attribute, local copy and response hold results of the request alone; and
\* what is about to be stored includes what the attribute has.
OwnInv ==
    /\ TypeOK
    /\ \A r \in Requests :
         /\ returns(r) \cup loaded[r] \cup response[r] \subseteq {r} \X Minions
         /\ IF pc[r] \in {"storing", "mergestoring"}
            THEN returns(r) \subseteq loaded[r]
            ELSE loaded[r] = {}

\* What a step of request r's thread does to attribute, copy and response.
Resets(r) ==
    /\ pc[r] = "start" /\ pc'[r] = "reset"
    /\ returns(r)' = {} /\ UNCHANGED <<loaded, response>>
Leaves(r) ==
    /\ pc[r] \notin {"storing", "mergestoring", "start"}
    /\ pc'[r] \notin {"storing", "mergestoring"}
    /\ UNCHANGED <<retReturns, loaded, response>>
Loads(r, S) ==
    /\ pc[r] \in {"listening", "merging"}
    /\ pc'[r] \in {"storing", "mergestoring"}
    /\ S \subseteq Minions
    /\ loaded'[r] = returns(r) \cup ({r} \X S)
    /\ UNCHANGED <<retReturns, response>>
Stores(r) ==
    /\ pc[r] \in {"storing", "mergestoring"}
    /\ pc'[r] \notin {"storing", "mergestoring"}
    /\ returns(r)' = loaded[r] /\ loaded'[r] = {} /\ UNCHANGED response
Answers(r) ==
    /\ pc[r] \in {"reset", "listening", "merging"} /\ pc'[r] = "done"
    /\ response'[r] = returns(r) /\ UNCHANGED <<retReturns, loaded>>

\* Every step of a thread is one of these, and touches no other request.
LEMMA ThreadSteps ==
    ASSUME TypeOK, NEW r \in Requests,
           Thread(r) \/ Expire(r) \/ LoseConnection(r)
    PROVE  /\ \/ Resets(r) \/ Leaves(r) \/ Stores(r) \/ Answers(r)
              \/ \E S \in SUBSET Minions : Loads(r, S)
           /\ \A q \in Requests \ {r} :
                /\ Api[q] # Api[r] => UNCHANGED returns(q)
                /\ UNCHANGED <<loaded[q], response[q], minionLogList[q],
                               later[q], expired[q], pc[q], stop[q]>>
                /\ UNCHANGED <<pingCount[q], resultCount[q], resultPingSet[q],
                               resultExeSet[q]>>
<1>t. MaidTypeOK /\ r \in Topics /\ Api \in [Requests -> NetapiClients]
  BY ApiAssumption DEF TypeOK
<1> USE DEF returns
<1>1. CASE ResetReturns(r)
  BY <1>1, <1>t DEF ResetReturns, TypeOK, Resets, countVars
<1>2. CASE CreateInstance(r) \/ FillInstance(r) \/ SubscribeTopic(r)
           \/ PublishCommand(r) \/ Expire(r) \/ Reconnect(r)
  BY <1>2, <1>t
  DEF CreateInstance, FillInstance, SubscribeTopic, PublishCommand, Expire,
      Reconnect, clientVars, TypeOK, Leaves, countVars
<1>3. CASE UsePartialInstance(r) \/ Return(r)
  BY <1>3, <1>t DEF UsePartialInstance, Return, TypeOK, Answers, countVars
<1>4. CASE OnSignal(r) \/ OnResult(r) \/ OnLateReturn(r)
  <2>1. PICK rest : EndOfBody(r, rest)
    BY <1>4 DEF OnSignal, OnResult, OnLateReturn
  <2>2. /\ pc'[r] \in {"listening", "merging"} /\ UNCHANGED response
        /\ \A q \in Requests \ {r} : UNCHANGED <<pc[q], stop[q]>>
    BY <2>1 DEF EndOfBody, TypeOK
  <2>3. pc[r] = "listening" /\ UNCHANGED <<retReturns, loaded>>
    BY <1>4 DEF OnSignal, OnResult, OnLateReturn, Reads
  <2>4. \A q \in Requests \ {r} :
          /\ UNCHANGED <<minionLogList[q], later[q], expired[q]>>
          /\ UNCHANGED <<pingCount[q], resultCount[q], resultPingSet[q],
                         resultExeSet[q]>>
    BY <1>4 DEF OnSignal, OnResult, OnLateReturn, TypeOK, countVars
  <2> QED
    BY <2>2, <2>3, <2>4 DEF Leaves
<1>5. CASE OnReturn(r)
  <2>1. callResult(r).items \subseteq Minions /\ pc[r] = "listening"
    BY <1>5, <1>t, ReadsStep DEF OnReturn
  <2>2. Loads(r, callResult(r).items)
    BY <1>5, <1>t, <2>1 DEF OnReturn, TypeOK, Loads
  <2> QED
    BY <1>5, <2>1, <2>2 DEF OnReturn, TypeOK, countVars
<1>6. CASE StoreReturn(r)
  <2>1. EndOfBody(r, inbox[r])
    BY <1>6 DEF StoreReturn
  <2>2. /\ pc'[r] \in {"listening", "merging"} /\ UNCHANGED response
        /\ \A q \in Requests \ {r} : UNCHANGED <<pc[q], stop[q]>>
    BY <2>1 DEF EndOfBody, TypeOK
  <2>3. Stores(r)
    BY <1>6, <1>t, <2>2 DEF StoreReturn, Stores, TypeOK
  <2> QED
    BY <1>6, <1>t, <2>2, <2>3 DEF StoreReturn, TypeOK, countVars
<1>7. CASE MergeLoad(r)
  <2>1. PICK k \in later[r] :
          /\ later' = [later EXCEPT ![r] = @ \ {k}]
          /\ loaded' = [loaded EXCEPT ![r] = retReturns[Api[r]] \cup {<<r, k>>}]
    BY <1>7 DEF MergeLoad
  <2>2. {k} \in SUBSET Minions /\ {<<r, k>>} = {r} \X {k}
    BY DEF TypeOK
  <2>3. Loads(r, {k})
    BY <1>7, <2>1, <2>2 DEF MergeLoad, TypeOK, Loads
  <2> QED
    BY <1>7, <2>1, <2>2, <2>3 DEF MergeLoad, TypeOK, countVars
<1>8. CASE MergeStore(r)
  BY <1>8, <1>t DEF MergeStore, TypeOK, Stores, countVars
<1>9. CASE LoseConnection(r)
  <2>1. Leaves(r) \/ Answers(r)
    BY <1>9, <1>t DEF LoseConnection, TypeOK, Leaves, Answers
  <2> QED
    BY <1>9, <1>t, <2>1 DEF LoseConnection, TypeOK, countVars
<1> QED
  BY <1>1, <1>2, <1>3, <1>4, <1>5, <1>6, <1>7, <1>8, <1>9 DEF Thread, Listen

\* With clients of their own the requests keep their results apart.
LEMMA OwnStep == OwnClients /\ OwnInv /\ [Next]_vars => OwnInv'
<1> SUFFICES ASSUME OwnClients, OwnInv, [Next]_vars PROVE OwnInv'
  OBVIOUS
<1>t. TypeOK /\ TypeOK'
  BY TypeStep DEF OwnInv
<1>1. CASE \E r \in Requests : Thread(r) \/ Expire(r) \/ LoseConnection(r)
  <2>1. PICK r \in Requests : Thread(r) \/ Expire(r) \/ LoseConnection(r)
    BY <1>1
  <2>2. ASSUME NEW q \in Requests \ {r}
        PROVE  UNCHANGED <<returns(q), loaded[q], response[q], pc[q]>>
    BY <1>t, <2>1, <2>2, ThreadSteps DEF OwnClients
  <2>3. \/ Resets(r) \/ Leaves(r) \/ Stores(r) \/ Answers(r)
        \/ \E S \in SUBSET Minions : Loads(r, S)
    BY <1>t, <2>1, ThreadSteps
  <2>4. /\ returns(r)' \cup loaded'[r] \cup response'[r] \subseteq {r} \X Minions
        /\ IF pc'[r] \in {"storing", "mergestoring"}
           THEN returns(r)' \subseteq loaded'[r] ELSE loaded'[r] = {}
    <3>1. CASE Resets(r)
      BY <3>1 DEF Resets, OwnInv
    <3>2. CASE Leaves(r)
      BY <3>2 DEF Leaves, OwnInv, returns
    <3>3. CASE Stores(r)
      BY <3>3 DEF Stores, OwnInv
    <3>4. CASE Answers(r)
      BY <3>4 DEF Answers, OwnInv, returns
    <3>5. CASE \E S \in SUBSET Minions : Loads(r, S)
      BY <3>5 DEF Loads, OwnInv, returns
    <3> QED
      BY <2>3, <3>1, <3>2, <3>3, <3>4, <3>5
  <2> QED
    BY <1>t, <2>2, <2>4 DEF OwnInv
<1>2. CASE UNCHANGED clientVars
  BY <1>2, <1>t DEF clientVars, OwnInv, returns
<1> QED
  BY <1>1, <1>2 DEF Next, Terminated, vars

\* Nothing has been read in the initial states.
LEMMA OwnInit == Init => OwnInv
<1> SUFFICES ASSUME Init PROVE OwnInv
  OBVIOUS
<1>1. \A r \in Requests : Api[r] \in NetapiClients
  BY ApiAssumption
<1> QED
  BY <1>1, TypeInit DEF Init, OwnInv, returns

\* A response holds results of its own request only, if no two requests are
\* served by one client.
THEOREM ResponsesApart == OwnClients => (Spec => []ResponseIsOwn)
<1> SUFFICES ASSUME OwnClients PROVE Spec => []ResponseIsOwn
  OBVIOUS
<1>1. OwnInv => ResponseIsOwn
  BY DEF OwnInv, ResponseIsOwn
<1> QED
  BY <1>1, OwnInit, OwnStep, PTL DEF Spec
-----------------------------------------------------------------------------
(* The stop.  Each request's command is the only one of its topic.  The    *)
(* request counts the ends that it reads in resultExeSet, and the PINGs in *)
(* resultPingSet, of which it misses none before its connection is cut.    *)

\* the super master knows every maid that listens to its topic
AllKnown == Maids \subseteq comeSubList

\* every request names its minions: none has the target '*'
NamedTargets == \A r \in Requests : Tgt[r].ids # {}

\* the maids hold nothing but the requests' commands, each of them once, and
\* nothing is queued where nobody is subscribed
HeldOK ==
    /\ \A d \in Command : Single(d)
    /\ \A m \in Maids : \A d \in Command : Holds(m, d) => d = wrapMesage(d.topic)
    /\ \A t \in Requests \ subscribed : inbox[t] = <<>>

\* a request that has not been published
Fresh(q) == pc[q] \in {"start", "reset", "creating", "subscribed"} =>
    /\ \A m \in Maids : ~Holds(m, wrapMesage(q))
    /\ pingCount[q] = 0 /\ resultCount[q] = 0
    /\ resultPingSet[q] = {} /\ resultExeSet[q] = {}
    /\ stop[q] = "none"
    /\ pc[q] = "subscribed" =>
         /\ q \in subscribed \cup cut
         /\ \A i \in 1 .. Len(inbox[q]) : inbox[q][i].kind = "subscribe"

\* a request that reads its messages
Reading(q) == pc[q] \in {"listening", "storing"} =>
    /\ stop[q] = "none"
    /\ resultCount[q] = Cardinality(resultExeSet[q])
    /\ ClosesOnce(wrapMesage(q), resultExeSet[q])
    /\ q \notin cut =>
         /\ q \in subscribed
         /\ pingCount[q] = Cardinality(resultPingSet[q])
         /\ PingsAhead(wrapMesage(q), resultPingSet[q], resultExeSet[q])

\* a request that has stopped, whatever it does then
Stopped(q) ==
    \/ q \in cut
    \/ stop[q] \in {"none", "T1", "targets"}
    \/ resultPingSet[q] \subseteq resultExeSet[q]

CountInv ==
    /\ TypeOK
    /\ HeldOK
    /\ \A q \in Requests : Fresh(q) /\ Reading(q) /\ Stopped(q)

\* A request's command has its topic for itself.
LEMMA OwnTopic ==
    ASSUME HeldOK, NEW q \in Requests
    PROVE  Single(wrapMesage(q)) /\ Own(wrapMesage(q))
BY WrapMesageType DEF HeldOK, Own

\* What a step of request r's thread does to the bus: it publishes, or leaves
\* the maids alone; it leaves the queues of the other requests alone, or
\* cuts all their connections.
LEMMA BusSteps ==
    ASSUME TypeOK, NEW r \in Requests,
           Thread(r) \/ Expire(r) \/ LoseConnection(r)
    PROVE  /\ UNCHANGED tasks /\ lost \subseteq lost' /\ cut \subseteq cut'
           /\ UNCHANGED cmdq \/ PublishCommand(r)
           /\ \A q \in Requests \ {r} :
                \/ /\ inbox'[q] = inbox[q]
                   /\ q \in subscribed' <=> q \in subscribed
                   /\ q \in cut' <=> q \in cut
                \/ /\ inbox'[q] = <<>> /\ q \notin subscribed'
                   /\ q \in subscribed => q \in cut'
                   /\ {q} \X Queued(q) \subseteq lost' /\ UNCHANGED cmdq
<1>t. MaidTypeOK /\ Topics = Requests
  BY ApiAssumption DEF TypeOK
<1>1. CASE ResetReturns(r) \/ CreateInstance(r) \/ FillInstance(r)
           \/ UsePartialInstance(r) \/ Expire(r) \/ MergeLoad(r)
           \/ MergeStore(r) \/ Return(r)
  BY <1>1
  DEF ResetReturns, CreateInstance, FillInstance, UsePartialInstance, Expire,
      MergeLoad, MergeStore, Return, maidVars
<1>2. CASE PublishCommand(r)
  BY <1>2 DEF PublishCommand
<1>3. CASE SubscribeTopic(r) \/ Reconnect(r)
  <2>1. Subscribe(r) /\ UNCHANGED <<tasks, lost, cut, cmdq>>
    BY <1>3 DEF SubscribeTopic, Reconnect, clientVars
  <2> QED
    BY <1>t, <2>1 DEF Subscribe, MaidTypeOK
<1>4. CASE OnReturn(r)
  BY <1>4, <1>t DEF OnReturn, MaidTypeOK
<1>5. CASE OnSignal(r) \/ OnResult(r) \/ OnLateReturn(r) \/ StoreReturn(r)
  <2>1. PICK rest : EndOfBody(r, rest)
    BY <1>5 DEF OnSignal, OnResult, OnLateReturn, StoreReturn
  <2>2. UNCHANGED <<cmdq, tasks>>
    BY <2>1 DEF EndOfBody
  <2>3. CASE stop'[r] = "none"
    BY <1>t, <2>1, <2>2, <2>3 DEF EndOfBody, MaidTypeOK
  <2>4. CASE stop'[r] # "none"
    <3>1. /\ inbox' = [q \in Topics |-> <<>>] /\ LoseQueues(Topics \ {r})
          /\ cut' = cut \cup (subscribed \ {r}) /\ subscribed' = {}
      BY <2>1, <2>4 DEF EndOfBody
    <3>2. lost \subseteq lost'
          /\ \A q \in Requests \ {r} : {q} \X Queued(q) \subseteq lost'
      BY <1>t, <3>1 DEF LoseQueues
    <3> QED
      BY <1>t, <2>2, <3>1, <3>2
  <2> QED
    BY <2>3, <2>4
<1>6. CASE LoseConnection(r)
  <2>1. UNCHANGED <<cmdq, tasks>> /\ LoseQueues({r}) /\ cut' = cut \cup {r}
    BY <1>6 DEF LoseConnection
  <2>2. \A q \in Requests \ {r} :
          inbox'[q] = inbox[q] /\ (q \in subscribed' <=> q \in subscribed)
    BY <1>6, <1>t DEF LoseConnection, Subscribe, MaidTypeOK
  <2> QED
    BY <2>1, <2>2 DEF LoseQueues
<1> QED
  BY <1>1, <1>2, <1>3, <1>4, <1>5, <1>6 DEF Thread, Listen

\* What a step of request r leaves of the command of request q.
LEMMA OtherCommands ==
    ASSUME TypeOK, HeldOK, NEW r \in Requests,
           Thread(r) \/ Expire(r) \/ LoseConnection(r),
           NEW q \in Requests \ {r}
    PROVE  /\ \A m \in Maids : Awaits(m, wrapMesage(q))' => Awaits(m, wrapMesage(q))
           /\ \A m \in Maids : Holds(m, wrapMesage(q))' => Holds(m, wrapMesage(q))
<1>t. MaidTypeOK /\ UNCHANGED tasks
  BY BusSteps DEF TypeOK
<1>1. CASE UNCHANGED cmdq
  BY <1>1, <1>t, StillHeld DEF Awaits, Holds, Greenlets
<1>2. CASE PublishCommand(r)
  <2>1. PublishToSyndicSub(wrapMesage(r)) /\ wrapMesage(q) # wrapMesage(r)
    BY <1>2, WrapMesageType DEF PublishCommand
  <2> QED
    BY <1>t, <2>1, PublishHolds, WrapMesageType DEF Holds
<1> QED
  BY <1>1, <1>2, BusSteps

\* A step of one request keeps what is known of the others.
LEMMA OthersKept ==
    ASSUME CountInv, NEW r \in Requests,
           Thread(r) \/ Expire(r) \/ LoseConnection(r),
           NEW q \in Requests \ {r}
    PROVE  Fresh(q)' /\ Reading(q)' /\ Stopped(q)'
<1>t. TypeOK /\ HeldOK /\ MaidTypeOK /\ q \in Topics /\ wrapMesage(q).topic = q
  BY WrapMesageType DEF CountInv, TypeOK
<1>b. /\ UNCHANGED tasks /\ lost \subseteq lost' /\ cut \subseteq cut'
      /\ \/ /\ inbox'[q] = inbox[q]
            /\ q \in subscribed' <=> q \in subscribed
            /\ q \in cut' <=> q \in cut
         \/ /\ inbox'[q] = <<>> /\ q \notin subscribed'
            /\ q \in subscribed => q \in cut'
            /\ {q} \X Queued(q) \subseteq lost' /\ UNCHANGED cmdq
  BY <1>t, BusSteps
<1>c. /\ UNCHANGED <<pc[q], stop[q], pingCount[q], resultCount[q]>>
      /\ UNCHANGED <<resultPingSet[q], resultExeSet[q]>>
  BY <1>t, ThreadSteps
<1>h. /\ \A m \in Maids : Awaits(m, wrapMesage(q))' => Awaits(m, wrapMesage(q))
      /\ \A m \in Maids : Holds(m, wrapMesage(q))' => Holds(m, wrapMesage(q))
  BY <1>t, OtherCommands
<1>1. Fresh(q)'
  BY <1>b, <1>c, <1>h DEF CountInv, Fresh
<1>2. Stopped(q)'
  BY <1>b, <1>c DEF CountInv, Stopped
<1>3. ASSUME pc[q] \in {"listening", "storing"}
      PROVE  /\ ClosesOnce(wrapMesage(q), resultExeSet[q])'
             /\ q \notin cut' =>
                  /\ q \in subscribed'
                  /\ PingsAhead(wrapMesage(q), resultPingSet[q], resultExeSet[q])'
  <2>1. PICK ended \in SUBSET Maids : ended = resultExeSet[q]
    BY <1>t DEF TypeOK
  <2>2. PICK pinged \in SUBSET Maids : pinged = resultPingSet[q]
    BY <1>t, ApiAssumption DEF TypeOK, comeSubList
  <2>3. /\ ClosesOnce(wrapMesage(q), ended)
        /\ q \notin cut => /\ q \in subscribed
                           /\ PingsAhead(wrapMesage(q), pinged, ended)
    BY <1>3, <2>1, <2>2 DEF CountInv, Reading
  <2>4. CASE /\ inbox'[q] = inbox[q]
             /\ q \in subscribed' <=> q \in subscribed
             /\ q \in cut' <=> q \in cut
    <3>1. /\ ClosesOnce(wrapMesage(q), ended)'
          /\ q \notin cut => PingsAhead(wrapMesage(q), pinged, ended)'
      BY <1>t, <1>b, <1>h, <2>3, <2>4, SameTopic
    <3> QED
      BY <1>c, <2>1, <2>2, <2>3, <2>4, <3>1
  <2>5. CASE /\ inbox'[q] = <<>> /\ q \notin subscribed'
             /\ q \in subscribed => q \in cut'
             /\ {q} \X Queued(q) \subseteq lost' /\ UNCHANGED cmdq
    <3>1. inbox[q] \in Seq(Message) /\ Len(inbox[q]) \in Nat
          /\ DOMAIN inbox[q] = 1 .. Len(inbox[q])
      BY <1>t, QueueType
    <3>2. ClosesOnce(wrapMesage(q), ended)'
      BY <1>t, <1>b, <2>3, <2>5, <3>1, QueueGone
    <3>3. q \in cut'
      BY <1>b, <2>3, <2>5
    <3> QED
      BY <1>c, <2>1, <3>2, <3>3
  <2> QED
    BY <1>b, <2>4, <2>5
<1>4. Reading(q)'
  BY <1>b, <1>c, <1>3 DEF CountInv, Reading
<1> QED
  BY <1>1, <1>2, <1>4

\* A step of one request keeps the maids to the requests' commands.
LEMMA HeldStep ==
    ASSUME CountInv, NEW r \in Requests,
           Thread(r) \/ Expire(r) \/ LoseConnection(r)
    PROVE  HeldOK'
<1>t. TypeOK /\ HeldOK /\ MaidTypeOK /\ UNCHANGED tasks /\ r \in Topics
      /\ Topics = Requests
  BY BusSteps, ApiAssumption DEF CountInv, TypeOK
<1>1. /\ \A d \in Command : Single(d)'
      /\ \A m \in Maids : \A d \in Command : Holds(m, d)' => d = wrapMesage(d.topic)
  <2>1. CASE UNCHANGED cmdq
    BY <1>t, <2>1, StillHeld DEF HeldOK
  <2>2. CASE PublishCommand(r)
    <3>1. PublishToSyndicSub(wrapMesage(r)) /\ pc[r] = "subscribed"
      BY <2>2 DEF PublishCommand
    <3>2. \A m \in Maids : ~Holds(m, wrapMesage(r))
      BY <3>1 DEF CountInv, Fresh
    <3>3. \A d \in Command : Single(d)'
      BY <1>t, <3>1, <3>2, PublishSingle, WrapMesageType DEF HeldOK
    <3>4. ASSUME NEW m \in Maids, NEW d \in Command, Holds(m, d)'
          PROVE  Holds(m, d) \/ d = wrapMesage(r)
      BY <1>t, <3>1, <3>4, PublishHolds, WrapMesageType DEF Holds
    <3> QED
      BY <1>t, <3>3, <3>4, WrapMesageType DEF HeldOK
  <2> QED
    BY <1>t, <2>1, <2>2, BusSteps
<1>2. ASSUME NEW t \in Requests \ subscribed' PROVE inbox'[t] = <<>>
  <2>1. CASE t # r
    BY <1>t, <1>2, <2>1, BusSteps DEF HeldOK
  <2>2. CASE t = r
    <3>1. CASE SubscribeTopic(r) \/ Reconnect(r)
      BY <1>2, <2>2, <3>1 DEF SubscribeTopic, Reconnect, Subscribe
    <3>2. CASE OnSignal(r) \/ OnResult(r) \/ OnLateReturn(r) \/ StoreReturn(r)
      <4>1. PICK rest : EndOfBody(r, rest)
        BY <3>2 DEF OnSignal, OnResult, OnLateReturn, StoreReturn
      <4>2. CASE stop'[r] = "none"
        <5>1. UNCHANGED subscribed /\ inbox[r] = <<>>
          BY <1>2, <1>t, <2>2, <4>1, <4>2 DEF EndOfBody, HeldOK
        <5>2. StoreReturn(r)
          BY <3>2, <5>1 DEF OnSignal, OnResult, OnLateReturn, Reads
        <5> QED
          BY <1>t, <2>2, <4>2, <5>1, <5>2 DEF StoreReturn, EndOfBody, MaidTypeOK
      <4>3. CASE stop'[r] # "none"
        BY <1>t, <2>2, <4>1, <4>3 DEF EndOfBody
      <4> QED
        BY <4>2, <4>3
    <3>3. CASE OnReturn(r)
      BY <1>2, <1>t, <2>2, <3>3 DEF OnReturn, Reads, HeldOK
    <3>4. CASE ResetReturns(r) \/ CreateInstance(r) \/ FillInstance(r)
               \/ UsePartialInstance(r) \/ Expire(r) \/ MergeLoad(r)
               \/ MergeStore(r) \/ Return(r) \/ PublishCommand(r)
      <4>1. UNCHANGED <<inbox, subscribed>>
        BY <3>4
        DEF ResetReturns, CreateInstance, FillInstance, UsePartialInstance,
            Expire, MergeLoad, MergeStore, Return, PublishCommand, maidVars
      <4> QED
        BY <1>2, <1>t, <4>1 DEF HeldOK
    <3>5. CASE LoseConnection(r)
      BY <1>2, <1>t, <2>2, <3>5 DEF LoseConnection, Subscribe, MaidTypeOK
    <3> QED
      BY <3>1, <3>2, <3>3, <3>4, <3>5 DEF Thread, Listen
  <2> QED
    BY <2>1, <2>2
<1> QED
  BY <1>1, <1>2 DEF HeldOK

\* When a stop test other than T1 and "targets" ends the loop of a request
\* that has read of each maid its PING before its end, it has read the end
\* of all those whose PING it has read.
LEMMA StopsInTime ==
    ASSUME TypeOK', NEW r \in Requests,
           stop'[r] = StopTest(pingCount'[r], resultCount'[r], expired'[r],
                               minionLogList'[r]),
           resultCount'[r] = Cardinality(resultExeSet'[r]),
           pingCount'[r] = Cardinality(resultPingSet'[r]),
           resultExeSet'[r] \subseteq resultPingSet'[r]
    PROVE  \/ stop'[r] \in {"none", "T1", "targets"}
           \/ resultPingSet'[r] \subseteq resultExeSet'[r]
<1>1. IsFiniteSet(resultPingSet'[r])
  <2>1. resultPingSet'[r] \subseteq comeSubList
    BY DEF TypeOK
  <2> QED
    BY <2>1, SyndicCountType, FS_Subset
<1>2. IsFiniteSet(resultExeSet'[r])
  BY <1>1, FS_Subset
<1>3. PICK p \in Nat, n \in Nat, c \in Nat :
        p = pingCount'[r] /\ n = resultCount'[r] /\ c = syndic_count
  BY SyndicCountType DEF TypeOK
<1>4. CASE stop'[r] = "T0"
  <2>1. p < c /\ c - n - (c - p) <= 0
    BY <1>3, <1>4 DEF StopTest
  <2>2. p <= n
    BY <2>1
  <2>3. n <= p
    BY <1>1, <1>3, FS_Subset
  <2>4. Cardinality(resultExeSet'[r]) = Cardinality(resultPingSet'[r])
    BY <1>3, <2>2, <2>3
  <2> QED
    BY <1>1, <2>4, FS_Subset
<1>5. CASE stop'[r] = "all"
  <2>1. p = c /\ n = c
    BY <1>3, <1>5 DEF StopTest
  <2>2. Cardinality(resultExeSet'[r]) = Cardinality(resultPingSet'[r])
    BY <1>3, <2>1
  <2> QED
    BY <1>1, <2>2, FS_Subset
<1> QED
  BY <1>4, <1>5 DEF TypeOK

\* What a step that reads a message, or goes on after it, counts.
LEMMA Counts ==
    ASSUME AllKnown, CountInv, NEW r \in Requests,
           \/ OnSignal(r) \/ OnResult(r) \/ OnLateReturn(r) \/ OnReturn(r)
    PROVE  \E msg :
             /\ msg = inbox[r][1] /\ Len(inbox[r]) \in Nat /\ Len(inbox[r]) > 0
             /\ msg.kind \in {"work", "interrupt", "ping"} => msg.sub_ip \in Maids
             /\ resultExeSet'[r] = EndsWith(resultExeSet[r], msg)
             /\ resultPingSet'[r] = PingsWith(resultPingSet[r], msg)
             /\ resultCount'[r] = Cardinality(resultExeSet'[r])
             /\ r \notin cut => /\ pingCount'[r] = Cardinality(resultPingSet'[r])
                                /\ resultExeSet'[r] \subseteq resultPingSet'[r]
<1>t. TypeOK /\ MaidTypeOK /\ r \in Topics /\ wrapMesage(r).topic = r
  BY WrapMesageType DEF CountInv, TypeOK
<1>1. PICK msg : msg = callResult(r)
  OBVIOUS
<1>2. /\ msg = inbox[r][1] /\ Len(inbox[r]) \in Nat /\ Len(inbox[r]) > 0
      /\ msg.kind \in {"work", "interrupt", "ping"} => msg.sub_ip \in Maids
      /\ pc[r] = "listening"
  <2>1. PICK kinds : Reads(r, kinds)
    BY DEF OnSignal, OnResult, OnLateReturn, OnReturn
  <2> QED
    BY <1>1, <1>t, <2>1, ReadsStep, QueueType
<1>3. /\ resultExeSet'[r] = EndsWith(resultExeSet[r], msg)
      /\ resultPingSet'[r] = PingsWith(resultPingSet[r], msg)
      /\ resultCount'[r] = IF msg.kind \in {"work", "interrupt"}
                           THEN resultCount[r] + 1 ELSE resultCount[r]
      /\ pingCount'[r] = IF msg.kind = "ping"
                         THEN pingCount[r] + 1 ELSE pingCount[r]
  <2>1. CASE OnSignal(r)
    <3>1. msg.kind \in {"subscribe", "ping"}
          /\ UNCHANGED <<resultCount, resultExeSet>>
      BY <1>1, <2>1 DEF OnSignal, Reads
    <3>2. CASE msg.kind = "ping"
      <4>1. msg.sub_ip \in comeSubList
        BY <1>2, <3>2 DEF AllKnown
      <4> QED
        BY <1>1, <1>t, <2>1, <3>1, <3>2, <4>1
        DEF OnSignal, EndsWith, PingsWith, TypeOK
    <3>3. CASE msg.kind = "subscribe"
      BY <1>1, <1>t, <2>1, <3>1, <3>3
      DEF OnSignal, EndsWith, PingsWith, TypeOK
    <3> QED
      BY <3>1, <3>2, <3>3
  <2>2. CASE OnResult(r)
    BY <1>1, <1>t, <2>2 DEF OnResult, Reads, EndsWith, PingsWith, TypeOK
  <2>3. CASE OnLateReturn(r) \/ OnReturn(r)
    BY <1>1, <1>t, <2>3
    DEF OnLateReturn, OnReturn, Reads, EndsWith, PingsWith, TypeOK, countVars
  <2> QED
    BY <2>1, <2>2, <2>3
<1>4. PICK ended \in SUBSET Maids, pinged \in SUBSET Maids :
        ended = resultExeSet[r] /\ pinged = resultPingSet[r]
  BY <1>t, ApiAssumption DEF TypeOK, comeSubList
<1>5. /\ ClosesOnce(wrapMesage(r), ended) /\ resultCount[r] = Cardinality(ended)
      /\ r \notin cut => /\ PingsAhead(wrapMesage(r), pinged, ended)
                         /\ pingCount[r] = Cardinality(pinged)
  BY <1>2, <1>4 DEF CountInv, Reading
<1>6. /\ msg.kind \in {"work", "interrupt"} => msg.sub_ip \notin ended
      /\ r \notin cut => /\ msg.kind = "ping" => msg.sub_ip \notin pinged
                         /\ EndsWith(ended, msg) \subseteq PingsWith(pinged, msg)
  <2>1. PICK c : c = wrapMesage(r)
    OBVIOUS
  <2>2. /\ msg = inbox[c.topic][1] /\ Len(inbox[c.topic]) \in Nat
        /\ Len(inbox[c.topic]) > 0 /\ ClosesOnce(c, ended)
        /\ r \notin cut => PingsAhead(c, pinged, ended)
    BY <1>2, <1>5, <1>t, <2>1
  <2>3. ASSUME msg.kind \in {"work", "interrupt"} PROVE msg.sub_ip \notin ended
    BY <1>2, <2>2, <2>3, HeadEndsOnce
  <2>4. ASSUME r \notin cut
        PROVE  /\ msg.kind = "ping" => msg.sub_ip \notin pinged
               /\ EndsWith(ended, msg) \subseteq PingsWith(pinged, msg)
    BY <1>2, <2>2, <2>4, HeadPings
  <2> QED
    BY <2>3, <2>4
<1>7. IsFiniteSet(ended) /\ IsFiniteSet(pinged)
  BY MaidAssumption, FS_Subset
<1>8. resultCount'[r] = Cardinality(EndsWith(ended, msg))
  <2>1. CASE msg.kind \in {"work", "interrupt"}
    <3>1. EndsWith(ended, msg) = ended \cup {msg.sub_ip}
      BY <2>1 DEF EndsWith
    <3>2. Cardinality(ended \cup {msg.sub_ip}) = Cardinality(ended) + 1
      BY <1>6, <1>7, <2>1, FS_AddElement
    <3> QED
      BY <1>3, <1>5, <2>1, <3>1, <3>2
  <2>2. CASE msg.kind \notin {"work", "interrupt"}
    BY <1>3, <1>5, <2>2 DEF EndsWith
  <2> QED
    BY <2>1, <2>2
<1>9. ASSUME r \notin cut PROVE pingCount'[r] = Cardinality(PingsWith(pinged, msg))
  <2>1. CASE msg.kind = "ping"
    <3>1. PingsWith(pinged, msg) = pinged \cup {msg.sub_ip}
      BY <2>1 DEF PingsWith
    <3>2. Cardinality(pinged \cup {msg.sub_ip}) = Cardinality(pinged) + 1
      BY <1>6, <1>7, <1>9, <2>1, FS_AddElement
    <3> QED
      BY <1>3, <1>5, <1>9, <2>1, <3>1, <3>2
  <2>2. CASE msg.kind # "ping"
    BY <1>3, <1>5, <1>9, <2>2 DEF PingsWith
  <2> QED
    BY <2>1, <2>2
<1> QED
  BY <1>2, <1>3, <1>4, <1>6, <1>8, <1>9

\* Before a request is published, while it waits for the time to pass, and
\* when it is done with its messages.
LEMMA QuietKept ==
    ASSUME CountInv, NEW r \in Requests,
           \/ ResetReturns(r) \/ CreateInstance(r) \/ FillInstance(r)
           \/ UsePartialInstance(r) \/ Expire(r) \/ MergeLoad(r)
           \/ MergeStore(r) \/ Return(r)
    PROVE  Fresh(r)' /\ Reading(r)' /\ Stopped(r)'
<1>t. TypeOK
  BY DEF CountInv
<1>1. /\ UNCHANGED <<cmdq, tasks, inbox, subscribed, lost, countVars, stop, cut>>
      /\ \/ pc[r] \in {"start", "reset", "creating"} /\ pc'[r] \in {"reset", "creating"}
         \/ pc'[r] \in {"merging", "mergestoring", "done"}
         \/ UNCHANGED pc[r]
  BY <1>t
  DEF ResetReturns, CreateInstance, FillInstance, UsePartialInstance, Expire,
      MergeLoad, MergeStore, Return, TypeOK, maidVars
<1>2. UNCHANGED <<inbox, subscribed, cmdq, tasks, lost>>
      /\ UNCHANGED <<pingCount, resultCount, resultPingSet, resultExeSet>>
  BY <1>1 DEF countVars
<1>3. Stopped(r)'
  BY <1>1, <1>2 DEF CountInv, Stopped
<1>4. Fresh(r)'
  BY <1>1, <1>2, StillHeld DEF CountInv, Fresh
<1>5. Reading(r)'
  <2>1. CASE pc'[r] \in {"listening", "storing"}
    <3>1. pc[r] \in {"listening", "storing"} /\ Reading(r)
      BY <1>1, <2>1 DEF CountInv
    <3>2. PICK ended \in SUBSET Maids, pinged \in SUBSET Maids :
            ended = resultExeSet[r] /\ pinged = resultPingSet[r]
      BY <1>t, ApiAssumption DEF TypeOK, comeSubList
    <3>3. /\ ClosesOnce(wrapMesage(r), ended)'
          /\ r \notin cut => PingsAhead(wrapMesage(r), pinged, ended)'
      <4>1. \A m \in Maids : Awaits(m, wrapMesage(r))' => Awaits(m, wrapMesage(r))
        BY <1>2 DEF Awaits
      <4> QED
        BY <1>2, <3>1, <3>2, <4>1, SameTopic DEF Reading
    <3> QED
      BY <1>1, <1>2, <3>1, <3>2, <3>3 DEF Reading
  <2>2. CASE pc'[r] \notin {"listening", "storing"}
    BY <2>2 DEF Reading
  <2> QED
    BY <2>1, <2>2
<1> QED
  BY <1>3, <1>4, <1>5

\* The subscription, first and after a cut, and the publish.
LEMMA BeginKept ==
    ASSUME CountInv, NEW r \in Requests,
           SubscribeTopic(r) \/ PublishCommand(r) \/ Reconnect(r)
    PROVE  Fresh(r)' /\ Reading(r)' /\ Stopped(r)'
<1>t. TypeOK /\ HeldOK /\ MaidTypeOK /\ r \in Topics /\ wrapMesage(r).topic = r
      /\ wrapMesage(r) \in Command
  BY WrapMesageType DEF CountInv, TypeOK
<1>s. UNCHANGED <<pingCount, resultCount, resultPingSet, resultExeSet>>
      /\ UNCHANGED <<stop, cut, tasks, lost>>
  BY DEF SubscribeTopic, PublishCommand, Reconnect, clientVars, countVars
<1>d. Stopped(r)'
  BY <1>s DEF CountInv, Stopped
<1>1. CASE SubscribeTopic(r)
  <2>1. /\ pc[r] = "reset" /\ pc'[r] = "subscribed" /\ UNCHANGED <<cmdq, tasks>>
        /\ inbox'[r] = <<[kind |-> "subscribe"]>> /\ r \in subscribed'
    BY <1>1, <1>t DEF SubscribeTopic, Subscribe, TypeOK, MaidTypeOK
  <2>2. \A i \in 1 .. Len(inbox'[r]) : inbox'[r][i].kind = "subscribe"
    BY <2>1
  <2> QED
    BY <1>d, <1>s, <2>1, <2>2, StillHeld DEF CountInv, Fresh, Reading
<1>2. CASE PublishCommand(r)
  <2>1. /\ pc[r] = "subscribed" /\ pc'[r] = "listening"
        /\ PublishToSyndicSub(wrapMesage(r))
        /\ UNCHANGED <<inbox, subscribed>>
    BY <1>2, <1>t DEF PublishCommand, TypeOK
  <2>2. /\ \A m \in Maids : Greenlets(m, wrapMesage(r))' = {}
        /\ \A i \in 1 .. Len(inbox'[r]) : inbox'[r][i].kind = "subscribe"
    BY <1>s, <2>1 DEF CountInv, Fresh, Holds, Greenlets
  <2>3. ClosesOnce(wrapMesage(r), {})' /\ PingsAhead(wrapMesage(r), {}, {})'
    BY <1>t, <2>2, FreshTopic
  <2>4. /\ resultExeSet[r] = {} /\ resultPingSet[r] = {} /\ stop[r] = "none"
        /\ resultCount[r] = 0 /\ pingCount[r] = 0
        /\ r \notin cut => r \in subscribed
    BY <2>1 DEF CountInv, Fresh
  <2>5. Reading(r)'
    BY <1>s, <2>1, <2>3, <2>4, FS_EmptySet DEF Reading
  <2> QED
    BY <1>d, <2>1, <2>5 DEF Fresh
<1>3. CASE Reconnect(r)
  <2>1. /\ pc[r] = "listening" /\ r \notin subscribed
        /\ inbox'[r] = <<[kind |-> "subscribe"]>>
        /\ UNCHANGED <<pc, cmdq, tasks>>
    BY <1>3, <1>t DEF Reconnect, Subscribe, MaidTypeOK, clientVars
  <2>2. r \in cut /\ inbox[r] = <<>>
    BY <1>t, <2>1, ApiAssumption DEF CountInv, Reading, HeldOK
  <2>3. PICK ended \in SUBSET Maids : ended = resultExeSet[r]
    BY <1>t DEF TypeOK
  <2>4. ClosesOnce(wrapMesage(r), ended)'
    <3>1. Queued(r) = {}
      BY <2>2 DEF Queued
    <3>2. Len(inbox[r]) \in Nat /\ DOMAIN inbox[r] = 1 .. Len(inbox[r])
      BY <2>2
    <3>3. {r} \X Queued(r) \subseteq lost'
      BY <3>1
    <3>4. ClosesOnce(wrapMesage(r), ended)
      BY <2>1, <2>3 DEF CountInv, Reading
    <3> QED
      BY <1>s, <1>t, <2>1, <3>2, <3>3, <3>4, QueueGone
  <2>5. Reading(r)'
    BY <1>s, <2>1, <2>2, <2>3, <2>4 DEF CountInv, Reading
  <2> QED
    BY <1>d, <2>1, <2>5 DEF Fresh
<1> QED
  BY <1>1, <1>2, <1>3

\* What the connection takes with it counts as lost.
LEMMA LossKept ==
    ASSUME CountInv, NEW r \in Requests, LoseConnection(r)
    PROVE  Fresh(r)' /\ Reading(r)' /\ Stopped(r)'
<1>t. TypeOK /\ MaidTypeOK /\ r \in Topics /\ wrapMesage(r).topic = r
  BY WrapMesageType DEF CountInv, TypeOK
<1>1. /\ pc[r] = "listening" /\ pc'[r] \in {"listening", "done"} /\ r \in cut'
      /\ UNCHANGED <<cmdq, tasks, stop>>
      /\ UNCHANGED <<pingCount, resultCount, resultPingSet, resultExeSet>>
      /\ lost \subseteq lost' /\ {r} \X Queued(r) \subseteq lost'
      /\ inbox'[r] = <<>> \/ inbox'[r] = <<[kind |-> "subscribe"]>>
  BY <1>t
  DEF LoseConnection, LoseQueues, Subscribe, TypeOK, MaidTypeOK, countVars
<1>2. Reading(r)
  BY DEF CountInv
<1>3. PICK ended : ended = resultExeSet[r]
  OBVIOUS
<1>4. ClosesOnce(wrapMesage(r), ended)'
  <2>1. ClosesOnce(wrapMesage(r), ended)
    BY <1>1, <1>2, <1>3 DEF Reading
  <2>2. Len(inbox[r]) \in Nat /\ DOMAIN inbox[r] = 1 .. Len(inbox[r])
    BY <1>t, QueueType
  <2> QED
    BY <1>1, <1>t, <2>1, <2>2, QueueGone
<1>5. Reading(r)'
  BY <1>1, <1>2, <1>3, <1>4 DEF Reading
<1> QED
  BY <1>1, <1>5 DEF Fresh, Stopped

\* Taking a message from the queue keeps account of PINGs and ends.
LEMMA TurnKept ==
    ASSUME AllKnown, CountInv, NEW r \in Requests,
           \/ OnSignal(r) \/ OnResult(r) \/ OnLateReturn(r) \/ OnReturn(r),
           inbox'[r] = Tail(inbox[r]), UNCHANGED <<cmdq, tasks>>
    PROVE  /\ ClosesOnce(wrapMesage(r), resultExeSet[r])'
           /\ r \notin cut =>
                PingsAhead(wrapMesage(r), resultPingSet[r], resultExeSet[r])'
<1>t. TypeOK /\ MaidTypeOK /\ r \in Topics /\ wrapMesage(r).topic = r
      /\ wrapMesage(r) \in Command /\ Reading(r)
  BY WrapMesageType DEF CountInv, TypeOK
<1>1. pc[r] = "listening" /\ inbox[r] # <<>>
  BY DEF OnSignal, OnResult, OnLateReturn, OnReturn, Reads
<1>2. QueueMoves(r)
  BY <1>t, <1>1, HeadTaken
<1>3. PICK msg :
         /\ msg = inbox[r][1]
         /\ resultExeSet'[r] = EndsWith(resultExeSet[r], msg)
         /\ resultPingSet'[r] = PingsWith(resultPingSet[r], msg)
  BY Counts
<1>4. PICK ended \in SUBSET Maids, pinged \in SUBSET Maids :
        ended = resultExeSet[r] /\ pinged = resultPingSet[r]
  BY <1>t, ApiAssumption DEF TypeOK, comeSubList
<1>5. ClosesOnce(wrapMesage(r), EndsWith(ended, msg))'
  <2>1. ClosesOnce(wrapMesage(r), ended)
    BY <1>t, <1>1, <1>4 DEF Reading
  <2> QED
    BY <1>t, <1>2, <1>3, <2>1, TurnClosesOnce
<1>6. ASSUME r \notin cut
      PROVE  PingsAhead(wrapMesage(r), PingsWith(pinged, msg),
                        EndsWith(ended, msg))'
  <2>1. PingsAhead(wrapMesage(r), pinged, ended)
    BY <1>t, <1>1, <1>4, <1>6 DEF Reading
  <2> QED
    BY <1>t, <1>2, <1>3, <2>1, TurnPingsFirst
<1>7. PICK after, heard : after = EndsWith(ended, msg) /\ heard = PingsWith(pinged, msg)
  OBVIOUS
<1>8. /\ ClosesOnce(wrapMesage(r), after)'
      /\ r \notin cut => PingsAhead(wrapMesage(r), heard, after)'
  BY <1>5, <1>6, <1>7
<1> QED
  BY <1>3, <1>4, <1>7, <1>8

\* Reading a message, and storing a return.
LEMMA ListenKept ==
    ASSUME AllKnown, CountInv, NEW r \in Requests,
           \/ OnSignal(r) \/ OnResult(r) \/ OnLateReturn(r) \/ OnReturn(r)
           \/ StoreReturn(r)
    PROVE  Fresh(r)' /\ Reading(r)' /\ Stopped(r)'
<1>t. TypeOK /\ TypeOK' /\ MaidTypeOK /\ r \in Topics /\ Reading(r)
      /\ wrapMesage(r).topic = r
  BY WrapMesageType, ThreadType DEF CountInv, TypeOK, Thread, Listen
<1>p. pc[r] \in {"listening", "storing"}
  BY DEF OnSignal, OnResult, OnLateReturn, OnReturn, StoreReturn, Reads
<1>c. /\ resultCount'[r] = Cardinality(resultExeSet'[r])
      /\ r \notin cut => pingCount'[r] = Cardinality(resultPingSet'[r])
  <2>1. CASE StoreReturn(r)
    BY <1>t, <1>p, <2>1 DEF StoreReturn, countVars, Reading
  <2> QED
    BY <2>1, Counts
<1>1. ASSUME UNCHANGED <<cmdq, tasks, subscribed, lost, cut>>,
             IF StoreReturn(r) THEN UNCHANGED inbox[r]
                               ELSE inbox'[r] = Tail(inbox[r]),
             stop'[r] = "none", pc'[r] \in {"listening", "storing"}
      PROVE  Fresh(r)' /\ Reading(r)' /\ Stopped(r)'
  <2>1. /\ ClosesOnce(wrapMesage(r), resultExeSet[r])'
        /\ r \notin cut =>
             PingsAhead(wrapMesage(r), resultPingSet[r], resultExeSet[r])'
    <3>1. CASE StoreReturn(r)
      <4>1. PICK ended \in SUBSET Maids, pinged \in SUBSET Maids :
              ended = resultExeSet[r] /\ pinged = resultPingSet[r]
        BY <1>t, ApiAssumption DEF TypeOK, comeSubList
      <4>2. \A m \in Maids : Awaits(m, wrapMesage(r))' => Awaits(m, wrapMesage(r))
        BY <1>1 DEF Awaits
      <4>3. /\ ClosesOnce(wrapMesage(r), ended)'
            /\ r \notin cut => PingsAhead(wrapMesage(r), pinged, ended)'
        BY <1>1, <1>t, <1>p, <3>1, <4>1, <4>2, SameTopic DEF Reading
      <4> QED
        BY <3>1, <4>1, <4>3 DEF StoreReturn, countVars
    <3>2. CASE ~StoreReturn(r)
      BY <1>1, <3>2, TurnKept
    <3> QED
      BY <3>1, <3>2
  <2>2. r \notin cut => r \in subscribed'
    BY <1>1, <1>t, <1>p DEF Reading
  <2>3. Reading(r)'
    BY <1>1, <1>c, <2>1, <2>2 DEF Reading
  <2> QED
    BY <1>1, <2>3 DEF Fresh, Stopped
<1>2. CASE OnReturn(r)
  <2>1. /\ UNCHANGED <<cmdq, tasks, subscribed, lost, cut>>
        /\ inbox'[r] = Tail(inbox[r])
        /\ stop'[r] = "none" /\ pc'[r] = "storing"
    BY <1>2, <1>t, <1>p DEF OnReturn, Reading, TypeOK, MaidTypeOK
  <2>2. ~StoreReturn(r)
    BY <1>2 DEF OnReturn, StoreReturn, Reads
  <2> QED
    BY <1>1, <2>1, <2>2
<1>3. CASE OnSignal(r) \/ OnResult(r) \/ OnLateReturn(r) \/ StoreReturn(r)
  <2>1. PICK rest : /\ EndOfBody(r, rest)
                    /\ IF StoreReturn(r) THEN rest = inbox[r]
                                         ELSE rest = Tail(inbox[r])
    <3>1. CASE StoreReturn(r)
      BY <3>1 DEF StoreReturn
    <3>2. CASE ~StoreReturn(r)
      BY <1>3, <3>2 DEF OnSignal, OnResult, OnLateReturn
    <3> QED
      BY <3>1, <3>2
  <2>2. CASE stop'[r] = "none"
    <3>1. /\ UNCHANGED <<cmdq, tasks, subscribed, lost, cut>>
          /\ inbox'[r] = rest /\ pc'[r] = "listening"
      BY <1>t, <2>1, <2>2 DEF EndOfBody, TypeOK, MaidTypeOK
    <3> QED
      BY <1>1, <2>1, <2>2, <3>1
  <2>3. CASE stop'[r] # "none"
    <3>1. /\ pc'[r] = "merging" /\ (r \in cut' <=> r \in cut)
          /\ stop'[r] = StopTest(pingCount'[r], resultCount'[r], expired'[r],
                                 minionLogList'[r])
      BY <1>t, <2>1, <2>3 DEF EndOfBody, TypeOK
    <3>2. ASSUME r \notin cut PROVE resultExeSet'[r] \subseteq resultPingSet'[r]
      <4>1. CASE StoreReturn(r)
        BY <1>t, <1>p, <3>2, <4>1
        DEF StoreReturn, countVars, Reading, PingsAhead
      <4> QED
        BY <1>3, <3>2, <4>1, Counts
    <3>3. Stopped(r)'
      BY <1>c, <1>t, <3>1, <3>2, StopsInTime DEF Stopped
    <3> QED
      BY <3>1, <3>3 DEF Fresh, Reading
  <2> QED
    BY <2>2, <2>3
<1> QED
  BY <1>2, <1>3

\* The maids' steps.
LEMMA MaidsCount ==
    ASSUME CountInv, MaidNext, UNCHANGED clientVars
    PROVE  CountInv'
<1>t. TypeOK /\ TypeOK' /\ HeldOK /\ MaidTypeOK /\ Topics = Requests
  BY TypeStep, ApiAssumption DEF CountInv, TypeOK, Next
<1>c. /\ UNCHANGED <<pc, stop, cut, pingCount, resultCount>>
      /\ UNCHANGED <<resultPingSet, resultExeSet, subscribed>>
  BY MaidsKeepSubscriptions DEF clientVars, countVars
<1>1. HeldOK'
  <2>1. /\ \A d \in Command : Single(d)'
        /\ \A m \in Maids : \A d \in Command : Holds(m, d)' => d = wrapMesage(d.topic)
    BY <1>t, SingleKept, HoldsShrinks DEF HeldOK
  <2>2. ASSUME NEW t \in Requests \ subscribed' PROVE inbox'[t] = <<>>
    <3>1. wrapMesage(t) \in Command /\ wrapMesage(t).topic = t
          /\ Single(wrapMesage(t)) /\ Own(wrapMesage(t))
      BY <1>t, WrapMesageType, OwnTopic
    <3>2. GetsNothing(wrapMesage(t)) \/ t \in subscribed
      BY <1>t, <3>1, QueueSteps DEF GetsPing, GetsReturn, GetsEnd, QueueGets
    <3> QED
      BY <1>c, <1>t, <2>2, <3>1, <3>2 DEF GetsNothing, QueueSame, HeldOK
  <2> QED
    BY <2>1, <2>2 DEF HeldOK
<1>2. ASSUME NEW q \in Requests
      PROVE  Fresh(q)' /\ Reading(q)' /\ Stopped(q)'
  <2>t. /\ wrapMesage(q) \in Command /\ wrapMesage(q).topic = q
        /\ Single(wrapMesage(q)) /\ Own(wrapMesage(q))
        /\ Fresh(q) /\ Reading(q) /\ Stopped(q)
    BY <1>t, WrapMesageType, OwnTopic DEF CountInv
  <2>1. Stopped(q)'
    BY <1>c, <2>t DEF Stopped
  <2>2. Fresh(q)'
    <3>1. CASE pc[q] \in {"start", "reset", "creating", "subscribed"}
      <4>1. /\ \A m \in Maids : ~Holds(m, wrapMesage(q))'
            /\ inbox'[q] = inbox[q]
        BY <1>t, <2>t, <3>1, QuietTopic DEF Fresh, QueueSame
      <4> QED
        BY <1>c, <2>t, <3>1, <4>1 DEF Fresh
    <3> QED
      BY <1>c, <3>1 DEF Fresh
  <2>3. Reading(q)'
    <3>1. CASE pc[q] \in {"listening", "storing"}
      <4>1. PICK ended \in SUBSET Maids, pinged \in SUBSET Maids :
              ended = resultExeSet[q] /\ pinged = resultPingSet[q]
        BY <1>t, ApiAssumption DEF TypeOK, comeSubList
      <4>2. ClosesOnce(wrapMesage(q), ended)'
        BY <1>t, <2>t, <3>1, <4>1, MaidsCloseOnce DEF Reading
      <4>3. q \notin cut => PingsAhead(wrapMesage(q), pinged, ended)'
        BY <1>t, <2>t, <3>1, <4>1, MaidsPingFirst DEF Reading
      <4> QED
        BY <1>c, <2>t, <3>1, <4>1, <4>2, <4>3 DEF Reading
    <3> QED
      BY <1>c, <3>1 DEF Reading
  <2> QED
    BY <2>1, <2>2, <2>3
<1> QED
  BY <1>t, <1>1, <1>2 DEF CountInv

\* Every step keeps account of PINGs and ends.
LEMMA CountStep == AllKnown /\ CountInv /\ [Next]_vars => CountInv'
<1> SUFFICES ASSUME AllKnown, CountInv, [Next]_vars PROVE CountInv'
  OBVIOUS
<1>1. CASE \E r \in Requests : Thread(r) \/ Expire(r) \/ LoseConnection(r)
  <2>1. PICK r \in Requests : Thread(r) \/ Expire(r) \/ LoseConnection(r)
    BY <1>1
  <2>2. Fresh(r)' /\ Reading(r)' /\ Stopped(r)'
    BY <2>1, QuietKept, BeginKept, ListenKept, LossKept DEF Thread, Listen
  <2>3. \A q \in Requests \ {r} : Fresh(q)' /\ Reading(q)' /\ Stopped(q)'
    BY <2>1, OthersKept
  <2>4. TypeOK' /\ HeldOK'
    BY <2>1, HeldStep, ThreadType DEF CountInv
  <2> QED
    BY <2>2, <2>3, <2>4 DEF CountInv
<1>2. CASE MaidNext /\ UNCHANGED clientVars
  BY <1>2, MaidsCount
<1>3. CASE UNCHANGED vars
  <2>1. TypeOK' /\ UNCHANGED <<cmdq, tasks, inbox, lost, subscribed>>
        /\ UNCHANGED <<pc, stop, cut, pingCount, resultCount>>
        /\ UNCHANGED <<resultPingSet, resultExeSet>>
    BY <1>3, TypeStep DEF vars, maidVars, clientVars, countVars, CountInv
  <2>2. HeldOK'
    BY <2>1, StillHeld DEF CountInv, HeldOK
  <2>3. ASSUME NEW q \in Requests PROVE Fresh(q)' /\ Reading(q)' /\ Stopped(q)'
    <3>1. Fresh(q)' /\ Stopped(q)'
      BY <2>1, StillHeld DEF CountInv, Fresh, Stopped
    <3>2. PICK ended \in SUBSET Maids, pinged \in SUBSET Maids :
            ended = resultExeSet[q] /\ pinged = resultPingSet[q]
      BY ApiAssumption DEF CountInv, TypeOK, comeSubList
    <3>3. \A m \in Maids : Awaits(m, wrapMesage(q))' => Awaits(m, wrapMesage(q))
      BY <2>1 DEF Awaits
    <3>4. /\ ClosesOnce(wrapMesage(q), ended) => ClosesOnce(wrapMesage(q), ended)'
          /\ PingsAhead(wrapMesage(q), pinged, ended) =>
               PingsAhead(wrapMesage(q), pinged, ended)'
      BY <2>1, <3>3, SameTopic
    <3> QED
      BY <2>1, <3>1, <3>2, <3>4 DEF CountInv, Reading
  <2> QED
    BY <2>1, <2>2, <2>3 DEF CountInv
<1> QED
  BY <1>1, <1>2, <1>3 DEF Next, Terminated

\* Nothing has been published or read in the initial states.
LEMMA CountInit == Init => CountInv
<1> SUFFICES ASSUME Init PROVE CountInv
  OBVIOUS
<1>1. HeldOK
  <2>1. \A m \in Maids : \A d : ~Holds(m, d) /\ \A e : Single(e)
    BY NothingHeld DEF Init
  <2>2. \A d : Single(d)
    BY NothingHeld DEF Init
  <2> QED
    BY <2>1, <2>2, ApiAssumption DEF Init, MaidInit, HeldOK
<1>2. \A q \in Requests : Fresh(q) /\ Reading(q) /\ Stopped(q)
  BY NothingHeld DEF Init, Fresh, Reading, Stopped
<1> QED
  BY <1>1, <1>2, TypeInit DEF CountInv

\* A request that names its minions does not stop while a maid that has
\* answered PING is still at work on it, unless the timeout has passed or
\* every minion it names has returned, or it has lost its subscription.
THEOREM StopsWhenDone ==
    AllKnown /\ NamedTargets => (Spec => []NoneLeftRunning)
<1> SUFFICES ASSUME AllKnown, NamedTargets PROVE Spec => []NoneLeftRunning
  OBVIOUS
<1>1. CountInv => NoneLeftRunning
  BY DEF CountInv, Stopped, NoneLeftRunning, NamedTargets
<1> QED
  BY <1>1, CountInit, CountStep, PTL DEF Spec
-----------------------------------------------------------------------------
(* The response.  What a request has read of is in its client's attribute, *)
(* in the local copy that it is about to store there, or in its lists of   *)
(* the returns that are added at the end.                                  *)

\* the minions of which request q has read a return
Got(q) == {k \in Minions : <<q, k>> \in returns(q) \cup loaded[q]} \cup later[q]

\* what a maid has to report to request q
Due(q) == [m \in Maids |-> Matched(m, Tgt[q])]

\* Nothing is read before the publish; then a maid's end comes after all that
\* the maid had to report; and what the stop promises stays true.
Gathers(q) ==
    /\ pc[q] \in {"start", "reset", "creating", "subscribed"} => Got(q) = {}
    /\ pc[q] \in {"listening", "storing"} =>
         /\ Owes(wrapMesage(q), Due(q), Got(q))
         /\ Paid(wrapMesage(q), Due(q), Got(q), resultExeSet[q])
    /\ Tgt[q].ids \subseteq minionLogList[q] \cup Got(q)

Promised(q) ==
    /\ stop[q] = "all" => \A m \in Maids : \A k \in Matched(m, Tgt[q]) :
                             k \in Got(q) \/ <<q, k>> \in lost
    /\ stop[q] = "targets" => minionLogList[q] = {}
    /\ pc[q] = "done" /\ stop[q] # "none" => {q} \X Got(q) \subseteq response[q]

AnswerInv ==
    /\ CountInv
    /\ OwnInv
    /\ \A q \in Requests : Gathers(q) /\ Promised(q)

\* Requests with clients of their own read each for itself.
LEMMA GotElsewhere ==
    ASSUME OwnClients, TypeOK, NEW r \in Requests,
           Thread(r) \/ Expire(r) \/ LoseConnection(r),
           NEW q \in Requests \ {r}
    PROVE  Got(q)' = Got(q)
<1>1. UNCHANGED <<returns(q), loaded[q], later[q]>>
  BY ThreadSteps DEF OwnClients
<1> QED
  BY <1>1 DEF Got

\* What a request has read of stays: it is stored before the copy is given
\* up, and a return kept for the end is copied when it leaves its list.
LEMMA GotGrows ==
    ASSUME OwnInv, NEW r \in Requests,
           Thread(r) \/ Expire(r) \/ LoseConnection(r),
           pc[r] # "start"
    PROVE  Got(r) \subseteq Got(r)'
<1>t. TypeOK /\ TypeOK' /\ MaidTypeOK
  BY ThreadType DEF OwnInv, TypeOK
<1>1. \/ Leaves(r) \/ Stores(r) \/ Answers(r)
      \/ \E S \in SUBSET Minions : Loads(r, S)
  BY <1>t, ThreadSteps DEF Resets
<1>2. returns(r) \cup loaded[r] \subseteq returns(r)' \cup loaded'[r]
  BY <1>1 DEF Leaves, Stores, Answers, Loads, OwnInv, returns
<1>3. CASE MergeLoad(r)
  <2>1. PICK k \in later[r] :
          /\ later' = [later EXCEPT ![r] = @ \ {k}]
          /\ loaded' = [loaded EXCEPT ![r] = retReturns[Api[r]] \cup {<<r, k>>}]
    BY <1>3 DEF MergeLoad
  <2>2. k \in Minions /\ later'[r] = later[r] \ {k} /\ <<r, k>> \in loaded'[r]
    BY <1>t, <2>1 DEF TypeOK
  <2> QED
    BY <1>2, <2>2 DEF Got
<1>4. CASE OnLateReturn(r)
  <2>1. later[r] \subseteq later'[r]
    BY <1>4, <1>t DEF OnLateReturn, TypeOK
  <2> QED
    BY <1>2, <2>1 DEF Got
<1>5. CASE ~MergeLoad(r) /\ ~OnLateReturn(r)
  <2>1. UNCHANGED later
    BY <1>5
    DEF Thread, Listen, ResetReturns, CreateInstance, FillInstance,
        UsePartialInstance, SubscribeTopic, PublishCommand, Expire, Reconnect,
        OnSignal, OnResult, OnReturn, StoreReturn, MergeStore, Return,
        LoseConnection, clientVars
  <2> QED
    BY <1>2, <2>1 DEF Got
<1> QED
  BY <1>3, <1>4, <1>5

\* A return that is read is kept, and only then its minion leaves the list of
\* those that are waited for.
LEMMA ReturnsAreKept ==
    ASSUME OwnInv, NEW r \in Requests,
           Thread(r) \/ Expire(r) \/ LoseConnection(r),
           pc[r] # "start"
    PROVE  /\ OnSignal(r) \/ OnResult(r) \/ OnLateReturn(r) \/ OnReturn(r) =>
                (inbox[r][1].kind = "data" => inbox[r][1].items \subseteq Got(r)')
           /\ minionLogList[r] \subseteq minionLogList'[r] \cup Got(r)'
<1>t. TypeOK /\ MaidTypeOK /\ r \in Topics
  BY ApiAssumption DEF OwnInv, TypeOK
<1>1. CASE OnLateReturn(r)
  <2>1. callResult(r) = inbox[r][1] /\ callResult(r).items \subseteq later'[r]
        /\ minionLogList[r] \subseteq minionLogList'[r] \cup callResult(r).items
    BY <1>1, <1>t, ReadsStep DEF OnLateReturn, TypeOK
  <2> QED
    BY <1>1, <2>1 DEF Got
<1>2. CASE OnReturn(r)
  <2>1. callResult(r) = inbox[r][1] /\ callResult(r).items \subseteq Minions
    BY <1>2, <1>t, ReadsStep DEF OnReturn
  <2>2. {r} \X callResult(r).items \subseteq loaded'[r]
    BY <1>2, <1>t DEF OnReturn, TypeOK
  <2>3. minionLogList'[r] = minionLogList[r] \ callResult(r).items
    BY <1>2, <1>t DEF OnReturn, TypeOK
  <2>4. callResult(r).items \subseteq Got(r)'
    BY <2>1, <2>2 DEF Got
  <2> QED
    BY <2>1, <2>3, <2>4
<1>3. CASE OnSignal(r) \/ OnResult(r)
  <2>1. callResult(r) = inbox[r][1] /\ callResult(r).kind # "data"
    <3>1. PICK kinds : Reads(r, kinds) /\ "data" \notin kinds
      BY <1>3 DEF OnSignal, OnResult
    <3> QED
      BY <1>t, <3>1, ReadsStep
  <2>2. UNCHANGED minionLogList
    BY <1>3 DEF OnSignal, OnResult
  <2> QED
    BY <2>1, <2>2
<1>4. CASE ~(OnSignal(r) \/ OnResult(r) \/ OnLateReturn(r) \/ OnReturn(r))
  <2>1. UNCHANGED minionLogList
    BY <1>4
    DEF Thread, Listen, ResetReturns, CreateInstance, FillInstance,
        UsePartialInstance, SubscribeTopic, PublishCommand, Expire, Reconnect,
        StoreReturn, MergeLoad, MergeStore, Return, LoseConnection, clientVars
  <2> QED
    BY <1>4, <2>1
<1> QED
  BY <1>1, <1>2, <1>3, <1>4

\* Having read more makes no maid owe more.
LEMMA OwesLess ==
    ASSUME NEW c, NEW due, NEW got, NEW more, got \subseteq more
    PROVE  Owes(c, due, got)' => Owes(c, due, more)'
BY DEF Owes, Came

\* What the maids report to request q is what its target asks for.
LEMMA DueType ==
    ASSUME NEW q \in Requests
    PROVE  /\ Due(q) \in [Maids -> SUBSET Minions]
           /\ \A m \in Maids : BeginsRun(m, wrapMesage(q)) =>
                \A k \in Due(q)[m] : \E S \in Results(m, wrapMesage(q)) : k \in S
           /\ \A m \in Maids : Refuses(m, wrapMesage(q)) => Due(q)[m] = {}
<1>1. Due(q) \in [Maids -> SUBSET Minions]
  BY MaidAssumption, ApiAssumption DEF Due, Matched, Target
<1>2. ASSUME NEW m \in Maids
      PROVE \A k \in Due(q)[m] : \E S \in Results(m, wrapMesage(q)) : k \in S
  BY ResultsCover, WrapMesageType DEF Due
<1>3. \A m \in Maids : Refuses(m, wrapMesage(q)) => Due(q)[m] = {}
  BY WrapMesageType, ApiAssumption DEF Due, Refuses
<1> QED
  BY <1>1, <1>2, <1>3

\* A step of one request keeps what the others have got and been promised.
LEMMA OthersGather ==
    ASSUME OwnClients, AnswerInv, NEW r \in Requests,
           Thread(r) \/ Expire(r) \/ LoseConnection(r),
           NEW q \in Requests \ {r}
    PROVE  Gathers(q)' /\ Promised(q)'
<1>t. TypeOK /\ HeldOK /\ MaidTypeOK /\ q \in Topics /\ wrapMesage(q).topic = q
      /\ Gathers(q) /\ Promised(q)
  BY WrapMesageType DEF AnswerInv, CountInv, TypeOK
<1>b. /\ UNCHANGED tasks /\ lost \subseteq lost'
      /\ \/ inbox'[q] = inbox[q]
         \/ inbox'[q] = <<>> /\ {q} \X Queued(q) \subseteq lost' /\ UNCHANGED cmdq
  BY <1>t, BusSteps
<1>c. UNCHANGED <<pc[q], stop[q], resultExeSet[q], response[q], minionLogList[q]>>
  BY <1>t, ThreadSteps DEF OwnClients
<1>g. Got(q)' = Got(q)
  BY <1>t, GotElsewhere
<1>1. ASSUME pc[q] \in {"listening", "storing"}
      PROVE  /\ Owes(wrapMesage(q), Due(q), Got(q))'
             /\ Paid(wrapMesage(q), Due(q), Got(q), resultExeSet[q])'
  <2>0. PICK got, due : got = Got(q) /\ due = Due(q)
    OBVIOUS
  <2>1. PICK ended \in SUBSET Maids : ended = resultExeSet[q]
    BY <1>t DEF TypeOK
  <2>2. Owes(wrapMesage(q), due, got) /\ Paid(wrapMesage(q), due, got, ended)
    BY <1>1, <1>t, <2>0, <2>1 DEF Gathers
  <2>3. Paid(wrapMesage(q), due, got, ended)'
    BY <1>b, <2>2, PaidStays
  <2>4. Owes(wrapMesage(q), due, got)'
    <3>1. CASE inbox'[q] = inbox[q]
      <4>1. \A m \in Maids : Awaits(m, wrapMesage(q))' => Awaits(m, wrapMesage(q))
        BY <1>t, OtherCommands
      <4> QED
        BY <1>b, <1>t, <2>0, <2>1, <2>2, <3>1, <4>1, SameTopic
    <3>2. CASE inbox'[q] = <<>> /\ {q} \X Queued(q) \subseteq lost' /\ UNCHANGED cmdq
      <4>1. Len(inbox[q]) \in Nat /\ DOMAIN inbox[q] = 1 .. Len(inbox[q])
        BY <1>t, QueueType
      <4> QED
        BY <1>b, <1>t, <2>2, <3>2, <4>1, QueueGone
    <3> QED
      BY <1>b, <3>1, <3>2
  <2>5. Due(q)' = due
    BY <2>0
  <2> QED
    BY <1>c, <1>g, <2>0, <2>1, <2>3, <2>4, <2>5
<1> QED
  BY <1>1, <1>b, <1>c, <1>g, <1>t DEF Gathers, Promised

\* Before the publish nothing is read.
LEMMA GatherBefore ==
    ASSUME AnswerInv, NEW r \in Requests,
           \/ ResetReturns(r) \/ CreateInstance(r) \/ FillInstance(r)
           \/ UsePartialInstance(r) \/ SubscribeTopic(r)
    PROVE  Gathers(r)' /\ Promised(r)'
<1>t. TypeOK /\ Gathers(r) /\ Fresh(r)
  BY DEF AnswerInv, CountInv
<1>1. /\ pc[r] \in {"start", "reset", "creating"} /\ stop[r] = "none"
      /\ UNCHANGED <<stop, later, loaded, minionLogList>>
      /\ pc'[r] \notin {"listening", "storing"}
      /\ UNCHANGED returns(r) \/ ResetReturns(r)
  BY <1>t
  DEF ResetReturns, CreateInstance, FillInstance, UsePartialInstance,
      SubscribeTopic, TypeOK, Fresh, returns
<1>2. Got(r) = {}
  BY <1>1, <1>t DEF Gathers
<1>3. Got(r)' = {}
  <2>1. CASE ResetReturns(r)
    <3>1. Resets(r)
      BY <1>t, <2>1, ApiAssumption DEF ResetReturns, TypeOK, Resets, returns
    <3>2. loaded'[r] = {} /\ later'[r] = {}
      BY <1>1, <1>2, <3>1 DEF AnswerInv, OwnInv, Resets, Got
    <3> QED
      BY <3>1, <3>2 DEF Resets, Got
  <2>2. CASE UNCHANGED returns(r)
    BY <1>1, <1>2, <2>2 DEF Got
  <2> QED
    BY <1>1, <2>1, <2>2
<1> QED
  BY <1>1, <1>2, <1>3, <1>t DEF Gathers, Promised

\* The publish finds nobody busy with the command.
LEMMA GatherPublish ==
    ASSUME AnswerInv, NEW r \in Requests, PublishCommand(r)
    PROVE  Gathers(r)' /\ Promised(r)'
<1>t. TypeOK /\ Gathers(r) /\ Fresh(r) /\ wrapMesage(r).topic = r
      /\ wrapMesage(r) \in Command
  BY WrapMesageType DEF AnswerInv, CountInv
<1>1. /\ pc[r] = "subscribed" /\ pc'[r] = "listening"
      /\ UNCHANGED <<inbox, tasks, stop, resultExeSet>>
      /\ UNCHANGED <<retReturns, later, loaded, minionLogList>>
  BY <1>t DEF PublishCommand, TypeOK, countVars
<1>2. /\ Got(r) = {} /\ Got(r)' = {}
      /\ resultExeSet[r] = {} /\ stop[r] = "none"
  BY <1>1, <1>t DEF Gathers, Got, returns, Fresh
<1>3. /\ \A m \in Maids : Greenlets(m, wrapMesage(r))' = {}
      /\ \A i \in 1 .. Len(inbox'[r]) : inbox'[r][i].kind = "subscribe"
  BY <1>1, <1>t DEF Fresh, Holds, Greenlets
<1>4. PICK due : due = Due(r)
  OBVIOUS
<1>5. Owes(wrapMesage(r), due, {})' /\ Paid(wrapMesage(r), due, {}, {})'
  BY <1>3, <1>t, FreshTopic
<1>6. Due(r)' = due
  BY <1>4
<1>7. Owes(wrapMesage(r), Due(r), Got(r))'
      /\ Paid(wrapMesage(r), Due(r), Got(r), resultExeSet[r])'
  BY <1>1, <1>2, <1>5, <1>6
<1> QED
  BY <1>1, <1>2, <1>7, <1>t DEF Gathers, Promised

\* While the request waits, is subscribed again, or adds the late returns.
LEMMA GatherWaits ==
    ASSUME AnswerInv, NEW r \in Requests,
           Expire(r) \/ Reconnect(r) \/ MergeLoad(r) \/ MergeStore(r) \/ Return(r)
    PROVE  Gathers(r)' /\ Promised(r)'
<1>t. /\ TypeOK /\ MaidTypeOK /\ HeldOK /\ OwnInv /\ r \in Topics
      /\ Gathers(r) /\ Promised(r) /\ wrapMesage(r).topic = r
  BY WrapMesageType DEF AnswerInv, CountInv, TypeOK
<1>1. /\ UNCHANGED <<cmdq, tasks, lost, stop, minionLogList>>
      /\ UNCHANGED <<resultExeSet, subscribed>> \/ Reconnect(r)
      /\ pc[r] # "start"
      /\ \/ UNCHANGED inbox /\ UNCHANGED <<pc[r], response>> /\ Expire(r)
         \/ Reconnect(r) /\ UNCHANGED <<pc[r], response, resultExeSet>>
         \/ UNCHANGED inbox /\ pc[r] \in {"merging", "mergestoring"}
            /\ pc'[r] \in {"merging", "mergestoring"}
         \/ Return(r)
  BY <1>t
  DEF Expire, Reconnect, MergeLoad, MergeStore, Return, TypeOK, maidVars,
      clientVars, countVars
<1>g. Got(r) \subseteq Got(r)'
  BY <1>1, <1>t, GotGrows DEF Thread, Listen
<1>2. ASSUME pc'[r] \in {"listening", "storing"}
      PROVE  /\ Owes(wrapMesage(r), Due(r), Got(r))'
             /\ Paid(wrapMesage(r), Due(r), Got(r), resultExeSet[r])'
  <2>0. PICK got, due, more : got = Got(r) /\ due = Due(r) /\ more = Got(r)'
    OBVIOUS
  <2>1. PICK ended \in SUBSET Maids : ended = resultExeSet[r]
    BY <1>t DEF TypeOK
  <2>p. Expire(r) \/ Reconnect(r)
    BY <1>2, <1>t DEF MergeLoad, MergeStore, Return, TypeOK
  <2>2. /\ Owes(wrapMesage(r), due, got) /\ Paid(wrapMesage(r), due, got, ended)
        /\ resultExeSet'[r] = ended
    BY <1>1, <1>2, <1>t, <2>p, <2>0, <2>1
    DEF Gathers, Expire, Reconnect, clientVars, countVars
  <2>3. Paid(wrapMesage(r), due, more, ended)'
    <3>1. lost \subseteq lost'
      BY <1>1
    <3> QED
      BY <1>g, <2>0, <2>2, <3>1, PaidStays
  <2>4. Owes(wrapMesage(r), due, got)'
    <3>1. CASE Expire(r)
      <4>1. UNCHANGED inbox
        BY <3>1 DEF Expire, maidVars
      <4>2. \A m \in Maids : Awaits(m, wrapMesage(r))' => Awaits(m, wrapMesage(r))
        BY <1>1 DEF Awaits
      <4> QED
        BY <1>1, <1>t, <2>1, <2>2, <4>1, <4>2, SameTopic
    <3>2. CASE Reconnect(r)
      <4>1. r \notin subscribed /\ inbox'[r] = <<[kind |-> "subscribe"]>>
        BY <1>t, <3>2 DEF Reconnect, Subscribe, MaidTypeOK
      <4>2. inbox[r] = <<>>
        BY <1>t, <4>1 DEF HeldOK
      <4>3. Len(inbox[r]) \in Nat /\ DOMAIN inbox[r] = 1 .. Len(inbox[r])
        BY <4>2
      <4>4. {r} \X Queued(r) \subseteq lost'
        BY <4>2 DEF Queued
      <4> QED
        BY <1>1, <1>t, <2>2, <4>1, <4>3, <4>4, QueueGone
    <3> QED
      BY <2>p, <3>1, <3>2
  <2>5. Owes(wrapMesage(r), due, more)'
    BY <1>g, <2>0, <2>4, OwesLess
  <2>6. Due(r)' = due
    BY <2>0
  <2> QED
    BY <2>0, <2>2, <2>3, <2>5, <2>6
<1>3. pc'[r] \in {"start", "reset", "creating", "subscribed"} => FALSE
  BY <1>t DEF Expire, Reconnect, MergeLoad, MergeStore, Return, TypeOK, clientVars
<1>4. Gathers(r)'
  BY <1>1, <1>2, <1>3, <1>g, <1>t DEF Gathers
<1>5. ASSUME pc'[r] = "done" PROVE {r} \X Got(r)' \subseteq response'[r]
  <2>1. Return(r)
    BY <1>5, <1>t
    DEF Expire, Reconnect, MergeLoad, MergeStore, TypeOK, clientVars
  <2>2. /\ pc[r] = "merging" /\ later[r] = {}
        /\ response'[r] = returns(r)
        /\ UNCHANGED <<returns(r), later, loaded>>
    BY <1>t, <2>1 DEF Return, TypeOK, returns
  <2>3. loaded[r] = {}
    BY <1>t, <2>2 DEF OwnInv
  <2> QED
    BY <2>2, <2>3 DEF Got
<1>6. Promised(r)'
  BY <1>1, <1>5, <1>g, <1>t DEF Promised
<1> QED
  BY <1>4, <1>6

\* What the connection takes with it counts as lost; the request goes on, or
\* answers without a stop.
LEMMA GatherLoss ==
    ASSUME AnswerInv, NEW r \in Requests, LoseConnection(r)
    PROVE  Gathers(r)' /\ Promised(r)'
<1>t. /\ TypeOK /\ MaidTypeOK /\ OwnInv /\ r \in Topics /\ Gathers(r) /\ Reading(r)
      /\ wrapMesage(r).topic = r
  BY WrapMesageType DEF AnswerInv, CountInv, TypeOK
<1>1. /\ pc[r] = "listening" /\ pc'[r] \in {"listening", "done"}
      /\ UNCHANGED <<cmdq, tasks, stop, minionLogList, resultExeSet>>
      /\ lost \subseteq lost' /\ {r} \X Queued(r) \subseteq lost'
      /\ inbox'[r] = <<>> \/ inbox'[r] = <<[kind |-> "subscribe"]>>
  BY <1>t
  DEF LoseConnection, LoseQueues, Subscribe, TypeOK, MaidTypeOK, countVars
<1>2. PICK got, due, ended :
        got = Got(r) /\ due = Due(r) /\ ended = resultExeSet[r]
  OBVIOUS
<1>3. Got(r)' = got
  BY <1>2 DEF LoseConnection, Got, returns
<1>4. Owes(wrapMesage(r), due, got)' /\ Paid(wrapMesage(r), due, got, ended)'
  <2>1. Owes(wrapMesage(r), due, got) /\ Paid(wrapMesage(r), due, got, ended)
    BY <1>1, <1>2, <1>t DEF Gathers
  <2>2. Len(inbox[r]) \in Nat /\ DOMAIN inbox[r] = 1 .. Len(inbox[r])
    BY <1>t, QueueType
  <2>3. Owes(wrapMesage(r), due, got)'
    BY <1>1, <1>t, <2>1, <2>2, QueueGone
  <2> QED
    BY <1>1, <2>1, <2>3, PaidStays
<1>5. Due(r)' = due /\ resultExeSet'[r] = ended
  BY <1>1, <1>2
<1>6. stop'[r] = "none"
  BY <1>1, <1>t DEF Reading
<1> QED
  BY <1>1, <1>2, <1>3, <1>4, <1>5, <1>6, <1>t DEF Gathers, Promised

\* When the loop of a request stops because all the maids are through, it has
\* read the end of each of them, and all that they had to report.
LEMMA StopPromises ==
    ASSUME AllKnown, TypeOK', NEW r \in Requests, NEW due, NEW got,
           due = Due(r), got = Got(r)',
           stop'[r] = StopTest(pingCount'[r], resultCount'[r], expired'[r],
                               minionLogList'[r]),
           resultCount'[r] = Cardinality(resultExeSet'[r]),
           Paid(wrapMesage(r), due, got, resultExeSet'[r]), lost \subseteq lost'
    PROVE  /\ stop'[r] = "all" => \A m \in Maids : \A k \in Matched(m, Tgt[r]) :
                                     k \in got \/ <<r, k>> \in lost'
           /\ stop'[r] = "targets" => minionLogList'[r] = {}
<1>1. ASSUME stop'[r] = "all" PROVE resultExeSet'[r] = Maids
  <2>1. Cardinality(resultExeSet'[r]) = Cardinality(comeSubList)
    BY <1>1 DEF StopTest, syndic_count
  <2>2. resultExeSet'[r] \subseteq Maids /\ comeSubList = Maids
    BY ApiAssumption DEF TypeOK, AllKnown, comeSubList
  <2> QED
    BY <2>1, <2>2, MaidAssumption, FS_Subset
<1>2. ASSUME stop'[r] = "all", NEW m \in Maids, NEW k \in Matched(m, Tgt[r])
      PROVE  k \in got \/ <<r, k>> \in lost'
  <2>1. k \in due[m] /\ ~Refuses(m, wrapMesage(r))
    BY <1>2, DueType DEF Due
  <2>2. Came(wrapMesage(r), k, 0, got)
    BY <1>1, <1>2, <2>1 DEF Paid
  <2> QED
    BY <2>2, WrapMesageType DEF Came
<1>3. stop'[r] = "targets" => minionLogList'[r] = {}
  BY DEF StopTest
<1> QED
  BY <1>2, <1>3

\* Reading a message, and storing a return.
LEMMA GatherTurn ==
    ASSUME AllKnown, AnswerInv, NEW r \in Requests,
           \/ OnSignal(r) \/ OnResult(r) \/ OnLateReturn(r) \/ OnReturn(r)
           \/ StoreReturn(r)
    PROVE  Gathers(r)' /\ Promised(r)'
<1>t. /\ TypeOK /\ TypeOK' /\ MaidTypeOK /\ OwnInv /\ CountInv /\ r \in Topics
      /\ Gathers(r) /\ wrapMesage(r).topic = r /\ wrapMesage(r) \in Command
      /\ Thread(r)
  BY WrapMesageType, ThreadType DEF AnswerInv, CountInv, TypeOK, Thread, Listen
<1>p. /\ pc[r] \in {"listening", "storing"}
      /\ pc'[r] \in {"listening", "storing", "merging"}
      /\ UNCHANGED <<cmdq, tasks>> /\ lost \subseteq lost'
  <2>1. pc[r] \in {"listening", "storing"}
    BY DEF OnSignal, OnResult, OnLateReturn, OnReturn, StoreReturn, Reads
  <2>2. pc'[r] \in {"listening", "storing", "merging"}
    BY <1>t
    DEF OnSignal, OnResult, OnLateReturn, OnReturn, StoreReturn, EndOfBody, TypeOK
  <2>3. UNCHANGED <<cmdq, tasks>>
    BY DEF OnSignal, OnResult, OnLateReturn, OnReturn, StoreReturn, EndOfBody
  <2> QED
    BY <1>t, <2>1, <2>2, <2>3, BusSteps
<1>0. PICK got, due, more : got = Got(r) /\ due = Due(r) /\ more = Got(r)'
  OBVIOUS
<1>1. PICK ended \in SUBSET Maids, after \in SUBSET Maids :
        ended = resultExeSet[r] /\ after = resultExeSet'[r]
  BY <1>t DEF TypeOK
<1>2. /\ Owes(wrapMesage(r), due, got) /\ Paid(wrapMesage(r), due, got, ended)
      /\ stop[r] = "none" /\ resultCount[r] = Cardinality(ended)
  BY <1>p, <1>t, <1>0, <1>1 DEF Gathers, CountInv, Reading
<1>g. /\ got \subseteq more
      /\ minionLogList[r] \subseteq minionLogList'[r] \cup more
      /\ ~StoreReturn(r) => (inbox[r][1].kind = "data" =>
                               inbox[r][1].items \subseteq more)
  BY <1>p, <1>t, <1>0, GotGrows, ReturnsAreKept
<1>3. /\ Paid(wrapMesage(r), due, more, after)
      /\ resultCount'[r] = Cardinality(after)
  <2>1. CASE StoreReturn(r)
    <3>1. after = ended /\ resultCount'[r] = resultCount[r]
      BY <1>1, <2>1 DEF StoreReturn, countVars
    <3> QED
      BY <1>2, <1>g, <3>1 DEF Paid, Came
  <2>2. CASE ~StoreReturn(r)
    <3>1. PICK msg :
             /\ msg = inbox[r][1] /\ Len(inbox[r]) \in Nat /\ Len(inbox[r]) > 0
             /\ msg.kind \in {"work", "interrupt", "ping"} => msg.sub_ip \in Maids
             /\ resultExeSet'[r] = EndsWith(resultExeSet[r], msg)
             /\ resultCount'[r] = Cardinality(resultExeSet'[r])
      BY <1>t, <2>2, Counts
    <3>2. PICK c : c = wrapMesage(r)
      OBVIOUS
    <3>3. msg = inbox[c.topic][1] /\ Len(inbox[c.topic]) \in Nat
          /\ Len(inbox[c.topic]) > 0 /\ Owes(c, due, got) /\ Paid(c, due, got, ended)
      BY <1>2, <1>t, <3>1, <3>2
    <3>4. /\ msg = inbox[c.topic][1] /\ Len(inbox[c.topic]) \in Nat
          /\ Len(inbox[c.topic]) > 0
          /\ msg.kind \in {"work", "interrupt"} => msg.sub_ip \in Maids
      BY <3>1, <3>3
    <3>5. Paid(c, due, more, EndsWith(ended, msg))
      BY <1>g, <3>3, <3>4, HeadPays
    <3> QED
      BY <1>1, <3>1, <3>2, <3>5
  <2> QED
    BY <2>1, <2>2
<1>4. ASSUME pc'[r] \in {"listening", "storing"}
      PROVE  /\ Owes(wrapMesage(r), due, more)'
             /\ Paid(wrapMesage(r), due, more, after)'
             /\ stop'[r] = "none"
  <2>1. /\ IF StoreReturn(r) THEN UNCHANGED inbox[r]
                             ELSE inbox'[r] = Tail(inbox[r])
        /\ stop'[r] = "none"
    <3>1. CASE OnReturn(r)
      BY <1>2, <1>t, <3>1 DEF OnReturn, MaidTypeOK, Reads, StoreReturn
    <3>2. CASE OnSignal(r) \/ OnResult(r) \/ OnLateReturn(r)
      <4>1. EndOfBody(r, Tail(inbox[r])) /\ ~StoreReturn(r)
        BY <3>2 DEF OnSignal, OnResult, OnLateReturn, Reads, StoreReturn
      <4> QED
        BY <1>4, <1>t, <4>1 DEF EndOfBody, MaidTypeOK, TypeOK
    <3>3. CASE StoreReturn(r)
      <4>1. EndOfBody(r, inbox[r])
        BY <3>3 DEF StoreReturn
      <4> QED
        BY <1>4, <1>t, <3>3, <4>1 DEF EndOfBody, MaidTypeOK, TypeOK
    <3> QED
      BY <3>1, <3>2, <3>3
  <2>2. Owes(wrapMesage(r), due, more)'
    <3>1. CASE StoreReturn(r)
      <4>1. \A m \in Maids : Awaits(m, wrapMesage(r))' => Awaits(m, wrapMesage(r))
        BY <1>p DEF Awaits
      <4>2. Owes(wrapMesage(r), due, got)'
        BY <1>1, <1>2, <1>p, <1>t, <2>1, <3>1, <4>1, SameTopic
      <4> QED
        BY <1>g, <4>2, OwesLess
    <3>2. CASE ~StoreReturn(r)
      <4>1. inbox[r] # <<>>
        BY <3>2 DEF OnSignal, OnResult, OnLateReturn, OnReturn, Reads
      <4>2. QueueMoves(r)
        BY <1>t, <2>1, <3>2, <4>1, HeadTaken
      <4>3. PICK msg : msg = inbox[r][1]
        OBVIOUS
      <4>4. due \in [Maids -> SUBSET Minions]
        BY <1>0, DueType
      <4> QED
        BY <1>1, <1>2, <1>g, <1>p, <1>t, <3>2, <4>2, <4>3, <4>4, TurnPays
    <3> QED
      BY <3>1, <3>2
  <2>3. Paid(wrapMesage(r), due, more, after)'
    BY <1>3, <1>p, PaidStays
  <2> QED
    BY <2>1, <2>2, <2>3
<1>5. Due(r)' = due
  BY <1>0
<1>6. Gathers(r)'
  <2>1. Tgt[r].ids \subseteq minionLogList'[r] \cup more
    BY <1>0, <1>g, <1>t DEF Gathers
  <2>2. pc'[r] \in {"listening", "storing"} =>
          /\ Owes(wrapMesage(r), Due(r), Got(r))'
          /\ Paid(wrapMesage(r), Due(r), Got(r), resultExeSet[r])'
    BY <1>0, <1>1, <1>4, <1>5
  <2> QED
    BY <1>0, <1>p, <2>1, <2>2 DEF Gathers
<1>7. Promised(r)'
  <2>1. CASE pc'[r] \in {"listening", "storing"}
    BY <1>4, <2>1 DEF Promised
  <2>2. CASE pc'[r] = "merging"
    <3>1. PICK rest : EndOfBody(r, rest)
      <4>1. ~OnReturn(r)
        BY <1>t, <2>2 DEF OnReturn, TypeOK
      <4> QED
        BY <4>1 DEF OnSignal, OnResult, OnLateReturn, StoreReturn
    <3>2. stop'[r] = StopTest(pingCount'[r], resultCount'[r], expired'[r],
                              minionLogList'[r])
      BY <1>t, <3>1 DEF EndOfBody, TypeOK
    <3>3. /\ stop'[r] = "all" => \A m \in Maids : \A k \in Matched(m, Tgt[r]) :
                                    k \in more \/ <<r, k>> \in lost'
          /\ stop'[r] = "targets" => minionLogList'[r] = {}
      BY <1>0, <1>1, <1>3, <1>p, <1>t, <3>2, StopPromises
    <3> QED
      BY <1>0, <2>2, <3>3 DEF Promised, Matched
  <2> QED
    BY <1>p, <2>1, <2>2
<1> QED
  BY <1>6, <1>7

\* The maids' steps.
LEMMA MaidsGather ==
    ASSUME AnswerInv, MaidNext, UNCHANGED clientVars, NEW q \in Requests
    PROVE  Gathers(q)' /\ Promised(q)'
<1>t. /\ TypeOK /\ MaidTypeOK /\ wrapMesage(q) \in Command
      /\ Single(wrapMesage(q)) /\ Own(wrapMesage(q))
      /\ Gathers(q) /\ Promised(q)
  BY WrapMesageType, OwnTopic DEF AnswerInv, CountInv, TypeOK
<1>c. /\ UNCHANGED <<pc, stop, resultExeSet, minionLogList, response>>
      /\ Got(q)' = Got(q) /\ lost \subseteq lost'
  BY MaidsLose DEF clientVars, countVars, Got, returns
<1>1. ASSUME pc[q] \in {"listening", "storing"}
      PROVE  /\ Owes(wrapMesage(q), Due(q), Got(q))'
             /\ Paid(wrapMesage(q), Due(q), Got(q), resultExeSet[q])'
  <2>0. PICK got, due, ended :
          got = Got(q) /\ due = Due(q) /\ ended = resultExeSet[q]
    OBVIOUS
  <2>1. Owes(wrapMesage(q), due, got) /\ Paid(wrapMesage(q), due, got, ended)
    BY <1>1, <1>t, <2>0 DEF Gathers
  <2>2. /\ due \in [Maids -> SUBSET Minions]
        /\ \A m \in Maids : BeginsRun(m, wrapMesage(q)) =>
             \A k \in due[m] : \E S \in Results(m, wrapMesage(q)) : k \in S
    BY <2>0, DueType
  <2>3. Owes(wrapMesage(q), due, got)'
    BY <1>t, <2>1, <2>2, MaidsOwe
  <2>4. Paid(wrapMesage(q), due, got, ended)'
    BY <1>c, <2>1, PaidStays
  <2>5. Due(q)' = due
    BY <2>0
  <2> QED
    BY <1>c, <2>0, <2>3, <2>4, <2>5
<1> QED
  BY <1>1, <1>c, <1>t DEF Gathers, Promised, Matched

\* Every step keeps what has been read and promised.
LEMMA AnswerStep == OwnClients /\ AllKnown /\ AnswerInv /\ [Next]_vars => AnswerInv'
<1> SUFFICES ASSUME OwnClients, AllKnown, AnswerInv, [Next]_vars
             PROVE  AnswerInv'
  OBVIOUS
<1>t. CountInv' /\ OwnInv'
  BY CountStep, OwnStep DEF AnswerInv
<1>1. CASE \E r \in Requests : Thread(r) \/ Expire(r) \/ LoseConnection(r)
  <2>1. PICK r \in Requests : Thread(r) \/ Expire(r) \/ LoseConnection(r)
    BY <1>1
  <2>2. Gathers(r)' /\ Promised(r)'
    BY <2>1, GatherBefore, GatherPublish, GatherWaits, GatherLoss, GatherTurn
    DEF Thread, Listen
  <2>3. \A q \in Requests \ {r} : Gathers(q)' /\ Promised(q)'
    BY <2>1, OthersGather
  <2> QED
    BY <1>t, <2>2, <2>3 DEF AnswerInv
<1>2. CASE MaidNext /\ UNCHANGED clientVars
  BY <1>2, <1>t, MaidsGather DEF AnswerInv
<1>3. CASE UNCHANGED vars
  <2>1. UNCHANGED <<cmdq, tasks, inbox, lost>> /\ UNCHANGED clientVars
    BY <1>3 DEF vars, maidVars
  <2>2. /\ UNCHANGED <<pc, stop, resultExeSet, minionLogList, response>>
        /\ \A q : Got(q)' = Got(q)
    BY <2>1 DEF clientVars, countVars, Got, returns
  <2>3. ASSUME NEW q \in Requests PROVE Gathers(q)' /\ Promised(q)'
    <3>1. PICK got, due, ended :
            got = Got(q) /\ due = Due(q) /\ ended = resultExeSet[q]
      OBVIOUS
    <3>2. /\ Owes(wrapMesage(q), due, got) => Owes(wrapMesage(q), due, got)'
          /\ Paid(wrapMesage(q), due, got, ended) =>
               Paid(wrapMesage(q), due, got, ended)'
      BY <2>1 DEF Owes, Paid, Came, Greenlets, Refuses, EndOf
    <3>3. Due(q)' = due
      BY <3>1
    <3> QED
      BY <2>1, <2>2, <3>1, <3>2, <3>3 DEF AnswerInv, Gathers, Promised, Matched
  <2> QED
    BY <1>t, <2>3 DEF AnswerInv
<1> QED
  BY <1>1, <1>2, <1>3 DEF Next, Terminated

\* Nothing has been read or promised in the initial states.
LEMMA AnswerInit == Init => AnswerInv
<1> SUFFICES ASSUME Init PROVE AnswerInv
  OBVIOUS
<1>1. \A q \in Requests : Api[q] \in NetapiClients
  BY ApiAssumption
<1>2. ASSUME NEW q \in Requests PROVE Gathers(q) /\ Promised(q)
  <2>1. Got(q) = {}
    BY <1>1 DEF Init, Got, returns
  <2> QED
    BY <2>1 DEF Init, Gathers, Promised
<1> QED
  BY <1>2, CountInit, OwnInit DEF AnswerInv

\* A request that ends because all the maids are through, or because every
\* minion it names has returned, answers with all of these minions, except
\* for results that were lost on the way: those that its connection took with
\* it, closed by another request or lost, and those that a maid could not send.
THEOREM ResponsesWhole ==
    OwnClients /\ AllKnown => (Spec => []ResponseIsComplete)
<1> SUFFICES ASSUME OwnClients, AllKnown PROVE Spec => []ResponseIsComplete
  OBVIOUS
<1>1. AnswerInv => ResponseIsComplete
  <2>1. SUFFICES ASSUME AnswerInv, NEW r \in Requests, pc[r] = "done"
                 PROVE  /\ stop[r] = "all" => \A m \in comeSubList :
                             {r} \X Matched(m, Tgt[r]) \subseteq response[r] \cup lost
                        /\ stop[r] = "targets" =>
                             {r} \X Tgt[r].ids \subseteq response[r]
    BY DEF ResponseIsComplete
  <2>2. Gathers(r) /\ Promised(r) /\ comeSubList \subseteq Maids
    BY <2>1, ApiAssumption DEF AnswerInv, comeSubList
  <2>3. stop[r] # "none" => {r} \X Got(r) \subseteq response[r]
    BY <2>1, <2>2 DEF Promised
  <2>4. ASSUME stop[r] = "all", NEW m \in comeSubList
        PROVE  {r} \X Matched(m, Tgt[r]) \subseteq response[r] \cup lost
    BY <2>2, <2>3, <2>4 DEF Promised
  <2>5. ASSUME stop[r] = "targets"
        PROVE  {r} \X Tgt[r].ids \subseteq response[r]
    BY <2>2, <2>3, <2>5 DEF Promised, Gathers
  <2> QED
    BY <2>4, <2>5
<1>2. OwnClients /\ AllKnown /\ AnswerInv /\ [Next]_vars => AnswerInv'
  BY AnswerStep
<1> QED
  BY <1>1, <1>2, AnswerInit, PTL DEF Spec
=============================================================================
