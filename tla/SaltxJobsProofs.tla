-------------------------- MODULE SaltxJobsProofs --------------------------
(***************************************************************************)
(* Theorems about the jobs of the REST service, SaltxJobs, for every set   *)
(* of maids and minions, every target, and whatever faults.                *)
(***************************************************************************)
EXTENDS SaltxJobs, MaidProofs, FiniteSetTheorems

\* The two commands are commands, on topics of their own.
LEMMA MessageTypes ==
    ASSUME NEW f \in {LOOKUP_JID, LIST_JOBS}
    PROVE  /\ asyncMesage \in Command /\ asyncMesage.topic = AsyncTopic
           /\ wrapMesage(f) \in Command /\ wrapMesage(f).topic = Topic
           /\ wrapMesage(f).type = f /\ wrapMesage(f) # asyncMesage
           /\ f \notin Targeted /\ f # SYNC_RUN
           /\ Topic \in Topics /\ AsyncTopic \in Topics /\ Topic # AsyncTopic
BY JobsAssumption
DEF asyncMesage, wrapMesage, Everything, Target, Command, FunctionType,
    Targeted, SYNC_RUN, SALT_CP, ASYNC_RUN, FIND_ACCEPT, LOOKUP_JID, LIST_JOBS

\* The maids that the super master knows are finitely many.
LEMMA SyndicCountType == IsFiniteSet(comeSubList) /\ syndic_count \in Nat
<1>1. comeSubList \subseteq Maids
  BY JobsAssumption DEF comeSubList
<1>2. IsFiniteSet(comeSubList)
  BY <1>1, MaidAssumption, FS_Subset
<1> QED
  BY <1>2, FS_CardinalityType DEF syndic_count

\* What the client reads is the head of its queue.
LEMMA ReadsStep ==
    ASSUME MaidTypeOK, NEW kinds, Reads(kinds)
    PROVE  /\ pc = "listening" /\ inbox[Topic] # <<>>
           /\ callResult = inbox[Topic][1] /\ Len(inbox[Topic]) \in Nat
           /\ Len(inbox[Topic]) > 0
           /\ callResult.kind \in kinds
           /\ callResult.kind \in {"ping", "work", "interrupt"} =>
                callResult.sub_ip \in Maids
           /\ callResult.kind = "data" => callResult.items \subseteq Minions
           /\ Tail(inbox[Topic]) \in Seq(Message)
<1>1. Topic \in Topics /\ inbox[Topic] # <<>>
  BY JobsAssumption DEF Reads
<1>2. inbox[Topic] \in Seq(Message) /\ Len(inbox[Topic]) \in Nat
  BY <1>1, QueueType
<1>3. Tail(inbox[Topic]) \in Seq(Message)
  BY <1>1, <1>2, HeadTailProperties
<1> QED
  BY <1>1, <1>2, <1>3, HeadType DEF Reads, callResult

\* What reading a message does: it moves the queue, or the request stops.
LEMMA ListenStep ==
    ASSUME TypeOK, Listen
    PROVE  \E msg :
             /\ msg = inbox[Topic][1] /\ Len(inbox[Topic]) \in Nat
             /\ Len(inbox[Topic]) > 0 /\ pc = "listening"
             /\ msg.kind \in {"work", "interrupt", "ping"} => msg.sub_ip \in Maids
             /\ msg.kind = "data" => msg.items \subseteq Minions
             /\ resultExeSet' = EndsWith(resultExeSet, msg)
             /\ retReturns' = retReturns \cup Named(msg)
             /\ IF msg.kind = "ping" /\ msg.sub_ip \in comeSubList
                THEN /\ resultPingSet' = resultPingSet \cup {msg.sub_ip}
                     /\ pingCount' = pingCount + 1
                ELSE UNCHANGED <<resultPingSet, pingCount>>
             /\ EndOfBody
<1>t. MaidTypeOK
  BY DEF TypeOK
<1>1. PICK msg : msg = callResult
  OBVIOUS
<1>2. /\ msg = inbox[Topic][1] /\ Len(inbox[Topic]) \in Nat
      /\ Len(inbox[Topic]) > 0 /\ pc = "listening"
      /\ msg.kind \in {"work", "interrupt", "ping"} => msg.sub_ip \in Maids
      /\ msg.kind = "data" => msg.items \subseteq Minions
  <2>1. PICK kinds : Reads(kinds)
    BY DEF Listen, OnConfirmation, OnPing, OnResult, OnJobs
  <2> QED
    BY <1>1, <1>t, <2>1, ReadsStep
<1>3. /\ resultExeSet' = EndsWith(resultExeSet, msg)
      /\ retReturns' = retReturns \cup Named(msg)
      /\ IF msg.kind = "ping" /\ msg.sub_ip \in comeSubList
         THEN /\ resultPingSet' = resultPingSet \cup {msg.sub_ip}
              /\ pingCount' = pingCount + 1
         ELSE UNCHANGED <<resultPingSet, pingCount>>
      /\ EndOfBody
  <2>1. CASE OnConfirmation
    BY <1>1, <2>1 DEF OnConfirmation, Reads, EndsWith, Named
  <2>2. CASE OnPing
    BY <1>1, <2>2 DEF OnPing, Reads, EndsWith, Named
  <2>3. CASE OnResult
    BY <1>1, <2>3 DEF OnResult, Reads, EndsWith, Named
  <2>4. CASE OnJobs
    BY <1>1, <2>4 DEF OnJobs, Reads, EndsWith, Named
  <2> QED
    BY <2>1, <2>2, <2>3, <2>4 DEF Listen
<1> QED
  BY <1>2, <1>3

\* What is asked for is chosen before it is published.
TypeInv ==
    /\ TypeOK
    /\ pc \in {"subscribed", "listening", "done"} => fun \in {LOOKUP_JID, LIST_JOBS}

\* Every step keeps the types.
LEMMA TypeStep == TypeInv /\ [Next]_vars => TypeInv'
<1> SUFFICES ASSUME TypeInv, [Next]_vars PROVE TypeInv'
  OBVIOUS
<1>t. TypeOK /\ MaidTypeOK /\ Topic \in Topics
  BY JobsAssumption DEF TypeInv, TypeOK
<1>1. CASE PostAsync
  BY <1>1, <1>t, PublishToSyndicSubType, MessageTypes
  DEF PostAsync, TypeInv, TypeOK, MaidTypeOK
<1>2. CASE SubscribeTopic
  <2>1. inbox' \in [Topics -> Seq(Message)] /\ subscribed' \subseteq Topics
    BY <1>2, <1>t, SubscribeType DEF SubscribeTopic, MaidTypeOK
  <2> QED
    BY <1>2, <2>1 DEF SubscribeTopic, TypeInv, TypeOK, MaidTypeOK
<1>3. CASE PublishCommand
  <2>1. wrapMesage(fun) \in Command
    BY <1>3, MessageTypes DEF TypeInv, PublishCommand
  <2>2. cmdq' \in [Maids -> Seq(Command)]
    <3>1. PICK c \in Command : c = wrapMesage(fun)
      BY <2>1
    <3>2. cmdq \in [Maids -> Seq(Command)] /\ PublishToSyndicSub(c)
      BY <1>3, <1>t, <3>1 DEF PublishCommand, MaidTypeOK
    <3> QED
      BY <3>2, PublishToSyndicSubType
  <2> QED
    BY <1>3, <1>t, <2>2 DEF PublishCommand, TypeInv, TypeOK, MaidTypeOK
<1>4. CASE Expire
  BY <1>4 DEF Expire, TypeInv, TypeOK, maidVars, MaidTypeOK
<1>5. CASE Listen
  <2>1. PICK msg :
             /\ pc = "listening"
             /\ msg.kind \in {"work", "interrupt", "ping"} => msg.sub_ip \in Maids
             /\ msg.kind = "data" => msg.items \subseteq Minions
             /\ resultExeSet' = EndsWith(resultExeSet, msg)
             /\ retReturns' = retReturns \cup Named(msg)
             /\ IF msg.kind = "ping" /\ msg.sub_ip \in comeSubList
                THEN /\ resultPingSet' = resultPingSet \cup {msg.sub_ip}
                     /\ pingCount' = pingCount + 1
                ELSE UNCHANGED <<resultPingSet, pingCount>>
             /\ EndOfBody
    BY <1>5, <1>t, ListenStep
  <2>2. /\ resultExeSet' \subseteq Maids /\ retReturns' \subseteq Minions
        /\ resultPingSet' \subseteq comeSubList /\ pingCount' \in Nat
    BY <1>t, <2>1 DEF TypeOK, EndsWith, Named
  <2>3. Tail(inbox[Topic]) \in Seq(Message)
    <3>1. PICK kinds : Reads(kinds)
      BY <1>5 DEF Listen, OnConfirmation, OnPing, OnResult, OnJobs
    <3> QED
      BY <1>t, <3>1, ReadsStep
  <2>4. inbox' \in [Topics -> Seq(Message)] /\ subscribed' \subseteq Topics
    <3>1. PICK rest \in Seq(Message) :
             inbox' = [inbox EXCEPT ![Topic] = rest]
      <4>1. CASE stop' = "none"
        BY <2>1, <2>3, <4>1 DEF EndOfBody
      <4>2. CASE stop' # "none"
        <5>1. <<>> \in Seq(Message)
          OBVIOUS
        <5> QED
          BY <2>1, <4>2, <5>1 DEF EndOfBody
      <4> QED
        BY <4>1, <4>2
    <3>2. subscribed' \subseteq subscribed
      BY <2>1 DEF EndOfBody
    <3> QED
      BY <1>t, <3>1, <3>2 DEF MaidTypeOK
  <2>5. stop' \in {"none", "all", "T0", "count"}
    BY <2>1 DEF EndOfBody, StopTest
  <2>6. pc' \in {"listening", "done"}
    BY <2>1 DEF EndOfBody
  <2>7. UNCHANGED <<up, cmdq, tasks, sent, lost, faults, fun, expired, before>>
    BY <2>1 DEF EndOfBody
  <2>8. MaidTypeOK'
    BY <1>t, <2>4, <2>7 DEF MaidTypeOK
  <2> QED
    BY <1>t, <2>1, <2>2, <2>5, <2>6, <2>7, <2>8 DEF TypeInv, TypeOK
<1>6. CASE MaidNext /\ UNCHANGED clientVars
  BY <1>6, <1>t, MaidNextType DEF clientVars, TypeInv, TypeOK
<1>7. CASE UNCHANGED vars
  BY <1>7 DEF vars, maidVars, clientVars, TypeInv, TypeOK, MaidTypeOK
<1>8. CASE LoseConnection
  <2>1. /\ faults' \in [FaultKinds -> Nat] /\ lost' \subseteq Topics \X Minions
    BY <1>8, <1>t, FaultType, LoseQueuesType DEF LoseConnection, MaidTypeOK
  <2>2. /\ inbox' \in [Topics -> Seq(Message)] /\ subscribed' \subseteq Topics
        /\ pc = "listening" /\ pc' \in {"listening", "done"}
    <3>1. CASE Subscribe(Topic) /\ UNCHANGED pc
      BY <1>8, <1>t, <3>1, SubscribeType DEF LoseConnection, MaidTypeOK
    <3>2. CASE /\ pc' = "done" /\ subscribed' = subscribed \ {Topic}
               /\ inbox' = [inbox EXCEPT ![Topic] = <<>>]
      <4>1. <<>> \in Seq(Message)
        OBVIOUS
      <4> QED
        BY <1>8, <1>t, <3>2, <4>1 DEF LoseConnection, MaidTypeOK
    <3> QED
      BY <1>8, <3>1, <3>2 DEF LoseConnection
  <2> QED
    BY <1>8, <2>1, <2>2 DEF LoseConnection, TypeInv, TypeOK, MaidTypeOK
<1> QED
  BY <1>1, <1>2, <1>3, <1>4, <1>5, <1>6, <1>7, <1>8 DEF Next, Client, Terminated

\* The initial states are well typed.
LEMMA TypeInit == Init => TypeInv
<1> SUFFICES ASSUME Init PROVE TypeInv
  OBVIOUS
<1>1. MaidTypeOK
  BY MaidInitType DEF Init
<1> QED
  BY <1>1 DEF Init, TypeInv, TypeOK

\* Types: maids, bus and client keep their types in every behaviour.
THEOREM TypeCorrect == Spec => []TypeOK
<1>1. TypeInv => TypeOK
  BY DEF TypeInv
<1> QED
  BY <1>1, TypeInit, TypeStep, PTL DEF Spec
-----------------------------------------------------------------------------
(* What the request reads, and what is lost on the way.                    *)

\* the super master knows every maid: it has accepted its key
AllKnown == Maids \subseteq comeSubList

\* what maid m has to report to the request
Due == [m \in Maids |-> IF fun = LIST_JOBS THEN before \cap Accepted[m] ELSE {}]

\* a maid holds nothing but the two commands, each once, and the second one
\* from its publish on
HeldOK ==
    /\ \A d \in Command : Single(d)
    /\ \A m \in Maids : \A d \in Command : Holds(m, d) =>
          \/ d = asyncMesage
          \/ d = wrapMesage(fun) /\ pc \in {"listening", "done"}
    /\ pc = "start" => \A m \in Maids : \A d \in Command : ~Holds(m, d)

\* before the request is published nothing has been read, and nothing of it
\* is on its way
Fresh == pc \in {"start", "posted", "subscribed"} =>
    /\ pingCount = 0 /\ resultPingSet = {} /\ resultExeSet = {}
    /\ retReturns = {} /\ before = {} /\ stop = "none"
    /\ \A k : <<Topic, k>> \notin lost
    /\ pc = "subscribed" =>
         /\ Topic \in subscribed
         /\ \A i \in 1 .. Len(inbox[Topic]) : inbox[Topic][i].kind = "subscribe"

\* the client's connection has not been lost yet, and with it no PING
Connected == faults["redis"] = 0

\* while it listens, counts and queue agree with what the maids still hold
Reading == pc = "listening" =>
    /\ Topic \in subscribed /\ stop = "none"
    /\ ClosesOnce(wrapMesage(fun), resultExeSet)
    /\ Connected =>
         /\ pingCount = Cardinality(resultPingSet)
         /\ PingsAhead(wrapMesage(fun), resultPingSet, resultExeSet)
    /\ Owes(wrapMesage(fun), Due, retReturns)
    /\ Paid(wrapMesage(fun), Due, retReturns, resultExeSet)

JobsInv ==
    /\ TypeInv /\ HeldOK /\ Fresh /\ Reading
    /\ \A k \in before : sent[k] > 0
    /\ NoneLeftRunning /\ ListsWhatWasStarted

\* The request owns its topic.
LEMMA OwnTopic ==
    ASSUME TypeInv, HeldOK, NEW f \in {LOOKUP_JID, LIST_JOBS}, f = fun
    PROVE  Own(wrapMesage(f)) /\ Own(asyncMesage)
<1>1. ASSUME NEW m \in Maids, NEW d \in Command, Holds(m, d)
      PROVE  d = asyncMesage \/ d = wrapMesage(f)
  BY <1>1 DEF HeldOK
<1>2. Own(wrapMesage(f))
  BY <1>1, MessageTypes DEF Own
<1> QED
  BY <1>1, <1>2, MessageTypes DEF Own

\* A step that leaves queues of commands and greenlets alone leaves alone
\* what the maids hold.
LEMMA HoldsStays ==
    ASSUME UNCHANGED <<cmdq, tasks>>
    PROVE  /\ \A m, d : Holds(m, d)' <=> Holds(m, d)
           /\ \A d : Single(d)' <=> Single(d)
<1>1. ASSUME NEW m, NEW d PROVE Holds(m, d)' <=> Holds(m, d)
  BY DEF Holds, Awaits, Greenlets
<1>2. ASSUME NEW d PROVE Single(d)' <=> Single(d)
  BY DEF Single, Awaits, Greenlets
<1> QED
  BY <1>1, <1>2

\* Publishing the asynchronous command: nobody holds anything before.
LEMMA PostKept == JobsInv /\ PostAsync => JobsInv'
<1> SUFFICES ASSUME JobsInv, PostAsync PROVE JobsInv'
  OBVIOUS
<1>t. TypeInv' /\ MaidTypeOK
  BY TypeStep DEF JobsInv, Next, Client, TypeInv, TypeOK
<1>1. /\ pc = "start" /\ pc' = "posted" /\ PublishToSyndicSub(asyncMesage)
      /\ UNCHANGED <<tasks, subscribed, inbox, sent, lost>>
      /\ UNCHANGED <<fun, pingCount, resultPingSet, resultExeSet, retReturns,
                     stop, before>>
  BY DEF PostAsync
<1>2. asyncMesage \in Command
  BY MessageTypes
<1>3. HeldOK'
  <2>1. \A m \in Maids : \A d \in Command : ~Holds(m, d)
    BY <1>1 DEF JobsInv, HeldOK
  <2>2. \A d \in Command : Single(d)'
    BY <1>1, <1>2, <1>t, <2>1, PublishSingle DEF JobsInv, HeldOK
  <2>3. \A m \in Maids : \A d \in Command : Holds(m, d)' => d = asyncMesage
    BY <1>1, <1>2, <1>t, <2>1, PublishHolds DEF Holds
  <2> QED
    BY <1>1, <2>2, <2>3 DEF HeldOK
<1>4. Fresh' /\ Reading'
  BY <1>1 DEF JobsInv, Fresh, Reading
<1> QED
  BY <1>1, <1>3, <1>4, <1>t
  DEF JobsInv, Fresh, NoneLeftRunning, ListsWhatWasStarted

\* Subscribing leaves the confirmation alone in the queue.
LEMMA SubscribeKept == JobsInv /\ SubscribeTopic => JobsInv'
<1> SUFFICES ASSUME JobsInv, SubscribeTopic PROVE JobsInv'
  OBVIOUS
<1>t. TypeInv' /\ MaidTypeOK /\ Topic \in Topics
  BY TypeStep, JobsAssumption DEF JobsInv, Next, Client, TypeInv, TypeOK
<1>1. /\ pc = "posted" /\ pc' = "subscribed" /\ Subscribe(Topic)
      /\ UNCHANGED <<cmdq, tasks, sent, lost>>
      /\ UNCHANGED <<pingCount, resultPingSet, resultExeSet, retReturns,
                     stop, before>>
  BY DEF SubscribeTopic
<1>2. HeldOK'
  <2>1. \A m \in Maids : \A d \in Command : Holds(m, d) => d = asyncMesage
    BY <1>1 DEF JobsInv, HeldOK
  <2> QED
    BY <1>1, <2>1, HoldsStays DEF JobsInv, HeldOK
<1>3. Topic \in subscribed' /\ inbox'[Topic] = <<[kind |-> "subscribe"]>>
  BY <1>1, <1>t DEF Subscribe, MaidTypeOK
<1>4. \A i \in 1 .. Len(inbox'[Topic]) : inbox'[Topic][i].kind = "subscribe"
  BY <1>3
<1>5. Fresh' /\ Reading'
  BY <1>1, <1>3, <1>4 DEF JobsInv, Fresh, Reading
<1> QED
  BY <1>1, <1>2, <1>5, <1>t
  DEF JobsInv, Fresh, NoneLeftRunning, ListsWhatWasStarted

\* Publishing the request: nobody holds it, and nothing of it is queued.
LEMMA PublishKept == JobsInv /\ PublishCommand => JobsInv'
<1> SUFFICES ASSUME JobsInv, PublishCommand PROVE JobsInv'
  OBVIOUS
<1>t. TypeInv' /\ MaidTypeOK /\ TypeInv
  BY TypeStep DEF JobsInv, Next, Client, TypeInv, TypeOK
<1>0. PICK f \in {LOOKUP_JID, LIST_JOBS} : f = fun
  BY <1>t DEF TypeInv, PublishCommand
<1>1. /\ pc = "subscribed" /\ pc' = "listening"
      /\ PublishToSyndicSub(wrapMesage(f))
      /\ UNCHANGED <<tasks, subscribed, inbox, sent, lost>>
      /\ UNCHANGED <<fun, pingCount, resultPingSet, resultExeSet, retReturns, stop>>
      /\ before' = {k \in Minions : sent[k] > 0}
  BY <1>0 DEF PublishCommand
<1>2. PICK c \in Command : c = wrapMesage(f)
  BY MessageTypes
<1>3. \A m \in Maids : \A d \in Command : Holds(m, d) => d = asyncMesage
  BY <1>1 DEF JobsInv, HeldOK
<1>4. \A m \in Maids : ~Holds(m, c)
  BY <1>2, <1>3, MessageTypes
<1>5. HeldOK'
  <2>1. \A d \in Command : Single(d)'
    BY <1>1, <1>2, <1>4, <1>t, PublishSingle DEF JobsInv, HeldOK
  <2>2. \A m \in Maids : \A d \in Command :
          Holds(m, d)' => d = asyncMesage \/ d = c
    BY <1>1, <1>2, <1>3, <1>t, PublishHolds DEF Holds
  <2> QED
    BY <1>0, <1>1, <1>2, <2>1, <2>2 DEF HeldOK
<1>6. Reading'
  <2>1. /\ \A m \in Maids : Greenlets(m, c)' = {}
        /\ \A i \in 1 .. Len(inbox'[c.topic]) :
              inbox'[c.topic][i].kind = "subscribe"
    BY <1>1, <1>2, <1>4, MessageTypes DEF Holds, Greenlets, JobsInv, Fresh
  <2>2. \A due : /\ ClosesOnce(c, {})' /\ Owes(c, due, {})'
                 /\ Paid(c, due, {}, {})' /\ PingsAhead(c, {}, {})'
    BY <2>1, FreshTopic
  <2>3. /\ resultExeSet' = {} /\ resultPingSet' = {} /\ retReturns' = {}
        /\ pingCount' = 0 /\ Topic \in subscribed' /\ stop' = "none"
    BY <1>1, <1>2, MessageTypes DEF JobsInv, Fresh
  <2>4. PICK due : due = Due'
    OBVIOUS
  <2>5. c = wrapMesage(fun)'
    BY <1>0, <1>1, <1>2
  <2>6. PingsAhead(c, resultPingSet, resultExeSet)'
    BY <2>2, <2>3
  <2>7. ClosesOnce(c, resultExeSet)'
    BY <2>2, <2>3
  <2>8. Owes(c, due, retReturns)' /\ Paid(c, due, retReturns, resultExeSet)'
    BY <2>2, <2>3
  <2> QED
    BY <2>3, <2>4, <2>5, <2>6, <2>7, <2>8, FS_EmptySet DEF Reading
<1>7. Fresh' /\ stop' = "none"
  BY <1>1 DEF JobsInv, Fresh
<1> QED
  BY <1>1, <1>5, <1>6, <1>7, <1>t
  DEF JobsInv, NoneLeftRunning, ListsWhatWasStarted

\* What the maids do reaches the client's queue in order, and what they lose
\* is not the request's.
LEMMA MaidsKept == JobsInv /\ MaidNext /\ UNCHANGED clientVars => JobsInv'
<1> SUFFICES ASSUME JobsInv, MaidNext, UNCHANGED clientVars PROVE JobsInv'
  OBVIOUS
<1>t. TypeInv' /\ MaidTypeOK /\ TypeInv /\ HeldOK
  BY TypeStep DEF JobsInv, Next, TypeInv, TypeOK
<1>c. UNCHANGED <<pc, fun, pingCount, resultPingSet, resultExeSet, retReturns,
                  stop, before>>
  BY DEF clientVars
<1>n. /\ lost \subseteq lost' /\ Connected' = Connected
      /\ missing \subseteq missing'
  BY <1>t, MaidsLose, MaidsKeepRedis DEF Connected, missing
<1>p. NoneLeftRunning' /\ ListsWhatWasStarted'
  <2>1. NoneLeftRunning /\ ListsWhatWasStarted
    BY DEF JobsInv
  <2> QED
    BY <1>c, <1>n, <2>1 DEF NoneLeftRunning, ListsWhatWasStarted, Connected
<1>1. HeldOK'
  <2>1. \A m \in Maids : \A d \in Command : Holds(m, d)' => Holds(m, d)
    BY <1>t, HoldsShrinks DEF HeldOK
  <2>2. \A d \in Command : Single(d)'
    BY <1>t, SingleKept DEF HeldOK
  <2> QED
    BY <1>c, <1>t, <2>1, <2>2 DEF HeldOK
<1>2. \A k \in before : sent'[k] > 0
  <2>1. ASSUME NEW k \in before PROVE sent'[k] > 0
    <3>1. k \in Minions /\ sent[k] \in Nat /\ sent[k] > 0
      BY <1>t, <2>1 DEF TypeInv, TypeOK, MaidTypeOK, JobsInv
    <3>2. sent'[k] = sent[k] \/ sent'[k] = sent[k] + 1
      BY <1>t, <3>1, SentSteps DEF HeldOK
    <3> QED
      BY <3>1, <3>2
  <2> QED
    BY <2>1
<1>3. CASE pc \in {"start", "posted", "subscribed"}
  <2>1. UNCHANGED inbox[Topic] /\ \A k : <<Topic, k>> \notin lost'
    <3>1. PICK c \in Command : c = wrapMesage(LIST_JOBS)
      BY MessageTypes
    <3>2. /\ \A m \in Maids : \A d \in Command : Holds(m, d) => d = asyncMesage
          /\ \A k : <<Topic, k>> \notin lost
      BY <1>3 DEF JobsInv, HeldOK, Fresh
    <3>3. c.topic = Topic /\ c # asyncMesage /\ asyncMesage.topic # Topic
      BY <3>1, MessageTypes
    <3>4. /\ Own(c) /\ Single(c) /\ NoneLost(c)
          /\ \A m \in Maids : ~Holds(m, c)
      BY <1>t, <3>2, <3>3 DEF Own, HeldOK, NoneLost
    <3>5. QueueSame(c.topic) /\ NoneLost(c)'
      BY <1>t, <3>4, QuietTopic, QuietNoneLost
    <3> QED
      BY <3>3, <3>5 DEF QueueSame, NoneLost
  <2>2. UNCHANGED subscribed
    BY MaidsKeepSubscriptions
  <2>3. Fresh' /\ Reading'
    BY <1>3, <1>c, <2>1, <2>2 DEF JobsInv, Fresh, Reading
  <2> QED
    BY <1>1, <1>2, <1>c, <1>p, <1>t, <2>3 DEF JobsInv
<1>4. CASE pc = "listening"
  <2>0. PICK c \in Command : c = wrapMesage(fun)
    BY <1>4, <1>t, MessageTypes DEF TypeInv
  <2>1. PICK ended \in SUBSET Maids, pinged \in SUBSET Maids :
          ended = resultExeSet /\ pinged = resultPingSet
    BY <1>t, JobsAssumption DEF TypeInv, TypeOK, comeSubList
  <2>2. PICK due \in [Maids -> SUBSET Minions] : due = Due
    BY MaidAssumption DEF Due
  <2>3. PICK got : got = retReturns
    OBVIOUS
  <2>4. /\ c.topic = Topic /\ c.type = fun /\ c.type # SYNC_RUN
        /\ Own(c) /\ Single(c)
    BY <1>4, <1>t, <2>0, MessageTypes, OwnTopic DEF TypeInv, HeldOK
  <2>5. /\ Topic \in subscribed /\ stop = "none"
        /\ Connected => /\ pingCount = Cardinality(pinged)
                        /\ PingsAhead(c, pinged, ended)
        /\ ClosesOnce(c, ended) /\ Owes(c, due, got) /\ Paid(c, due, got, ended)
    BY <1>4, <2>0, <2>1, <2>2, <2>3 DEF JobsInv, Reading
  <2>6. /\ ClosesOnce(c, ended)'
        /\ Connected => PingsAhead(c, pinged, ended)'
    BY <1>t, <2>4, <2>5, MaidsCloseOnce, MaidsPingFirst
  <2>7. UNCHANGED subscribed
    BY MaidsKeepSubscriptions
  <2>8. ASSUME NEW m \in Maids, BeginsRun(m, c)
        PROVE  \A k \in due[m] : \E S \in Results(m, c) : k \in S
    <3>1. CASE fun # LIST_JOBS
      BY <2>2, <3>1 DEF Due
    <3>2. CASE fun = LIST_JOBS
      <4>1. Results(m, c) = {JobCache(m)}
        BY <2>4, <3>2
        DEF Results, LIST_JOBS, FIND_ACCEPT, ASYNC_RUN, LOOKUP_JID, SALT_CP, SYNC_RUN
      <4>2. due[m] \subseteq JobCache(m)
        BY <2>2, <3>2 DEF Due, JobCache, JobsInv
      <4> QED
        BY <4>1, <4>2
    <3> QED
      BY <3>1, <3>2
  <2>9. Owes(c, due, got)'
    BY <1>t, <2>4, <2>5, <2>8, MaidsOwe
  <2>10. Paid(c, due, got, ended)'
    BY <1>n, <2>5, PaidStays
  <2>11. Due' = due /\ c = wrapMesage(fun)'
    BY <1>c, <2>0, <2>2 DEF Due
  <2>12. Reading' /\ Fresh'
    BY <1>4, <1>c, <1>n, <2>1, <2>3, <2>5, <2>6, <2>7, <2>9, <2>10, <2>11
    DEF Reading, Fresh
  <2> QED
    BY <1>1, <1>2, <1>c, <1>p, <1>t, <2>12 DEF JobsInv
<1>5. CASE pc = "done"
  <2>1. Fresh' /\ Reading'
    BY <1>5, <1>c DEF Fresh, Reading
  <2> QED
    BY <1>1, <1>2, <1>c, <1>p, <1>t, <2>1 DEF JobsInv
<1> QED
  BY <1>3, <1>4, <1>5, <1>t DEF TypeInv, TypeOK

\* The tests of a normal end find the ends of all the maids; and if the PING of
\* each maid has been read before its end, every stop test finds the ends of
\* all those whose PING has been read.
LEMMA StopsInTime ==
    ASSUME AllKnown, TypeOK', stop' = StopTest(pingCount', Cardinality(resultExeSet'))
    PROVE  /\ stop' \in {"all", "count"} => resultExeSet' = Maids
           /\ /\ pingCount' = Cardinality(resultPingSet')
              /\ resultExeSet' \subseteq resultPingSet'
              /\ stop' # "none"
              => resultPingSet' \subseteq resultExeSet'
<1>1. /\ IsFiniteSet(resultPingSet') /\ resultPingSet' \subseteq comeSubList
      /\ IsFiniteSet(resultExeSet') /\ comeSubList = Maids
  <2>1. resultPingSet' \subseteq comeSubList /\ comeSubList = Maids
    BY JobsAssumption DEF TypeOK, AllKnown, comeSubList
  <2>2. resultExeSet' \subseteq Maids
    BY DEF TypeOK
  <2> QED
    BY <2>1, <2>2, MaidAssumption, FS_Subset
<1>2. PICK p \in Nat, n \in Nat, c \in Nat :
        p = pingCount' /\ n = Cardinality(resultExeSet') /\ c = syndic_count
  BY <1>1, FS_CardinalityType, SyndicCountType DEF TypeOK
<1>3. n <= c
  <2>1. resultExeSet' \subseteq comeSubList
    BY <1>1 DEF TypeOK
  <2> QED
    BY <1>2, <2>1, SyndicCountType, FS_Subset DEF syndic_count
<1>4. ASSUME stop' \in {"all", "count"} PROVE resultExeSet' = Maids
  <2>1. n = c
    <3>1. CASE c = p /\ p = n
      BY <3>1
    <3>2. CASE n - c >= 0
      BY <1>3, <3>2
    <3> QED
      BY <1>2, <1>4, <3>1, <3>2 DEF StopTest
  <2>2. Cardinality(resultExeSet') = Cardinality(Maids)
    BY <1>1, <1>2, <2>1 DEF syndic_count
  <2>3. resultExeSet' \subseteq Maids
    BY DEF TypeOK
  <2> QED
    BY <2>2, <2>3, MaidAssumption, FS_Subset
<1>5. ASSUME pingCount' = Cardinality(resultPingSet'),
             resultExeSet' \subseteq resultPingSet', stop' # "none"
      PROVE  resultPingSet' \subseteq resultExeSet'
  <2>1. n <= p
    BY <1>1, <1>2, <1>5, FS_Subset
  <2>2. p <= c
    BY <1>1, <1>2, <1>5, SyndicCountType, FS_Subset DEF syndic_count
  <2>3. p <= n
    <3>1. CASE c = p /\ p = n
      BY <3>1
    <3>2. CASE p < c /\ c - n - (c - p) <= 0
      BY <3>2
    <3>3. CASE n - c >= 0
      BY <2>2, <3>3
    <3> QED
      BY <1>2, <1>5, <3>1, <3>2, <3>3 DEF StopTest
  <2>4. Cardinality(resultExeSet') = Cardinality(resultPingSet')
    BY <1>2, <1>5, <2>1, <2>3
  <2> QED
    BY <1>1, <1>5, <2>4, FS_Subset
<1> QED
  BY <1>4, <1>5

\* Reading a message keeps account of PINGs, ends and jobs; and when it is
\* the last, the account is closed.
LEMMA ListenKept == AllKnown /\ JobsInv /\ Listen => JobsInv'
<1> SUFFICES ASSUME AllKnown, JobsInv, Listen PROVE JobsInv'
  OBVIOUS
<1>t. TypeInv' /\ TypeOK' /\ MaidTypeOK /\ TypeInv /\ TypeOK /\ HeldOK
      /\ Topic \in Topics
  BY TypeStep, JobsAssumption DEF JobsInv, Next, Client, TypeInv, TypeOK
<1>0. PICK msg :
             /\ msg = inbox[Topic][1] /\ Len(inbox[Topic]) \in Nat
             /\ Len(inbox[Topic]) > 0 /\ pc = "listening"
             /\ msg.kind \in {"work", "interrupt", "ping"} => msg.sub_ip \in Maids
             /\ msg.kind = "data" => msg.items \subseteq Minions
             /\ resultExeSet' = EndsWith(resultExeSet, msg)
             /\ retReturns' = retReturns \cup Named(msg)
             /\ IF msg.kind = "ping" /\ msg.sub_ip \in comeSubList
                THEN /\ resultPingSet' = resultPingSet \cup {msg.sub_ip}
                     /\ pingCount' = pingCount + 1
                ELSE UNCHANGED <<resultPingSet, pingCount>>
             /\ EndOfBody
  BY <1>t, ListenStep
<1>1. PICK c : c \in Command /\ c = wrapMesage(fun)
  BY <1>0, <1>t, MessageTypes DEF TypeInv
<1>2. PICK ended \in SUBSET Maids, pinged \in SUBSET Maids :
        ended = resultExeSet /\ pinged = resultPingSet
  BY <1>t, JobsAssumption DEF TypeOK, comeSubList
<1>3. PICK due \in [Maids -> SUBSET Minions] : due = Due
  BY MaidAssumption DEF Due
<1>4. PICK got, more : got = retReturns /\ more = retReturns'
  OBVIOUS
<1>5. PICK after, heard : after = EndsWith(ended, msg) /\ heard = PingsWith(pinged, msg)
  OBVIOUS
<1>6. c.topic = Topic
  BY <1>0, <1>1, <1>t, MessageTypes DEF TypeInv
<1>7. /\ Topic \in subscribed /\ stop = "none"
      /\ Connected => /\ pingCount = Cardinality(pinged)
                      /\ PingsAhead(c, pinged, ended)
      /\ ClosesOnce(c, ended) /\ Owes(c, due, got) /\ Paid(c, due, got, ended)
  BY <1>0, <1>1, <1>2, <1>3, <1>4 DEF JobsInv, Reading
<1>8. resultExeSet' = after /\ resultPingSet' = heard
      /\ (msg.kind # "ping" => pingCount' = pingCount)
      /\ (msg.kind = "ping" => pingCount' = pingCount + 1)
  BY <1>0, <1>2, <1>5 DEF EndsWith, PingsWith, AllKnown
<1>9. /\ UNCHANGED <<cmdq, tasks, sent, lost, faults, fun, before>>
      /\ stop' = StopTest(pingCount', Cardinality(resultExeSet'))
  BY <1>0 DEF EndOfBody
<1>10. /\ Connected => /\ after \subseteq heard
                       /\ msg.kind = "ping" => msg.sub_ip \notin pinged
       /\ Paid(c, due, more, after)
  <2>1. got \subseteq more
    BY <1>0, <1>4
  <2>2. /\ msg = inbox[c.topic][1] /\ Len(inbox[c.topic]) \in Nat
        /\ Len(inbox[c.topic]) > 0
        /\ msg.kind \in {"work", "interrupt", "ping"} => msg.sub_ip \in Maids
    BY <1>0, <1>6
  <2>3. ASSUME Connected
        PROVE  /\ EndsWith(ended, msg) \subseteq PingsWith(pinged, msg)
               /\ msg.kind = "ping" => msg.sub_ip \notin pinged
    <3>1. PingsAhead(c, pinged, ended)
      BY <1>7, <2>3
    <3>2. EndsWith(ended, msg) \subseteq PingsWith(pinged, msg)
      BY <2>2, <3>1, HeadPings
    <3>3. msg.kind = "ping" => msg.sub_ip \notin pinged
      BY <2>2, <3>1, HeadPings
    <3> QED
      BY <3>2, <3>3
  <2>4. Paid(c, due, more, EndsWith(ended, msg))
    BY <1>7, <2>1, <2>2, HeadPays
  <2> QED
    BY <1>5, <2>3, <2>4
<1>11. Connected => pingCount' = Cardinality(heard)
  <2> SUFFICES ASSUME Connected PROVE pingCount' = Cardinality(heard)
    OBVIOUS
  <2>1. IsFiniteSet(pinged) /\ pingCount = Cardinality(pinged)
    BY <1>7, MaidAssumption, FS_Subset
  <2>2. CASE msg.kind = "ping"
    <3>1. heard = pinged \cup {msg.sub_ip} /\ msg.sub_ip \notin pinged
      BY <1>5, <1>10, <2>2 DEF PingsWith
    <3> QED
      BY <1>8, <2>1, <2>2, <3>1, FS_AddElement
  <2>3. CASE msg.kind # "ping"
    BY <1>5, <1>8, <2>1, <2>3 DEF PingsWith
  <2> QED
    BY <2>2, <2>3
<1>12. HeldOK' /\ \A k \in before' : sent'[k] > 0
  <2>1. pc' \in {"listening", "done"}
    BY <1>0 DEF EndOfBody
  <2> QED
    BY <1>0, <1>9, <2>1, HoldsStays DEF JobsInv, HeldOK
<1>13. CASE stop' = "none"
  <2>1. /\ inbox'[Topic] = Tail(inbox[Topic]) /\ UNCHANGED <<pc, subscribed>>
    BY <1>0, <1>13, <1>t DEF EndOfBody, TypeOK, MaidTypeOK
  <2>2. inbox[Topic] # <<>>
    BY <1>0
  <2>3. QueueMoves(Topic)
    BY <1>t, <2>1, <2>2, HeadTaken
  <2>4. msg.kind = "data" => msg.items \subseteq more
    BY <1>0, <1>4 DEF Named
  <2>5. ClosesOnce(c, after)'
    <3>1. ClosesOnce(c, EndsWith(ended, msg))'
      BY <1>0, <1>1, <1>6, <1>7, <1>9, <1>t, <2>3, TurnClosesOnce
    <3> QED
      BY <1>5, <3>1
  <2>6. Connected => PingsAhead(c, heard, after)'
    <3>1. ASSUME Connected
          PROVE  PingsAhead(c, PingsWith(pinged, msg), EndsWith(ended, msg))'
      <4>1. PingsAhead(c, pinged, ended)
        BY <1>7, <3>1
      <4> QED
        BY <1>0, <1>1, <1>6, <1>9, <1>t, <2>3, <4>1, TurnPingsFirst
    <3> QED
      BY <1>5, <3>1
  <2>7. Owes(c, due, more)' /\ Paid(c, due, more, after)'
    <3>1. got \subseteq more
      BY <1>0, <1>4
    <3>2. Owes(c, due, more)' /\ Paid(c, due, more, EndsWith(ended, msg))'
      BY <1>0, <1>1, <1>6, <1>7, <1>9, <1>t, <2>3, <2>4, <3>1, TurnPays
    <3> QED
      BY <1>5, <3>2
  <2>8. Due' = due /\ c = wrapMesage(fun)' /\ Connected' = Connected
    BY <1>1, <1>3, <1>9 DEF Due, Connected
  <2>9. Reading' /\ Fresh'
    BY <1>0, <1>4, <1>7, <1>8, <1>11, <1>13, <2>1, <2>5, <2>6, <2>7, <2>8
    DEF Reading, Fresh
  <2> QED
    BY <1>12, <1>13, <1>t, <2>9 DEF JobsInv, NoneLeftRunning, ListsWhatWasStarted
<1>14. CASE stop' # "none"
  <2>1. pc' = "done"
    BY <1>0, <1>14 DEF EndOfBody
  <2>2. /\ Connected => resultPingSet' \subseteq resultExeSet'
        /\ stop' \in {"all", "count"} => after = Maids
    BY <1>8, <1>9, <1>10, <1>11, <1>14, <1>t, StopsInTime
  <2>3. ASSUME stop' \in {"all", "count"}, fun = LIST_JOBS, NEW m \in comeSubList,
               NEW k \in before \cap Accepted[m]
        PROVE  k \in more \cup missing'
    <3>1. m \in Maids /\ m \in after
      BY <2>2, <2>3, JobsAssumption DEF comeSubList
    <3>2. ~Refuses(m, c)
      BY <1>1, <2>3, MessageTypes DEF Refuses
    <3>3. k \in due[m]
      BY <1>3, <2>3, <3>1 DEF Due
    <3>4. Came(c, k, 0, more)
      BY <1>10, <3>1, <3>2, <3>3 DEF Paid
    <3>5. k \in Minions
      BY <2>3, <1>t DEF TypeOK
    <3> QED
      BY <1>6, <1>9, <3>4, <3>5 DEF Came, missing
  <2>4. ListsWhatWasStarted'
    BY <1>4, <1>9, <2>3 DEF ListsWhatWasStarted
  <2>5. Fresh' /\ Reading'
    BY <2>1 DEF Fresh, Reading
  <2>6. NoneLeftRunning'
    BY <1>9, <2>2 DEF NoneLeftRunning, Connected
  <2> QED
    BY <1>12, <1>t, <2>4, <2>5, <2>6 DEF JobsInv
<1> QED
  BY <1>13, <1>14

\* What the connection takes with it counts as lost, and PINGs are not counted
\* on from then on.
LEMMA LoseConnectionKept == JobsInv /\ LoseConnection => JobsInv'
<1> SUFFICES ASSUME JobsInv, LoseConnection PROVE JobsInv'
  OBVIOUS
<1>t. TypeInv' /\ MaidTypeOK /\ TypeInv /\ Topic \in Topics
  BY TypeStep, JobsAssumption DEF JobsInv, Next, Client, TypeInv, TypeOK
<1>1. /\ pc = "listening" /\ pc' \in {"listening", "done"}
      /\ UNCHANGED <<cmdq, tasks, sent, fun, resultExeSet, retReturns, stop, before>>
      /\ lost \subseteq lost' /\ {Topic} \X Queued(Topic) \subseteq lost'
  BY DEF LoseConnection, LoseQueues
<1>2. ~Connected'
  BY <1>t DEF LoseConnection, Fault, FaultKinds, MaidTypeOK, Connected
<1>3. pc' = "listening" =>
        inbox'[Topic] = <<[kind |-> "subscribe"]>> /\ Topic \in subscribed'
  BY <1>t DEF LoseConnection, Subscribe, MaidTypeOK
<1>4. HeldOK' /\ \A k \in before' : sent'[k] > 0
  BY <1>1, HoldsStays DEF JobsInv, HeldOK
<1>5. stop = "none"
  BY <1>1 DEF JobsInv, Reading
<1>6. ASSUME pc' = "listening" PROVE Reading'
  <2>1. PICK c, due, got, ended :
          /\ c = wrapMesage(fun) /\ due = Due /\ got = retReturns
          /\ ended = resultExeSet
    OBVIOUS
  <2>2. /\ ClosesOnce(c, ended) /\ Owes(c, due, got) /\ Paid(c, due, got, ended)
        /\ c.topic = Topic
    BY <1>1, <1>t, <2>1, MessageTypes DEF JobsInv, Reading, TypeInv
  <2>3. /\ Len(inbox[Topic]) \in Nat
        /\ DOMAIN inbox[Topic] = 1 .. Len(inbox[Topic])
    BY <1>t, QueueType
  <2>4. ClosesOnce(c, ended)' /\ Owes(c, due, got)'
    BY <1>1, <1>3, <1>6, <2>2, <2>3, QueueGone
  <2>5. Paid(c, due, got, ended)'
    BY <1>1, <2>2, PaidStays
  <2>6. Due' = due /\ c = wrapMesage(fun)'
    BY <1>1, <2>1 DEF Due
  <2> QED
    BY <1>1, <1>2, <1>3, <1>5, <1>6, <2>1, <2>4, <2>5, <2>6 DEF Reading
<1>7. Fresh' /\ Reading'
  BY <1>1, <1>6 DEF Fresh, Reading
<1> QED
  BY <1>1, <1>4, <1>5, <1>7, <1>t
  DEF JobsInv, NoneLeftRunning, ListsWhatWasStarted

\* Every step keeps the invariant.
LEMMA JobsStep == AllKnown /\ JobsInv /\ [Next]_vars => JobsInv'
<1> SUFFICES ASSUME AllKnown, JobsInv, [Next]_vars PROVE JobsInv'
  OBVIOUS
<1>1. CASE Expire \/ UNCHANGED vars
  <2>1. /\ UNCHANGED <<cmdq, tasks, subscribed, inbox, sent, lost, faults>>
        /\ UNCHANGED <<pc, fun, pingCount, resultPingSet, resultExeSet,
                       retReturns, stop, before>>
    BY <1>1 DEF Expire, vars, maidVars, clientVars
  <2>2. TypeInv'
    BY TypeStep DEF JobsInv
  <2>3. HeldOK'
    BY <2>1, HoldsStays DEF JobsInv, HeldOK
  <2>4. Fresh' /\ Reading'
    <3>1. Fresh'
      BY <2>1 DEF JobsInv, Fresh
    <3>2. Reading'
      <4>1. PICK c, due, got, ended, pinged :
              /\ c = wrapMesage(fun) /\ due = Due /\ got = retReturns
              /\ ended = resultExeSet /\ pinged = resultPingSet
        OBVIOUS
      <4>2. /\ ClosesOnce(c, ended) => ClosesOnce(c, ended)'
            /\ PingsAhead(c, pinged, ended) => PingsAhead(c, pinged, ended)'
            /\ Owes(c, due, got) => Owes(c, due, got)'
            /\ Paid(c, due, got, ended) => Paid(c, due, got, ended)'
        BY <2>1 DEF ClosesOnce, PingsAhead, Owes, Paid, Came, Holds, Awaits,
           Greenlets, EndOf, PingOf, Refuses
      <4>3. Due' = due /\ c = wrapMesage(fun)' /\ Connected' = Connected
        BY <2>1, <4>1 DEF Due, Connected
      <4> QED
        BY <2>1, <4>1, <4>2, <4>3 DEF JobsInv, Reading
    <3> QED
      BY <3>1, <3>2
  <2> QED
    BY <2>1, <2>2, <2>3, <2>4
    DEF JobsInv, NoneLeftRunning, ListsWhatWasStarted, missing
<1> QED
  BY <1>1, PostKept, SubscribeKept, PublishKept, ListenKept, MaidsKept,
     LoseConnectionKept
  DEF Next, Client, Terminated

\* Nothing is held, read or lost in the initial states.
LEMMA JobsInit == Init => JobsInv
<1> SUFFICES ASSUME Init PROVE JobsInv
  OBVIOUS
<1>1. HeldOK
  BY NothingHeld DEF Init, HeldOK
<1>2. \A k : <<Topic, k>> \notin lost
  BY DEF Init, MaidInit
<1>3. Fresh /\ Reading
  BY <1>2 DEF Init, Fresh, Reading
<1> QED
  BY <1>1, <1>3, TypeInit DEF Init, JobsInv, NoneLeftRunning, ListsWhatWasStarted

\* When a request for jobs ends, no maid that has answered its PING is still
\* at work on it, if the super master knows every maid and the client's
\* connection has not been lost.
THEOREM StopsWhenDone == AllKnown => (Spec => []NoneLeftRunning)
<1> SUFFICES ASSUME AllKnown PROVE Spec => []NoneLeftRunning
  OBVIOUS
<1>1. JobsInv => NoneLeftRunning
  BY DEF JobsInv
<1>2. AllKnown /\ JobsInv /\ [Next]_vars => JobsInv'
  BY JobsStep
<1> QED
  BY <1>1, <1>2, JobsInit, PTL DEF Spec

\* A list of all jobs that ends normally has every minion whose job a maid had
\* started when the list was asked for, however the asynchronous command and
\* the request overtake each other on the maids, but for those whose result
\* the client's connection took with it.
THEOREM ListIsWhole == AllKnown => (Spec => []ListsWhatWasStarted)
<1> SUFFICES ASSUME AllKnown PROVE Spec => []ListsWhatWasStarted
  OBVIOUS
<1>1. JobsInv => ListsWhatWasStarted
  BY DEF JobsInv
<1>2. AllKnown /\ JobsInv /\ [Next]_vars => JobsInv'
  BY JobsStep
<1> QED
  BY <1>1, <1>2, JobsInit, PTL DEF Spec
=============================================================================
