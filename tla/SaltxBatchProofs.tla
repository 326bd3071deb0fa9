-------------------------- MODULE SaltxBatchProofs --------------------------
(***************************************************************************)
(* Theorems about the batch mode of the command line, SaltxBatch, for      *)
(* every set of maids, minions and targets, every batch size, and whatever *)
(* faults.                                                                 *)
(***************************************************************************)
EXTENDS SaltxBatch, MaidProofs, FiniteSetTheorems

\* the command that asks every maid for its minions, and the one of a round
Ask == [topic |-> FaTopic, round |-> 1, type |-> FIND_ACCEPT,
        tgt |-> [kind |-> "all", ids |-> {}]]
Round(r, S) == [topic |-> Topic, round |-> r, type |-> SYNC_RUN,
                tgt |-> [kind |-> "list", ids |-> S]]

\* The commands that the client publishes are commands.
LEMMA AskType ==
    /\ Ask \in Command
    /\ Ask.topic = FaTopic /\ Ask.type = FIND_ACCEPT
    /\ FaTopic \in Topics /\ Topic \in Topics /\ Topic # FaTopic
    /\ \A m \in Maids : ~Refuses(m, Ask)
BY BatchAssumption
DEF Ask, Command, FunctionType, Target, Refuses, Targeted, SYNC_RUN, SALT_CP,
    ASYNC_RUN, FIND_ACCEPT

\* The command of a round is one, with its number and its targets.
LEMMA RoundType ==
    ASSUME NEW r \in Nat, NEW S \in SUBSET Minions
    PROVE  /\ Round(r, S) \in Command
           /\ Round(r, S).topic = Topic /\ Round(r, S).round = r
           /\ Round(r, S).type = SYNC_RUN
           /\ Round(r, S).tgt.kind = "list" /\ Round(r, S).tgt.ids = S
BY BatchAssumption
DEF Round, Command, FunctionType, Target, Targeted, SYNC_RUN

\* The queue that the client reads from, with and without its head.
LEMMA ReadsStep ==
    ASSUME MaidTypeOK, NEW t \in Topics, NEW kinds, Reads(t, kinds)
    PROVE  /\ Tail(inbox[t]) \in Seq(Message)
           /\ Len(inbox[t]) > 0 /\ Len(inbox[t]) \in Nat
           /\ callResult(t) = inbox[t][1]
           /\ callResult(t).kind \in kinds
           /\ callResult(t).kind \in {"ping", "work", "interrupt"} =>
                callResult(t).sub_ip \in Maids
           /\ callResult(t).kind = "data" => callResult(t).items \subseteq Minions
<1>1. inbox[t] # <<>> /\ inbox[t] \in Seq(Message)
  BY QueueType DEF Reads
<1>2. Tail(inbox[t]) \in Seq(Message) /\ Len(inbox[t]) \in Nat
  BY <1>1, HeadTailProperties
<1>3. callResult(t) = inbox[t][1]
  BY <1>1, HeadType DEF callResult
<1> QED
  BY <1>1, <1>2, <1>3, HeadType DEF Reads

\* The end of the body of batchRun keeps the types of what it changes.
LEMMA EndOfBodyType ==
    ASSUME MaidTypeOK, NEW kinds, Reads(Topic, kinds), EndOfBody
    PROVE  /\ inbox' \in [Topics -> Seq(Message)]
           /\ subscribed' \subseteq Topics
           /\ pc' \in {"fill", "listening", "done"}
           /\ UNCHANGED <<up, cmdq, tasks, sent, lost, faults, gatherVars,
                          batch_init, intry, round>>
<1>1. Tail(inbox[Topic]) \in Seq(Message) /\ <<>> \in Seq(Message)
  BY ReadsStep, AskType
<1>2. inbox' \in [Topics -> Seq(Message)] /\ subscribed' \subseteq Topics
  BY <1>1 DEF MaidTypeOK, EndOfBody
<1>3. pc' \in {"fill", "listening", "done"}
  BY DEF EndOfBody
<1> QED
  BY <1>2, <1>3 DEF EndOfBody

\* A round is published to the maids that are up.
LEMMA PublishRoundStep ==
    ASSUME TypeOK, NEW S \in SUBSET Minions, PublishRound(S)
    PROVE  /\ round + 1 \in Nat
           /\ PublishToSyndicSub(Round(round + 1, S))
           /\ cmdq' \in [Maids -> Seq(Command)]
           /\ round' = round + 1 /\ expired' = FALSE /\ pc' = "listening"
<1>1. PublishToSyndicSub(Round(round + 1, S))
  BY DEF PublishRound, Round
<1>2. Round(round + 1, S) \in Command
  BY RoundType DEF TypeOK
<1>3. cmdq' \in [Maids -> Seq(Command)]
  BY <1>1, <1>2, PublishToSyndicSubType DEF TypeOK, MaidTypeOK
<1> QED
  BY <1>1, <1>3 DEF TypeOK, PublishRound

\* A connection that is lost without a word leaves a topic with nothing but the
\* confirmation, and loses only what was queued there.
LEMMA ConnectionLost ==
    ASSUME TypeOK, NEW t \in {FaTopic, Topic}, LosesConnection(t)
    PROVE  /\ MaidTypeOK'
           /\ UNCHANGED <<up, cmdq, tasks, sent, clientVars>>
           /\ subscribed \subseteq subscribed'
           /\ inbox'[t] = <<[kind |-> "subscribe"]>>
           /\ \A u \in Topics \ {t} : inbox'[u] = inbox[u]
           /\ lost \subseteq lost' /\ {t} \X Queued(t) \subseteq lost'
           /\ faults'["redis"] = faults["redis"] + 1
<1>t. t \in Topics /\ MaidTypeOK
  BY AskType DEF TypeOK
<1>1. /\ inbox' \in [Topics -> Seq(Message)] /\ subscribed' \subseteq Topics
      /\ lost' \subseteq Topics \X Minions
      /\ faults' \in [FaultKinds -> Nat]
  BY <1>t, SubscribeType, LoseQueuesType, FaultType
  DEF LosesConnection, MaidTypeOK
<1>2. /\ subscribed \subseteq subscribed'
      /\ inbox'[t] = <<[kind |-> "subscribe"]>>
      /\ \A u \in Topics \ {t} : inbox'[u] = inbox[u]
  BY <1>t DEF LosesConnection, Subscribe, MaidTypeOK
<1>3. lost \subseteq lost' /\ {t} \X Queued(t) \subseteq lost'
  BY DEF LosesConnection, LoseQueues
<1>4. faults'["redis"] = faults["redis"] + 1
  BY <1>t DEF LosesConnection, Fault, MaidTypeOK, FaultKinds
<1> QED
  BY <1>t, <1>1, <1>2, <1>3, <1>4 DEF LosesConnection, MaidTypeOK

\* Every step of the client or of a maid keeps TypeOK.
LEMMA TypeStep == TypeOK /\ [Next]_vars => TypeOK'
<1> SUFFICES ASSUME TypeOK, [Next]_vars PROVE TypeOK'
  OBVIOUS
<1>t. MaidTypeOK
  BY DEF TypeOK
<1>s. Topic \in Topics /\ FaTopic \in Topics
      /\ \A t \in Topics : Subscribe(t) =>
            inbox' \in [Topics -> Seq(Message)] /\ subscribed' \subseteq Topics
  BY <1>t, AskType, SubscribeType DEF MaidTypeOK
<1>1. CASE TakeList
  <2>1. inbox' \in [Topics -> Seq(Message)] /\ subscribed' \subseteq Topics
    BY <1>1, <1>s DEF TakeList
  <2> QED
    BY <1>1, <2>1, BatchAssumption
    DEF TakeList, TypeOK, MaidTypeOK, gatherVars, countVars, reportVars
<1>2. CASE FindAccept
  <2>1. inbox' \in [Topics -> Seq(Message)] /\ subscribed' \subseteq Topics
    BY <1>2, <1>s DEF FindAccept
  <2>2. cmdq' \in [Maids -> Seq(Command)]
    BY <1>2, <1>t, AskType, PublishToSyndicSubType DEF FindAccept, Ask, MaidTypeOK
  <2> QED
    BY <1>2, <2>1, <2>2
    DEF FindAccept, TypeOK, MaidTypeOK, gatherVars, batchVars, countVars,
        reportVars
<1>3. CASE GatherGoesOn
  <2>1. /\ Tail(inbox[FaTopic]) \in Seq(Message)
        /\ callResult(FaTopic).kind = "data" =>
             callResult(FaTopic).items \subseteq Minions
    BY <1>3, <1>t, <1>s, ReadsStep DEF GatherGoesOn
  <2>2. inbox' \in [Topics -> Seq(Message)]
    BY <1>3, <1>t, <2>1 DEF GatherGoesOn, GatherNext, MaidTypeOK
  <2>3. ping1stCount' \in Nat /\ batch_init' \subseteq Minions
    BY <1>3, <2>1 DEF GatherGoesOn, TypeOK
  <2> QED
    BY <1>3, <2>2, <2>3
    DEF GatherGoesOn, TypeOK, MaidTypeOK, countVars, reportVars
<1>4. CASE GatherResult
  <2>1. Tail(inbox[FaTopic]) \in Seq(Message)
    BY <1>4, <1>t, <1>s, ReadsStep DEF GatherResult
  <2>2. <<>> \in Seq(Message) /\ <<[kind |-> "subscribe"]>> \in Seq(Message)
    BY DEF Message, Confirmation
  <2>3. inbox' \in [Topics -> Seq(Message)] /\ subscribed' \subseteq Topics
    BY <1>4, <1>t, <1>s, <2>1, <2>2 DEF GatherResult, GatherNext, MaidTypeOK
  <2>4. work1stcount' \in Nat /\ pc' \in {"gather", "fill"}
    BY <1>4 DEF GatherResult, TypeOK
  <2> QED
    BY <1>4, <2>3, <2>4
    DEF GatherResult, TypeOK, MaidTypeOK, batchVars, countVars, reportVars
<1>5. CASE FillBatch
  <2>1. PICK S \in SUBSET batch_init :
          /\ batch_running' = S
          /\ batch_init' = batch_init \ S
          /\ intry' = (Cardinality(S) = Hold)
          /\ PublishRound(S)
    BY <1>5 DEF FillBatch
  <2>2. S \in SUBSET Minions
    BY DEF TypeOK
  <2> QED
    BY <1>5, <2>1, <2>2, PublishRoundStep
    DEF FillBatch, TypeOK, MaidTypeOK, gatherVars, countVars, reportVars
<1>6. CASE FillNothing
  <2>1. <<>> \in Seq(Message)
    OBVIOUS
  <2> QED
    BY <1>6, <2>1
    DEF FillNothing, TypeOK, MaidTypeOK, gatherVars, batchVars, countVars,
        reportVars
<1>7. CASE Expire
  BY <1>7
  DEF Expire, TypeOK, MaidTypeOK, maidVars, gatherVars, batchVars, countVars,
      reportVars
<1>8. CASE OnSignal
  <2>1. resultPings' \in Nat
    BY <1>8 DEF OnSignal, TypeOK
  <2> QED
    BY <1>8, <1>t, <2>1, EndOfBodyType
    DEF OnSignal, TypeOK, MaidTypeOK, gatherVars, reportVars
<1>9. CASE OnResult
  <2>1. resultExes' \in Nat
    BY <1>9 DEF OnResult, TypeOK
  <2> QED
    BY <1>9, <1>t, <2>1, EndOfBodyType
    DEF OnResult, TypeOK, MaidTypeOK, gatherVars, reportVars
<1>10. CASE OnReturn
  <2>1. callResult(Topic).items \subseteq Minions
    BY <1>10, <1>t, <1>s, ReadsStep DEF OnReturn
  <2>2. /\ batch_running' \subseteq Minions /\ sucset' \subseteq Minions
        /\ notReturned' \subseteq Minions /\ repeatet' \subseteq sucset'
        /\ expired' \in BOOLEAN
    BY <1>10, <2>1 DEF OnReturn, TypeOK
  <2> QED
    BY <1>10, <1>t, <2>2, EndOfBodyType
    DEF OnReturn, TypeOK, MaidTypeOK, gatherVars, countVars
<1>11. CASE ListenRaises
  <2>1. /\ faults' \in [FaultKinds -> Nat]
        /\ lost' \subseteq Topics \X Minions
    BY <1>11, <1>s, <1>t, FaultType, LoseQueuesType DEF ListenRaises, MaidTypeOK
  <2>2. inbox' \in [Topics -> Seq(Message)] /\ subscribed' \subseteq Topics
    <3>1. <<>> \in Seq(Message)
      OBVIOUS
    <3> QED
      BY <1>11, <3>1 DEF ListenRaises, TypeOK, MaidTypeOK
  <2>3. CASE intry
    BY <1>11, <2>1, <2>2, <2>3, PublishRoundStep
    DEF ListenRaises, TypeOK, MaidTypeOK, gatherVars, countVars, reportVars
  <2>4. CASE ~intry
    BY <1>11, <2>1, <2>2, <2>4
    DEF ListenRaises, TypeOK, MaidTypeOK, gatherVars, countVars, reportVars
  <2> QED
    BY <2>3, <2>4
<1>12. CASE Reconnect
  <2>1. inbox' \in [Topics -> Seq(Message)] /\ subscribed' \subseteq Topics
    BY <1>12, <1>s DEF Reconnect
  <2> QED
    BY <1>12, <2>1
    DEF Reconnect, TypeOK, MaidTypeOK, clientVars, gatherVars, batchVars,
        countVars, reportVars
<1>13. CASE MaidNext /\ UNCHANGED clientVars
  BY <1>13, <1>t, MaidNextType
  DEF TypeOK, clientVars, gatherVars, batchVars, countVars, reportVars
<1>14. CASE UNCHANGED vars
  BY <1>14
  DEF vars, maidVars, TypeOK, MaidTypeOK, clientVars, gatherVars, batchVars,
      countVars, reportVars
<1>15. CASE LoseConnection
  BY <1>15, ConnectionLost
  DEF LoseConnection, TypeOK, clientVars, gatherVars, batchVars, countVars,
      reportVars
<1>16. CASE GatherRaises
  <2>1. /\ faults' \in [FaultKinds -> Nat]
        /\ lost' \subseteq Topics \X Minions
    BY <1>16, <1>s, <1>t, FaultType, LoseQueuesType DEF GatherRaises, MaidTypeOK
  <2>2. <<>> \in Seq(Message)
    OBVIOUS
  <2> QED
    BY <1>16, <2>1, <2>2
    DEF GatherRaises, TypeOK, MaidTypeOK, gatherVars, batchVars, countVars,
        reportVars
<1> QED
  BY <1>1, <1>2, <1>3, <1>4, <1>5, <1>6, <1>7, <1>8, <1>9, <1>10, <1>11, <1>12,
     <1>13, <1>14, <1>15, <1>16
  DEF Next, Client, Listen, Terminated

\* The initial states are well typed.
LEMMA TypeInit == Init => TypeOK
<1> SUFFICES ASSUME Init PROVE TypeOK
  OBVIOUS
<1>1. MaidTypeOK
  BY MaidInitType DEF Init
<1> QED
  BY <1>1 DEF Init, TypeOK

\* Types: maids, bus and client keep their types in every behaviour.
THEOREM TypeCorrect == Spec => []TypeOK
<1> QED
  BY TypeInit, TypeStep, PTL DEF Spec
-----------------------------------------------------------------------------
(* No target is lost.  The client gathers the targets of '*' from the      *)
(* maids; "ended" are the maids whose WORK or INTERRUPT to the FIND_ACCEPT *)
(* it has read, of which it keeps only the number.                         *)

Gathered(ended) ==
    /\ Cardinality(ended) = work1stcount
    /\ InOrder(Ask, Accepted, batch_init, ended)

\* the maids hold nothing but the FIND_ACCEPT, and that once
OnlyAsk ==
    /\ \A d \in Command : Single(d)
    /\ \A m \in Maids : \A d \in Command : Holds(m, d) => d = Ask

IInv ==
    /\ TypeOK
    /\ pc \in {"start", "gather"} =>
         OnlyAsk /\ batch_running = {}
    /\ pc = "start" => /\ \A m \in Maids : ~Holds(m, Ask)
                       /\ work1stcount = 0 /\ batch_init = {}
    /\ pc = "gather" => /\ TgtAll
                        /\ FaTopic \in subscribed
                        /\ \E ended \in SUBSET Maids : Gathered(ended)
    /\ pc = "fill" => batch_running = {}
    /\ NoTargetLost

\* At the beginning nobody holds the FIND_ACCEPT and nothing is gathered.
LEMMA InvariantInit == Init => IInv
<1> SUFFICES ASSUME Init PROVE IInv
  OBVIOUS
<1>1. OnlyAsk /\ \A m \in Maids : ~Holds(m, Ask)
  BY NothingHeld DEF Init, OnlyAsk
<1> QED
  BY <1>1, TypeInit DEF Init, IInv, NoTargetLost

\* NoTargetLost depends on the state of the client, and on what is lost.
LEMMA TargetsStay ==
    /\ UNCHANGED <<pc, batch_init, batch_running, sucset, notReturned>>
    /\ lost \subseteq lost'
    /\ NoTargetLost
    => NoTargetLost'
BY DEF NoTargetLost, Wanted, accounted, unheard

\* What a step of a maid keeps of the gathering.
LEMMA MaidKeeps == IInv /\ MaidNext /\ UNCHANGED clientVars => IInv'
<1> SUFFICES ASSUME IInv, MaidNext, UNCHANGED clientVars PROVE IInv'
  OBVIOUS
<1>t. MaidTypeOK /\ TypeOK'
  BY TypeStep DEF IInv, TypeOK, Next
<1>c. UNCHANGED <<pc, work1stcount, batch_init, batch_running, sucset, notReturned>>
  BY DEF clientVars, gatherVars, batchVars, reportVars
<1>n. NoTargetLost'
  BY <1>c, TargetsStay, MaidsLose DEF IInv
<1>1. UNCHANGED subscribed
  BY MaidsKeepSubscriptions
<1>2. ASSUME pc \in {"start", "gather"}
      PROVE  /\ Single(Ask) /\ Own(Ask)
             /\ OnlyAsk'
  <2>1. OnlyAsk
    BY <1>2 DEF IInv
  <2>2. OnlyAsk'
    BY <1>t, <2>1, SingleKept, HoldsShrinks DEF OnlyAsk
  <2> QED
    BY <2>1, <2>2, AskType DEF OnlyAsk, Own
<1>3. ASSUME pc = "start"
      PROVE  \A m \in Maids : ~Holds(m, Ask)'
  BY <1>2, <1>3, <1>t, QuietTopic, AskType DEF IInv
<1>5. ASSUME pc = "gather", NEW ended \in SUBSET Maids, Gathered(ended)
      PROVE  Gathered(ended)'
  <2>1. PICK got : got = batch_init
    OBVIOUS
  <2>2. \A m \in Maids : BeginsRun(m, Ask) =>
          \A k \in Accepted[m] : \E S \in Results(m, Ask) : k \in S
    BY ResultsCover, AskType
  <2>3. InOrder(Ask, Accepted, got, ended)
    BY <1>5, <2>1 DEF Gathered
  <2>4. InOrder(Ask, Accepted, got, ended)'
    BY <1>2, <1>5, <1>t, <2>2, <2>3, MaidsInOrder, AskType, MaidAssumption
  <2> QED
    BY <1>5, <1>c, <2>1, <2>4 DEF Gathered
<1> QED
  BY <1>t, <1>c, <1>n, <1>1, <1>2, <1>3, <1>5 DEF IInv

\* Every maid that is up gets the FIND_ACCEPT, and its topic is subscribed.
LEMMA FindAcceptKeeps == IInv /\ FindAccept => IInv'
<1> SUFFICES ASSUME IInv, FindAccept PROVE IInv'
  OBVIOUS
<1>t. MaidTypeOK /\ TypeOK' /\ TypeOK
  BY TypeStep DEF IInv, TypeOK, Next, Client
<1>1. /\ pc = "start" /\ pc' = "gather" /\ TgtAll
      /\ Subscribe(FaTopic)
      /\ PublishToSyndicSub(Ask)
      /\ UNCHANGED <<tasks, lost, work1stcount, batch_init, batch_running>>
  BY DEF FindAccept, Ask, gatherVars, batchVars
<1>2. /\ OnlyAsk /\ \A m \in Maids : ~Holds(m, Ask)
      /\ work1stcount = 0 /\ batch_init = {} /\ batch_running = {}
  BY <1>1 DEF IInv
<1>3. OnlyAsk'
  <2>1. \A d \in Command : Single(d)'
    BY <1>1, <1>2, <1>t, PublishSingle, AskType DEF OnlyAsk
  <2>2. \A m \in Maids : \A d \in Command : Holds(m, d)' => d = Ask
    BY <1>1, <1>2, <1>t, PublishHolds, AskType DEF OnlyAsk, Holds
  <2> QED
    BY <2>1, <2>2 DEF OnlyAsk
<1>4. inbox'[FaTopic] = <<[kind |-> "subscribe"]>> /\ FaTopic \in subscribed'
  BY <1>1, <1>t, AskType DEF Subscribe, MaidTypeOK
<1>5. Gathered({})'
  <2>1. \A m \in Maids : Greenlets(m, Ask)' = {}
    BY <1>1, <1>2 DEF Holds, Greenlets
  <2>2. \A i \in 1 .. Len(inbox'[FaTopic]) : inbox'[FaTopic][i].kind = "subscribe"
    BY <1>4
  <2>3. InOrder(Ask, Accepted, {}, {})'
    BY <2>1, <2>2, FreshInOrder, AskType
  <2> QED
    BY <1>1, <1>2, <2>3, FS_EmptySet DEF Gathered
<1> QED
  BY <1>1, <1>2, <1>3, <1>4, <1>5, <1>t DEF IInv, NoTargetLost

\* What the client has gathered when it reads one more message.
LEMMA GatherTurn ==
    ASSUME TypeOK, NEW msg, msg = inbox[FaTopic][1],
           inbox[FaTopic] # <<>>,
           inbox' = [inbox EXCEPT ![FaTopic] = Tail(@)],
           UNCHANGED <<cmdq, tasks, lost>>,
           batch_init \subseteq batch_init',
           msg.kind = "data" => msg.items \subseteq batch_init',
           work1stcount' = IF msg.kind \in {"work", "interrupt"}
                           THEN work1stcount + 1 ELSE work1stcount,
           NEW ended \in SUBSET Maids, Gathered(ended)
    PROVE  /\ EndsWith(ended, msg) \in SUBSET Maids
           /\ Gathered(EndsWith(ended, msg))'
<1>t. MaidTypeOK
  BY DEF TypeOK
<1>1. QueueMoves(FaTopic)
  <2>1. inbox'[FaTopic] = Tail(inbox[FaTopic])
    BY <1>t, AskType DEF MaidTypeOK
  <2> QED
    BY <1>t, <2>1, AskType, HeadTaken
<1>2. EndsWith(ended, msg) \in SUBSET Maids
  BY <1>t, AskType, HeadType DEF EndsWith
<1>3. PICK got, more : got = batch_init /\ more = batch_init'
  OBVIOUS
<1>4. InOrder(Ask, Accepted, got, ended)
  BY <1>3 DEF Gathered
<1>5. /\ InOrder(Ask, Accepted, more, EndsWith(ended, msg))'
      /\ msg.kind \in {"work", "interrupt"} => msg.sub_ip \notin ended
  <2>1. got \subseteq more /\ (msg.kind = "data" => msg.items \subseteq more)
    BY <1>3
  <2> QED
    BY <1>1, <1>4, <1>t, <2>1, TurnInOrder, AskType, MaidAssumption
<1>6. Cardinality(EndsWith(ended, msg)) = work1stcount'
  <2>1. IsFiniteSet(ended)
    BY MaidAssumption, FS_Subset
  <2> QED
    BY <1>5, <2>1, FS_AddElement DEF EndsWith, Gathered
<1> QED
  BY <1>2, <1>3, <1>5, <1>6 DEF Gathered

\* A message of the gathering after which it goes on: the end of one more maid,
\* or one that counts nothing.
LEMMA GatherGoesOnKeeps == IInv /\ GatherGoesOn => IInv'
<1> SUFFICES ASSUME IInv, GatherGoesOn PROVE IInv'
  OBVIOUS
<1>t. MaidTypeOK /\ TypeOK' /\ TypeOK
  BY TypeStep DEF IInv, TypeOK, Next, Client, Listen
<1>1. /\ pc = "gather" /\ pc' = "gather"
      /\ Reads(FaTopic, {"subscribe", "ping", "data"})
      /\ inbox' = [inbox EXCEPT ![FaTopic] = Tail(@)]
      /\ UNCHANGED <<cmdq, tasks, subscribed, lost, work1stcount, batch_running>>
  BY DEF GatherGoesOn, GatherNext
<1>2. PICK msg : msg = inbox[FaTopic][1]
  OBVIOUS
<1>3. callResult(FaTopic) = msg /\ inbox[FaTopic] # <<>>
  BY <1>1, <1>2, <1>t, ReadsStep, AskType DEF Reads
<1>4. msg.kind \notin {"work", "interrupt"}
  BY <1>1, <1>3 DEF Reads
<1>5. /\ batch_init \subseteq batch_init'
      /\ msg.kind = "data" => msg.items \subseteq batch_init'
  BY <1>3 DEF GatherGoesOn
<1>6. PICK ended \in SUBSET Maids : Gathered(ended)
  BY <1>1 DEF IInv
<1>7. EndsWith(ended, msg) \in SUBSET Maids /\ Gathered(EndsWith(ended, msg))'
  BY <1>1, <1>2, <1>3, <1>4, <1>5, <1>6, <1>t, GatherTurn
<1>8. OnlyAsk'
  BY <1>1, StillHeld DEF IInv, OnlyAsk
<1> QED
  BY <1>1, <1>7, <1>8, <1>t DEF IInv, NoTargetLost

\* When the last WORK is read, every maid's minions are in batch_init, but for
\* those whose names got lost.
LEMMA GatherResultKeeps ==
    (TgtAll => Maids \subseteq Keys) /\ IInv /\ GatherResult => IInv'
<1> SUFFICES ASSUME TgtAll => Maids \subseteq Keys, IInv, GatherResult PROVE IInv'
  OBVIOUS
<1>t. MaidTypeOK /\ TypeOK' /\ TypeOK
  BY TypeStep DEF IInv, TypeOK, Next, Client, Listen
<1>1. /\ pc = "gather" /\ TgtAll
      /\ Reads(FaTopic, {"work", "interrupt"})
      /\ work1stcount' = work1stcount + 1
      /\ UNCHANGED <<cmdq, tasks, lost, batch_init, batch_running>>
  BY DEF GatherResult, IInv, batchVars
<1>2. PICK msg : msg = inbox[FaTopic][1]
  OBVIOUS
<1>3. /\ Len(inbox[FaTopic]) > 0 /\ Len(inbox[FaTopic]) \in Nat
      /\ inbox[FaTopic] # <<>>
      /\ msg.kind \in {"work", "interrupt"} /\ msg.sub_ip \in Maids
  BY <1>1, <1>2, <1>t, ReadsStep, AskType DEF Reads
<1>4. PICK ended \in SUBSET Maids : Gathered(ended)
  BY <1>1 DEF IInv
<1>5. CASE ~(ping1stCount = work1stcount' /\ work1stcount' = Cardinality(Keys))
  <2>1. /\ pc' = "gather" /\ UNCHANGED subscribed
        /\ inbox' = [inbox EXCEPT ![FaTopic] = Tail(@)]
    BY <1>1, <1>5 DEF GatherResult, GatherNext
  <2>2. EndsWith(ended, msg) \in SUBSET Maids /\ Gathered(EndsWith(ended, msg))'
    BY <1>1, <1>2, <1>3, <1>4, <1>t, <2>1, GatherTurn
  <2>3. OnlyAsk'
    BY <1>1, StillHeld DEF IInv, OnlyAsk
  <2> QED
    BY <1>1, <1>t, <2>1, <2>2, <2>3 DEF IInv, NoTargetLost
<1>6. CASE ping1stCount = work1stcount' /\ work1stcount' = Cardinality(Keys)
  <2>1. pc' = "fill"
    BY <1>6 DEF GatherResult
  <2>2. Keys = Maids
    BY <1>1, BatchAssumption
  <2>3. EndsWith(ended, msg) = Maids
    <3>1. msg.sub_ip \notin ended
      BY <1>2, <1>3, <1>4, AskType DEF Gathered, InOrder, ClosesOnce, EndOf
    <3>2. IsFiniteSet(ended) /\ IsFiniteSet(Maids)
      BY MaidAssumption, FS_Subset
    <3>3. EndsWith(ended, msg) = ended \cup {msg.sub_ip}
      BY <1>3 DEF EndsWith
    <3>4. Cardinality(EndsWith(ended, msg)) = Cardinality(Maids)
      BY <1>1, <1>4, <1>6, <2>2, <3>1, <3>2, <3>3, FS_AddElement DEF Gathered
    <3> QED
      BY <1>3, <3>2, <3>3, <3>4, FS_Subset
  <2>4. \A m \in Maids : Accepted[m] \subseteq batch_init \cup unheard
    <3>1. PICK got : got = batch_init
      OBVIOUS
    <3>2. Owes(Ask, Accepted, got) /\ Paid(Ask, Accepted, got, ended)
      BY <1>1, <1>4, <3>1 DEF Gathered, InOrder
    <3>3. Paid(Ask, Accepted, got, Maids)
      BY <1>2, <1>3, <2>3, <3>2, HeadPays, AskType
    <3>4. \A m \in Maids : \A k \in Accepted[m] : Came(Ask, k, 0, got)
      BY <3>3, AskType DEF Paid
    <3>5. \A m \in Maids : \A k \in Accepted[m] :
            k \in got \/ <<FaTopic, k>> \in lost
      BY <3>4, AskType DEF Came
    <3>6. \A m \in Maids : Accepted[m] \subseteq Minions
      BY MaidAssumption
    <3> QED
      BY <3>1, <3>5, <3>6 DEF unheard
  <2>5. NoTargetLost'
    BY <1>1, <2>2, <2>4 DEF NoTargetLost, Wanted, unheard
  <2> QED
    BY <1>1, <1>t, <2>1, <2>5 DEF IInv
<1> QED
  BY <1>5, <1>6

\* A lost connection loses names, and each of them counts as unheard.
LEMMA LoseConnectionKeeps == IInv /\ (LoseConnection \/ GatherRaises) => IInv'
<1> SUFFICES ASSUME IInv, LoseConnection \/ GatherRaises PROVE IInv'
  OBVIOUS
<1>t. MaidTypeOK /\ TypeOK' /\ TypeOK
  BY TypeStep DEF IInv, TypeOK, Next, Client
<1>1. CASE GatherRaises
  BY <1>1, <1>t DEF GatherRaises, IInv, NoTargetLost
<1>2. CASE pc = "listening" /\ LosesConnection(Topic)
  <2>1. UNCHANGED clientVars /\ lost \subseteq lost'
    BY <1>2, <1>t, ConnectionLost
  <2>2. UNCHANGED <<pc, batch_init, batch_running, sucset, notReturned>>
    BY <2>1 DEF clientVars, batchVars, reportVars
  <2>3. NoTargetLost'
    BY <2>1, <2>2, TargetsStay DEF IInv
  <2> QED
    BY <1>2, <1>t, <2>2, <2>3 DEF IInv
<1>3. CASE pc = "gather" /\ LosesConnection(FaTopic)
  <2>1. /\ UNCHANGED <<cmdq, tasks, clientVars>> /\ lost \subseteq lost'
        /\ subscribed \subseteq subscribed'
        /\ inbox'[FaTopic] = <<[kind |-> "subscribe"]>>
        /\ {FaTopic} \X Queued(FaTopic) \subseteq lost'
    BY <1>3, <1>t, ConnectionLost
  <2>2. UNCHANGED <<pc, work1stcount, batch_init, batch_running>>
    BY <2>1 DEF clientVars, gatherVars, batchVars
  <2>3. PICK ended \in SUBSET Maids : Gathered(ended)
    BY <1>3 DEF IInv
  <2>4. PICK got : got = batch_init
    OBVIOUS
  <2>5. InOrder(Ask, Accepted, got, ended)
    BY <2>3, <2>4 DEF Gathered
  <2>6. /\ Len(inbox[FaTopic]) \in Nat
        /\ DOMAIN inbox[FaTopic] = 1 .. Len(inbox[FaTopic])
    BY <1>t, AskType, QueueType
  <2>7. ClosesOnce(Ask, ended)' /\ Owes(Ask, Accepted, got)'
    BY <2>1, <2>5, <2>6, QueueGone, AskType DEF InOrder
  <2>8. Paid(Ask, Accepted, got, ended)'
    BY <2>1, <2>5, PaidStays DEF InOrder
  <2>9. ReturnsAhead(Ask, ended)'
    <3>1. \A i \in 1 .. Len(inbox'[FaTopic]) : inbox'[FaTopic][i].kind # "data"
      BY <2>1
    <3> QED
      BY <3>1, AskType DEF ReturnsAhead
  <2>10. Gathered(ended)'
    BY <2>2, <2>3, <2>4, <2>7, <2>8, <2>9 DEF Gathered, InOrder
  <2>11. OnlyAsk'
    BY <1>3, <2>1, StillHeld DEF IInv, OnlyAsk
  <2> QED
    BY <1>3, <1>t, <2>1, <2>2, <2>10, <2>11 DEF IInv, NoTargetLost
<1> QED
  BY <1>1, <1>2, <1>3 DEF LoseConnection

\* A target leaves batch_init only for batch_running, and batch_running only
\* for the report.
LEMMA RoundsKeep ==
    ASSUME IInv,
           \/ TakeList \/ FillBatch \/ FillNothing \/ Expire \/ OnSignal
           \/ OnResult \/ OnReturn \/ ListenRaises \/ Reconnect
    PROVE  IInv'
<1>t. MaidTypeOK /\ TypeOK' /\ TypeOK
  BY TypeStep DEF IInv, TypeOK, Next, Client, Listen
<1>1. /\ pc' \in {"fill", "listening", "done", "raised"}
      /\ pc' = "fill" => batch_running' = {}
      /\ pc' \in {"fill", "listening", "done"} =>
           Wanted \subseteq
               batch_init' \cup batch_running' \cup accounted' \cup unheard
  <2>1. CASE TakeList
    BY <2>1 DEF TakeList, IInv, Wanted
  <2>2. CASE FillBatch
    BY <2>2
    DEF FillBatch, PublishRound, IInv, NoTargetLost, Wanted, accounted, reportVars
  <2>3. CASE FillNothing \/ Expire \/ Reconnect
    BY <2>3
    DEF FillNothing, Expire, Reconnect, IInv, NoTargetLost, Wanted, accounted,
        batchVars, reportVars, clientVars
  <2>4. CASE OnSignal \/ OnResult
    BY <2>4
    DEF OnSignal, OnResult, EndOfBody, IInv, NoTargetLost, Wanted, accounted,
        reportVars
  <2>5. CASE OnReturn
    BY <2>5
    DEF OnReturn, EndOfBody, IInv, NoTargetLost, Wanted, accounted
  <2>6. CASE ListenRaises
    BY <2>6
    DEF ListenRaises, PublishRound, IInv, NoTargetLost, Wanted, accounted,
        reportVars
  <2> QED
    BY <2>1, <2>2, <2>3, <2>4, <2>5, <2>6
<1>2. lost \subseteq lost'
  BY DEF TakeList, FillBatch, FillNothing, Expire, OnSignal, OnResult, OnReturn,
     EndOfBody, ListenRaises, LoseQueues, Reconnect, maidVars
<1>3. NoTargetLost'
  BY <1>1, <1>2 DEF NoTargetLost, Wanted, unheard
<1> QED
  BY <1>1, <1>3, <1>t DEF IInv

\* Every step keeps the invariant of the gathering.
LEMMA InvariantStep ==
    (TgtAll => Maids \subseteq Keys) /\ IInv /\ [Next]_vars => IInv'
<1> SUFFICES ASSUME TgtAll => Maids \subseteq Keys, IInv, [Next]_vars PROVE IInv'
  OBVIOUS
<1>1. CASE UNCHANGED vars
  <2>1. /\ UNCHANGED <<cmdq, tasks, inbox, lost, subscribed>>
        /\ UNCHANGED <<pc, work1stcount, batch_init, batch_running, sucset,
                       notReturned>>
    BY <1>1 DEF vars, maidVars, clientVars, gatherVars, batchVars, reportVars
  <2>2. TypeOK' /\ NoTargetLost'
    BY <2>1, TypeStep, TargetsStay DEF IInv
  <2>3. (OnlyAsk => OnlyAsk')
        /\ \A m \in Maids : Holds(m, Ask)' <=> Holds(m, Ask)
    BY <2>1, StillInOrder DEF OnlyAsk
  <2>4. ASSUME NEW ended, Gathered(ended) PROVE Gathered(ended)'
    <3>1. PICK got : got = batch_init
      OBVIOUS
    <3>2. InOrder(Ask, Accepted, got, ended)'
      BY <2>1, <2>4, <3>1, StillInOrder DEF Gathered
    <3> QED
      BY <2>1, <2>4, <3>1, <3>2 DEF Gathered
  <2> QED
    BY <2>1, <2>2, <2>3, <2>4 DEF IInv
<1> QED
  BY <1>1, MaidKeeps, FindAcceptKeeps, GatherGoesOnKeeps, GatherResultKeeps,
     LoseConnectionKeeps, RoundsKeep
  DEF Next, Client, Listen, Terminated

\* The invariant of the gathering holds in every state.
LEMMA Invariant == (TgtAll => Maids \subseteq Keys) => (Spec => []IInv)
<1> SUFFICES ASSUME TgtAll => Maids \subseteq Keys PROVE Spec => []IInv
  OBVIOUS
<1>1. IInv /\ [Next]_vars => IInv'
  BY InvariantStep
<1> QED
  BY <1>1, InvariantInit, PTL DEF Spec

\* No target disappears between the rounds, nor between the maids' answers
\* to the FIND_ACCEPT and the first round.
THEOREM TargetsKept ==
    (TgtAll => Maids \subseteq Keys) => (Spec => []NoTargetLost)
<1> SUFFICES ASSUME TgtAll => Maids \subseteq Keys PROVE Spec => []NoTargetLost
  OBVIOUS
<1>1. IInv => NoTargetLost
  BY DEF IInv
<1>2. Spec => []IInv
  BY Invariant
<1> QED
  BY <1>1, <1>2, PTL
-----------------------------------------------------------------------------
(* The batch mode implements the promise of FanOut.                        *)

\* The steps, seen by FanOut: what is lost and what is reported only grow.
LEMMA OnlyCollects ==
    ASSUME TypeOK, TypeOK', [Next]_vars
    PROVE  /\ Abstract!Lose
           /\ Abstract!Collect
           /\ pc \notin {"listening"} => UNCHANGED accounted
<1>1. lost \subseteq lost'
  BY MaidsLose
  DEF Next, Client, Listen, TakeList, FindAccept, GatherGoesOn, GatherResult,
      FillBatch, FillNothing, Expire, OnSignal, OnResult, OnReturn, EndOfBody,
      LoseConnection, LosesConnection, GatherRaises, ListenRaises, LoseQueues,
      Reconnect, Terminated, vars, maidVars
<1>2. missing' \in SUBSET Minions /\ missing' = missing \cup missing'
  BY <1>1 DEF missing, unheard
<1>3. accounted \subseteq accounted' /\ (pc # "listening" => UNCHANGED accounted)
  BY DEF Next, Client, Listen, TakeList, FindAccept, GatherGoesOn, GatherResult,
     FillBatch, FillNothing, Expire, OnSignal, OnResult, OnReturn,
     LoseConnection, LosesConnection, GatherRaises, ListenRaises, Reconnect,
     Terminated, vars, clientVars, reportVars, accounted
<1>4. accounted' \in SUBSET Minions /\ accounted' = accounted \cup accounted'
  BY <1>3 DEF accounted, TypeOK
<1> QED
  BY <1>2, <1>3, <1>4 DEF Abstract!Lose, Abstract!Collect

\* How the client goes from one phase to the next.
LEMMA Phases ==
    ASSUME [Next]_vars
    PROVE  \/ UNCHANGED <<pc, batch_init, batch_running>>
           \/ pc \in {"start", "gather"} /\ pc' \in {"gather", "fill"}
           \/ pc = "fill" /\ pc' = "done" /\ UNCHANGED <<batch_init, batch_running>>
           \/ /\ pc \in {"fill", "listening"}
              /\ pc' \in {"fill", "listening", "raised"}
           \/ pc = "listening" /\ pc' = "done" /\ batch_running' # {}
           \/ pc = "gather" /\ pc' = "raised"
<1>1. ASSUME EndOfBody, pc = "listening"
      PROVE  \/ pc' \in {"fill", "listening"}
             \/ pc' = "done" /\ batch_running' # {}
  BY <1>1 DEF EndOfBody
<1> QED
  BY <1>1
  DEF Next, Client, Listen, TakeList, FindAccept, GatherGoesOn, GatherResult,
      FillBatch, PublishRound, FillNothing, Expire, OnSignal, OnResult, OnReturn,
      LoseConnection, LosesConnection, GatherRaises, ListenRaises, Reconnect,
      Terminated, vars, clientVars, batchVars

\* The batch mode keeps the promise of FanOut: it asks once, gathers, and is
\* through with all targets only when each is in its report.
THEOREM BatchImplementsFanOut ==
    (TgtAll => Maids \subseteq Keys) => (Spec => ImplementsFanOut)
<1> SUFFICES ASSUME TgtAll => Maids \subseteq Keys PROVE Spec => ImplementsFanOut
  OBVIOUS
<1>1. Init => Abstract!Init
  BY DEF Init, MaidInit, Abstract!Init, accounted, missing, unheard, status
<1>2. IInv /\ IInv' /\ [Next]_vars => [Abstract!Next]_Abstract!vars
  <2> SUFFICES ASSUME IInv, IInv', [Next]_vars PROVE Abstract!Next
    OBVIOUS
  <2>1. /\ Abstract!Lose /\ Abstract!Collect
        /\ pc # "listening" => UNCHANGED accounted
    BY OnlyCollects DEF IInv
  <2>2. CASE UNCHANGED status /\ UNCHANGED accounted
    BY <2>1, <2>2 DEF Abstract!Next, Abstract!Stray
  <2>3. CASE UNCHANGED status /\ ~UNCHANGED accounted
    <3>1. status = "waiting"
      BY <2>1, <2>3 DEF status
    <3> QED
      BY <2>1, <2>3, <3>1 DEF Abstract!Next, Abstract!Gather
  <2>4. CASE status = "idle" /\ status' = "waiting"
    <3>1. pc # "listening"
      BY <2>4 DEF status
    <3> QED
      BY <2>1, <2>4, <3>1 DEF Abstract!Next, Abstract!Ask
  <2>5. CASE status = "waiting" /\ status' = "partial"
    BY <2>1, <2>5 DEF Abstract!Next, Abstract!GiveUp
  <2>6. CASE status = "waiting" /\ status' = "complete"
    <3>1. pc' = "done" /\ batch_init' \cup batch_running' = {}
      BY <2>6 DEF status
    <3>2. Wanted' \subseteq accounted' \cup missing'
      BY <3>1 DEF IInv, NoTargetLost, missing
    <3>3. Wanted \subseteq accounted' \cup missing'
      BY <3>2 DEF Wanted
    <3> QED
      BY <2>1, <2>6, <3>3 DEF Abstract!Next, Abstract!Complete
  <2>7. \/ UNCHANGED status
        \/ status = "idle" /\ status' = "waiting"
        \/ status = "waiting" /\ status' \in {"partial", "complete"}
    BY Phases DEF status
  <2> QED
    BY <2>2, <2>3, <2>4, <2>5, <2>6, <2>7
<1>3. Spec => []IInv
  BY Invariant
<1> QED
  BY <1>1, <1>2, <1>3, PTL DEF Spec, ImplementsFanOut, Abstract!Spec
-----------------------------------------------------------------------------
(* The commands of the rounds: the maids hold no two of one number.        *)

HeldOK ==
    /\ \A d \in Command : Single(d)
    /\ \A m \in Maids : \A d \in Command : Holds(m, d) =>
          \/ d = Ask
          \/ \E r \in 1 .. round : \E S \in SUBSET Minions : d = Round(r, S)
    /\ \A m, n \in Maids : \A d, e \in Command :
          /\ Holds(m, d) /\ d.topic = Topic
          /\ Holds(n, e) /\ e.topic = Topic
          /\ d.round = e.round
          => d = e
    /\ TodoOK

PhaseOK ==
    /\ pc = "start" => \A m \in Maids : \A d \in Command : ~Holds(m, d)
    /\ pc \in {"start", "gather"} => round = 0 /\ inbox[Topic] = <<>>
    /\ pc \in {"start", "gather", "fill"} => batch_running = {}
    /\ batch_init \cap batch_running = {}

RoundsInv == TypeOK /\ HeldOK /\ PhaseOK

\* At the beginning the maids hold no command.
LEMMA RoundsInit == Init => RoundsInv
<1> SUFFICES ASSUME Init PROVE RoundsInv
  OBVIOUS
<1>1. HeldOK
  BY NothingHeld, NoTodo DEF Init, HeldOK
<1>2. PhaseOK
  BY NothingHeld, AskType DEF Init, MaidInit, PhaseOK
<1> QED
  BY <1>1, <1>2, TypeInit DEF RoundsInv

\* A command of the rounds is one of a number that has been given out.
LEMMA HeldRound ==
    ASSUME TypeOK, HeldOK, NEW m \in Maids, NEW d \in Command, Holds(m, d),
           d.topic = Topic
    PROVE  /\ d.round \in 1 .. round
           /\ d.type = SYNC_RUN
           /\ d.tgt.kind = "list"
           /\ d = Round(d.round, d.tgt.ids)
<1>1. d # Ask
  BY AskType
<1>2. PICK r \in 1 .. round, S \in SUBSET Minions : d = Round(r, S)
  BY <1>1 DEF HeldOK
<1> QED
  BY <1>2, RoundType DEF TypeOK

\* A publish of a round brings a number that nobody holds.
LEMMA RoundsPublish ==
    ASSUME TypeOK, HeldOK, NEW S \in SUBSET Minions, PublishRound(S),
           UNCHANGED <<tasks, sent>>
    PROVE  HeldOK'
<1> DEFINE c == Round(round + 1, S)
<1>1. /\ c \in Command /\ c.topic = Topic /\ c.round = round + 1
      /\ PublishToSyndicSub(c) /\ round' = round + 1 /\ round \in Nat
      /\ MaidTypeOK
  <2>1. round + 1 \in Nat /\ round \in Nat /\ MaidTypeOK
    BY DEF TypeOK
  <2>2. c \in Command /\ c.topic = Topic /\ c.round = round + 1
    BY <2>1, RoundType
  <2>3. PublishToSyndicSub(c) /\ round' = round + 1
    BY PublishRoundStep
  <2> QED
    BY <2>1, <2>2, <2>3
<1> HIDE DEF c
<1>2. \A m \in Maids : ~Holds(m, c)
  BY <1>1, HeldRound
<1>3. \A d \in Command : Single(d)'
  BY <1>1, <1>2, PublishSingle DEF HeldOK
<1>4. ASSUME NEW m \in Maids, NEW d \in Command, Holds(m, d)'
      PROVE  Holds(m, d) \/ d = c
  BY <1>1, <1>4, PublishHolds DEF Holds
<1>5. ASSUME NEW m \in Maids, NEW d \in Command, Holds(m, d)'
      PROVE  \/ d = Ask
             \/ \E r \in 1 .. round + 1 : \E T \in SUBSET Minions : d = Round(r, T)
  <2>1. CASE Holds(m, d)
    <3>1. \A r \in 1 .. round : r \in 1 .. round + 1
      BY <1>1
    <3> QED
      BY <2>1, <3>1 DEF HeldOK
  <2>2. CASE d = c
    <3>1. round + 1 \in 1 .. round + 1
      BY <1>1
    <3> QED
      BY <2>2, <3>1 DEF c
  <2> QED
    BY <1>4, <1>5, <2>1, <2>2
<1>6. ASSUME NEW m \in Maids, NEW n \in Maids, NEW d \in Command,
             NEW e \in Command, Holds(m, d)', Holds(n, e)',
             d.topic = Topic, e.topic = Topic, d.round = e.round
      PROVE  d = e
  <2>1. ASSUME NEW x \in Maids, NEW f \in Command, Holds(x, f), f.topic = Topic
        PROVE  f.round # round + 1
    BY <1>1, <2>1, HeldRound
  <2>2. CASE d = c \/ e = c
    BY <1>1, <1>4, <1>6, <2>1, <2>2
  <2>3. CASE Holds(m, d) /\ Holds(n, e)
    BY <1>6, <2>3 DEF HeldOK
  <2> QED
    BY <1>4, <1>6, <2>2, <2>3
<1>7. TodoOK'
  BY StillTodo DEF HeldOK
<1> QED
  BY <1>1, <1>3, <1>5, <1>6, <1>7 DEF HeldOK

\* Every step keeps the commands of the rounds apart.
LEMMA RoundsStep == RoundsInv /\ [Next]_vars => RoundsInv'
<1> SUFFICES ASSUME RoundsInv, [Next]_vars PROVE RoundsInv'
  OBVIOUS
<1>t. TypeOK /\ TypeOK' /\ MaidTypeOK
  BY TypeStep DEF RoundsInv, TypeOK
<1>h. ASSUME UNCHANGED <<cmdq, tasks, sent, round>> PROVE HeldOK'
  BY <1>h, StillHeld, StillTodo DEF RoundsInv, HeldOK
<1>1. CASE MaidNext /\ UNCHANGED clientVars
  <2>1. UNCHANGED <<pc, round, batch_init, batch_running>>
    BY <1>1 DEF clientVars, batchVars
  <2>2. ASSUME NEW m \in Maids, NEW d \in Command, Holds(m, d)'
        PROVE  Holds(m, d)
    BY <1>1, <1>t, <2>2, HoldsShrinks DEF RoundsInv, HeldOK
  <2>3. HeldOK'
    BY <1>1, <1>t, <2>1, <2>2, SingleKept, TodoKept DEF RoundsInv, HeldOK
  <2>4. ASSUME pc \in {"start", "gather"} PROVE inbox'[Topic] = <<>>
    <3> DEFINE c == Round(1, {})
    <3>1. c \in Command /\ c.topic = Topic
      BY RoundType
    <3> HIDE DEF c
    <3>2. round = 0 /\ inbox[Topic] = <<>>
      BY <2>4 DEF RoundsInv, PhaseOK
    <3>3. \A m \in Maids : \A d \in Command : Holds(m, d) => d.topic # Topic
      BY <1>t, <3>2, HeldRound DEF RoundsInv
    <3>4. Single(c) /\ Own(c) /\ \A m \in Maids : ~Holds(m, c)
      BY <3>1, <3>3 DEF RoundsInv, HeldOK, Own
    <3>5. QueueSame(Topic)
      BY <1>1, <1>t, <3>1, <3>4, QuietTopic
    <3> QED
      BY <3>2, <3>5 DEF QueueSame
  <2>5. PhaseOK'
    BY <2>1, <2>2, <2>4 DEF RoundsInv, PhaseOK
  <2> QED
    BY <1>t, <2>3, <2>5 DEF RoundsInv
<1>2. CASE TakeList
  <2>1. HeldOK'
    BY <1>2, <1>h DEF TakeList
  <2>2. PhaseOK'
    BY <1>2 DEF TakeList, RoundsInv, PhaseOK
  <2> QED
    BY <1>t, <2>1, <2>2 DEF RoundsInv
<1>3. CASE FindAccept
  <2>1. /\ pc = "start" /\ pc' = "gather"
        /\ Subscribe(FaTopic) /\ PublishToSyndicSub(Ask)
        /\ UNCHANGED <<tasks, sent, batch_init, batch_running, round>>
    BY <1>3 DEF FindAccept, Ask, batchVars
  <2>2. \A m \in Maids : \A d \in Command : ~Holds(m, d)
    BY <2>1 DEF RoundsInv, PhaseOK
  <2>3. \A m \in Maids : \A d \in Command : Holds(m, d)' => d = Ask
    BY <1>t, <2>1, <2>2, PublishHolds, AskType DEF Holds
  <2>4. \A d \in Command : Single(d)'
    BY <1>t, <2>1, <2>2, PublishSingle, AskType DEF RoundsInv, HeldOK
  <2>5. HeldOK'
    BY <2>1, <2>3, <2>4, StillTodo, AskType DEF RoundsInv, HeldOK
  <2>6. inbox'[Topic] = inbox[Topic]
    BY <1>t, <2>1, AskType DEF Subscribe, MaidTypeOK
  <2>7. PhaseOK'
    BY <2>1, <2>6 DEF RoundsInv, PhaseOK
  <2> QED
    BY <1>t, <2>5, <2>7 DEF RoundsInv
<1>4. CASE GatherGoesOn \/ GatherResult
  <2>1. HeldOK'
    BY <1>4, <1>h DEF GatherGoesOn, GatherResult, batchVars
  <2>2. /\ pc = "gather" /\ pc' \in {"gather", "fill"}
        /\ UNCHANGED <<round, batch_running>>
    BY <1>4 DEF GatherGoesOn, GatherResult, batchVars
  <2>3. pc' = "gather" => inbox'[Topic] = inbox[Topic]
    <3>1. pc' = "gather" => GatherNext
      BY <1>4 DEF GatherGoesOn, GatherResult
    <3> QED
      BY <1>t, <3>1, AskType DEF GatherNext, MaidTypeOK
  <2>4. PhaseOK'
    BY <2>2, <2>3 DEF RoundsInv, PhaseOK
  <2> QED
    BY <1>t, <2>1, <2>4 DEF RoundsInv
<1>5. CASE FillBatch
  <2>1. PICK S \in SUBSET batch_init :
          /\ batch_running' = S /\ batch_init' = batch_init \ S
          /\ PublishRound(S)
    BY <1>5 DEF FillBatch
  <2>2. HeldOK'
    BY <1>5, <1>t, <2>1, RoundsPublish DEF FillBatch, RoundsInv, TypeOK
  <2>3. PhaseOK'
    BY <2>1 DEF PublishRound, PhaseOK
  <2> QED
    BY <1>t, <2>2, <2>3 DEF RoundsInv
<1>6. CASE FillNothing \/ Expire \/ Reconnect
  <2>1. HeldOK'
    BY <1>6, <1>h
    DEF FillNothing, Expire, Reconnect, maidVars, batchVars, clientVars
  <2>2. /\ pc \in {"fill", "listening"} /\ pc' \in {"listening", "done"}
        /\ UNCHANGED <<batch_init, batch_running>>
    BY <1>6 DEF FillNothing, Expire, Reconnect, batchVars, clientVars
  <2>3. PhaseOK'
    BY <2>2 DEF RoundsInv, PhaseOK
  <2> QED
    BY <1>t, <2>1, <2>3 DEF RoundsInv
<1>7. CASE OnSignal \/ OnResult \/ OnReturn
  <2>1. EndOfBody /\ batch_running' \subseteq batch_running
    BY <1>7 DEF OnSignal, OnResult, OnReturn
  <2>2. HeldOK'
    BY <1>h, <2>1 DEF EndOfBody
  <2>3. PhaseOK'
    BY <2>1 DEF EndOfBody, RoundsInv, PhaseOK
  <2> QED
    BY <1>t, <2>2, <2>3 DEF RoundsInv
<1>8. CASE ListenRaises
  <2>1. HeldOK'
    <3>1. CASE intry
      BY <1>8, <1>t, <3>1, RoundsPublish DEF ListenRaises, RoundsInv, TypeOK
    <3>2. CASE ~intry
      BY <1>8, <1>h, <3>2 DEF ListenRaises
    <3> QED
      BY <3>1, <3>2
  <2>2. PhaseOK'
    BY <1>8 DEF ListenRaises, PublishRound, RoundsInv, PhaseOK
  <2> QED
    BY <1>t, <2>1, <2>2 DEF RoundsInv
<1>9. CASE UNCHANGED vars
  <2>1. UNCHANGED <<cmdq, tasks, sent, round, inbox, pc, batch_init, batch_running>>
    BY <1>9 DEF vars, maidVars, clientVars, batchVars
  <2>2. PhaseOK'
    BY <2>1, StillHeld DEF RoundsInv, PhaseOK
  <2> QED
    BY <1>h, <1>t, <2>1, <2>2 DEF RoundsInv
<1>10. CASE LoseConnection
  <2>1. PICK t \in {FaTopic, Topic} :
          /\ LosesConnection(t)
          /\ pc = IF t = FaTopic THEN "gather" ELSE "listening"
    BY <1>10, AskType DEF LoseConnection
  <2>2. /\ UNCHANGED <<cmdq, tasks, sent, clientVars>>
        /\ t = FaTopic => inbox'[Topic] = inbox[Topic]
    BY <1>t, <2>1, ConnectionLost, AskType
  <2>3. UNCHANGED <<pc, round, batch_init, batch_running>>
    BY <2>2 DEF clientVars, batchVars
  <2>4. PhaseOK'
    BY <2>1, <2>2, <2>3 DEF RoundsInv, PhaseOK
  <2> QED
    BY <1>h, <1>t, <2>2, <2>3, <2>4 DEF RoundsInv
<1>11. CASE GatherRaises
  BY <1>11, <1>h, <1>t DEF GatherRaises, batchVars, RoundsInv, PhaseOK
<1> QED
  BY <1>1, <1>2, <1>3, <1>4, <1>5, <1>6, <1>7, <1>8, <1>9, <1>10, <1>11
  DEF Next, Client, Listen, Terminated

\* The invariant of the rounds' commands holds in every state.
LEMMA RoundsInvariant == Spec => []RoundsInv
BY RoundsInit, RoundsStep, PTL DEF Spec

\* each minion has one maid
OneMaidEach ==
    \A m, n \in Maids : Accepted[m] \cap Accepted[n] # {} => m = n
-----------------------------------------------------------------------------
(* A round is repeated only after its connection failed.  For each minion  *)
(* there is the set of rounds that it was asked in, and the set of those   *)
(* that a maid has sent it.                                                *)

Tally(k, asked, done) ==
    /\ asked \in SUBSET (1 .. round)
    /\ done \in SUBSET asked
    /\ sent[k] = Cardinality(done)
    /\ k \in batch_init => asked = {}
    /\ Cardinality(asked) <= 1 + faults["redis"]
    /\ \A m \in Maids : \A d \in Command :
          Unsent(m, d) /\ d.topic = Topic /\ k \in Matched(m, d.tgt) =>
            d.round \in asked \ done

TallyInv == \A k \in Minions : \E asked, done : Tally(k, asked, done)

\* At the beginning no minion has been asked or sent anything.
LEMMA TallyInit == Init => TallyInv
<1> SUFFICES ASSUME Init, NEW k \in Minions PROVE Tally(k, {}, {})
  BY DEF TallyInv
<1>1. \A m \in Maids : \A d : ~Unsent(m, d)
  BY NothingHeld, CarriesHolds DEF Init
<1>2. faults["redis"] = 0 /\ sent[k] = 0
  BY DEF Init, MaidInit, FaultKinds
<1> QED
  BY <1>1, <1>2, FS_EmptySet DEF Tally

\* The rounds in which a minion was asked and sent are finitely many, and none
\* is the next round.
LEMMA TallyFinite ==
    ASSUME TypeOK, NEW k, NEW asked, NEW done, Tally(k, asked, done)
    PROVE  /\ IsFiniteSet(asked) /\ IsFiniteSet(done)
           /\ Cardinality(asked) \in Nat /\ Cardinality(done) \in Nat
           /\ Cardinality(done) <= Cardinality(asked)
           /\ round \in Nat /\ round + 1 \notin asked
           /\ faults["redis"] \in Nat
<1>1. round \in Nat /\ faults["redis"] \in Nat
  BY DEF TypeOK, MaidTypeOK, FaultKinds
<1>2. IsFiniteSet(1 .. round)
  BY <1>1, FS_Interval
<1>3. asked \subseteq 1 .. round /\ done \subseteq asked
  BY DEF Tally
<1>4. IsFiniteSet(asked)
  BY <1>2, <1>3, FS_Subset
<1>5. IsFiniteSet(done) /\ Cardinality(done) <= Cardinality(asked)
  BY <1>3, <1>4, FS_Subset
<1>6. round + 1 \notin asked
  BY <1>1, <1>3
<1> QED
  BY <1>1, <1>4, <1>5, <1>6, FS_CardinalityType

\* A step that publishes no round and sends nothing leaves the tally alone.
LEMMA TallyStays ==
    ASSUME TypeOK, NEW k \in Minions, NEW asked, NEW done, Tally(k, asked, done),
           UNCHANGED round, sent'[k] = sent[k],
           faults'["redis"] \in Nat, faults'["redis"] >= faults["redis"],
           k \in batch_init' => asked = {},
           \A m \in Maids : \A d \in Command : Unsent(m, d)' => Unsent(m, d)
    PROVE  Tally(k, asked, done)'
<1>1. faults["redis"] \in Nat /\ Cardinality(asked) \in Nat
  BY TallyFinite
<1>2. Cardinality(asked) <= 1 + faults'["redis"]
  BY <1>1 DEF Tally
<1> QED
  BY <1>2 DEF Tally, Matched

\* A round that is published to the minions in S counts for each of them.
LEMMA TallyPublish ==
    ASSUME TypeOK, HeldOK, NEW S \in SUBSET Minions, PublishRound(S),
           UNCHANGED <<tasks, sent>>, NEW k \in Minions,
           NEW asked, NEW done, Tally(k, asked, done),
           faults'["redis"] \in Nat, faults'["redis"] >= faults["redis"],
           k \in S => Cardinality(asked) < 1 + faults'["redis"],
           k \in batch_init' => asked = {} /\ k \notin S
    PROVE  \E new : Tally(k, new, done)'
<1> DEFINE c == Round(round + 1, S)
<1>1. /\ c \in Command /\ c.topic = Topic /\ c.round = round + 1
      /\ c.tgt.kind = "list" /\ c.tgt.ids = S
      /\ PublishToSyndicSub(c) /\ round' = round + 1 /\ round \in Nat
      /\ MaidTypeOK
  <2>1. round \in Nat /\ round + 1 \in Nat /\ MaidTypeOK
    BY DEF TypeOK
  <2>2. PublishToSyndicSub(c) /\ round' = round + 1
    BY PublishRoundStep
  <2> QED
    BY <2>1, <2>2, RoundType
<1> HIDE DEF c
<1>2. PICK new : new = IF k \in S THEN asked \cup {round + 1} ELSE asked
  OBVIOUS
<1>3. IsFiniteSet(asked) /\ Cardinality(asked) \in Nat /\ round + 1 \notin asked
  BY TallyFinite
<1>4. new \in SUBSET (1 .. round + 1) /\ asked \subseteq new
  <2>1. \A r \in 1 .. round : r \in 1 .. round + 1
    BY <1>1
  <2>2. round + 1 \in 1 .. round + 1
    BY <1>1
  <2> QED
    BY <1>2, <2>1, <2>2 DEF Tally
<1>5. Cardinality(new) <= 1 + faults'["redis"]
  <2>0. faults["redis"] \in Nat
    BY DEF TypeOK, MaidTypeOK, FaultKinds
  <2>1. CASE k \in S
    <3>1. Cardinality(new) = Cardinality(asked) + 1
      BY <1>2, <1>3, <2>1, FS_AddElement
    <3> QED
      BY <1>3, <2>1, <3>1
  <2>2. CASE k \notin S
    BY <1>2, <1>3, <2>0, <2>2 DEF Tally
  <2> QED
    BY <2>1, <2>2
<1>6. ASSUME NEW m \in Maids, NEW d \in Command, Unsent(m, d)', d.topic = Topic,
             k \in Matched(m, d.tgt)
      PROVE  d.round \in new \ done
  <2>1. CASE Unsent(m, d)
    <3>1. d.round \in asked \ done
      BY <1>6, <2>1 DEF Tally
    <3> QED
      BY <1>4, <3>1
  <2>2. CASE d = c
    <3>1. k \in S
      BY <1>1, <1>6, <2>2 DEF Matched
    <3>2. round + 1 \in new /\ round + 1 \notin done
      BY <1>2, <1>3, <3>1 DEF Tally
    <3> QED
      BY <1>1, <2>2, <3>2
  <2> QED
    BY <1>1, <1>6, <2>1, <2>2, PublishCarries
<1>7. done \in SUBSET new /\ sent'[k] = Cardinality(done)
  BY <1>4 DEF Tally
<1>8. k \in batch_init' => new = {}
  BY <1>2
<1> QED
  BY <1>1, <1>4, <1>5, <1>6, <1>7, <1>8 DEF Tally, Matched

\* A maid that sends a round to a minion moves it from those still to send.
LEMMA TallyMaids ==
    ASSUME OneMaidEach, TypeOK, HeldOK, MaidNext, UNCHANGED clientVars,
           NEW k \in Minions, NEW asked, NEW done, Tally(k, asked, done)
    PROVE  \E now : Tally(k, asked, now)'
<1>t. MaidTypeOK /\ \A d \in Command : Single(d)
  BY DEF TypeOK, HeldOK
<1>c. UNCHANGED <<round, batch_init>>
  BY DEF clientVars, batchVars
<1>f. faults'["redis"] = faults["redis"] /\ faults["redis"] \in Nat
  BY <1>t, MaidsKeepRedis DEF MaidTypeOK, FaultKinds
<1>u. \A m \in Maids : \A d \in Command : Unsent(m, d)' => Unsent(m, d)
  BY <1>t, CarriesShrinks
<1>1. CASE sent'[k] = sent[k]
  <2>1. Tally(k, asked, done)'
    BY <1>1, <1>c, <1>f, <1>u, TallyStays DEF Tally
  <2> QED
    BY <2>1
<1>2. CASE /\ sent'[k] = sent[k] + 1
           /\ \E m \in Maids : \E c \in Command :
                /\ c.type \in Targeted /\ k \in Matched(m, c.tgt)
                /\ Unsent(m, c) /\ ~Unsent(m, c)'
  <2>1. PICK m \in Maids, c \in Command :
          /\ c.type \in Targeted /\ k \in Matched(m, c.tgt)
          /\ Unsent(m, c) /\ ~Unsent(m, c)'
    BY <1>2
  <2>2. Holds(m, c) /\ c.topic = Topic
    <3>1. Holds(m, c)
      BY <2>1, CarriesHolds
    <3>2. c # Ask
      BY <2>1 DEF Ask, Targeted, SYNC_RUN, SALT_CP, ASYNC_RUN, FIND_ACCEPT
    <3> QED
      BY <3>1, <3>2, RoundType DEF HeldOK, TypeOK
  <2>3. PICK now : now = done \cup {c.round}
    OBVIOUS
  <2>4. c.round \in asked \ done
    BY <2>1, <2>2 DEF Tally
  <2>5. IsFiniteSet(done)
    <3>1. IsFiniteSet(1 .. round)
      BY FS_Interval DEF TypeOK
    <3> QED
      BY <3>1, FS_Subset DEF Tally
  <2>6. sent'[k] = Cardinality(now)
    BY <1>2, <2>3, <2>4, <2>5, FS_AddElement DEF Tally
  <2>7. ASSUME NEW n \in Maids, NEW e \in Command, Unsent(n, e)',
               e.topic = Topic, k \in Matched(n, e.tgt)
        PROVE  e.round \in asked \ now
    <3>1. Unsent(n, e) /\ e.round \in asked \ done
      BY <1>u, <2>7 DEF Tally
    <3>2. ASSUME e.round = c.round PROVE FALSE
      <4>1. Holds(n, e)
        BY <3>1, CarriesHolds
      <4>2. e = c
        BY <2>2, <2>7, <3>2, <4>1 DEF HeldOK
      <4>3. n = m
        BY <2>1, <2>7 DEF OneMaidEach, Matched
      <4> QED
        BY <2>1, <2>7, <4>2, <4>3
    <3> QED
      BY <2>3, <3>1, <3>2
  <2>8. Tally(k, asked, now)'
    BY <1>c, <1>f, <2>3, <2>4, <2>6, <2>7 DEF Tally, Matched
  <2> QED
    BY <2>8
<1> QED
  BY <1>1, <1>2, <1>t, SentSteps

\* Every step keeps a tally for every minion.
LEMMA TallyStep ==
    OneMaidEach /\ RoundsInv /\ TallyInv /\ [Next]_vars => TallyInv'
<1> SUFFICES ASSUME OneMaidEach, RoundsInv, TallyInv, [Next]_vars,
                    NEW k \in Minions
             PROVE  \E asked, done : Tally(k, asked, done)'
  BY DEF TallyInv
<1>t. TypeOK /\ TypeOK' /\ HeldOK
  BY TypeStep DEF RoundsInv
<1>f. faults["redis"] \in Nat /\ faults'["redis"] \in Nat
  BY <1>t DEF TypeOK, MaidTypeOK, FaultKinds
<1>1. PICK asked, done : Tally(k, asked, done)
  BY DEF TallyInv
<1>2. CASE MaidNext /\ UNCHANGED clientVars
  BY <1>1, <1>2, <1>t, TallyMaids
<1>3. ASSUME UNCHANGED <<cmdq, tasks, sent, faults, round>>,
             batch_init' \subseteq batch_init \/ pc \in {"start", "gather"}
      PROVE  Tally(k, asked, done)'
  <2>1. k \in batch_init' => asked = {}
    <3>1. CASE batch_init' \subseteq batch_init
      BY <1>1, <3>1 DEF Tally
    <3>2. CASE pc \in {"start", "gather"}
      <4>1. 1 .. round = {}
        BY <3>2 DEF RoundsInv, PhaseOK
      <4> QED
        BY <1>1, <4>1 DEF Tally
    <3> QED
      BY <1>3, <3>1, <3>2
  <2>2. \A m \in Maids : \A d \in Command : Unsent(m, d)' => Unsent(m, d)
    BY <1>3, StillCarried
  <2> QED
    BY <1>1, <1>3, <1>f, <1>t, <2>1, <2>2, TallyStays
<1>4. CASE FindAccept
  <2>1. /\ pc = "start" /\ PublishToSyndicSub(Ask)
        /\ UNCHANGED <<tasks, sent, faults, batch_init, round>>
    BY <1>4 DEF FindAccept, Ask, batchVars
  <2>2. ASSUME NEW m \in Maids, NEW d \in Command, Unsent(m, d)', d.topic = Topic
        PROVE  Unsent(m, d)
    BY <1>t, <2>1, <2>2, PublishCarries, AskType DEF TypeOK
  <2>3. Tally(k, asked, done)'
    BY <1>1, <2>1, <2>2 DEF Tally, Matched
  <2> QED
    BY <2>3
<1>5. CASE FillBatch
  <2>1. PICK S \in SUBSET batch_init :
          /\ batch_init' = batch_init \ S
          /\ PublishRound(S)
    BY <1>5 DEF FillBatch
  <2>2. UNCHANGED <<tasks, sent, faults>> /\ S \in SUBSET Minions
    BY <1>5, <1>t DEF FillBatch, TypeOK
  <2>3. k \in S => Cardinality(asked) < 1 + faults'["redis"]
    <3>1. Cardinality({}) = 0
      BY FS_EmptySet
    <3>2. k \in S => asked = {}
      BY <1>1 DEF Tally
    <3> QED
      BY <1>f, <3>1, <3>2
  <2>4. k \in batch_init' => asked = {} /\ k \notin S
    BY <1>1, <2>1 DEF Tally
  <2>5. \E new : Tally(k, new, done)'
    BY <1>1, <1>f, <1>t, <2>1, <2>2, <2>3, <2>4, TallyPublish
  <2> QED
    BY <2>5
<1>6. CASE ListenRaises
  <2>1. faults'["redis"] = faults["redis"] + 1
    BY <1>6, <1>t DEF ListenRaises, Fault, TypeOK, MaidTypeOK, FaultKinds
  <2>2. UNCHANGED <<tasks, sent, batch_init>>
    BY <1>6 DEF ListenRaises
  <2>3. CASE intry
    <3>1. PublishRound(batch_running) /\ batch_running \in SUBSET Minions
      BY <1>6, <1>t, <2>3 DEF ListenRaises, TypeOK
    <3>2. k \in batch_init => asked = {} /\ k \notin batch_running
      BY <1>1 DEF Tally, RoundsInv, PhaseOK
    <3>3. Cardinality(asked) < 1 + faults'["redis"]
      <4>1. Cardinality(asked) \in Nat
        BY <1>1, <1>t, TallyFinite
      <4> QED
        BY <1>1, <1>f, <2>1, <4>1 DEF Tally
    <3>4. \E new : Tally(k, new, done)'
      BY <1>1, <1>f, <1>t, <2>1, <2>2, <3>1, <3>2, <3>3, TallyPublish
    <3> QED
      BY <3>4
  <2>4. CASE ~intry
    <3>1. UNCHANGED <<cmdq, round>>
      BY <1>6, <2>4 DEF ListenRaises
    <3>2. \A m \in Maids : \A d \in Command : Unsent(m, d)' => Unsent(m, d)
      BY <2>2, <3>1, StillCarried
    <3>3. k \in batch_init' => asked = {}
      BY <1>1, <2>2 DEF Tally
    <3>4. Tally(k, asked, done)'
      BY <1>1, <1>f, <1>t, <2>1, <2>2, <3>1, <3>2, <3>3, TallyStays
    <3> QED
      BY <3>4
  <2> QED
    BY <2>3, <2>4
<1>7. CASE TakeList \/ GatherGoesOn \/ GatherResult
  BY <1>3, <1>7 DEF TakeList, GatherGoesOn, GatherResult, batchVars
<1>8. CASE FillNothing \/ Expire \/ Reconnect
  BY <1>3, <1>8
  DEF FillNothing, Expire, Reconnect, batchVars, maidVars, clientVars
<1>9. CASE OnSignal \/ OnResult \/ OnReturn
  <2>1. EndOfBody
    BY <1>9 DEF OnSignal, OnResult, OnReturn
  <2> QED
    BY <1>3, <2>1 DEF EndOfBody
<1>10. CASE UNCHANGED vars
  BY <1>3, <1>10 DEF vars, maidVars, clientVars, batchVars
<1>11. CASE LoseConnection \/ GatherRaises
  <2>1. UNCHANGED <<cmdq, tasks, sent, round, batch_init>>
    BY <1>11
    DEF LoseConnection, LosesConnection, GatherRaises, clientVars, batchVars
  <2>2. faults'["redis"] >= faults["redis"]
    BY <1>11, <1>f, <1>t
    DEF LoseConnection, LosesConnection, GatherRaises, Fault, TypeOK, MaidTypeOK,
        FaultKinds
  <2>3. \A m \in Maids : \A d \in Command : Unsent(m, d)' => Unsent(m, d)
    BY <2>1, StillCarried
  <2>4. k \in batch_init' => asked = {}
    BY <1>1, <2>1 DEF Tally
  <2>5. Tally(k, asked, done)'
    BY <1>1, <1>f, <1>t, <2>1, <2>2, <2>3, <2>4, TallyStays
  <2> QED
    BY <2>5
<1> QED
  BY <1>2, <1>4, <1>5, <1>6, <1>7, <1>8, <1>9, <1>10, <1>11
  DEF Next, Client, Listen, Terminated

\* Every failure of the connection explains at most one more command to a
\* minion: a round is not repeated for any other reason.
THEOREM ResentForFailures == OneMaidEach => (Spec => []ResentOnlyAfterFailure)
<1> SUFFICES ASSUME OneMaidEach PROVE Spec => []ResentOnlyAfterFailure
  OBVIOUS
<1>1. RoundsInv /\ TallyInv => ResentOnlyAfterFailure
  <2> SUFFICES ASSUME RoundsInv, NEW k \in Minions, NEW asked, NEW done,
                      Tally(k, asked, done)
               PROVE  sent[k] <= 1 + faults["redis"]
    BY DEF TallyInv, ResentOnlyAfterFailure
  <2>1. /\ Cardinality(done) <= Cardinality(asked)
        /\ Cardinality(done) \in Nat /\ Cardinality(asked) \in Nat
        /\ faults["redis"] \in Nat
    BY TallyFinite DEF RoundsInv
  <2> QED
    BY <2>1 DEF Tally
<1>2. RoundsInv /\ TallyInv /\ [Next]_vars => TallyInv'
  BY TallyStep
<1>3. Spec => []TallyInv
  BY <1>2, TallyInit, RoundsInvariant, PTL DEF Spec
<1> QED
  BY <1>1, <1>3, RoundsInvariant, PTL
-----------------------------------------------------------------------------
(* The size of the batch, and who gets the command: what a maid is asked   *)
(* to send, has sent, or reports, is of this round or has been reported.   *)

\* the minions that the command has been sent to
Reached == {k \in Minions : sent[k] > 0}

BoundInv ==
    /\ Cardinality(batch_running) <= Hold
    /\ Reached \subseteq batch_running \cup accounted
    /\ \A m \in Maids : \A d \in Command : Unsent(m, d) /\ d.topic = Topic =>
          Matched(m, d.tgt) \subseteq batch_running \cup accounted

\* At the beginning nobody has been sent anything.
LEMMA BoundInit == Init => BoundInv
<1> SUFFICES ASSUME Init PROVE BoundInv
  OBVIOUS
<1>1. \A m \in Maids : \A d : ~Unsent(m, d)
  BY NothingHeld, CarriesHolds DEF Init
<1>2. Cardinality(batch_running) <= Hold
  BY FS_EmptySet, BatchAssumption DEF Init
<1>3. Reached = {}
  BY DEF Init, MaidInit, Reached
<1> QED
  BY <1>1, <1>2, <1>3 DEF BoundInv

\* A step that publishes no round and sends nothing leaves the bound, if a
\* minion leaves the round only for the report.
LEMMA BoundStays ==
    ASSUME TypeOK, BoundInv, UNCHANGED sent,
           batch_running' \subseteq batch_running,
           batch_running \cup accounted \subseteq batch_running' \cup accounted',
           \A m \in Maids : \A d \in Command :
              Unsent(m, d)' /\ d.topic = Topic => Unsent(m, d)
    PROVE  BoundInv'
<1>1. IsFiniteSet(batch_running)
  BY MaidAssumption, FS_Subset DEF TypeOK
<1>2. /\ Cardinality(batch_running') <= Cardinality(batch_running)
      /\ Cardinality(batch_running') \in Nat /\ Cardinality(batch_running) \in Nat
  BY <1>1, FS_Subset, FS_CardinalityType
<1>3. Cardinality(batch_running') <= Hold
  BY <1>2, BatchAssumption DEF BoundInv
<1> QED
  BY <1>3 DEF BoundInv, Reached, Matched

\* A round that is published is for the minions in batch_running.
LEMMA BoundPublish ==
    ASSUME TypeOK, BoundInv, NEW S \in SUBSET Minions, PublishRound(S),
           UNCHANGED <<tasks, sent>>, batch_running' = S, Cardinality(S) <= Hold,
           batch_running \cup accounted \subseteq S \cup accounted'
    PROVE  BoundInv'
<1> DEFINE c == Round(round + 1, S)
<1>1. /\ c \in Command /\ c.tgt.kind = "list" /\ c.tgt.ids = S
      /\ PublishToSyndicSub(c) /\ MaidTypeOK
  <2>1. round \in Nat /\ round + 1 \in Nat /\ MaidTypeOK
    BY DEF TypeOK
  <2> QED
    BY <2>1, RoundType, PublishRoundStep
<1> HIDE DEF c
<1>2. ASSUME NEW m \in Maids, NEW d \in Command, Unsent(m, d)', d.topic = Topic
      PROVE  Matched(m, d.tgt) \subseteq S \cup accounted'
  <2>1. CASE Unsent(m, d)
    BY <1>2, <2>1 DEF BoundInv
  <2>2. CASE d = c
    BY <1>1, <2>2 DEF Matched
  <2> QED
    BY <1>1, <1>2, <2>1, <2>2, PublishCarries
<1> QED
  BY <1>2 DEF BoundInv, Reached, Matched

\* Every step keeps the bound.
LEMMA BoundStep == RoundsInv /\ BoundInv /\ [Next]_vars => BoundInv'
<1> SUFFICES ASSUME RoundsInv, BoundInv, [Next]_vars PROVE BoundInv'
  OBVIOUS
<1>t. TypeOK /\ TypeOK' /\ HeldOK /\ MaidTypeOK
  BY TypeStep DEF RoundsInv, TypeOK
<1>1. CASE MaidNext /\ UNCHANGED clientVars
  <2>1. UNCHANGED <<batch_running, accounted>>
    BY <1>1 DEF clientVars, batchVars, reportVars, accounted
  <2>2. \A d \in Command : Single(d)
    BY <1>t DEF HeldOK
  <2>3. \A m \in Maids : \A d \in Command : Unsent(m, d)' => Unsent(m, d)
    BY <1>1, <1>t, <2>2, CarriesShrinks
  <2>4. ASSUME NEW k \in Minions, sent'[k] > 0
        PROVE  k \in batch_running \cup accounted
    <3>1. CASE sent'[k] = sent[k]
      BY <2>4, <3>1 DEF BoundInv, Reached
    <3>2. CASE \E m \in Maids : \E c \in Command :
                  /\ c.type \in Targeted /\ k \in Matched(m, c.tgt)
                  /\ Unsent(m, c) /\ ~Unsent(m, c)'
      <4>1. PICK m \in Maids, c \in Command :
              /\ c.type \in Targeted /\ k \in Matched(m, c.tgt)
              /\ Unsent(m, c)
        BY <3>2
      <4>2. Holds(m, c) /\ c # Ask
        BY <4>1, CarriesHolds
        DEF Ask, Targeted, SYNC_RUN, SALT_CP, ASYNC_RUN, FIND_ACCEPT
      <4>3. c.topic = Topic
        BY <1>t, <4>2, RoundType DEF HeldOK, TypeOK
      <4> QED
        BY <4>1, <4>3 DEF BoundInv
    <3> QED
      BY <1>1, <1>t, <2>2, <3>1, <3>2, SentSteps
  <2> QED
    BY <2>1, <2>3, <2>4 DEF BoundInv, Reached, Matched
<1>2. ASSUME UNCHANGED <<cmdq, tasks, sent, batch_running, accounted>>
      PROVE  BoundInv'
  BY <1>2, <1>t, BoundStays, StillCarried
<1>3. CASE \/ TakeList \/ GatherGoesOn \/ GatherResult \/ FillNothing \/ Expire
           \/ Reconnect \/ LoseConnection \/ GatherRaises \/ UNCHANGED vars
  BY <1>2, <1>3
  DEF TakeList, GatherGoesOn, GatherResult, FillNothing, Expire, Reconnect,
      LoseConnection, LosesConnection, GatherRaises, vars, maidVars, clientVars,
      batchVars, reportVars, accounted
<1>4. CASE FindAccept
  <2>1. /\ PublishToSyndicSub(Ask)
        /\ UNCHANGED <<tasks, sent, batch_running, accounted>>
    BY <1>4 DEF FindAccept, Ask, batchVars, reportVars, accounted
  <2>2. ASSUME NEW m \in Maids, NEW d \in Command, Unsent(m, d)', d.topic = Topic
        PROVE  Unsent(m, d)
    BY <1>t, <2>1, <2>2, PublishCarries, AskType
  <2> QED
    BY <1>t, <2>1, <2>2, BoundStays
<1>5. CASE FillBatch
  <2>1. PICK S \in SUBSET batch_init :
          /\ Cardinality(S) = Hold \/ Cardinality(S) < Hold
          /\ batch_running' = S
          /\ PublishRound(S)
    BY <1>5 DEF FillBatch
  <2>2. /\ batch_running = {} /\ UNCHANGED <<tasks, sent, accounted>>
        /\ S \in SUBSET Minions
    BY <1>5, <1>t DEF FillBatch, reportVars, accounted, RoundsInv, PhaseOK, TypeOK
  <2>3. Cardinality(S) <= Hold
    <3>1. IsFiniteSet(S)
      BY <2>2, MaidAssumption, FS_Subset
    <3>2. Cardinality(S) \in Nat
      BY <3>1, FS_CardinalityType
    <3> QED
      BY <2>1, <3>2, BatchAssumption
  <2> QED
    BY <1>t, <2>1, <2>2, <2>3, BoundPublish
<1>6. CASE ListenRaises
  <2>1. UNCHANGED <<tasks, sent, batch_running, accounted>>
    BY <1>6 DEF ListenRaises, reportVars, accounted
  <2>2. CASE intry
    <3>1. PublishRound(batch_running) /\ batch_running \in SUBSET Minions
      BY <1>6, <1>t, <2>2 DEF ListenRaises, TypeOK
    <3>2. Cardinality(batch_running) <= Hold
      BY DEF BoundInv
    <3> QED
      BY <1>t, <2>1, <3>1, <3>2, BoundPublish
  <2>3. CASE ~intry
    BY <1>2, <1>6, <2>1, <2>3 DEF ListenRaises
  <2> QED
    BY <2>2, <2>3
<1>7. CASE OnSignal \/ OnResult
  BY <1>2, <1>7 DEF OnSignal, OnResult, EndOfBody, reportVars, accounted
<1>8. CASE OnReturn
  <2>1. EndOfBody /\ batch_running' = batch_running \ callResult(Topic).items
    BY <1>8 DEF OnReturn
  <2>2. accounted' = accounted \cup callResult(Topic).items
    BY <1>8 DEF OnReturn, accounted
  <2>3. UNCHANGED <<cmdq, tasks, sent>>
    BY <2>1 DEF EndOfBody
  <2> QED
    BY <1>t, <2>1, <2>2, <2>3, BoundStays, StillCarried
<1> QED
  BY <1>1, <1>3, <1>4, <1>5, <1>6, <1>7, <1>8 DEF Next, Client, Listen, Terminated

\* Of the minions that may be working on the command no more than the batch
\* size have not been reported yet, whatever fails and is repeated.
THEOREM BatchHolds == Spec => []BatchBound
<1>1. RoundsInv /\ BoundInv => BatchBound
  <2> SUFFICES ASSUME RoundsInv, BoundInv
               PROVE  Cardinality(Unreturned \ notReturned) <= Hold
    BY DEF BatchBound
  <2>1. Unreturned \ notReturned \subseteq batch_running
    BY DEF BoundInv, Unreturned, Reached, accounted
  <2>2. IsFiniteSet(batch_running)
    BY MaidAssumption, FS_Subset DEF RoundsInv, TypeOK
  <2>3. /\ Cardinality(Unreturned \ notReturned) <= Cardinality(batch_running)
        /\ IsFiniteSet(Unreturned \ notReturned)
    BY <2>1, <2>2, FS_Subset
  <2>4. /\ Cardinality(batch_running) \in Nat
        /\ Cardinality(Unreturned \ notReturned) \in Nat
    BY <2>2, <2>3, FS_CardinalityType
  <2> QED
    BY <2>3, <2>4, BatchAssumption DEF BoundInv
<1>2. RoundsInv /\ BoundInv /\ [Next]_vars => BoundInv'
  BY BoundStep
<1>3. Spec => []BoundInv
  BY <1>2, BoundInit, RoundsInvariant, PTL DEF Spec
<1> QED
  BY <1>1, <1>3, RoundsInvariant, PTL
-----------------------------------------------------------------------------
(* Who returns has been sent the command, and an end that gives nothing up *)
(* leaves no target behind; with a percentage for the size no round runs.  *)

AnswersInv ==
    /\ accounted \subseteq Reached
    /\ Queued(Topic) \subseteq Reached
    /\ \A m \in Maids : \A tk \in tasks[m] : tk.cmd.topic = Topic =>
          tk.returned \subseteq Reached /\ UNION tk.todo \subseteq Reached

EndInv ==
    /\ percent => /\ round = 0 /\ Reached = {}
                  /\ pc # "listening"
    /\ pc = "done" /\ batch_running = {} /\ ~percent => batch_init = {}

\* What a topic's queue names when it gets a message, loses its head, or is
\* emptied.
LEMMA QueuedSteps ==
    ASSUME MaidTypeOK, MaidTypeOK', NEW t \in Topics
    PROVE  /\ QueueSame(t) => Queued(t)' = Queued(t)
           /\ \A msg : QueueGets(t, msg) =>
                Queued(t)' \subseteq Queued(t) \cup Named(msg)
           /\ inbox[t] # <<>> /\ inbox'[t] = Tail(inbox[t]) =>
                Queued(t)' \subseteq Queued(t)
           /\ inbox'[t] = <<>> \/ inbox'[t] = <<[kind |-> "subscribe"]>> =>
                Queued(t)' = {}
<1>1. /\ DOMAIN inbox[t] = 1 .. Len(inbox[t]) /\ Len(inbox[t]) \in Nat
      /\ DOMAIN inbox'[t] = 1 .. Len(inbox'[t]) /\ Len(inbox'[t]) \in Nat
  BY DEF MaidTypeOK
<1>2. QueueSame(t) => Queued(t)' = Queued(t)
  BY DEF QueueSame, Queued, Named
<1>3. ASSUME NEW msg, QueueGets(t, msg)
      PROVE  Queued(t)' \subseteq Queued(t) \cup Named(msg)
  <2>1. ASSUME NEW i \in 1 .. Len(inbox'[t])
        PROVE  Named(inbox'[t][i]) \subseteq Queued(t) \cup Named(msg)
    <3>1. CASE i \in 1 .. Len(inbox[t])
      BY <1>1, <1>3, <3>1 DEF QueueGets, Queued
    <3>2. CASE i = Len(inbox[t]) + 1
      BY <1>3, <3>2 DEF QueueGets
    <3>3. i \in 1 .. Len(inbox[t]) \/ i = Len(inbox[t]) + 1
      BY <1>1, <1>3 DEF QueueGets
    <3> QED
      BY <3>1, <3>2, <3>3
  <2>2. Queued(t)' = UNION {Named(inbox'[t][i]) : i \in DOMAIN inbox'[t]}
    BY DEF Queued, Named
  <2> QED
    BY <1>1, <2>1, <2>2
<1>4. ASSUME inbox[t] # <<>>, inbox'[t] = Tail(inbox[t])
      PROVE  Queued(t)' \subseteq Queued(t)
  <2>1. QueueMoves(t)
    BY <1>4, HeadTaken
  <2>2. ASSUME NEW i \in 1 .. Len(inbox'[t])
        PROVE  Named(inbox'[t][i]) \subseteq Queued(t)
    <3>1. i + 1 \in 1 .. Len(inbox[t]) /\ inbox'[t][i] = inbox[t][i + 1]
      BY <1>1, <2>1 DEF QueueMoves
    <3> QED
      BY <1>1, <3>1 DEF Queued
  <2>3. Queued(t)' = UNION {Named(inbox'[t][i]) : i \in DOMAIN inbox'[t]}
    BY DEF Queued, Named
  <2> QED
    BY <1>1, <2>2, <2>3
<1>5. ASSUME inbox'[t] = <<>> \/ inbox'[t] = <<[kind |-> "subscribe"]>>
      PROVE  Queued(t)' = {}
  <2>1. \A i \in DOMAIN inbox'[t] : inbox'[t][i].kind = "subscribe"
    BY <1>5
  <2> QED
    BY <2>1 DEF Queued, Named
<1> QED
  BY <1>2, <1>3, <1>4, <1>5

\* A message on a topic, whatever it is, puts only whom it names in the queue.
LEMMA PublishNames ==
    ASSUME MaidTypeOK, MaidTypeOK', NEW u \in Topics, NEW msg \in Message,
           Publish(u, msg), NEW R, Queued(Topic) \subseteq R,
           u = Topic => Named(msg) \subseteq R
    PROVE  Queued(Topic)' \subseteq R
<1>1. Topic \in Topics
  BY AskType
<1>2. \/ QueueSame(Topic)
      \/ u = Topic /\ QueueGets(Topic, msg)
  <2>1. CASE u # Topic
    BY <1>1, <2>1, PublishQueues
  <2>2. CASE u = Topic
    <3>1. Publish(Topic, msg)
      BY <2>2
    <3> QED
      BY <1>1, <2>2, <3>1, PublishOwn
  <2> QED
    BY <2>1, <2>2
<1>3. CASE QueueSame(Topic)
  BY <1>1, <1>3, QueuedSteps
<1>4. CASE u = Topic /\ QueueGets(Topic, msg)
  <2>1. Queued(Topic)' \subseteq Queued(Topic) \cup Named(msg)
    BY <1>1, <1>4, QueuedSteps
  <2> QED
    BY <1>4, <2>1
<1> QED
  BY <1>2, <1>3, <1>4

\* A maid reports only minions that it has sent the command to.
LEMMA AnswersMaids ==
    ASSUME TypeOK, HeldOK, AnswersInv, MaidNext, UNCHANGED clientVars
    PROVE  AnswersInv'
<1>t. MaidTypeOK /\ MaidTypeOK'
  BY MaidNextType DEF TypeOK
<1>0. PICK m \in Maids : MaidWork(m) \/ MaidFault(m)
  BY DEF MaidNext
<1>a. accounted' = accounted
  BY DEF clientVars, reportVars, accounted
<1>k. \A k \in tasks[m] : /\ k \in Task /\ k.cmd \in Command
                          /\ k.cmd.topic \in Topics
                          /\ k.todo \subseteq SUBSET Minions
                          /\ k.returned \subseteq Minions
                          /\ k.cmd.topic = Topic => k.cmd.type = SYNC_RUN
  <2>1. ASSUME NEW k \in tasks[m]
        PROVE  /\ k \in Task /\ k.cmd \in Command /\ k.cmd.topic \in Topics
               /\ k.todo \subseteq SUBSET Minions /\ k.returned \subseteq Minions
    BY <1>t DEF MaidTypeOK, Task, Command
  <2>2. ASSUME NEW k \in tasks[m], k.cmd.topic = Topic
        PROVE  k.cmd.type = SYNC_RUN
    <3>1. k \in Greenlets(m, k.cmd) /\ k.cmd \in Command
      BY <2>1 DEF Greenlets
    <3>2. Holds(m, k.cmd)
      BY <3>1 DEF Holds
    <3> QED
      BY <2>2, <3>1, <3>2, HeldRound
  <2> QED
    BY <2>1, <2>2
\* a step that changes one maid's greenlets to ones that report no others
<1>1. ASSUME Reached \subseteq Reached', Queued(Topic)' \subseteq Reached',
             \A x \in Maids \ {m} : tasks'[x] = tasks[x],
             \A k \in tasks'[m] : \/ k \in tasks[m]
                                  \/ k.cmd.topic = Topic =>
                                       /\ k.returned \subseteq Reached'
                                       /\ UNION k.todo \subseteq Reached'
      PROVE  AnswersInv'
  <2>1. ASSUME NEW x \in Maids, NEW k \in tasks'[x], k.cmd.topic = Topic
        PROVE  k.returned \subseteq Reached' /\ UNION k.todo \subseteq Reached'
    <3>1. CASE k \in tasks[x]
      BY <1>1, <2>1, <3>1 DEF AnswersInv
    <3>2. CASE k \notin tasks[x]
      BY <1>1, <2>1, <3>2
    <3> QED
      BY <3>1, <3>2
  <2> QED
    BY <1>1, <1>a, <2>1 DEF AnswersInv
<1>p. ASSUME NEW u \in Topics, NEW msg \in Message, Publish(u, msg),
             u = Topic => Named(msg) \subseteq Reached, UNCHANGED sent
      PROVE  Queued(Topic)' \subseteq Reached' /\ Reached' = Reached
  <2>1. Reached' = Reached
    BY <1>p DEF Reached
  <2>2. Queued(Topic) \subseteq Reached
    BY DEF AnswersInv
  <2>3. Queued(Topic)' \subseteq Reached
    BY <1>t, <1>p, <2>2, PublishNames
  <2> QED
    BY <2>1, <2>3
<1>q. ASSUME UNCHANGED <<inbox, sent>>
      PROVE  Queued(Topic)' \subseteq Reached' /\ Reached' = Reached
  BY <1>q DEF AnswersInv, Queued, Named, Reached
<1>2. CASE MaidReceive(m)
  <2> DEFINE cmd == Head(cmdq[m])
             new == Greenlet(cmd, PoolPlace(m))
  <2>1. /\ Publish(cmd.topic, PING(m)) /\ UNCHANGED sent
        /\ tasks' = [tasks EXCEPT ![m] = @ \cup {new}]
    BY <1>2 DEF MaidReceive
  <2>2. cmd \in Command /\ cmd.topic \in Topics
    <3>1. cmdq[m] \in Seq(Command) /\ cmdq[m] # <<>>
      BY <1>2, <1>t DEF MaidReceive, MaidTypeOK
    <3>2. cmd \in Command
      BY <3>1, HeadTailProperties
    <3> QED
      BY <3>2 DEF Command
  <2>3. PING(m) \in Message /\ Named(PING(m)) = {}
    BY DEF PING, Named, Message, Signal
  <2>4. Queued(Topic)' \subseteq Reached' /\ Reached' = Reached
    BY <1>p, <2>1, <2>2, <2>3
  <2>5. new.returned = {} /\ new.todo = {}
    BY DEF Greenlet
  <2> HIDE DEF new, cmd
  <2> QED
    BY <1>1, <1>t, <2>1, <2>4, <2>5 DEF MaidTypeOK
<1>3. ASSUME NEW tk \in tasks[m], MaidSpawn(m, tk) PROVE AnswersInv'
  <2> DEFINE new == [tk EXCEPT !.phase = "spawned"]
  <2>1. /\ tasks' = [tasks EXCEPT ![m] = (@ \ {tk}) \cup {new}]
        /\ UNCHANGED <<inbox, sent>>
    BY <1>3 DEF MaidSpawn
  <2>2. new.cmd = tk.cmd /\ new.returned = tk.returned /\ new.todo = tk.todo
    BY <1>k DEF Task
  <2> HIDE DEF new
  <2>3. new.cmd.topic = Topic =>
          new.returned \subseteq Reached /\ UNION new.todo \subseteq Reached
    BY <2>2 DEF AnswersInv
  <2> QED
    BY <1>1, <1>q, <1>t, <2>1, <2>3 DEF MaidTypeOK
<1>4. ASSUME NEW tk \in tasks[m], TaskStart(m, tk) PROVE AnswersInv'
  <2> DEFINE new == [tk EXCEPT !.phase = "running", !.todo = Results(m, tk.cmd)]
  <2>1. /\ tasks' = [tasks EXCEPT ![m] = (@ \ {tk}) \cup {new}]
        /\ UNCHANGED inbox
    BY <1>4 DEF TaskStart
  <2>2. /\ new.cmd = tk.cmd /\ new.returned = tk.returned
        /\ new.todo = Results(m, tk.cmd)
    BY <1>k DEF Task
  <2> HIDE DEF new
  <2>3. Reached \subseteq Reached'
    BY <1>4, <1>t DEF TaskStart, Reached, MaidTypeOK
  <2>4. Queued(Topic)' \subseteq Reached'
    BY <2>1, <2>3 DEF AnswersInv, Queued, Named
  <2>5. ASSUME tk.cmd.topic = Topic
        PROVE  UNION Results(m, tk.cmd) \subseteq Reached'
    <3>1. tk.cmd.type = SYNC_RUN
      BY <1>k, <2>5
    <3>2. ASSUME NEW S \in Results(m, tk.cmd), NEW k \in S PROVE k \in Reached'
      <4>1. k \in Matched(m, tk.cmd.tgt)
        BY <3>1, <3>2, SyncResults
      <4>2. k \in Minions
        BY <4>1, MaidAssumption DEF Matched
      <4>3. sent'[k] = sent[k] + 1 /\ sent[k] \in Nat
        BY <1>4, <1>t, <3>1, <4>1, <4>2 DEF TaskStart, MaidTypeOK, Targeted
      <4> QED
        BY <4>2, <4>3 DEF Reached
    <3> QED
      BY <3>2
  <2>6. new.cmd.topic = Topic =>
          new.returned \subseteq Reached' /\ UNION new.todo \subseteq Reached'
    BY <2>2, <2>3, <2>5 DEF AnswersInv
  <2> QED
    BY <1>1, <1>t, <2>1, <2>3, <2>4, <2>6 DEF MaidTypeOK
<1>5. ASSUME NEW tk \in tasks[m], TaskEmit(m, tk) \/ TaskDrop(m, tk)
      PROVE  AnswersInv'
  <2>1. PICK S, R :
          /\ S \in tk.todo
          /\ R \in {{}, S}
          /\ tasks' = [tasks EXCEPT ![m] = (@ \ {tk}) \cup {Reported(tk, S, R)}]
    BY <1>5, StepReports
  <2> DEFINE new == Reported(tk, S, R)
  <2>2. R \in SUBSET Minions
    BY <1>k, <2>1
  <2>3. /\ new.cmd = tk.cmd /\ new.todo \subseteq tk.todo
        /\ new.returned = tk.returned \cup R
    BY <1>k, <2>2, ReportedTask
  <2>4. tasks' = [tasks EXCEPT ![m] = (@ \ {tk}) \cup {new}]
    BY <2>1
  <2> HIDE DEF new
  <2>5. new.cmd.topic = Topic =>
          new.returned \subseteq Reached /\ UNION new.todo \subseteq Reached
    <3>1. tk.cmd.topic = Topic =>
            tk.returned \subseteq Reached /\ UNION tk.todo \subseteq Reached
      BY DEF AnswersInv
    <3> QED
      BY <2>1, <2>3, <3>1
  <2>6. Queued(Topic)' \subseteq Reached' /\ Reached' = Reached
    <3>1. CASE TaskEmit(m, tk)
      <4>1. PICK T \in tk.todo, o \in Outcome :
              Publish(tk.cmd.topic, Ret(T, o)) /\ UNCHANGED sent
        BY <3>1 DEF TaskEmit
      <4>2. T \in SUBSET Minions
        BY <1>k
      <4>3. Ret(T, o) \in Message /\ Named(Ret(T, o)) = T
        BY <4>2 DEF Ret, Named, Message, Data
      <4>4. tk.cmd.topic = Topic => T \subseteq Reached
        BY DEF AnswersInv
      <4> QED
        BY <1>k, <1>p, <4>1, <4>3, <4>4
    <3>2. CASE TaskDrop(m, tk)
      BY <1>q, <3>2 DEF TaskDrop
    <3> QED
      BY <1>5, <3>1, <3>2
  <2> QED
    BY <1>1, <1>t, <2>4, <2>5, <2>6 DEF MaidTypeOK
<1>6. ASSUME NEW tk \in tasks[m], TaskRepeat(m, tk) PROVE AnswersInv'
  <2>1. PICK k \in tk.returned, o \in Outcome : Publish(tk.cmd.topic, Ret({k}, o))
    BY <1>6 DEF TaskRepeat
  <2>2. {k} \in SUBSET Minions
    BY <1>k
  <2>3. Ret({k}, o) \in Message /\ Named(Ret({k}, o)) = {k}
    BY <2>2 DEF Ret, Named, Message, Data
  <2>4. tk.cmd.topic = Topic => {k} \subseteq Reached
    BY DEF AnswersInv
  <2>5. UNCHANGED <<tasks, sent>>
    BY <1>6 DEF TaskRepeat
  <2> QED
    BY <1>1, <1>k, <1>p, <2>1, <2>3, <2>4, <2>5
<1>7. ASSUME NEW tk \in tasks[m], TaskRefuse(m, tk) \/ TaskFinish(m, tk)
      PROVE  AnswersInv'
  <2>1. PICK msg \in {WORK(m), INTERRUPT(m)} : Publish(tk.cmd.topic, msg)
    BY <1>7 DEF TaskRefuse, TaskFinish
  <2>2. msg \in Message /\ Named(msg) = {}
    BY DEF WORK, INTERRUPT, Named, Message, Signal
  <2>3. UNCHANGED sent /\ tasks' = [tasks EXCEPT ![m] = @ \ {tk}]
    BY <1>7 DEF TaskRefuse, TaskFinish
  <2> QED
    BY <1>1, <1>k, <1>p, <1>t, <2>1, <2>2, <2>3 DEF MaidTypeOK
<1>8. CASE \/ MaidCrash(m) \/ MaidRestart(m)
           \/ \E tk \in tasks[m] : TaskAbort(m, tk)
  <2>1. /\ UNCHANGED <<inbox, sent>> /\ tasks'[m] \subseteq tasks[m]
        /\ \A x \in Maids \ {m} : tasks'[x] = tasks[x]
    BY <1>8, <1>t DEF MaidCrash, MaidRestart, TaskAbort, MaidTypeOK
  <2> QED
    BY <1>1, <1>q, <2>1
<1> QED
  BY <1>0, <1>2, <1>3, <1>4, <1>5, <1>6, <1>7, <1>8 DEF MaidWork, MaidFault

\* So does every step of the client: it reports what it reads on Topic.
LEMMA AnswersStep == RoundsInv /\ AnswersInv /\ [Next]_vars => AnswersInv'
<1> SUFFICES ASSUME RoundsInv, AnswersInv, [Next]_vars PROVE AnswersInv'
  OBVIOUS
<1>t. TypeOK /\ TypeOK' /\ HeldOK /\ MaidTypeOK /\ MaidTypeOK' /\ Topic \in Topics
  BY TypeStep, AskType DEF RoundsInv, TypeOK
<1>1. CASE MaidNext /\ UNCHANGED clientVars
  BY <1>1, <1>t, AnswersMaids
<1>2. ASSUME UNCHANGED <<tasks, sent>>, accounted' \subseteq Reached,
             \/ inbox'[Topic] = inbox[Topic]
             \/ inbox[Topic] # <<>> /\ inbox'[Topic] = Tail(inbox[Topic])
             \/ inbox'[Topic] = <<>>
             \/ inbox'[Topic] = <<[kind |-> "subscribe"]>>
      PROVE  AnswersInv'
  <2>1. Queued(Topic)' \subseteq Queued(Topic)
    BY <1>2, <1>t, QueuedSteps DEF QueueSame
  <2> QED
    BY <1>2, <2>1 DEF AnswersInv, Reached
<1>3. ASSUME UNCHANGED <<sucset, notReturned>> PROVE accounted' \subseteq Reached
  BY <1>3 DEF AnswersInv, accounted
<1>4. CASE \/ TakeList \/ FindAccept \/ GatherGoesOn \/ GatherResult
           \/ FillBatch \/ FillNothing \/ Expire \/ Reconnect
           \/ LoseConnection \/ GatherRaises \/ ListenRaises \/ UNCHANGED vars
  <2>1. UNCHANGED <<tasks, sent, sucset, notReturned>>
    BY <1>4
    DEF TakeList, FindAccept, GatherGoesOn, GatherResult, FillBatch, FillNothing,
        Expire, Reconnect, LoseConnection, LosesConnection, GatherRaises,
        ListenRaises, vars, maidVars, clientVars, reportVars
  <2>2. CASE TakeList \/ Reconnect
    BY <1>2, <1>3, <1>t, <2>1, <2>2
    DEF TakeList, Reconnect, Subscribe, MaidTypeOK
  <2>3. CASE FindAccept \/ GatherGoesOn \/ GatherResult \/ GatherRaises
    <3>1. \/ inbox'[Topic] = inbox[Topic]
          \/ inbox'[Topic] = <<[kind |-> "subscribe"]>>
      BY <1>t, <2>3, AskType
      DEF FindAccept, Subscribe, GatherGoesOn, GatherResult, GatherNext,
          GatherRaises, MaidTypeOK
    <3> QED
      BY <1>2, <1>3, <2>1, <3>1
  <2>4. CASE FillBatch \/ Expire \/ UNCHANGED vars
    BY <1>2, <1>3, <2>1, <2>4 DEF FillBatch, Expire, maidVars, vars
  <2>5. CASE FillNothing \/ ListenRaises
    BY <1>2, <1>3, <1>t, <2>1, <2>5 DEF FillNothing, ListenRaises, MaidTypeOK
  <2>6. CASE LoseConnection
    <3>1. PICK t \in {FaTopic, Topic} : LosesConnection(t)
      BY <2>6 DEF LoseConnection
    <3>2. \/ inbox'[Topic] = inbox[Topic]
          \/ inbox'[Topic] = <<[kind |-> "subscribe"]>>
      BY <1>t, <3>1, ConnectionLost
    <3> QED
      BY <1>2, <1>3, <2>1, <3>2
  <2> QED
    BY <1>4, <2>2, <2>3, <2>4, <2>5, <2>6
<1>5. ASSUME EndOfBody, inbox[Topic] # <<>>
      PROVE  /\ UNCHANGED <<tasks, sent>>
             /\ inbox'[Topic] = <<>> \/ inbox'[Topic] = Tail(inbox[Topic])
  BY <1>5, <1>t DEF EndOfBody, MaidTypeOK
<1>6. CASE OnSignal \/ OnResult
  <2>1. /\ EndOfBody /\ inbox[Topic] # <<>>
        /\ UNCHANGED <<sucset, notReturned>>
    BY <1>6 DEF OnSignal, OnResult, Reads, reportVars
  <2> QED
    BY <1>2, <1>3, <1>5, <2>1
<1>7. CASE OnReturn
  <2>1. EndOfBody /\ inbox[Topic] # <<>>
    BY <1>7 DEF OnReturn, Reads
  <2>2. callResult(Topic).items \subseteq Queued(Topic)
    <3>1. /\ callResult(Topic) = inbox[Topic][1]
          /\ callResult(Topic).kind \in {"data"}
          /\ Len(inbox[Topic]) > 0 /\ Len(inbox[Topic]) \in Nat
      BY <1>7, <1>t, ReadsStep DEF OnReturn
    <3>2. 1 \in DOMAIN inbox[Topic]
      BY <1>t, <3>1 DEF MaidTypeOK
    <3> QED
      BY <3>1, <3>2 DEF Queued, Named
  <2>3. accounted' = accounted \cup callResult(Topic).items
    BY <1>7 DEF OnReturn, accounted
  <2>4. accounted' \subseteq Reached
    BY <2>2, <2>3 DEF AnswersInv
  <2> QED
    BY <1>2, <1>5, <2>1, <2>4
<1> QED
  BY <1>1, <1>4, <1>6, <1>7 DEF Next, Client, Listen, Terminated

\* How the loop over the rounds ends, and that a percentage begins none.
LEMMA EndStep == RoundsInv /\ EndInv /\ [Next]_vars => EndInv'
<1> SUFFICES ASSUME RoundsInv, EndInv, [Next]_vars PROVE EndInv'
  OBVIOUS
<1>t. TypeOK /\ HeldOK /\ MaidTypeOK
  BY DEF RoundsInv, TypeOK
<1>p. UNCHANGED percent
  BY DEF Next, Client, Listen, TakeList, FindAccept, GatherGoesOn, GatherResult,
     FillBatch, FillNothing, Expire, OnSignal, OnResult, OnReturn, EndOfBody,
     LoseConnection, LosesConnection, GatherRaises, ListenRaises, Reconnect,
     Terminated, vars, clientVars, gatherVars
<1>1. CASE MaidNext /\ UNCHANGED clientVars
  <2>1. UNCHANGED <<pc, percent, round, batch_init, batch_running>>
    BY <1>1 DEF clientVars, gatherVars, batchVars
  <2>2. ASSUME percent PROVE Reached' = {}
    <3>1. round = 0 /\ Reached = {}
      BY <2>2 DEF EndInv
    <3>2. ASSUME NEW k \in Minions, sent'[k] # sent[k] PROVE FALSE
      <4>1. PICK m \in Maids, c \in Command :
              c.type \in Targeted /\ Unsent(m, c)
        BY <1>1, <1>t, <3>2, SentSteps DEF HeldOK
      <4>2. Holds(m, c) /\ c # Ask
        BY <4>1, CarriesHolds
        DEF Ask, Targeted, SYNC_RUN, SALT_CP, ASYNC_RUN, FIND_ACCEPT
      <4>3. \E r \in 1 .. round : TRUE
        BY <1>t, <4>2 DEF HeldOK
      <4> QED
        BY <3>1, <4>3
    <3> QED
      BY <3>1, <3>2 DEF Reached
  <2> QED
    BY <2>1, <2>2 DEF EndInv
<1>2. CASE UNCHANGED <<pc, round, sent, batch_init, batch_running>>
  BY <1>2, <1>p DEF EndInv, Reached
<1>3. CASE /\ pc' # "done" /\ UNCHANGED <<round, sent>> /\ pc' # "listening"
  BY <1>3, <1>p DEF EndInv, Reached
<1>4. CASE TakeList \/ FindAccept \/ GatherGoesOn \/ GatherResult \/ GatherRaises
  <2>1. pc' \in {"gather", "fill", "raised"} /\ UNCHANGED <<round, sent>>
    BY <1>4 DEF TakeList, FindAccept, GatherGoesOn, GatherResult, GatherRaises,
       batchVars
  <2> QED
    BY <1>3, <2>1
<1>5. CASE FillBatch
  <2>1. ~percent /\ pc' = "listening"
    BY <1>5 DEF FillBatch, PublishRound
  <2> QED
    BY <1>p, <2>1 DEF EndInv
<1>6. CASE FillNothing
  BY <1>6, <1>p DEF FillNothing, batchVars, EndInv, Reached
<1>7. CASE Expire \/ Reconnect \/ LoseConnection \/ UNCHANGED vars
  BY <1>2, <1>7
  DEF Expire, Reconnect, LoseConnection, LosesConnection, vars, maidVars,
      clientVars, batchVars
<1>8. CASE ListenRaises
  <2>1. ~percent /\ pc' # "done"
    BY <1>8 DEF ListenRaises, PublishRound, EndInv
  <2> QED
    BY <1>p, <2>1 DEF EndInv
<1>9. CASE OnSignal \/ OnResult \/ OnReturn
  <2>1. EndOfBody /\ pc = "listening"
    BY <1>9 DEF OnSignal, OnResult, OnReturn
  <2>2. ~percent
    BY <2>1 DEF EndInv
  <2>3. pc' = "done" => batch_running' # {}
    BY <2>1 DEF EndOfBody
  <2> QED
    BY <1>p, <2>2, <2>3 DEF EndInv
<1> QED
  BY <1>1, <1>4, <1>5, <1>6, <1>7, <1>8, <1>9 DEF Next, Client, Listen, Terminated

\* A command that ends without giving up a round has been sent to every target
\* that the client has heard of; with a percentage for the size, to none.
THEOREM RunsAll == (TgtAll => Maids \subseteq Keys) => (Spec => []RunsEveryTarget)
<1> SUFFICES ASSUME TgtAll => Maids \subseteq Keys
             PROVE  Spec => []RunsEveryTarget
  OBVIOUS
<1>1. Init => AnswersInv /\ EndInv
  <2> SUFFICES ASSUME Init PROVE AnswersInv /\ EndInv
    OBVIOUS
  <2>1. Reached = {} /\ accounted = {} /\ round = 0 /\ pc = "start"
    BY DEF Init, MaidInit, Reached, accounted
  <2>2. Queued(Topic) = {}
    BY AskType DEF Init, MaidInit, Queued
  <2> QED
    BY <2>1, <2>2 DEF AnswersInv, EndInv, Init, MaidInit
<1>2. RoundsInv /\ AnswersInv /\ EndInv /\ [Next]_vars => AnswersInv' /\ EndInv'
  BY AnswersStep, EndStep
<1>3. Spec => [](AnswersInv /\ EndInv)
  BY <1>1, <1>2, RoundsInvariant, PTL DEF Spec
<1>4. RoundsInv /\ IInv /\ AnswersInv /\ EndInv => RunsEveryTarget
  <2> SUFFICES ASSUME RoundsInv, IInv, AnswersInv, EndInv,
                      pc = "done", batch_running = {}, NEW k \in Wanted \ unheard
               PROVE  sent[k] > 0 <=> ~percent
    BY DEF RunsEveryTarget
  <2>1. k \in Minions
    BY MaidAssumption, BatchAssumption DEF Wanted
  <2>2. CASE percent
    BY <2>1, <2>2 DEF EndInv, Reached
  <2>3. CASE ~percent
    <3>1. batch_init = {}
      BY <2>3 DEF EndInv
    <3>2. k \in accounted
      BY <3>1 DEF IInv, NoTargetLost
    <3> QED
      BY <2>3, <3>2 DEF AnswersInv, Reached
  <2> QED
    BY <2>2, <2>3 DEF RoundsInv, TypeOK
<1>5. Spec => []IInv
  BY Invariant
<1> QED
  BY <1>3, <1>4, <1>5, RoundsInvariant, PTL
=============================================================================
