---------------------------- MODULE SaltCpProofs ----------------------------
(***************************************************************************)
(* Theorems about salt-cp, SaltCp, for every set of maids, minions and     *)
(* targets, and whatever faults.                                           *)
(***************************************************************************)
EXTENDS SaltCp, MaidProofs, FiniteSetTheorems

\* The command that the client publishes is a command.
LEMMA WrapMesageType ==
    /\ wrapMesage \in Command
    /\ wrapMesage.topic = Topic /\ wrapMesage.type = SALT_CP
    /\ wrapMesage.tgt = Tgt
BY CpAssumption DEF wrapMesage, Command, FunctionType, Targeted, SALT_CP

\* The client takes one message from its queue, and looks at nothing else.
LEMMA ReadsStep ==
    ASSUME MaidTypeOK, NEW kinds, Reads(kinds)
    PROVE  /\ inbox' \in [Topics -> Seq(Message)]
           /\ QueueMoves(Topic)
           /\ callResult = inbox[Topic][1]
           /\ callResult.kind \in kinds
           /\ callResult.kind \in {"ping", "work", "interrupt"} =>
                callResult.sub_ip \in Maids
           /\ callResult.kind = "data" => callResult.items \subseteq Minions
<1>1. Topic \in Topics /\ inbox[Topic] # <<>>
  BY CpAssumption DEF Reads
<1>2. inbox[Topic] \in Seq(Message)
  BY <1>1, QueueType
<1>3. Tail(inbox[Topic]) \in Seq(Message)
  BY <1>1, <1>2, HeadTailProperties
<1>4. inbox'[Topic] = Tail(inbox[Topic]) /\ inbox' \in [Topics -> Seq(Message)]
  BY <1>1, <1>3 DEF Reads, MaidTypeOK
<1>5. QueueMoves(Topic)
  BY <1>1, <1>4, HeadTaken
<1>6. callResult = inbox[Topic][1]
  BY <1>1, HeadType DEF callResult
<1> QED
  BY <1>1, <1>4, <1>5, <1>6, HeadType DEF Reads

\* Every step of the client or of a maid keeps TypeOK.
LEMMA TypeStep == TypeOK /\ [Next]_vars => TypeOK'
<1> SUFFICES ASSUME TypeOK, [Next]_vars PROVE TypeOK'
  OBVIOUS
<1>t. MaidTypeOK
  BY DEF TypeOK
<1>1. CASE SubscribeTopic
  BY <1>1, <1>t, SubscribeType, CpAssumption
  DEF SubscribeTopic, countVars, outputVars, TypeOK, MaidTypeOK
<1>2. CASE PublishCommand
  BY <1>2, <1>t, PublishToSyndicSubType, WrapMesageType
  DEF PublishCommand, countVars, outputVars, TypeOK, MaidTypeOK
<1>3. CASE OnConfirmation
  BY <1>3, <1>t, ReadsStep
  DEF OnConfirmation, Reads, clientVars, countVars, outputVars, TypeOK, MaidTypeOK
<1>4. CASE OnPing
  <2>1. inbox' \in [Topics -> Seq(Message)] /\ ping1stCount' \in Nat
    BY <1>4, <1>t, ReadsStep DEF OnPing, TypeOK
  <2> QED
    BY <1>4, <2>1 DEF OnPing, Reads, outputVars, TypeOK, MaidTypeOK
<1>5. CASE OnResult
  <2>1. inbox' \in [Topics -> Seq(Message)] /\ work1stcount' \in Nat
    BY <1>5, <1>t, ReadsStep DEF OnResult, TypeOK
  <2>2. pc' \in {"listening", "done"}
    BY <1>5 DEF OnResult, Reads
  <2> QED
    BY <1>5, <2>1, <2>2 DEF OnResult, Reads, outputVars, TypeOK, MaidTypeOK
<1>6. CASE OnCpResult
  <2>1. callResult.items \subseteq Minions /\ inbox' \in [Topics -> Seq(Message)]
    BY <1>6, <1>t, ReadsStep DEF OnCpResult
  <2>2. faults' \in [FaultKinds -> Nat]
    BY <1>6, <1>t, FaultType DEF OnCpResult, MaidTypeOK
  <2>3. printed' \subseteq Minions /\ unshown' \subseteq Minions
    BY <1>6, <2>1 DEF OnCpResult, TypeOK
  <2> QED
    BY <1>6, <2>1, <2>2, <2>3
    DEF OnCpResult, Reads, countVars, TypeOK, MaidTypeOK
<1>7. CASE MaidNext /\ UNCHANGED clientVars
  BY <1>7, <1>t, MaidNextType DEF clientVars, countVars, outputVars, TypeOK
<1>8. CASE UNCHANGED vars
  BY <1>8
  DEF vars, maidVars, clientVars, countVars, outputVars, TypeOK, MaidTypeOK
<1>9. CASE LoseConnection
  <2>1. /\ faults' \in [FaultKinds -> Nat] /\ lost' \subseteq Topics \X Minions
    BY <1>9, <1>t, FaultType, LoseQueuesType, CpAssumption
    DEF LoseConnection, MaidTypeOK
  <2>2. /\ inbox' \in [Topics -> Seq(Message)] /\ subscribed' \subseteq Topics
        /\ pc' \in {"listening", "raised"}
    <3>1. CASE Subscribe(Topic) /\ UNCHANGED pc
      BY <1>9, <1>t, <3>1, SubscribeType, CpAssumption
      DEF LoseConnection, MaidTypeOK
    <3>2. CASE /\ pc' = "raised" /\ subscribed' = subscribed \ {Topic}
               /\ inbox' = [inbox EXCEPT ![Topic] = <<>>]
      <4>1. <<>> \in Seq(Message)
        OBVIOUS
      <4> QED
        BY <1>t, <3>2, <4>1 DEF MaidTypeOK
    <3> QED
      BY <1>9, <3>1, <3>2 DEF LoseConnection
  <2> QED
    BY <1>9, <2>1, <2>2
    DEF LoseConnection, countVars, outputVars, TypeOK, MaidTypeOK
<1> QED
  BY <1>1, <1>2, <1>3, <1>4, <1>5, <1>6, <1>7, <1>8, <1>9
  DEF Next, Client, Listen, Terminated

\* The initial states are well typed.
LEMMA TypeInit == Init => TypeOK
BY MaidInitType DEF Init, TypeOK

\* Types: maids, bus and client keep their types in every behaviour.
THEOREM TypeCorrect == Spec => []TypeOK
<1> QED
  BY TypeInit, TypeStep, PTL DEF Spec
-----------------------------------------------------------------------------
(* The invariant.  "ended" are the maids whose WORK or INTERRUPT has been  *)
(* read; the client keeps only their number.                               *)

\* what a maid has to report: a line for each minion of the target
Due == [m \in Maids |-> Matched(m, Tgt)]

\* whose result has been read, whether it could be displayed or not
told == printed \cup unshown

Read(ended) ==
    /\ Cardinality(ended) = work1stcount
    /\ InOrder(wrapMesage, Due, told, ended)

\* the maids hold nothing but the copy, and that once
OnlyCopy ==
    /\ \A d \in Command : Single(d)
    /\ \A m \in Maids : \A d \in Command : Holds(m, d) => d = wrapMesage

Fresh ==
    /\ \A m \in Maids : ~Holds(m, wrapMesage)
    /\ work1stcount = 0 /\ told = {}

IInv ==
    /\ TypeOK
    /\ OnlyCopy
    /\ pc \in {"start", "subscribed"} => Fresh
    /\ pc = "subscribed" => \A i \in 1 .. Len(inbox[Topic]) :
                               inbox[Topic][i].kind = "subscribe"
    /\ pc \in {"listening", "done"} => \E ended \in SUBSET Maids : Read(ended)
    /\ pc = "done" => work1stcount = Cardinality(Keys)

\* In the initial states nobody holds anything.
LEMMA InvariantInit == Init => IInv
<1> SUFFICES ASSUME Init PROVE IInv
  OBVIOUS
<1>1. OnlyCopy /\ \A m \in Maids : ~Holds(m, wrapMesage)
  BY NothingHeld DEF Init, OnlyCopy
<1> QED
  BY <1>1, TypeInit DEF Init, IInv, Fresh, told

\* What a step of a maid keeps of the copy.
LEMMA MaidKeeps ==
    ASSUME IInv, MaidNext, UNCHANGED clientVars
    PROVE  IInv'
<1>t. /\ MaidTypeOK
      /\ TypeOK'
  <2>1. MaidTypeOK
    BY DEF IInv, TypeOK
  <2> QED
    BY <2>1, MaidNextType DEF IInv, TypeOK, clientVars, countVars, outputVars
<1>c. UNCHANGED <<pc, work1stcount, told>>
  BY DEF clientVars, countVars, outputVars, told
<1>1. /\ Single(wrapMesage)
      /\ Own(wrapMesage)
  BY WrapMesageType DEF IInv, OnlyCopy, Own
<1>2. OnlyCopy'
  BY <1>t, SingleKept, HoldsShrinks DEF IInv, OnlyCopy
<1>5. ASSUME pc \in {"start", "subscribed"}
      PROVE  /\ Fresh'
             /\ pc = "subscribed" => \A i \in 1 .. Len(inbox'[Topic]) :
                                        inbox'[Topic][i].kind = "subscribe"
  <2>1. \A m \in Maids : ~Holds(m, wrapMesage)
    BY <1>5 DEF IInv, Fresh
  <2>2. QueueSame(Topic) /\ \A m \in Maids : ~Holds(m, wrapMesage)'
    BY <1>1, <1>t, <2>1, QuietTopic, WrapMesageType
  <2> QED
    BY <1>5, <1>c, <2>2 DEF IInv, Fresh, QueueSame
<1>6. ASSUME NEW ended \in SUBSET Maids, Read(ended) PROVE Read(ended)'
  <2>1. PICK got : got = told
    OBVIOUS
  <2>2. Due \in [Maids -> SUBSET Minions]
    BY MaidAssumption DEF Due, Matched
  <2>3. \A m \in Maids : BeginsRun(m, wrapMesage) =>
          \A k \in Due[m] : \E S \in Results(m, wrapMesage) : k \in S
    BY ResultsCover, WrapMesageType DEF Due
  <2>4. InOrder(wrapMesage, Due, got, ended)
    BY <1>6, <2>1 DEF Read
  <2>5. InOrder(wrapMesage, Due, got, ended)'
    BY <1>1, <1>t, <2>2, <2>3, <2>4, MaidsInOrder, WrapMesageType
  <2> QED
    BY <1>6, <1>c, <2>1, <2>5 DEF Read
<1> QED
  BY <1>t, <1>c, <1>2, <1>5, <1>6 DEF IInv

\* The publish finds nobody busy with the command, and its topic subscribed.
LEMMA PublishKeeps == IInv /\ PublishCommand => IInv'
<1> SUFFICES ASSUME IInv, PublishCommand PROVE IInv'
  OBVIOUS
<1>t. MaidTypeOK /\ TypeOK'
  BY TypeStep DEF IInv, TypeOK, Next, Client
<1>1. /\ pc = "subscribed" /\ pc' = "listening"
      /\ PublishToSyndicSub(wrapMesage)
      /\ UNCHANGED <<tasks, inbox, work1stcount, told>>
  BY DEF PublishCommand, countVars, outputVars, told
<1>2. Fresh
  BY <1>1 DEF IInv
<1>3. OnlyCopy'
  <2>1. \A d \in Command : Single(d)'
    BY <1>1, <1>2, <1>t, PublishSingle, WrapMesageType DEF IInv, OnlyCopy, Fresh
  <2>2. \A m \in Maids : \A d \in Command : Holds(m, d)' => d = wrapMesage
    BY <1>1, <1>t, PublishHolds, WrapMesageType DEF IInv, OnlyCopy, Holds
  <2> QED
    BY <2>1, <2>2 DEF OnlyCopy
<1>4. \A m \in Maids : Greenlets(m, wrapMesage)' = {}
  BY <1>1, <1>2 DEF Fresh, Holds, Greenlets
<1>5. \A i \in 1 .. Len(inbox'[Topic]) : inbox'[Topic][i].kind = "subscribe"
  BY <1>1 DEF IInv
<1>6. Read({})'
  <2>1. InOrder(wrapMesage, Due, {}, {})'
    BY <1>4, <1>5, FreshInOrder, WrapMesageType
  <2> QED
    BY <1>1, <1>2, <2>1, FS_EmptySet DEF Read, Fresh
<1> QED
  BY <1>1, <1>3, <1>6, <1>t DEF IInv

\* Subscribing leaves the confirmation alone in the queue.
LEMMA SubscribeKeeps == IInv /\ SubscribeTopic => IInv'
<1> SUFFICES ASSUME IInv, SubscribeTopic PROVE IInv'
  OBVIOUS
<1>t. TypeOK /\ TypeOK' /\ Topic \in Topics
  BY TypeStep, CpAssumption DEF IInv, Next, Client
<1>1. /\ pc = "start" /\ pc' = "subscribed"
      /\ Subscribe(Topic)
      /\ UNCHANGED <<cmdq, tasks, work1stcount, told>>
  BY DEF SubscribeTopic, countVars, outputVars, told
<1>2. OnlyCopy' /\ Fresh'
  BY <1>1, StillHeld, WrapMesageType
  DEF IInv, OnlyCopy, Fresh
<1>3. inbox'[Topic] = <<[kind |-> "subscribe"]>>
  BY <1>1, <1>t DEF Subscribe, TypeOK, MaidTypeOK
<1>4. \A i \in 1 .. Len(inbox'[Topic]) : inbox'[Topic][i].kind = "subscribe"
  BY <1>3
<1> QED
  BY <1>1, <1>2, <1>4, <1>t DEF IInv

\* Reading a message keeps account of the maids that have ended.
LEMMA ListenKeeps == IInv /\ Listen => IInv'
<1> SUFFICES ASSUME IInv, Listen PROVE IInv'
  OBVIOUS
<1>t. MaidTypeOK /\ TypeOK' /\ TypeOK
  BY TypeStep DEF IInv, TypeOK, Next, Client
<1>1. PICK kinds : Reads(kinds)
  BY DEF Listen, OnConfirmation, OnPing, OnResult, OnCpResult
<1>2. /\ pc = "listening"
      /\ UNCHANGED <<cmdq, tasks, lost>>
  BY <1>1 DEF Reads
<1>3. PICK msg : msg = callResult
  OBVIOUS
<1>4. /\ QueueMoves(Topic)
      /\ msg = inbox[Topic][1]
      /\ msg.kind \in {"ping", "work", "interrupt"} => msg.sub_ip \in Maids
  BY <1>1, <1>3, <1>t, ReadsStep
<1>5. /\ told \subseteq told'
      /\ msg.kind = "data" => msg.items \subseteq told'
      /\ work1stcount' = IF msg.kind \in {"work", "interrupt"}
                         THEN work1stcount + 1 ELSE work1stcount
      /\ pc' \in {"listening", "done"}
      /\ pc' = "done" => work1stcount' = Cardinality(Keys)
  <2>1. CASE OnConfirmation
    BY <1>2, <1>3, <2>1
    DEF OnConfirmation, Reads, clientVars, countVars, outputVars, told
  <2>2. CASE OnPing
    BY <1>2, <1>3, <2>2 DEF OnPing, Reads, outputVars, told
  <2>3. CASE OnResult
    BY <1>2, <1>3, <2>3 DEF OnResult, Reads, outputVars, told
  <2>4. CASE OnCpResult
    BY <1>2, <1>3, <2>4 DEF OnCpResult, Reads, countVars, told
  <2> QED
    BY <2>1, <2>2, <2>3, <2>4 DEF Listen
<1>6. OnlyCopy'
  BY <1>2, StillHeld DEF IInv, OnlyCopy
<1>7. PICK ended \in SUBSET Maids : Read(ended)
  BY <1>2 DEF IInv
<1>8. EndsWith(ended, msg) \in SUBSET Maids
  BY <1>4 DEF EndsWith
<1>9. Read(EndsWith(ended, msg))'
  <2>1. PICK got, more : got = told /\ more = told'
    OBVIOUS
  <2>2. Due \in [Maids -> SUBSET Minions]
    BY MaidAssumption DEF Due, Matched
  <2>3. InOrder(wrapMesage, Due, got, ended)
    BY <1>7, <2>1 DEF Read
  <2>4. /\ InOrder(wrapMesage, Due, more, EndsWith(ended, msg))'
        /\ msg.kind \in {"work", "interrupt"} => msg.sub_ip \notin ended
    <3>1. got \subseteq more /\ (msg.kind = "data" => msg.items \subseteq more)
      BY <1>5, <2>1
    <3> QED
      BY <1>2, <1>4, <1>t, <2>2, <2>3, <3>1, TurnInOrder, WrapMesageType
  <2>5. IsFiniteSet(ended)
    BY MaidAssumption, FS_Subset
  <2>6. Cardinality(EndsWith(ended, msg)) = work1stcount'
    BY <1>5, <1>7, <2>4, <2>5, FS_AddElement DEF EndsWith, Read
  <2> QED
    BY <2>1, <2>4, <2>6 DEF Read
<1> QED
  BY <1>2, <1>5, <1>6, <1>8, <1>9, <1>t DEF IInv

\* What the connection takes with it counts as lost.
LEMMA LoseConnectionKeeps == IInv /\ LoseConnection => IInv'
<1> SUFFICES ASSUME IInv, LoseConnection PROVE IInv'
  OBVIOUS
<1>t. TypeOK /\ TypeOK' /\ MaidTypeOK /\ Topic \in Topics
  BY TypeStep, CpAssumption DEF IInv, TypeOK, Next, Client
<1>1. /\ pc = "listening" /\ pc' \in {"listening", "raised"}
      /\ UNCHANGED <<cmdq, tasks, work1stcount, told>>
      /\ lost \subseteq lost' /\ {Topic} \X Queued(Topic) \subseteq lost'
  BY DEF LoseConnection, LoseQueues, countVars, outputVars, told
<1>2. pc' = "listening" => inbox'[Topic] = <<[kind |-> "subscribe"]>>
  BY <1>t DEF LoseConnection, Subscribe, MaidTypeOK
<1>3. OnlyCopy'
  BY <1>1, StillHeld DEF IInv, OnlyCopy
<1>4. PICK ended \in SUBSET Maids : Read(ended)
  BY <1>1 DEF IInv
<1>5. ASSUME pc' = "listening" PROVE Read(ended)'
  <2>1. PICK got : got = told
    OBVIOUS
  <2>2. InOrder(wrapMesage, Due, got, ended)
    BY <1>4, <2>1 DEF Read
  <2>3. /\ Len(inbox[Topic]) \in Nat
        /\ DOMAIN inbox[Topic] = 1 .. Len(inbox[Topic])
    BY <1>t, QueueType
  <2>4. ClosesOnce(wrapMesage, ended)' /\ Owes(wrapMesage, Due, got)'
    BY <1>1, <1>2, <1>5, <2>2, <2>3, QueueGone, WrapMesageType DEF InOrder
  <2>5. Paid(wrapMesage, Due, got, ended)'
    BY <1>1, <2>2, PaidStays DEF InOrder
  <2>6. ReturnsAhead(wrapMesage, ended)'
    BY <1>2, <1>5, WrapMesageType DEF ReturnsAhead
  <2> QED
    BY <1>1, <1>4, <2>1, <2>4, <2>5, <2>6 DEF Read, InOrder
<1> QED
  BY <1>1, <1>3, <1>5, <1>t DEF IInv

\* Every step keeps the invariant.
LEMMA InvariantStep == IInv /\ [Next]_vars => IInv'
<1> SUFFICES ASSUME IInv, [Next]_vars PROVE IInv'
  OBVIOUS
<1>1. CASE UNCHANGED vars
  <2>1. /\ UNCHANGED <<cmdq, tasks, inbox, lost>>
        /\ UNCHANGED <<pc, work1stcount, told>>
    BY <1>1 DEF vars, maidVars, clientVars, countVars, outputVars, told
  <2>2. TypeOK'
    BY TypeStep DEF IInv
  <2>3. OnlyCopy' /\ (Fresh => Fresh')
    BY <2>1, StillInOrder, WrapMesageType DEF IInv, OnlyCopy, Fresh
  <2>4. ASSUME NEW ended, Read(ended) PROVE Read(ended)'
    <3>1. PICK got : got = told
      OBVIOUS
    <3>2. InOrder(wrapMesage, Due, got, ended)'
      BY <2>1, <2>4, <3>1, StillInOrder DEF Read
    <3> QED
      BY <2>1, <2>4, <3>1, <3>2 DEF Read
  <2> QED
    BY <2>1, <2>2, <2>3, <2>4 DEF IInv
<1> QED
  BY <1>1, SubscribeKeeps, PublishKeeps, ListenKeeps, LoseConnectionKeeps,
     MaidKeeps
  DEF Next, Client, Terminated

\* The invariant holds in every state.
LEMMA Invariant == Spec => []IInv
BY InvariantInit, InvariantStep, PTL DEF Spec

\* When the copy has ended and the super master knows every maid, the ends
\* of all the maids have been read.
LEMMA EveryoneEnded ==
    ASSUME IInv, Maids \subseteq Keys, pc = "done"
    PROVE  InOrder(wrapMesage, Due, told, Maids)
<1>1. PICK ended \in SUBSET Maids : Read(ended)
  BY DEF IInv
<1>2. Cardinality(ended) = Cardinality(Maids)
  BY <1>1, CpAssumption DEF IInv, Read
<1>3. ended = Maids
  BY <1>2, MaidAssumption, FS_Subset
<1> QED
  BY <1>1, <1>3 DEF Read

\* When the copy has ended, every maid is through with it, and no report of
\* one is left in the queue: the WORK of a maid is behind all it has sent.
THEOREM CopyIsOver == Maids \subseteq Keys => (Spec => []DoneMeansDone)
<1> SUFFICES ASSUME Maids \subseteq Keys PROVE Spec => []DoneMeansDone
  OBVIOUS
<1>1. IInv => DoneMeansDone
  <2>1. SUFFICES ASSUME IInv, pc = "done"
                 PROVE  /\ \A m \in Maids : ~Busy(m)
                        /\ \A i \in 1 .. Len(inbox[Topic]) :
                              inbox[Topic][i].kind # "data"
    BY CpAssumption DEF DoneMeansDone
  <2>2. /\ \A m \in Maids : ~Holds(m, wrapMesage)
        /\ \A i \in 1 .. Len(inbox[Topic]) : inbox[Topic][i].kind # "data"
    BY <2>1, EveryoneEnded, AllEnded, WrapMesageType
  <2>3. ASSUME NEW m \in Maids PROVE ~Busy(m)
    <3>t. cmdq[m] \in Seq(Command) /\ tasks[m] \in SUBSET Task
      BY <2>1 DEF IInv, TypeOK, MaidTypeOK
    <3>h. \A d \in Command : ~Holds(m, d)
      BY <2>1, <2>2 DEF IInv, OnlyCopy
    <3>1. cmdq[m] = <<>>
      <4>1. SUFFICES ASSUME cmdq[m] # <<>> PROVE FALSE
        OBVIOUS
      <4>2. 1 \in 1 .. Len(cmdq[m]) /\ cmdq[m][1] \in Command
        BY <3>t, <4>1, EmptySeq, ElementOfSeq, LenProperties
      <4> QED
        BY <3>h, <4>2 DEF Holds, Awaits
    <3>2. tasks[m] = {}
      BY <3>t, <3>h DEF Holds, Greenlets, Task
    <3> QED
      BY <3>1, <3>2 DEF Busy
  <2> QED
    BY <2>2, <2>3
<1> QED
  BY <1>1, Invariant, PTL

\* What is printed by then is whole, unless a maid has refused the copy: of
\* each minion of the target there is a line, or a traceback in its place, or
\* its result got lost with the connection.
THEOREM CopyIsWhole == Maids \subseteq Keys => (Spec => []NobodyMissing)
<1> SUFFICES ASSUME Maids \subseteq Keys PROVE Spec => []NobodyMissing
  OBVIOUS
<1>1. IInv => NobodyMissing
  <2>1. SUFFICES ASSUME IInv, pc = "done", NEW m \in Maids
                 PROVE  \/ Refuses(m, wrapMesage)
                        \/ Matched(m, Tgt) \subseteq told \cup missing
    BY CpAssumption DEF NobodyMissing, told
  <2>2. PICK got : got = told
    OBVIOUS
  <2>3. Paid(wrapMesage, Due, got, Maids)
    BY <2>1, <2>2, EveryoneEnded DEF InOrder
  <2>4. Refuses(m, wrapMesage) \/ \A k \in Due[m] : Came(wrapMesage, k, 0, got)
    BY <2>3 DEF Paid
  <2>5. ASSUME NEW k \in Due[m], Came(wrapMesage, k, 0, got)
        PROVE  k \in told \cup missing
    <3>1. k \in Minions
      BY MaidAssumption DEF Due, Matched
    <3> QED
      BY <2>2, <2>5, <3>1, WrapMesageType DEF Came, missing
  <2> QED
    BY <2>4, <2>5 DEF Due
<1> QED
  BY <1>1, Invariant, PTL
=============================================================================
