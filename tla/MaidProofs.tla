----------------------------- MODULE MaidProofs -----------------------------
(***************************************************************************)
(* Facts about the bus and the maids that the proofs about the clients     *)
(* use: the types of the variables of Maid; the way of one command through *)
(* the maids, and the order of its messages in the queue of its topic;     *)
(* commands that share a topic; clients side by side.                      *)
(***************************************************************************)
EXTENDS Maid, TLAPS, SequenceTheorems

\* Publishing keeps the queues of the private topics well typed, and what is
\* lost are results of minions.
LEMMA PublishType ==
    ASSUME inbox \in [Topics -> Seq(Message)], lost \subseteq Topics \X Minions,
           NEW t \in Topics, NEW msg \in Message, Publish(t, msg)
    PROVE  /\ inbox' \in [Topics -> Seq(Message)]
           /\ lost' \subseteq Topics \X Minions
<1>1. Append(inbox[t], msg) \in Seq(Message)
  BY AppendProperties
<1>2. CASE t \in subscribed
  BY <1>1, <1>2 DEF Publish
<1>3. CASE t \notin subscribed
  <2>1. Named(msg) \subseteq Minions
    BY DEF Named, Message, Confirmation, Signal, Data
  <2> QED
    BY <1>3, <2>1 DEF Publish
<1> QED
  BY <1>2, <1>3

\* Every message that a maid publishes is a message.
LEMMA MaidMessages ==
    ASSUME NEW m \in Maids, NEW S \in SUBSET Minions, NEW o \in Outcome
    PROVE  /\ PING(m) \in Message
           /\ WORK(m) \in Message
           /\ INTERRUPT(m) \in Message
           /\ Ret(S, o) \in Message
BY DEF PING, WORK, INTERRUPT, Ret, Message, Signal, Data

\* The results that a maid has to report are sets of minions.
LEMMA ResultsType ==
    ASSUME NEW m \in Maids, NEW c \in Command
    PROVE  /\ Matched(m, c.tgt) \in SUBSET Minions
           /\ Results(m, c) \in SUBSET SUBSET Minions
<1>1. Accepted[m] \in SUBSET Minions /\ c.tgt.ids \in SUBSET Minions
  BY MaidAssumption DEF Command, Target
<1>2. Matched(m, c.tgt) \in SUBSET Minions
  BY <1>1 DEF Matched
<1>3. JobCache(m) \in SUBSET Minions
  BY <1>1 DEF JobCache
<1>4. \/ c.type \in {FIND_ACCEPT, LIST_JOBS}
      \/ c.type \in {ASYNC_RUN, LOOKUP_JID}
      \/ c.type \in {SALT_CP, SYNC_RUN}
  BY DEF Command, FunctionType, Targeted
<1>5. CASE c.type \in {FIND_ACCEPT, LIST_JOBS}
  BY <1>1, <1>2, <1>3, <1>5 DEF Results, FIND_ACCEPT, LIST_JOBS
<1>6. CASE c.type \in {ASYNC_RUN, LOOKUP_JID}
  BY <1>2, <1>6 DEF Results, FIND_ACCEPT, LIST_JOBS, ASYNC_RUN, LOOKUP_JID
<1>7. CASE c.type \in {SALT_CP, SYNC_RUN}
  <2>1. Results(m, c) \in {{Matched(m, c.tgt)}, {{}},
                           {{k} : k \in Matched(m, c.tgt)}}
    BY <1>7 DEF Results, FIND_ACCEPT, LIST_JOBS, ASYNC_RUN, LOOKUP_JID,
                SALT_CP, SYNC_RUN
  <2> QED
    BY <1>2, <2>1
<1> QED
  BY <1>2, <1>4, <1>5, <1>6, <1>7

\* A maid that takes a command.
LEMMA MaidReceiveType ==
    ASSUME MaidTypeOK, NEW m \in Maids, MaidReceive(m)
    PROVE  MaidTypeOK'
<1> DEFINE c == Head(cmdq[m])
<1>1. cmdq[m] \in Seq(Command) /\ cmdq[m] # <<>>
  BY DEF MaidTypeOK, MaidReceive
<1>2. c \in Command /\ Tail(cmdq[m]) \in Seq(Command)
  BY <1>1, HeadTailProperties
<1>3. c.topic \in Topics
  BY <1>2 DEF Command
<1>4. inbox' \in [Topics -> Seq(Message)] /\ lost' \subseteq Topics \X Minions
  <2>1. Publish(c.topic, PING(m))
    BY DEF MaidReceive
  <2>2. PING(m) \in Message
    BY DEF PING, Message, Signal
  <2> HIDE DEF c
  <2> QED
    BY <1>3, <2>1, <2>2, PublishType DEF MaidTypeOK
<1>5. Greenlet(c, PoolPlace(m)) \in Task
  BY <1>2 DEF Task, Greenlet, PoolPlace
<1>6. tasks' \in [Maids -> SUBSET Task]
  BY <1>5 DEF MaidTypeOK, MaidReceive
<1>7. cmdq' \in [Maids -> Seq(Command)]
  BY <1>2 DEF MaidTypeOK, MaidReceive
<1> QED
  BY <1>4, <1>6, <1>7 DEF MaidTypeOK, MaidReceive

\* A greenlet that is through with a result is still one, for its command.
LEMMA ReportedTask ==
    ASSUME NEW tk \in Task, NEW S, NEW R \in SUBSET Minions
    PROVE  /\ Reported(tk, S, R) \in Task
           /\ Reported(tk, S, R).cmd = tk.cmd
           /\ Reported(tk, S, R).phase = tk.phase
           /\ Reported(tk, S, R).todo = tk.todo \ {S}
           /\ Reported(tk, S, R).returned = tk.returned \cup R
BY DEF Task, Reported

\* A greenlet that publishes a result or drops one is through with it.
LEMMA StepReports ==
    ASSUME NEW m, NEW tk, TaskEmit(m, tk) \/ TaskDrop(m, tk)
    PROVE  \E S \in tk.todo : \E R \in {{}, S} :
              tasks' = [tasks EXCEPT ![m] = (@ \ {tk}) \cup {Reported(tk, S, R)}]
<1>1. CASE TaskEmit(m, tk)
  <2>1. PICK S \in tk.todo, o \in Outcome :
          tasks' = [tasks EXCEPT ![m] = (@ \ {tk}) \cup
                {Reported(tk, S, IF o = "no_return" THEN {} ELSE S)}]
    BY <1>1 DEF TaskEmit
  <2>2. (IF o = "no_return" THEN {} ELSE S) \in {{}, S}
    OBVIOUS
  <2> QED
    BY <2>1, <2>2
<1>2. CASE TaskDrop(m, tk)
  BY <1>2 DEF TaskDrop
<1> QED
  BY <1>1, <1>2

\* A greenlet that runs without a fault.
LEMMA TaskType ==
    ASSUME MaidTypeOK, NEW m \in Maids, NEW tk \in tasks[m],
           \/ MaidSpawn(m, tk)
           \/ TaskRefuse(m, tk)
           \/ TaskStart(m, tk)
           \/ TaskEmit(m, tk)
           \/ TaskFinish(m, tk)
    PROVE  MaidTypeOK'
<1>1. tk \in Task
  BY DEF MaidTypeOK
<1>2. tk.cmd \in Command /\ tk.cmd.topic \in Topics
  BY <1>1 DEF Task, Command
<1>3. WORK(m) \in Message /\ INTERRUPT(m) \in Message
  BY DEF WORK, INTERRUPT, Message, Signal
<1>4. CASE TaskRefuse(m, tk)
  <2>1. inbox' \in [Topics -> Seq(Message)] /\ lost' \subseteq Topics \X Minions
    BY <1>2, <1>3, <1>4, PublishType DEF MaidTypeOK, TaskRefuse
  <2>2. tasks' \in [Maids -> SUBSET Task]
    BY <1>4 DEF MaidTypeOK, TaskRefuse
  <2> QED
    BY <1>4, <2>1, <2>2 DEF MaidTypeOK, TaskRefuse
<1>5. CASE TaskStart(m, tk)
  <2>1. [tk EXCEPT !.phase = "running", !.todo = Results(m, tk.cmd)] \in Task
    <3>1. Results(m, tk.cmd) \in SUBSET SUBSET Minions
      BY <1>2, ResultsType
    <3> QED
      BY <1>1, <3>1 DEF Task
  <2>2. tasks' \in [Maids -> SUBSET Task]
    BY <1>5, <2>1 DEF MaidTypeOK, TaskStart
  <2>3. sent' \in [Minions -> Nat]
    BY <1>5 DEF MaidTypeOK, TaskStart
  <2> QED
    BY <1>5, <2>2, <2>3 DEF MaidTypeOK, TaskStart
<1>6. CASE TaskEmit(m, tk)
  <2> DEFINE R(S, o) == IF o = "no_return" THEN {} ELSE S
  <2>1. PICK S \in tk.todo, o \in Outcome :
          /\ Publish(tk.cmd.topic, Ret(S, o))
          /\ tasks' = [tasks EXCEPT ![m] = (@ \ {tk}) \cup
                         {Reported(tk, S, R(S, o))}]
    BY <1>6 DEF TaskEmit
  <2>2. S \in SUBSET Minions
    BY <1>1 DEF Task
  <2>3. inbox' \in [Topics -> Seq(Message)] /\ lost' \subseteq Topics \X Minions
    <3>1. Ret(S, o) \in Message
      BY <2>2 DEF Ret, Message, Data
    <3> QED
      BY <1>2, <2>1, <3>1, PublishType DEF MaidTypeOK
  <2>4. Reported(tk, S, R(S, o)) \in Task
    BY <1>1, <2>2, ReportedTask
  <2>5. tasks' \in [Maids -> SUBSET Task]
    BY <2>1, <2>4 DEF MaidTypeOK
  <2> QED
    BY <1>6, <2>3, <2>5 DEF MaidTypeOK, TaskEmit
<1>7. CASE TaskFinish(m, tk)
  <2>1. inbox' \in [Topics -> Seq(Message)] /\ lost' \subseteq Topics \X Minions
    BY <1>2, <1>3, <1>7, PublishType DEF MaidTypeOK, TaskFinish
  <2>2. tasks' \in [Maids -> SUBSET Task]
    BY <1>7 DEF MaidTypeOK, TaskFinish
  <2> QED
    BY <1>7, <2>1, <2>2 DEF MaidTypeOK, TaskFinish
<1>8. CASE MaidSpawn(m, tk)
  <2>1. [tk EXCEPT !.phase = "spawned"] \in Task
    BY <1>1 DEF Task
  <2>2. tasks' \in [Maids -> SUBSET Task]
    BY <1>8, <2>1 DEF MaidTypeOK, MaidSpawn
  <2> QED
    BY <1>8, <2>2 DEF MaidTypeOK, MaidSpawn
<1> QED
  BY <1>4, <1>5, <1>6, <1>7, <1>8

\* A fault is counted.
LEMMA FaultType ==
    ASSUME faults \in [FaultKinds -> Nat], NEW kind, Fault(kind)
    PROVE  faults' \in [FaultKinds -> Nat]
<1>1. faults' = [faults EXCEPT ![kind] = faults[kind] + 1]
  BY DEF Fault
<1>2. CASE kind \in FaultKinds
  BY <1>1, <1>2
<1>3. CASE kind \notin FaultKinds
  BY <1>1, <1>3
<1> QED
  BY <1>2, <1>3

\* A maid or a greenlet that fails, and a maid that starts again.
LEMMA MaidFaultType ==
    ASSUME MaidTypeOK, NEW m \in Maids, MaidFault(m)
    PROVE  MaidTypeOK'
<1>1. ASSUME NEW kind, Fault(kind) PROVE faults' \in [FaultKinds -> Nat]
  BY <1>1, FaultType DEF MaidTypeOK
<1>2. ASSUME NEW tk \in tasks[m], TaskDrop(m, tk) PROVE MaidTypeOK'
  <2>1. PICK S \in tk.todo :
          /\ tasks' = [tasks EXCEPT ![m] = (@ \ {tk}) \cup {Reported(tk, S, {})}]
          /\ lost' = lost \cup ({tk.cmd.topic} \X S)
    BY <1>2 DEF TaskDrop
  <2>2. tk \in Task /\ tk.cmd.topic \in Topics /\ S \in SUBSET Minions
    BY DEF MaidTypeOK, Task, Command
  <2>3. Reported(tk, S, {}) \in Task
    BY <2>2, ReportedTask
  <2>4. tasks' \in [Maids -> SUBSET Task]
    BY <2>1, <2>3 DEF MaidTypeOK
  <2>5. lost' \subseteq Topics \X Minions
    BY <2>1, <2>2 DEF MaidTypeOK
  <2> QED
    BY <1>1, <1>2, <2>4, <2>5 DEF MaidTypeOK, TaskDrop
<1>3. ASSUME NEW tk \in tasks[m], TaskAbort(m, tk) PROVE MaidTypeOK'
  BY <1>1, <1>3 DEF MaidTypeOK, TaskAbort
<1>4. CASE MaidCrash(m)
  BY <1>1, <1>4 DEF MaidTypeOK, MaidCrash
<1>5. CASE MaidRestart(m)
  BY <1>5 DEF MaidTypeOK, MaidRestart
<1>6. ASSUME NEW tk \in tasks[m], TaskRepeat(m, tk) PROVE MaidTypeOK'
  <2>1. PICK k \in tk.returned, o \in Outcome : Publish(tk.cmd.topic, Ret({k}, o))
    BY <1>6 DEF TaskRepeat
  <2>2. tk \in Task /\ tk.cmd.topic \in Topics /\ {k} \in SUBSET Minions
    BY DEF MaidTypeOK, Task, Command
  <2>3. Ret({k}, o) \in Message
    BY <2>2 DEF Ret, Message, Data
  <2>4. inbox' \in [Topics -> Seq(Message)] /\ lost' \subseteq Topics \X Minions
    BY <2>1, <2>2, <2>3, PublishType DEF MaidTypeOK
  <2> QED
    BY <1>1, <1>6, <2>4 DEF MaidTypeOK, TaskRepeat
<1> QED
  BY <1>2, <1>3, <1>4, <1>5, <1>6 DEF MaidFault

\* Every step of the maids keeps the types.
LEMMA MaidNextType ==
    ASSUME MaidTypeOK, MaidNext
    PROVE  MaidTypeOK'
<1>1. PICK m \in Maids : MaidWork(m) \/ MaidFault(m)
  BY DEF MaidNext
<1> QED
  BY <1>1, MaidReceiveType, TaskType, MaidFaultType DEF MaidWork

\* The initial states are well typed.
LEMMA MaidInitType == MaidInit => MaidTypeOK
<1> SUFFICES ASSUME MaidInit PROVE MaidTypeOK
  OBVIOUS
<1>1. [f \in FaultKinds |-> 0] \in [FaultKinds -> Nat]
  OBVIOUS
<1>2. <<>> \in Seq(Command) /\ <<>> \in Seq(Message)
  OBVIOUS
<1> QED
  BY <1>1, <1>2 DEF MaidInit, MaidTypeOK

\* What is lost with a connection are results of minions.
LEMMA LoseQueuesType ==
    ASSUME MaidTypeOK, NEW T \in SUBSET Topics, LoseQueues(T)
    PROVE  lost' \subseteq Topics \X Minions
<1>1. ASSUME NEW t \in Topics PROVE Queued(t) \subseteq Minions
  <2>1. ASSUME NEW i \in DOMAIN inbox[t] PROVE Named(inbox[t][i]) \subseteq Minions
    <3>1. inbox[t] \in Seq(Message)
      BY DEF MaidTypeOK
    <3>2. inbox[t][i] \in Message
      BY <3>1, ElementOfSeq
    <3> QED
      BY <3>2 DEF Named, Message, Confirmation, Signal, Data
  <2> QED
    BY <2>1 DEF Queued
<1> QED
  BY <1>1 DEF LoseQueues, MaidTypeOK

\* Publishing a command keeps the maids' queues well typed.
LEMMA PublishToSyndicSubType ==
    ASSUME cmdq \in [Maids -> Seq(Command)], NEW c \in Command,
           PublishToSyndicSub(c)
    PROVE  cmdq' \in [Maids -> Seq(Command)]
<1>1. \A m \in Maids : Append(cmdq[m], c) \in Seq(Command)
  BY AppendProperties
<1> QED
  BY <1>1 DEF PublishToSyndicSub

\* Subscribing leaves one message, the confirmation, in the topic's queue.
LEMMA SubscribeType ==
    ASSUME inbox \in [Topics -> Seq(Message)], subscribed \subseteq Topics,
           NEW t \in Topics, Subscribe(t)
    PROVE  /\ inbox' \in [Topics -> Seq(Message)]
           /\ subscribed' \subseteq Topics
<1>1. <<[kind |-> "subscribe"]>> \in Seq(Message)
  BY DEF Message, Confirmation
<1> QED
  BY <1>1 DEF Subscribe
-----------------------------------------------------------------------------
(* One command and the maids: where it is, and what a step does to it.     *)
(*                                                                         *)
(* A maid holds a command in its queue or in a greenlet.  Single says that *)
(* no maid holds it twice, and Own that it has its topic for itself.  The  *)
(* lemmas of this section reduce the steps of the maids to what becomes of *)
(* one such command, whatever else the maids have to do.                   *)

\* the command waits on maid m's subscription
Awaits(m, c) == \E i \in 1 .. Len(cmdq[m]) : cmdq[m][i] = c

\* the greenlets of maid m that work on the command
Greenlets(m, c) == {tk \in tasks[m] : tk.cmd = c}

\* maid m still has something to do for the command
Holds(m, c) == Awaits(m, c) \/ Greenlets(m, c) # {}

\* no maid holds the command twice
Single(c) == \A m \in Maids :
    /\ \A i, j \in 1 .. Len(cmdq[m]) :
          cmdq[m][i] = c /\ cmdq[m][j] = c => i = j
    /\ Awaits(m, c) => Greenlets(m, c) = {}
    /\ \A tk, tl \in Greenlets(m, c) : tk = tl

\* no maid holds another command of the same topic
Own(c) == \A m \in Maids : \A d \in Command :
    Holds(m, d) /\ d.topic = c.topic => d = c

\* what a step does to the queue of topic t
QueueGets(t, msg) ==
    /\ t \in subscribed
    /\ Len(inbox'[t]) = Len(inbox[t]) + 1
    /\ \A i \in 1 .. Len(inbox[t]) : inbox'[t][i] = inbox[t][i]
    /\ inbox'[t][Len(inbox[t]) + 1] = msg

QueueSame(t) == inbox'[t] = inbox[t]

\* The queue of a topic is a sequence of messages.
LEMMA QueueType ==
    ASSUME MaidTypeOK, NEW t \in Topics
    PROVE  /\ inbox[t] \in Seq(Message)
           /\ Len(inbox[t]) \in Nat
           /\ \A i \in 1 .. Len(inbox[t]) : inbox[t][i] \in Message
<1>1. inbox[t] \in Seq(Message)
  BY DEF MaidTypeOK
<1> QED
  BY <1>1, LenProperties, ElementOfSeq

\* PUBLISH appends its message to the queue of its topic if that has a
\* subscriber, and touches the queue of no other topic.
LEMMA PublishQueues ==
    ASSUME MaidTypeOK, NEW t \in Topics, NEW u \in Topics,
           NEW msg \in Message, Publish(u, msg)
    PROVE  /\ lost \subseteq lost'
           /\ u # t => QueueSame(t)
           /\ u = t /\ t \in subscribed => QueueGets(t, msg) /\ UNCHANGED lost
           /\ u = t /\ t \notin subscribed =>
                /\ QueueSame(t)
                /\ {t} \X Named(msg) \subseteq lost'
<1>1. inbox[t] \in Seq(Message)
  BY QueueType
<1>2. CASE u \in subscribed
  <2>1. inbox' = [inbox EXCEPT ![u] = Append(@, msg)] /\ UNCHANGED lost
    BY <1>2 DEF Publish
  <2>2. CASE u = t
    <3>1. inbox'[t] = Append(inbox[t], msg)
      BY <2>1, <2>2 DEF MaidTypeOK
    <3> QED
      BY <1>1, <1>2, <2>1, <2>2, <3>1, AppendProperties DEF QueueGets
  <2>3. CASE u # t
    BY <2>1, <2>3 DEF MaidTypeOK, QueueSame
  <2> QED
    BY <1>2, <2>1, <2>2, <2>3
<1>3. CASE u \notin subscribed
  BY <1>3 DEF Publish, QueueSame
<1> QED
  BY <1>2, <1>3

\* The same for the topic that is published on.
LEMMA PublishOwn ==
    ASSUME MaidTypeOK, NEW t \in Topics, NEW msg \in Message, Publish(t, msg)
    PROVE  /\ lost \subseteq lost'
           /\ t \in subscribed => QueueGets(t, msg) /\ UNCHANGED lost
           /\ t \notin subscribed => /\ QueueSame(t)
                                    /\ {t} \X Named(msg) \subseteq lost'
BY PublishQueues

\* No step of a maid touches the subscriptions.
LEMMA MaidsKeepSubscriptions == MaidNext => UNCHANGED subscribed
BY DEF MaidNext, MaidWork, MaidFault, MaidReceive, MaidSpawn, TaskRefuse,
       TaskStart, TaskEmit, TaskFinish, TaskRepeat, TaskDrop, TaskAbort,
       MaidCrash, MaidRestart

\* What is lost stays lost.
LEMMA MaidsLose == MaidNext => lost \subseteq lost'
<1> SUFFICES ASSUME MaidNext PROVE lost \subseteq lost'
  OBVIOUS
<1>p. ASSUME NEW t, NEW msg, Publish(t, msg) PROVE lost \subseteq lost'
  BY <1>p DEF Publish
<1>1. PICK y \in Maids : MaidWork(y) \/ MaidFault(y)
  BY DEF MaidNext
<1>2. MaidReceive(y) => lost \subseteq lost'
  BY <1>p DEF MaidReceive
<1>3. ASSUME NEW tk, TaskRefuse(y, tk) \/ TaskFinish(y, tk)
      PROVE  lost \subseteq lost'
  BY <1>3, <1>p DEF TaskRefuse, TaskFinish
<1>4. ASSUME NEW tk, TaskEmit(y, tk) \/ TaskRepeat(y, tk) PROVE lost \subseteq lost'
  <2>1. CASE TaskEmit(y, tk)
    <3>1. PICK S \in tk.todo, o \in Outcome : Publish(tk.cmd.topic, Ret(S, o))
      BY <2>1 DEF TaskEmit
    <3> QED
      BY <1>p, <3>1
  <2>2. CASE TaskRepeat(y, tk)
    <3>1. PICK k \in tk.returned, o \in Outcome \ {"no_return"} :
            Publish(tk.cmd.topic, Ret({k}, o))
      BY <2>2 DEF TaskRepeat
    <3> QED
      BY <1>p, <3>1
  <2> QED
    BY <1>4, <2>1, <2>2
<1>5. ASSUME NEW tk, MaidSpawn(y, tk) \/ TaskStart(y, tk) \/ TaskDrop(y, tk)
                     \/ TaskAbort(y, tk)
      PROVE  lost \subseteq lost'
  BY <1>5 DEF MaidSpawn, TaskStart, TaskDrop, TaskAbort
<1>6. MaidCrash(y) \/ MaidRestart(y) => lost \subseteq lost'
  BY DEF MaidCrash, MaidRestart
<1> QED
  BY <1>1, <1>2, <1>3, <1>4, <1>5, <1>6 DEF MaidWork, MaidFault

\* in maid m's pool, a greenlet makes place for another one
Replaces(m, tk, new) == tasks' = [tasks EXCEPT ![m] = (@ \ {tk}) \cup {new}]

\* A greenlet is replaced by another one for the same command.
LEMMA GreenletReplaced ==
    ASSUME MaidTypeOK, NEW c, Single(c), NEW m \in Maids, NEW tk \in tasks[m],
           NEW new, new.cmd = tk.cmd, Replaces(m, tk, new)
    PROVE  /\ \A x \in Maids \ {m} : Greenlets(x, c)' = Greenlets(x, c)
           /\ tk.cmd = c => /\ Greenlets(m, c) = {tk}
                            /\ Greenlets(m, c)' = {new}
           /\ tk.cmd # c => Greenlets(m, c)' = Greenlets(m, c)
<1>1. /\ \A x \in Maids \ {m} : tasks'[x] = tasks[x]
      /\ tasks'[m] = (tasks[m] \ {tk}) \cup {new}
  BY DEF MaidTypeOK, Replaces
<1>2. tk.cmd = c => Greenlets(m, c) = {tk}
  BY DEF Single, Greenlets
<1> QED
  BY <1>1, <1>2 DEF Greenlets

\* A greenlet ends.
LEMMA GreenletRemoved ==
    ASSUME MaidTypeOK, NEW c, Single(c), NEW m \in Maids, NEW tk \in tasks[m],
           tasks' = [tasks EXCEPT ![m] = @ \ {tk}]
    PROVE  /\ \A x \in Maids \ {m} : Greenlets(x, c)' = Greenlets(x, c)
           /\ tk.cmd = c => /\ Greenlets(m, c) = {tk}
                            /\ Greenlets(m, c)' = {}
           /\ tk.cmd # c => Greenlets(m, c)' = Greenlets(m, c)
<1>1. /\ \A x \in Maids \ {m} : tasks'[x] = tasks[x]
      /\ tasks'[m] = tasks[m] \ {tk}
  BY DEF MaidTypeOK
<1>2. tk.cmd = c => Greenlets(m, c) = {tk}
  BY DEF Single, Greenlets
<1> QED
  BY <1>1, <1>2 DEF Greenlets

\* What a step of maid m makes of command c: it takes the command up, gets
\* the greenlet ready, begins to run it, delivers a result, forgets one,
\* repeats one, closes the command, fails, or does something else.
TakesUp(m, c) ==
    /\ Awaits(m, c) /\ ~Awaits(m, c)'
    /\ \E new : new.phase # "running" /\ Greenlets(m, c)' = {new}
    /\ Publish(c.topic, PING(m))

GetsReady(m, c) ==
    /\ \E tk : Greenlets(m, c) = {tk} /\ tk.phase # "running"
    /\ \E new : new.phase # "running" /\ Greenlets(m, c)' = {new}
    /\ Awaits(m, c)' = Awaits(m, c)
    /\ UNCHANGED <<inbox, lost>>

BeginsRun(m, c) ==
    /\ \E tk : Greenlets(m, c) = {tk} /\ tk.phase # "running"
    /\ ~Refuses(m, c)
    /\ \E new : /\ new.phase = "running" /\ new.todo = Results(m, c)
                /\ Greenlets(m, c)' = {new}
    /\ Awaits(m, c)' = Awaits(m, c)
    /\ UNCHANGED <<inbox, lost>>

ResultLeaves(m, c, S) ==
    /\ \E tk, new :
         /\ Greenlets(m, c) = {tk} /\ Greenlets(m, c)' = {new}
         /\ tk.phase = "running" /\ new.phase = "running"
         /\ S \in tk.todo /\ new.todo = tk.todo \ {S}
    /\ Awaits(m, c)' = Awaits(m, c)

Delivers(m, c) ==
    \E S \in SUBSET Minions, o \in Outcome :
        ResultLeaves(m, c, S) /\ Publish(c.topic, Ret(S, o))

Forgets(m, c) ==
    /\ c.type = SYNC_RUN
    /\ \E S \in SUBSET Minions :
         ResultLeaves(m, c, S) /\ lost' = lost \cup ({c.topic} \X S)
    /\ UNCHANGED inbox

Repeats(m, c) ==
    /\ c.type = SYNC_RUN
    /\ \E tk : /\ Greenlets(m, c) = {tk} /\ tk.phase = "running"
               /\ \E k \in tk.returned \cap Minions, o \in Outcome \ {"no_return"} :
                    Publish(c.topic, Ret({k}, o))
    /\ Greenlets(m, c)' = Greenlets(m, c)
    /\ Awaits(m, c)' = Awaits(m, c)

Closes(m, c) ==
    /\ \E tk : /\ Greenlets(m, c) = {tk}
               /\ \/ Refuses(m, c) /\ Publish(c.topic, INTERRUPT(m))
                  \/ /\ tk.phase = "running" /\ tk.todo = {}
                     /\ Publish(c.topic, WORK(m))
    /\ Greenlets(m, c)' = {}
    /\ Awaits(m, c)' = Awaits(m, c)

Fails(m, c) ==
    /\ Greenlets(m, c)' = {}
    /\ Awaits(m, c)' => Awaits(m, c)
    /\ UNCHANGED <<inbox, lost>>

Same(m, c) ==
    /\ Greenlets(m, c)' = Greenlets(m, c)
    /\ Awaits(m, c)' = Awaits(m, c)

\* the step does nothing for c, and nothing to its topic if c owns that
Elsewhere(m, c) ==
    /\ Same(m, c)
    /\ Own(c) => /\ QueueSame(c.topic)
                 /\ \A k : <<c.topic, k>> \in lost' => <<c.topic, k>> \in lost

StepsOn(m, c) ==
    \/ TakesUp(m, c) \/ GetsReady(m, c) \/ BeginsRun(m, c) \/ Delivers(m, c)
    \/ Forgets(m, c) \/ Repeats(m, c) \/ Closes(m, c) \/ Fails(m, c)
    \/ Elsewhere(m, c)

\* What waits behind the head of a queue.
LEMMA QueueBehindHead ==
    ASSUME MaidTypeOK, NEW m \in Maids, cmdq[m] # <<>>
    PROVE  /\ Len(cmdq[m]) \in Nat \ {0}
           /\ Head(cmdq[m]) = cmdq[m][1]
           /\ Len(Tail(cmdq[m])) = Len(cmdq[m]) - 1
           /\ \A i \in 1 .. Len(cmdq[m]) - 1 : Tail(cmdq[m])[i] = cmdq[m][i + 1]
           /\ \A i \in 1 .. Len(cmdq[m]) : cmdq[m][i] \in Command
<1>1. cmdq[m] \in Seq(Command)
  BY DEF MaidTypeOK
<1> QED
  BY <1>1, HeadTailProperties, ElementOfSeq, LenProperties, EmptySeq

\* What a maid publishes about another command of its own does not concern c.
LEMMA OtherCommand ==
    ASSUME MaidTypeOK, NEW c \in Command, Own(c), NEW m \in Maids,
           NEW d \in Command, d # c, Holds(m, d), NEW msg \in Message,
           Publish(d.topic, msg)
    PROVE  /\ QueueSame(c.topic)
           /\ \A k : <<c.topic, k>> \in lost' => <<c.topic, k>> \in lost
<1>1. d.topic # c.topic
  BY DEF Own
<1>2. c.topic \in Topics /\ d.topic \in Topics
  BY DEF Command
<1>3. QueueSame(c.topic)
  BY <1>1, <1>2, PublishQueues
<1> QED
  BY <1>1, <1>3 DEF Publish

\* A maid that takes the next command from its queue.
LEMMA ReceiveStepsOn ==
    ASSUME MaidTypeOK, NEW c \in Command, Single(c), NEW m \in Maids,
           MaidReceive(m)
    PROVE  /\ StepsOn(m, c)
           /\ \A x \in Maids \ {m} : Same(x, c)
<1> DEFINE d == Head(cmdq[m])
           new == Greenlet(d, PoolPlace(m))
<1>1. /\ cmdq[m] # <<>>
      /\ Publish(d.topic, PING(m))
      /\ tasks' = [tasks EXCEPT ![m] = @ \cup {new}]
      /\ cmdq' = [cmdq EXCEPT ![m] = Tail(@)]
  BY DEF MaidReceive
<1>2. /\ tasks'[m] = tasks[m] \cup {new}
      /\ cmdq'[m] = Tail(cmdq[m])
      /\ \A x \in Maids \ {m} : tasks'[x] = tasks[x] /\ cmdq'[x] = cmdq[x]
  BY <1>1 DEF MaidTypeOK
<1>3. \A x \in Maids \ {m} : Same(x, c)
  BY <1>2 DEF Same, Greenlets, Awaits
<1>n. PICK n \in Nat : n = Len(cmdq[m])
  BY <1>1, QueueBehindHead
<1>4. /\ n > 0 /\ d = cmdq[m][1] /\ d \in Command
      /\ Len(cmdq'[m]) = n - 1
      /\ \A i \in 1 .. n - 1 : cmdq'[m][i] = cmdq[m][i + 1]
  <2>1. /\ Len(cmdq[m]) \in Nat \ {0}
        /\ Head(cmdq[m]) = cmdq[m][1]
        /\ Len(Tail(cmdq[m])) = Len(cmdq[m]) - 1
        /\ \A i \in 1 .. Len(cmdq[m]) - 1 : Tail(cmdq[m])[i] = cmdq[m][i + 1]
        /\ \A i \in 1 .. Len(cmdq[m]) : cmdq[m][i] \in Command
    BY <1>1, QueueBehindHead
  <2>2. /\ n > 0 /\ 1 \in 1 .. n /\ d = cmdq[m][1]
        /\ Len(cmdq'[m]) = n - 1
    BY <1>2, <1>n, <2>1
  <2>3. \A i \in 1 .. n - 1 : cmdq'[m][i] = cmdq[m][i + 1]
    BY <1>2, <1>n, <2>1
  <2> QED
    BY <1>n, <2>1, <2>2, <2>3
<1>5. new.cmd = d /\ new.phase # "running"
  BY DEF Greenlet, PoolPlace
<1> HIDE DEF d, new
<1>6. Awaits(m, d)
  BY <1>4, <1>n DEF Awaits
<1>7. CASE d = c
  <2>1. Greenlets(m, c) = {}
    BY <1>6, <1>7 DEF Single
  <2>2. Greenlets(m, c)' = {new}
    BY <1>2, <1>5, <1>7, <2>1 DEF Greenlets
  <2>3. ~Awaits(m, c)'
    <3>1. ASSUME NEW i \in 1 .. n - 1, cmdq'[m][i] = c PROVE FALSE
      <4>1. i + 1 \in 1 .. n /\ 1 \in 1 .. n /\ cmdq[m][i + 1] = c
        BY <1>4, <3>1
      <4>2. cmdq[m][1] = c
        BY <1>4, <1>7
      <4>3. \A j, h \in 1 .. n : cmdq[m][j] = c /\ cmdq[m][h] = c => j = h
        BY <1>n DEF Single
      <4>4. i + 1 = 1
        BY <4>1, <4>2, <4>3
      <4> QED
        BY <4>4
    <3> QED
      BY <1>4, <3>1 DEF Awaits
  <2> QED
    BY <1>1, <1>3, <1>5, <1>6, <1>7, <2>2, <2>3 DEF StepsOn, TakesUp
<1>8. CASE d # c
  <2>1. Greenlets(m, c)' = Greenlets(m, c)
    BY <1>2, <1>5, <1>8 DEF Greenlets
  <2>2. Awaits(m, c)' = Awaits(m, c)
    <3>1. ASSUME NEW i \in 1 .. n, cmdq[m][i] = c PROVE Awaits(m, c)'
      <4>1. i # 1
        BY <1>4, <1>8, <3>1
      <4>2. i - 1 \in 1 .. n - 1 /\ cmdq'[m][i - 1] = c
        BY <1>4, <3>1, <4>1
      <4> QED
        BY <1>4, <4>2 DEF Awaits
    <3>2. ASSUME NEW i \in 1 .. n - 1, cmdq'[m][i] = c PROVE Awaits(m, c)
      <4>1. i + 1 \in 1 .. n /\ cmdq[m][i + 1] = c
        BY <1>4, <3>2
      <4> QED
        BY <1>n, <4>1 DEF Awaits
    <3>3. Awaits(m, c) => Awaits(m, c)'
      BY <1>n, <3>1 DEF Awaits
    <3>4. Awaits(m, c)' => Awaits(m, c)
      BY <1>4, <3>2 DEF Awaits
    <3>5. Awaits(m, c) \in BOOLEAN /\ Awaits(m, c)' \in BOOLEAN
      BY DEF Awaits
    <3> QED
      BY <3>3, <3>4, <3>5
  <2>3. Holds(m, d) /\ PING(m) \in Message
    BY <1>6, MaidMessages DEF Holds, PING, Message, Signal
  <2> QED
    BY <1>1, <1>3, <1>4, <1>8, <2>1, <2>2, <2>3, OtherCommand
    DEF StepsOn, Elsewhere, Same
<1> QED
  BY <1>7, <1>8

\* A greenlet that runs without a fault.
LEMMA TaskStepsOn ==
    ASSUME MaidTypeOK, NEW c \in Command, Single(c),
           NEW m \in Maids, NEW tk \in tasks[m],
           \/ MaidSpawn(m, tk)
           \/ TaskRefuse(m, tk)
           \/ TaskStart(m, tk)
           \/ TaskEmit(m, tk)
           \/ TaskFinish(m, tk)
    PROVE  /\ StepsOn(m, c)
           /\ \A x \in Maids \ {m} : Same(x, c)
<1>1. /\ tk \in Task /\ tk.cmd \in Command
      /\ \A x \in Maids : Awaits(x, c)' = Awaits(x, c)
      /\ Holds(m, tk.cmd)
  BY DEF MaidTypeOK, Task, Awaits, Holds, Greenlets, MaidSpawn, TaskRefuse,
         TaskStart, TaskEmit, TaskFinish
<1>2. WORK(m) \in Message /\ INTERRUPT(m) \in Message
  BY DEF WORK, INTERRUPT, Message, Signal
<1>3. CASE MaidSpawn(m, tk)
  <2> DEFINE new == [tk EXCEPT !.phase = "spawned"]
  <2>1. new.cmd = tk.cmd /\ new.phase # "running"
    BY <1>1 DEF Task
  <2>2. tasks' = [tasks EXCEPT ![m] = (@ \ {tk}) \cup {new}]
    BY <1>3 DEF MaidSpawn
  <2> HIDE DEF new
  <2>3. /\ \A x \in Maids \ {m} : Greenlets(x, c)' = Greenlets(x, c)
        /\ tk.cmd = c => /\ Greenlets(m, c) = {tk}
                         /\ Greenlets(m, c)' = {new}
        /\ tk.cmd # c => Greenlets(m, c)' = Greenlets(m, c)
    <3>1. Replaces(m, tk, new)
      BY <2>2 DEF Replaces
    <3> QED
      BY <2>1, <3>1, GreenletReplaced
  <2>4. tk.phase # "running" /\ UNCHANGED <<inbox, lost>>
    BY <1>3 DEF MaidSpawn
  <2> QED
    BY <1>1, <2>1, <2>3, <2>4
    DEF StepsOn, GetsReady, Elsewhere, Same, QueueSame
<1>4. CASE TaskStart(m, tk)
  <2> DEFINE new == [tk EXCEPT !.phase = "running", !.todo = Results(m, tk.cmd)]
  <2>1. /\ new.cmd = tk.cmd /\ new.phase = "running"
        /\ new.todo = Results(m, tk.cmd)
    BY <1>1 DEF Task
  <2>2. /\ tasks' = [tasks EXCEPT ![m] = (@ \ {tk}) \cup {new}]
        /\ ~Refuses(m, tk.cmd) /\ tk.phase # "running"
        /\ UNCHANGED <<inbox, lost>>
    BY <1>4 DEF TaskStart
  <2> HIDE DEF new
  <2>3. /\ \A x \in Maids \ {m} : Greenlets(x, c)' = Greenlets(x, c)
        /\ tk.cmd = c => /\ Greenlets(m, c) = {tk}
                         /\ Greenlets(m, c)' = {new}
        /\ tk.cmd # c => Greenlets(m, c)' = Greenlets(m, c)
    <3>1. Replaces(m, tk, new)
      BY <2>2 DEF Replaces
    <3> QED
      BY <2>1, <3>1, GreenletReplaced
  <2> QED
    BY <1>1, <2>1, <2>2, <2>3
    DEF StepsOn, BeginsRun, Elsewhere, Same, QueueSame
<1>5. CASE TaskEmit(m, tk)
  <2>1. PICK S \in tk.todo, o \in Outcome :
          /\ Publish(tk.cmd.topic, Ret(S, o))
          /\ tasks' = [tasks EXCEPT ![m] = (@ \ {tk}) \cup
                {Reported(tk, S, IF o = "no_return" THEN {} ELSE S)}]
    BY <1>5 DEF TaskEmit
  <2> DEFINE new == Reported(tk, S, IF o = "no_return" THEN {} ELSE S)
  <2>2. /\ new.cmd = tk.cmd /\ new.phase = tk.phase /\ tk.phase = "running"
        /\ new.todo = tk.todo \ {S}
        /\ S \in SUBSET Minions
    <3>1. S \in SUBSET Minions
      BY <1>1 DEF Task
    <3> QED
      BY <1>1, <1>5, <3>1, ReportedTask DEF TaskEmit
  <2>3. tasks' = [tasks EXCEPT ![m] = (@ \ {tk}) \cup {new}]
    BY <2>1
  <2> HIDE DEF new
  <2>4. /\ \A x \in Maids \ {m} : Greenlets(x, c)' = Greenlets(x, c)
        /\ tk.cmd = c => /\ Greenlets(m, c) = {tk}
                         /\ Greenlets(m, c)' = {new}
        /\ tk.cmd # c => Greenlets(m, c)' = Greenlets(m, c)
    <3>1. Replaces(m, tk, new)
      BY <2>3 DEF Replaces
    <3> QED
      BY <2>2, <3>1, GreenletReplaced
  <2>5. CASE tk.cmd = c
    <3>1. ResultLeaves(m, c, S)
      BY <1>1, <2>2, <2>4, <2>5 DEF ResultLeaves
    <3>2. Delivers(m, c)
      BY <2>1, <2>2, <2>5, <3>1 DEF Delivers
    <3> QED
      BY <1>1, <2>4, <3>2 DEF StepsOn, Same
  <2>6. CASE tk.cmd # c
    <3>1. Ret(S, o) \in Message
      BY <2>2 DEF Ret, Message, Data
    <3>2. Own(c) => /\ QueueSame(c.topic)
                    /\ \A k : <<c.topic, k>> \in lost' => <<c.topic, k>> \in lost
      BY <1>1, <2>1, <2>6, <3>1, OtherCommand
    <3> QED
      BY <1>1, <2>4, <2>6, <3>2 DEF StepsOn, Elsewhere, Same
  <2> QED
    BY <2>5, <2>6
<1>6. CASE TaskRefuse(m, tk) \/ TaskFinish(m, tk)
  <2>1. /\ tasks' = [tasks EXCEPT ![m] = @ \ {tk}]
        /\ \/ Refuses(m, tk.cmd) /\ Publish(tk.cmd.topic, INTERRUPT(m))
           \/ /\ tk.phase = "running" /\ tk.todo = {}
              /\ Publish(tk.cmd.topic, WORK(m))
    BY <1>6 DEF TaskRefuse, TaskFinish
  <2>2. /\ \A x \in Maids \ {m} : Greenlets(x, c)' = Greenlets(x, c)
        /\ tk.cmd = c => /\ Greenlets(m, c) = {tk}
                         /\ Greenlets(m, c)' = {}
        /\ tk.cmd # c => Greenlets(m, c)' = Greenlets(m, c)
    BY <2>1, GreenletRemoved
  <2>3. CASE tk.cmd = c
    <3>1. Closes(m, c)
      BY <1>1, <2>1, <2>2, <2>3 DEF Closes
    <3> QED
      BY <1>1, <2>2, <3>1 DEF StepsOn, Same
  <2>4. CASE tk.cmd # c
    <3>1. Own(c) => /\ QueueSame(c.topic)
                    /\ \A k : <<c.topic, k>> \in lost' => <<c.topic, k>> \in lost
      BY <1>1, <1>2, <2>1, <2>4, OtherCommand
    <3> QED
      BY <1>1, <2>2, <2>4, <3>1 DEF StepsOn, Elsewhere, Same
  <2> QED
    BY <2>3, <2>4
<1> QED
  BY <1>3, <1>4, <1>5, <1>6

\* A maid or a greenlet that fails, and a maid that starts again.
LEMMA FaultStepsOn ==
    ASSUME MaidTypeOK, NEW c \in Command, Single(c), NEW m \in Maids,
           MaidFault(m)
    PROVE  /\ StepsOn(m, c)
           /\ \A x \in Maids \ {m} : Same(x, c)
<1>1. ASSUME NEW tk \in tasks[m], TaskDrop(m, tk)
      PROVE  StepsOn(m, c) /\ \A x \in Maids \ {m} : Same(x, c)
  <2>1. PICK S \in tk.todo :
          /\ tasks' = [tasks EXCEPT ![m] = (@ \ {tk}) \cup {Reported(tk, S, {})}]
          /\ lost' = lost \cup ({tk.cmd.topic} \X S)
    BY <1>1 DEF TaskDrop
  <2>2. /\ tk.phase = "running" /\ tk.cmd.type = SYNC_RUN /\ UNCHANGED inbox
        /\ \A x \in Maids : Awaits(x, c)' = Awaits(x, c)
    BY <1>1 DEF TaskDrop, Awaits
  <2> DEFINE new == Reported(tk, S, {})
  <2>3. /\ new.cmd = tk.cmd /\ new.phase = tk.phase
        /\ new.todo = tk.todo \ {S}
        /\ S \in SUBSET Minions /\ tk.cmd \in Command
    <3>1. tk \in Task /\ S \in SUBSET Minions /\ tk.cmd \in Command
      BY DEF MaidTypeOK, Task
    <3> QED
      BY <3>1, ReportedTask
  <2>4. tasks' = [tasks EXCEPT ![m] = (@ \ {tk}) \cup {new}]
    BY <2>1
  <2> HIDE DEF new
  <2>5. /\ \A x \in Maids \ {m} : Greenlets(x, c)' = Greenlets(x, c)
        /\ tk.cmd = c => /\ Greenlets(m, c) = {tk}
                         /\ Greenlets(m, c)' = {new}
        /\ tk.cmd # c => Greenlets(m, c)' = Greenlets(m, c)
    <3>1. Replaces(m, tk, new)
      BY <2>4 DEF Replaces
    <3> QED
      BY <2>3, <3>1, GreenletReplaced
  <2>6. CASE tk.cmd = c
    <3>1. ResultLeaves(m, c, S)
      BY <2>2, <2>3, <2>5, <2>6 DEF ResultLeaves
    <3>2. Forgets(m, c)
      BY <2>1, <2>2, <2>3, <2>6, <3>1 DEF Forgets
    <3> QED
      BY <2>2, <2>5, <3>2 DEF StepsOn, Same
  <2>7. CASE tk.cmd # c
    <3>1. Own(c) => tk.cmd.topic # c.topic
      BY <2>3, <2>7 DEF Own, Holds, Greenlets
    <3>2. Own(c) => \A k : <<c.topic, k>> \in lost' => <<c.topic, k>> \in lost
      BY <2>1, <3>1
    <3> QED
      BY <2>2, <2>5, <2>7, <3>2 DEF StepsOn, Elsewhere, Same, QueueSame
  <2> QED
    BY <2>6, <2>7
<1>2. ASSUME NEW tk \in tasks[m], TaskAbort(m, tk)
      PROVE  StepsOn(m, c) /\ \A x \in Maids \ {m} : Same(x, c)
  <2>1. /\ tasks' = [tasks EXCEPT ![m] = @ \ {tk}]
        /\ \A x \in Maids : Awaits(x, c)' = Awaits(x, c)
        /\ UNCHANGED <<inbox, lost>>
    BY <1>2 DEF TaskAbort, Awaits
  <2>2. /\ \A x \in Maids \ {m} : Greenlets(x, c)' = Greenlets(x, c)
        /\ tk.cmd = c => Greenlets(m, c)' = {}
        /\ tk.cmd # c => Greenlets(m, c)' = Greenlets(m, c)
    BY <2>1, GreenletRemoved
  <2> QED
    BY <2>1, <2>2 DEF StepsOn, Fails, Elsewhere, Same, QueueSame
<1>3. CASE MaidCrash(m)
  <2>1. /\ tasks'[m] = {} /\ cmdq'[m] = <<>>
        /\ \A x \in Maids \ {m} : tasks'[x] = tasks[x] /\ cmdq'[x] = cmdq[x]
        /\ UNCHANGED <<inbox, lost>>
    BY <1>3 DEF MaidCrash, MaidTypeOK
  <2>2. ~Awaits(m, c)' /\ Greenlets(m, c)' = {}
    BY <2>1 DEF Awaits, Greenlets
  <2>3. \A x \in Maids \ {m} : Same(x, c)
    BY <2>1 DEF Same, Awaits, Greenlets
  <2> QED
    BY <2>1, <2>2, <2>3 DEF StepsOn, Fails
<1>4. CASE MaidRestart(m)
  BY <1>4 DEF MaidRestart, StepsOn, Elsewhere, Same, QueueSame, Awaits, Greenlets
<1>5. ASSUME NEW tk \in tasks[m], TaskRepeat(m, tk)
      PROVE  StepsOn(m, c) /\ \A x \in Maids \ {m} : Same(x, c)
  <2>1. PICK k \in tk.returned, o \in Outcome \ {"no_return"} :
          Publish(tk.cmd.topic, Ret({k}, o))
    BY <1>5 DEF TaskRepeat
  <2>2. /\ tk \in Task /\ tk.cmd \in Command /\ k \in Minions
        /\ Holds(m, tk.cmd) /\ Ret({k}, o) \in Message
    BY DEF MaidTypeOK, Task, Holds, Greenlets, Ret, Message, Data
  <2>3. \A x \in Maids : Same(x, c)
    BY <1>5 DEF TaskRepeat, Same, Greenlets, Awaits
  <2>4. CASE tk.cmd = c
    <3>1. Greenlets(m, c) = {tk}
      BY <2>4 DEF Single, Greenlets
    <3>2. Repeats(m, c)
      BY <1>5, <2>1, <2>2, <2>3, <2>4, <3>1 DEF Repeats, TaskRepeat, Same
    <3> QED
      BY <2>3, <3>2 DEF StepsOn
  <2>5. CASE tk.cmd # c
    <3>1. Own(c) => /\ QueueSame(c.topic)
                    /\ \A j : <<c.topic, j>> \in lost' => <<c.topic, j>> \in lost
      BY <2>1, <2>2, <2>5, OtherCommand
    <3> QED
      BY <2>3, <3>1 DEF StepsOn, Elsewhere
  <2> QED
    BY <2>4, <2>5
<1> QED
  BY <1>1, <1>2, <1>3, <1>4, <1>5 DEF MaidFault

\* Every step of the maids is a step of one of them on c, and leaves the
\* other maids' part of c alone.
LEMMA MaidStepsOn ==
    ASSUME MaidTypeOK, NEW c \in Command, Single(c), MaidNext
    PROVE  \E m \in Maids : /\ StepsOn(m, c)
                            /\ \A x \in Maids \ {m} : Same(x, c)
<1>1. PICK m \in Maids : MaidWork(m) \/ MaidFault(m)
  BY DEF MaidNext
<1> QED
  BY <1>1, ReceiveStepsOn, TaskStepsOn, FaultStepsOn DEF MaidWork

\* The maids' queues of commands only lose their heads, or everything.
LEMMA CommandsLeave ==
    ASSUME MaidTypeOK, MaidNext, NEW m \in Maids
    PROVE  \/ cmdq'[m] = cmdq[m]
           \/ cmdq'[m] = <<>>
           \/ cmdq[m] # <<>> /\ cmdq'[m] = Tail(cmdq[m])
<1>1. PICK x \in Maids : MaidWork(x) \/ MaidFault(x)
  BY DEF MaidNext
<1>2. CASE MaidReceive(x)
  BY <1>2 DEF MaidReceive, MaidTypeOK
<1>3. CASE MaidCrash(x)
  BY <1>3 DEF MaidCrash, MaidTypeOK
<1>4. CASE ~MaidReceive(x) /\ ~MaidCrash(x)
  <2>1. UNCHANGED cmdq
    BY <1>1, <1>4 DEF MaidWork, MaidFault, MaidSpawn, TaskRefuse, TaskStart,
       TaskEmit, TaskFinish, TaskRepeat, TaskDrop, TaskAbort, MaidRestart
  <2> QED
    BY <2>1
<1> QED
  BY <1>2, <1>3, <1>4

\* No step of the maids lets one hold a command twice.
LEMMA SingleKept ==
    ASSUME MaidTypeOK, NEW c \in Command, Single(c), MaidNext
    PROVE  Single(c)'
<1>1. ASSUME NEW m \in Maids, NEW i \in 1 .. Len(cmdq'[m]),
             NEW j \in 1 .. Len(cmdq'[m]), cmdq'[m][i] = c, cmdq'[m][j] = c
      PROVE  i = j
  <2>1. CASE cmdq'[m] = cmdq[m]
    BY <1>1, <2>1 DEF Single
  <2>2. CASE cmdq'[m] = <<>>
    BY <1>1, <2>2
  <2>3. CASE cmdq[m] # <<>> /\ cmdq'[m] = Tail(cmdq[m])
    <3>n. PICK n \in Nat : n = Len(cmdq[m])
      BY <2>3, QueueBehindHead
    <3>1. /\ Len(cmdq'[m]) = n - 1
          /\ \A h \in 1 .. n - 1 : cmdq'[m][h] = cmdq[m][h + 1]
      BY <2>3, <3>n, QueueBehindHead
    <3>2. /\ i \in 1 .. n - 1 /\ j \in 1 .. n - 1
          /\ i + 1 \in 1 .. n /\ j + 1 \in 1 .. n
      BY <1>1, <3>1
    <3>3. cmdq[m][i + 1] = c /\ cmdq[m][j + 1] = c
      BY <1>1, <3>1, <3>2
    <3>4. i + 1 = j + 1
      BY <3>2, <3>3, <3>n DEF Single
    <3> QED
      BY <3>2, <3>4
  <2> QED
    BY <2>1, <2>2, <2>3, CommandsLeave
<1>2. PICK m \in Maids : /\ StepsOn(m, c)
                         /\ \A x \in Maids \ {m} : Same(x, c)
  BY MaidStepsOn
<1>3. \A x \in Maids \ {m} :
        /\ Awaits(x, c)' => Greenlets(x, c)' = {}
        /\ \A tk, tl \in Greenlets(x, c)' : tk = tl
  BY <1>2 DEF Same, Single
<1>4. /\ Awaits(m, c)' => Greenlets(m, c)' = {}
      /\ \A tk, tl \in Greenlets(m, c)' : tk = tl
  BY <1>2 DEF StepsOn, TakesUp, GetsReady, BeginsRun, Delivers, Forgets,
     ResultLeaves, Repeats, Closes, Fails, Elsewhere, Same, Single
<1> QED
  BY <1>1, <1>3, <1>4 DEF Single

\* No step of the maids brings a command to one that does not hold it.
LEMMA HoldsShrinks ==
    ASSUME MaidTypeOK, NEW c \in Command, Single(c), MaidNext, NEW x \in Maids,
           Holds(x, c)'
    PROVE  Holds(x, c)
<1>2. PICK m \in Maids : /\ StepsOn(m, c)
                         /\ \A y \in Maids \ {m} : Same(y, c)
  BY MaidStepsOn
<1>3. CASE x # m
  BY <1>2, <1>3 DEF Same, Holds
<1>4. CASE x = m
  <2>1. CASE TakesUp(m, c)
    BY <1>4, <2>1 DEF TakesUp, Holds
  <2>2. CASE GetsReady(m, c) \/ BeginsRun(m, c)
    BY <1>4, <2>2 DEF GetsReady, BeginsRun, Holds
  <2>3. CASE \E S : ResultLeaves(m, c, S)
    <3>1. Greenlets(m, c) # {}
      BY <2>3 DEF ResultLeaves
    <3> QED
      BY <1>4, <3>1 DEF Holds
  <2>4. CASE Repeats(m, c) \/ Closes(m, c) \/ Fails(m, c) \/ Elsewhere(m, c)
    BY <1>4, <2>4 DEF Repeats, Closes, Fails, Elsewhere, Same, Holds
  <2> QED
    BY <1>2, <2>1, <2>2, <2>3, <2>4 DEF StepsOn, Delivers, Forgets
<1> QED
  BY <1>3, <1>4

\* A command that owns its topic goes on to own it.
LEMMA OwnKept ==
    ASSUME MaidTypeOK, \A d \in Command : Single(d), MaidNext,
           NEW c \in Command, Own(c)
    PROVE  Own(c)'
BY HoldsShrinks DEF Own

\* A publish on the command topic brings its command to the maids that are
\* up, and nothing else to anybody.
LEMMA PublishHolds ==
    ASSUME MaidTypeOK, NEW c \in Command, PublishToSyndicSub(c),
           UNCHANGED tasks, NEW d \in Command, NEW m \in Maids
    PROVE  /\ Greenlets(m, d)' = Greenlets(m, d)
           /\ d # c => Awaits(m, d)' = Awaits(m, d)
           /\ Awaits(m, d) => Awaits(m, d)'
           /\ Awaits(m, c)' <=> Awaits(m, c) \/ up[m]
<1>n. PICK n \in Nat : n = Len(cmdq[m])
  BY LenProperties DEF MaidTypeOK
<1>1. Greenlets(m, d)' = Greenlets(m, d)
  BY DEF Greenlets
<1>2. CASE ~up[m]
  <2>1. cmdq'[m] = cmdq[m]
    BY <1>2 DEF PublishToSyndicSub
  <2> QED
    BY <1>1, <1>2, <2>1 DEF Awaits
<1>3. CASE up[m]
  <2>1. cmdq'[m] = Append(cmdq[m], c)
    BY <1>3 DEF PublishToSyndicSub
  <2>2. /\ Len(cmdq'[m]) = n + 1
        /\ \A i \in 1 .. n : cmdq'[m][i] = cmdq[m][i]
        /\ cmdq'[m][n + 1] = c
    <3>1. cmdq[m] \in Seq(Command)
      BY DEF MaidTypeOK
    <3> QED
      BY <1>n, <2>1, <3>1, AppendProperties
  <2>3. 1 .. n + 1 = (1 .. n) \cup {n + 1}
    OBVIOUS
  <2>4. ASSUME NEW e PROVE Awaits(m, e)' <=> Awaits(m, e) \/ e = c
    BY <1>n, <2>2, <2>3 DEF Awaits
  <2>5. Awaits(m, d) \in BOOLEAN /\ Awaits(m, d)' \in BOOLEAN
    BY DEF Awaits
  <2> QED
    BY <1>1, <1>3, <2>4, <2>5
<1> QED
  BY <1>2, <1>3

\* A command that nobody holds is held once when it is published.
LEMMA PublishSingle ==
    ASSUME MaidTypeOK, NEW c \in Command, PublishToSyndicSub(c),
           UNCHANGED tasks, \A m \in Maids : ~Holds(m, c),
           NEW d \in Command, Single(d)
    PROVE  Single(d)'
<1>1. ASSUME NEW m \in Maids, NEW i \in 1 .. Len(cmdq'[m]),
             NEW j \in 1 .. Len(cmdq'[m]), cmdq'[m][i] = d, cmdq'[m][j] = d
      PROVE  i = j
  <2>n. PICK n \in Nat : n = Len(cmdq[m])
    BY LenProperties DEF MaidTypeOK
  <2>1. CASE ~up[m]
    BY <1>1, <2>1 DEF PublishToSyndicSub, Single
  <2>2. CASE up[m]
    <3>1. cmdq'[m] = Append(cmdq[m], c) /\ cmdq[m] \in Seq(Command)
      BY <2>2 DEF PublishToSyndicSub, MaidTypeOK
    <3>2. /\ Len(cmdq'[m]) = n + 1
          /\ \A h \in 1 .. n : cmdq'[m][h] = cmdq[m][h]
          /\ cmdq'[m][n + 1] = c
      BY <2>n, <3>1, AppendProperties
    <3>3. CASE d = c
      <4>1. \A h \in 1 .. n : cmdq[m][h] # c
        BY <2>n DEF Holds, Awaits
      <4>2. \A h \in 1 .. n + 1 : cmdq'[m][h] = c => h = n + 1
        <5>1. ASSUME NEW h \in 1 .. n + 1, h # n + 1 PROVE h \in 1 .. n
          BY <5>1
        <5> QED
          BY <3>2, <4>1, <5>1
      <4>3. i \in 1 .. n + 1 /\ j \in 1 .. n + 1
        BY <1>1, <3>2
      <4> QED
        BY <1>1, <3>3, <4>2, <4>3
    <3>4. CASE d # c
      <4>1. i \in 1 .. n /\ j \in 1 .. n
        BY <1>1, <3>2, <3>4
      <4> QED
        BY <1>1, <2>n, <3>2, <4>1 DEF Single
    <3> QED
      BY <3>3, <3>4
  <2> QED
    BY <2>1, <2>2
<1>2. ASSUME NEW m \in Maids
      PROVE  /\ Awaits(m, d)' => Greenlets(m, d)' = {}
             /\ \A tk, tl \in Greenlets(m, d)' : tk = tl
  <2>1. CASE d = c
    BY <2>1, PublishHolds DEF Holds, Single
  <2>2. CASE d # c
    BY <2>2, PublishHolds DEF Single
  <2> QED
    BY <2>1, <2>2
<1> QED
  BY <1>1, <1>2 DEF Single

\* At the beginning nobody holds anything.
LEMMA NothingHeld ==
    ASSUME MaidInit
    PROVE  /\ \A m \in Maids : \A c : ~Holds(m, c)
           /\ \A c : Single(c)
<1>1. \A m \in Maids : cmdq[m] = <<>> /\ tasks[m] = {}
  BY DEF MaidInit
<1> QED
  BY <1>1 DEF Holds, Awaits, Greenlets, Single
-----------------------------------------------------------------------------
(* One command and its topic: what is queued for the client, in relation   *)
(* to what the maids still hold.  A client keeps a set "ended" of maids    *)
(* whose WORK or INTERRUPT it has read, a set "pinged" of those whose PING *)
(* it has read, and a set "got" of minions that it has read of; the five   *)
(* invariants below hold of any client that reads its messages in turn.    *)

\* msg is the last message that maid m sends for a command, or the first
EndOf(msg, m)  == msg.kind \in {"work", "interrupt"} /\ msg.sub_ip = m
PingOf(msg, m) == msg.kind = "ping" /\ msg.sub_ip = m

\* a maid ends the command at most once, and then has nothing left to do
ClosesOnce(c, ended) ==
    /\ \A m \in ended : ~Holds(m, c)
    /\ \A m \in Maids : \A i \in 1 .. Len(inbox[c.topic]) :
          EndOf(inbox[c.topic][i], m) =>
            /\ ~Holds(m, c)
            /\ m \notin ended
            /\ \A j \in 1 .. Len(inbox[c.topic]) :
                  EndOf(inbox[c.topic][j], m) => i = j

\* a queued return is ahead of the end of some maid, which may never come
ReturnsAhead(c, ended) ==
    \A i \in 1 .. Len(inbox[c.topic]) : inbox[c.topic][i].kind = "data" =>
        \E m \in Maids \ ended : \A j \in 1 .. Len(inbox[c.topic]) :
            EndOf(inbox[c.topic][j], m) => i < j

\* minion k has been read of, or lost, or is in the first n messages
Came(c, k, n, got) ==
    \/ k \in got
    \/ <<c.topic, k>> \in lost
    \/ \E j \in 1 .. n : /\ inbox[c.topic][j].kind = "data"
                         /\ k \in inbox[c.topic][j].items

\* what a maid has to report (due) is still to be sent, or came before its end
Owes(c, due, got) == \A m \in Maids :
    /\ \A tk \in Greenlets(m, c) : tk.phase = "running" =>
          \A k \in due[m] : \/ \E S \in tk.todo : k \in S
                            \/ Came(c, k, Len(inbox[c.topic]), got)
    /\ \A i \in 1 .. Len(inbox[c.topic]) : EndOf(inbox[c.topic][i], m) =>
          \/ Refuses(m, c)
          \/ \A k \in due[m] : Came(c, k, i, got)

\* a maid whose end has been read has reported what it had to
Paid(c, due, got, ended) ==
    \A m \in ended : Refuses(m, c) \/ \A k \in due[m] : Came(c, k, 0, got)

\* the first thing a maid sends is its PING, once
PingsAhead(c, pinged, ended) ==
    /\ ended \subseteq pinged
    /\ \A m \in pinged : ~Awaits(m, c)
    /\ \A m \in Maids :
         /\ Greenlets(m, c) # {} =>
              \/ m \in pinged
              \/ \E j \in 1 .. Len(inbox[c.topic]) : PingOf(inbox[c.topic][j], m)
         /\ \A i \in 1 .. Len(inbox[c.topic]) :
              /\ EndOf(inbox[c.topic][i], m) =>
                   m \in pinged \/ \E j \in 1 .. i : PingOf(inbox[c.topic][j], m)
              /\ PingOf(inbox[c.topic][i], m) =>
                   /\ ~Awaits(m, c)
                   /\ m \notin pinged
                   /\ \A j \in 1 .. Len(inbox[c.topic]) :
                         PingOf(inbox[c.topic][j], m) => i = j

\* What the messages of the maids are, and of which maids.
LEMMA MessageKinds ==
    ASSUME NEW m \in Maids, NEW S \in SUBSET Minions, NEW o \in Outcome,
           NEW x \in Maids
    PROVE  /\ ~EndOf(PING(m), x) /\ (PingOf(PING(m), x) <=> x = m)
           /\ ~EndOf(Ret(S, o), x) /\ ~PingOf(Ret(S, o), x)
           /\ (EndOf(WORK(m), x) <=> x = m) /\ ~PingOf(WORK(m), x)
           /\ (EndOf(INTERRUPT(m), x) <=> x = m) /\ ~PingOf(INTERRUPT(m), x)
           /\ Ret(S, o).kind = "data" /\ Ret(S, o).items = S
           /\ PING(m).kind # "data" /\ WORK(m).kind # "data"
           /\ INTERRUPT(m).kind # "data"
           /\ Named(PING(m)) = {} /\ Named(WORK(m)) = {}
           /\ Named(INTERRUPT(m)) = {} /\ Named(Ret(S, o)) = S
BY DEF EndOf, PingOf, PING, Ret, WORK, INTERRUPT, Named

\* What a step of the maids does to the queue of a command's own topic: it
\* gets the PING of a maid that has taken the command up, a return of one
\* that works on it, or the end of one that then has nothing left to do.
GetsPing(m, c) ==
    /\ QueueGets(c.topic, PING(m))
    /\ Awaits(m, c) /\ ~Awaits(m, c)'
    /\ \A x \in Maids \ {m} : Greenlets(x, c)' = Greenlets(x, c)

GetsReturn(m, c) ==
    /\ \E S \in SUBSET Minions, o \in Outcome : QueueGets(c.topic, Ret(S, o))
    /\ Greenlets(m, c) # {}
    /\ \A x \in Maids : Greenlets(x, c)' # {} => Greenlets(x, c) # {}

GetsEnd(m, c) ==
    /\ QueueGets(c.topic, WORK(m)) \/ QueueGets(c.topic, INTERRUPT(m))
    /\ Greenlets(m, c) # {}
    /\ ~Holds(m, c)'
    /\ \A x \in Maids : Greenlets(x, c)' # {} => Greenlets(x, c) # {}

GetsNothing(c) ==
    /\ QueueSame(c.topic)
    /\ c.topic \in subscribed =>
         \A x \in Maids : Greenlets(x, c)' # {} => Greenlets(x, c) # {}

\* What a step of a maid does to the queue of a command's topic: nothing, or it
\* gets one PING, one return or one end; and nobody holds the command anew.
LEMMA QueueSteps ==
    ASSUME MaidTypeOK, NEW c \in Command, Single(c), Own(c), MaidNext
    PROVE  /\ \A x \in Maids : Awaits(x, c)' => Awaits(x, c)
           /\ \A x \in Maids : Holds(x, c)' => Holds(x, c)
           /\ lost \subseteq lost'
           /\ \/ GetsNothing(c)
              \/ \E m \in Maids : \/ GetsPing(m, c)
                                  \/ GetsReturn(m, c)
                                  \/ GetsEnd(m, c)
<1>t. c.topic \in Topics
  BY DEF Command
<1>1. PICK m \in Maids : /\ StepsOn(m, c)
                         /\ \A x \in Maids \ {m} : Same(x, c)
  BY MaidStepsOn
<1>2. /\ \A x \in Maids : Awaits(x, c)' => Awaits(x, c)
      /\ \A x \in Maids \ {m} : Greenlets(x, c)' = Greenlets(x, c)
  BY <1>1 DEF Same, StepsOn, TakesUp, GetsReady, BeginsRun, Delivers, Forgets,
     ResultLeaves, Repeats, Closes, Fails, Elsewhere
<1>3. \A x \in Maids : Holds(x, c)' => Holds(x, c)
  BY HoldsShrinks
<1>4. lost \subseteq lost'
  BY MaidsLose
<1> SUFFICES \/ GetsNothing(c)
             \/ \E x \in Maids : GetsPing(x, c) \/ GetsReturn(x, c) \/ GetsEnd(x, c)
  BY <1>2, <1>3, <1>4
<1>5. CASE TakesUp(m, c)
  <2>1. PING(m) \in Message /\ Publish(c.topic, PING(m))
    BY <1>5 DEF TakesUp, PING, Message, Signal
  <2>2. CASE c.topic \in subscribed
    BY <1>2, <1>5, <1>t, <2>1, <2>2, PublishOwn DEF TakesUp, GetsPing
  <2>3. CASE c.topic \notin subscribed
    BY <1>t, <2>1, <2>3, PublishOwn DEF GetsNothing
  <2> QED
    BY <2>2, <2>3
<1>6. CASE Delivers(m, c)
  <2>1. PICK S \in SUBSET Minions, o \in Outcome :
          ResultLeaves(m, c, S) /\ Publish(c.topic, Ret(S, o))
    BY <1>6 DEF Delivers
  <2>2. Ret(S, o) \in Message
    BY DEF Ret, Message, Data
  <2>3. Greenlets(m, c) # {}
    BY <2>1 DEF ResultLeaves
  <2>4. CASE c.topic \in subscribed
    <3>1. QueueGets(c.topic, Ret(S, o))
      BY <1>t, <2>1, <2>2, <2>4, PublishOwn
    <3> QED
      BY <1>2, <2>3, <3>1 DEF GetsReturn
  <2>5. CASE c.topic \notin subscribed
    BY <1>t, <2>1, <2>2, <2>5, PublishOwn DEF GetsNothing
  <2> QED
    BY <2>4, <2>5
<1>7. CASE Closes(m, c)
  <2>1. PICK msg \in {WORK(m), INTERRUPT(m)} : Publish(c.topic, msg)
    BY <1>7 DEF Closes
  <2>2. msg \in Message
    BY DEF WORK, INTERRUPT, Message, Signal
  <2>3. Greenlets(m, c) # {} /\ ~Holds(m, c)'
    BY <1>7 DEF Closes, Holds, Single
  <2>4. CASE c.topic \in subscribed
    <3>1. QueueGets(c.topic, msg)
      BY <1>t, <2>1, <2>2, <2>4, PublishOwn
    <3> QED
      BY <1>2, <2>3, <3>1 DEF GetsEnd
  <2>5. CASE c.topic \notin subscribed
    BY <1>t, <2>1, <2>2, <2>5, PublishOwn DEF GetsNothing
  <2> QED
    BY <2>4, <2>5
<1>8. CASE \/ GetsReady(m, c) \/ BeginsRun(m, c) \/ Forgets(m, c)
           \/ Fails(m, c) \/ Elsewhere(m, c)
  <2>1. QueueSame(c.topic)
    BY <1>8 DEF GetsReady, BeginsRun, Forgets, Fails, Elsewhere, QueueSame
  <2>2. Greenlets(m, c)' # {} => Greenlets(m, c) # {}
    BY <1>8 DEF GetsReady, BeginsRun, Forgets, ResultLeaves, Fails, Elsewhere, Same
  <2> QED
    BY <1>2, <2>1, <2>2 DEF GetsNothing
<1>9. CASE Repeats(m, c)
  <2>1. PICK k \in Minions, o \in Outcome : Publish(c.topic, Ret({k}, o))
    BY <1>9 DEF Repeats
  <2>2. Ret({k}, o) \in Message
    BY DEF Ret, Message, Data
  <2>3. Greenlets(m, c)' = Greenlets(m, c) /\ Greenlets(m, c) # {}
    BY <1>9 DEF Repeats
  <2>4. QueueGets(c.topic, Ret({k}, o)) => GetsReturn(m, c)
    BY <1>2, <2>3 DEF GetsReturn
  <2>5. QueueSame(c.topic) => GetsNothing(c)
    BY <1>2, <2>3 DEF GetsNothing
  <2> QED
    BY <1>t, <2>1, <2>2, <2>4, <2>5, PublishOwn
<1> QED
  BY <1>1, <1>5, <1>6, <1>7, <1>8, <1>9 DEF StepsOn

\* The maids keep to one end each.
LEMMA MaidsCloseOnce ==
    ASSUME MaidTypeOK, NEW c \in Command, Single(c), Own(c), MaidNext,
           NEW ended \in SUBSET Maids, ClosesOnce(c, ended)
    PROVE  ClosesOnce(c, ended)'
<1>t. c.topic \in Topics
  BY DEF Command
<1>n. PICK n \in Nat : n = Len(inbox[c.topic])
  BY <1>t, QueueType
<1>1. \A x \in Maids : Holds(x, c)' => Holds(x, c)
  BY QueueSteps
<1>2. CASE GetsNothing(c)
  BY <1>1, <1>2 DEF GetsNothing, QueueSame, ClosesOnce
<1>3. ASSUME NEW m \in Maids, GetsPing(m, c) \/ GetsReturn(m, c)
      PROVE  ClosesOnce(c, ended)'
  <2>1. PICK msg : QueueGets(c.topic, msg) /\ \A x \in Maids : ~EndOf(msg, x)
    <3>1. CASE GetsPing(m, c)
      BY <3>1, MessageKinds DEF GetsPing, Outcome
    <3>2. CASE GetsReturn(m, c)
      BY <3>2, MessageKinds DEF GetsReturn
    <3> QED
      BY <1>3, <3>1, <3>2
  <2>2. /\ Len(inbox'[c.topic]) = n + 1
        /\ \A i \in 1 .. n : inbox'[c.topic][i] = inbox[c.topic][i]
        /\ inbox'[c.topic][n + 1] = msg
    BY <1>n, <2>1 DEF QueueGets
  <2>3. ASSUME NEW x \in Maids, NEW i \in 1 .. n + 1, EndOf(inbox'[c.topic][i], x)
        PROVE  i \in 1 .. n /\ EndOf(inbox[c.topic][i], x)
    <3>1. i # n + 1
      BY <2>1, <2>2, <2>3
    <3> QED
      BY <2>2, <2>3, <3>1
  <2>4. ASSUME NEW x \in Maids, NEW i \in 1 .. n + 1, EndOf(inbox'[c.topic][i], x)
        PROVE  /\ ~Holds(x, c)' /\ x \notin ended
               /\ \A j \in 1 .. n + 1 : EndOf(inbox'[c.topic][j], x) => i = j
    BY <1>1, <1>n, <2>3, <2>4 DEF ClosesOnce
  <2>5. \A x \in ended : ~Holds(x, c)'
    BY <1>1 DEF ClosesOnce
  <2> QED
    BY <2>2, <2>4, <2>5 DEF ClosesOnce, EndOf
<1>4. ASSUME NEW m \in Maids, GetsEnd(m, c)
      PROVE  ClosesOnce(c, ended)'
  <2>1. PICK msg : /\ QueueGets(c.topic, msg)
                   /\ \A x \in Maids : EndOf(msg, x) <=> x = m
    BY <1>4, MessageKinds DEF GetsEnd, Outcome
  <2>2. /\ Len(inbox'[c.topic]) = n + 1
        /\ \A i \in 1 .. n : inbox'[c.topic][i] = inbox[c.topic][i]
        /\ inbox'[c.topic][n + 1] = msg
    BY <1>n, <2>1 DEF QueueGets
  <2>3. Holds(m, c) /\ ~Holds(m, c)'
    BY <1>4 DEF GetsEnd, Holds
  <2>4. m \notin ended /\ \A i \in 1 .. n : ~EndOf(inbox[c.topic][i], m)
    BY <1>n, <2>3 DEF ClosesOnce
  <2>5. ASSUME NEW x \in Maids, NEW i \in 1 .. n + 1, EndOf(inbox'[c.topic][i], x)
        PROVE  \/ x = m /\ i = n + 1
               \/ x # m /\ i \in 1 .. n /\ EndOf(inbox[c.topic][i], x)
    <3>1. CASE i = n + 1
      BY <2>1, <2>2, <2>5, <3>1
    <3>2. CASE i # n + 1
      <4>1. i \in 1 .. n
        BY <3>2
      <4> QED
        BY <2>2, <2>4, <2>5, <4>1
    <3> QED
      BY <3>1, <3>2
  <2>6. ASSUME NEW x \in Maids, NEW i \in 1 .. n + 1, EndOf(inbox'[c.topic][i], x)
        PROVE  /\ ~Holds(x, c)' /\ x \notin ended
               /\ \A j \in 1 .. n + 1 : EndOf(inbox'[c.topic][j], x) => i = j
    BY <1>1, <1>n, <2>3, <2>4, <2>5, <2>6 DEF ClosesOnce
  <2>7. \A x \in ended : ~Holds(x, c)'
    BY <1>1 DEF ClosesOnce
  <2> QED
    BY <2>2, <2>6, <2>7 DEF ClosesOnce, EndOf
<1> QED
  BY <1>2, <1>3, <1>4, QueueSteps

\* A return is queued ahead of its maid's end.
LEMMA MaidsReturnAhead ==
    ASSUME MaidTypeOK, NEW c \in Command, Single(c), Own(c), MaidNext,
           NEW ended \in SUBSET Maids, ClosesOnce(c, ended),
           ReturnsAhead(c, ended)
    PROVE  ReturnsAhead(c, ended)'
<1>t. c.topic \in Topics
  BY DEF Command
<1>n. PICK n \in Nat : n = Len(inbox[c.topic])
  BY <1>t, QueueType
<1>2. CASE GetsNothing(c)
  BY <1>2 DEF GetsNothing, QueueSame, ReturnsAhead
<1>3. ASSUME NEW msg, QueueGets(c.topic, msg),
             msg.kind = "data" =>
               \E m \in Maids : Holds(m, c) /\ \A x \in Maids : ~EndOf(msg, x)
      PROVE  ReturnsAhead(c, ended)'
  <2>2. /\ Len(inbox'[c.topic]) = n + 1
        /\ \A i \in 1 .. n : inbox'[c.topic][i] = inbox[c.topic][i]
        /\ inbox'[c.topic][n + 1] = msg
    BY <1>n, <1>3 DEF QueueGets
  <2>3. ASSUME NEW i \in 1 .. n + 1, inbox'[c.topic][i].kind = "data"
        PROVE  \E m \in Maids \ ended : \A j \in 1 .. n + 1 :
                  EndOf(inbox'[c.topic][j], m) => i < j
    <3>1. CASE i = n + 1
      <4>1. PICK m \in Maids : Holds(m, c) /\ \A x \in Maids : ~EndOf(msg, x)
        BY <1>3, <2>2, <2>3, <3>1
      <4>2. m \notin ended /\ \A j \in 1 .. n : ~EndOf(inbox[c.topic][j], m)
        BY <1>n, <4>1 DEF ClosesOnce
      <4>3. \A j \in 1 .. n + 1 : ~EndOf(inbox'[c.topic][j], m)
        <5>1. \A j \in 1 .. n + 1 : j \in 1 .. n \/ j = n + 1
          OBVIOUS
        <5> QED
          BY <2>2, <4>1, <4>2, <5>1
      <4> QED
        BY <4>2, <4>3
    <3>2. CASE i # n + 1
      <4>1. i \in 1 .. n /\ inbox[c.topic][i].kind = "data"
        BY <2>2, <2>3, <3>2
      <4>2. PICK m \in Maids \ ended : \A j \in 1 .. n :
                EndOf(inbox[c.topic][j], m) => i < j
        BY <1>n, <4>1 DEF ReturnsAhead
      <4>3. \A j \in 1 .. n + 1 : EndOf(inbox'[c.topic][j], m) => i < j
        <5>1. \A j \in 1 .. n + 1 : j \in 1 .. n \/ j = n + 1
          OBVIOUS
        <5> QED
          BY <2>2, <4>1, <4>2, <5>1
      <4> QED
        BY <4>3
    <3> QED
      BY <3>1, <3>2
  <2> QED
    BY <2>2, <2>3 DEF ReturnsAhead, EndOf
<1>4. ASSUME NEW m \in Maids, GetsPing(m, c) \/ GetsReturn(m, c) \/ GetsEnd(m, c)
      PROVE  ReturnsAhead(c, ended)'
  <2>1. CASE GetsPing(m, c)
    BY <1>3, <2>1, MessageKinds DEF GetsPing, Outcome
  <2>2. CASE GetsReturn(m, c)
    BY <1>3, <2>2, MessageKinds DEF GetsReturn, Holds
  <2>3. CASE GetsEnd(m, c)
    BY <1>3, <2>3, MessageKinds DEF GetsEnd, Outcome
  <2> QED
    BY <1>4, <2>1, <2>2, <2>3
<1> QED
  BY <1>2, <1>4, QueueSteps

\* What came stays, whatever a step of the maids adds to the queue.
LEMMA CameStays ==
    ASSUME MaidTypeOK, NEW c \in Command, NEW got,
           lost \subseteq lost',
           QueueSame(c.topic) \/ \E msg : QueueGets(c.topic, msg)
    PROVE  \A k : \A i \in 0 .. Len(inbox[c.topic]) :
              Came(c, k, i, got) => Came(c, k, i, got)'
<1>t. c.topic \in Topics
  BY DEF Command
<1>n. PICK n \in Nat : n = Len(inbox[c.topic])
  BY <1>t, QueueType
<1>1. \A j \in 1 .. n : inbox'[c.topic][j] = inbox[c.topic][j]
  BY <1>n DEF QueueSame, QueueGets
<1>2. ASSUME NEW k, NEW i \in 0 .. n, Came(c, k, i, got)
      PROVE  Came(c, k, i, got)'
  <2>1. \A j \in 1 .. i : j \in 1 .. n
    BY <1>2
  <2> QED
    BY <1>1, <1>2, <2>1 DEF Came
<1> QED
  BY <1>n, <1>2

\* A maid has sent, or has still to send, what it has to report.
LEMMA MaidsOwe ==
    ASSUME MaidTypeOK, NEW c \in Command, Single(c), Own(c), MaidNext,
           NEW due \in [Maids -> SUBSET Minions], NEW got,
           \A m \in Maids : BeginsRun(m, c) =>
              \A k \in due[m] : \E S \in Results(m, c) : k \in S,
           Owes(c, due, got)
    PROVE  Owes(c, due, got)'
<1>t. c.topic \in Topics
  BY DEF Command
<1>n. PICK n \in Nat : n = Len(inbox[c.topic])
  BY <1>t, QueueType
<1>l. lost \subseteq lost'
  BY QueueSteps
<1>q. QueueSame(c.topic) \/ \E msg : QueueGets(c.topic, msg)
  BY QueueSteps DEF GetsNothing, GetsPing, GetsReturn, GetsEnd
<1>c. \A k : \A i \in 0 .. n : Came(c, k, i, got) => Came(c, k, i, got)'
  BY <1>l, <1>n, <1>q, CameStays
<1>p. PICK p \in Nat : p = Len(inbox'[c.topic]) /\ p \in {n, n + 1}
  BY <1>n, <1>q DEF QueueSame, QueueGets
<1>g. \A k : Came(c, k, n, got) => Came(c, k, p, got)'
  <2>1. ASSUME NEW k, Came(c, k, n, got)' PROVE Came(c, k, p, got)'
    <3>1. \A j \in 1 .. n : j \in 1 .. p
      BY <1>p
    <3> QED
      BY <2>1, <3>1 DEF Came
  <2> QED
    BY <1>c, <2>1
<1>o. \A m \in Maids : \A i \in 1 .. n : EndOf(inbox[c.topic][i], m) =>
        Refuses(m, c) \/ \A k \in due[m] : Came(c, k, i, got)'
  BY <1>c, <1>n DEF Owes
<1>r. \A m \in Maids : Refuses(m, c)' <=> Refuses(m, c)
  BY DEF Refuses
<1>s. \A m \in Maids : Greenlets(m, c)' = Greenlets(m, c) =>
        \A tk \in Greenlets(m, c)' : tk.phase = "running" =>
           \A k \in due[m] : (\E S \in tk.todo : k \in S) \/ Came(c, k, p, got)'
  BY <1>g, <1>n DEF Owes
<1>e. ASSUME \A m \in Maids : \A i \in 1 .. p :
                EndOf(inbox'[c.topic][i], m) => i \in 1 .. n
      PROVE  \A m \in Maids : \A i \in 1 .. p : EndOf(inbox'[c.topic][i], m) =>
                Refuses(m, c)' \/ \A k \in due[m] : Came(c, k, i, got)'
  <2>1. \A i \in 1 .. n : inbox'[c.topic][i] = inbox[c.topic][i]
    BY <1>n, <1>q DEF QueueSame, QueueGets
  <2> QED
    BY <1>e, <1>o, <1>r, <2>1
<1>f. ASSUME NEW msg, QueueGets(c.topic, msg), \A x \in Maids : ~EndOf(msg, x)
      PROVE  \A m \in Maids : \A i \in 1 .. p :
                EndOf(inbox'[c.topic][i], m) => i \in 1 .. n
  <2>1. p = n + 1 /\ inbox'[c.topic][n + 1] = msg
    BY <1>f, <1>n, <1>p DEF QueueGets
  <2> QED
    BY <1>f, <2>1
<1>h. QueueSame(c.topic) => p = n
  BY <1>n, <1>p DEF QueueSame
<1>m. PICK m \in Maids : /\ StepsOn(m, c)
                         /\ \A x \in Maids \ {m} : Same(x, c)
  BY MaidStepsOn
<1>x. \A x \in Maids \ {m} : Greenlets(x, c)' = Greenlets(x, c)
  BY <1>m DEF Same
<1> SUFFICES
      /\ \A tk \in Greenlets(m, c)' : tk.phase = "running" =>
           \A k \in due[m] : (\E S \in tk.todo : k \in S) \/ Came(c, k, p, got)'
      /\ \A x \in Maids : \A i \in 1 .. p : EndOf(inbox'[c.topic][i], x) =>
           Refuses(x, c)' \/ \A k \in due[x] : Came(c, k, i, got)'
  BY <1>p, <1>s, <1>x DEF Owes, EndOf
<1>1. CASE TakesUp(m, c)
  <2>1. \A tk \in Greenlets(m, c)' : tk.phase # "running"
    BY <1>1 DEF TakesUp
  <2>2. /\ Publish(c.topic, PING(m)) /\ PING(m) \in Message
        /\ \A x \in Maids : ~EndOf(PING(m), x)
    BY <1>1, MessageKinds DEF TakesUp, PING, Message, Signal, Outcome
  <2>3. QueueGets(c.topic, PING(m)) \/ QueueSame(c.topic)
    BY <1>t, <2>2, PublishOwn
  <2> QED
    BY <1>e, <1>f, <1>h, <2>1, <2>2, <2>3
<1>2. CASE GetsReady(m, c)
  <2>1. \A tk \in Greenlets(m, c)' : tk.phase # "running"
    BY <1>2 DEF GetsReady
  <2>2. QueueSame(c.topic)
    BY <1>2 DEF GetsReady, QueueSame
  <2> QED
    BY <1>e, <1>h, <2>1, <2>2
<1>3. CASE BeginsRun(m, c)
  <2>1. \A tk \in Greenlets(m, c)' : tk.todo = Results(m, c)
    BY <1>3 DEF BeginsRun
  <2>2. QueueSame(c.topic)
    BY <1>3 DEF BeginsRun, QueueSame
  <2> QED
    BY <1>3, <1>e, <1>h, <2>1, <2>2
<1>4. ASSUME NEW S \in SUBSET Minions, ResultLeaves(m, c, S),
             \A k \in S : Came(c, k, p, got)'
      PROVE  \A tk \in Greenlets(m, c)' : tk.phase = "running" =>
               \A k \in due[m] : (\E T \in tk.todo : k \in T) \/ Came(c, k, p, got)'
  <2>1. PICK tk, new :
          /\ Greenlets(m, c) = {tk} /\ Greenlets(m, c)' = {new}
          /\ tk.phase = "running"
          /\ new.todo = tk.todo \ {S}
    BY <1>4 DEF ResultLeaves
  <2>2. \A k \in due[m] : (\E T \in tk.todo : k \in T) \/ Came(c, k, n, got)
    BY <1>n, <2>1 DEF Owes
  <2>3. \A k \in due[m] : (\E T \in new.todo : k \in T) \/ Came(c, k, p, got)'
    BY <1>4, <1>g, <2>1, <2>2
  <2> QED
    BY <2>1, <2>3
<1>5. CASE Delivers(m, c)
  <2>1. PICK S \in SUBSET Minions, o \in Outcome :
          ResultLeaves(m, c, S) /\ Publish(c.topic, Ret(S, o))
    BY <1>5 DEF Delivers
  <2>2. /\ Ret(S, o) \in Message /\ \A x \in Maids : ~EndOf(Ret(S, o), x)
        /\ Ret(S, o).kind = "data" /\ Ret(S, o).items = S
        /\ Named(Ret(S, o)) = S
    BY MessageKinds DEF Ret, Message, Data
  <2>3. CASE c.topic \in subscribed
    <3>1. QueueGets(c.topic, Ret(S, o))
      BY <1>t, <2>1, <2>2, <2>3, PublishOwn
    <3>2. p = n + 1 /\ inbox'[c.topic][p] = Ret(S, o) /\ p \in 1 .. p
      BY <1>n, <1>p, <3>1 DEF QueueGets
    <3>3. \A k \in S : Came(c, k, p, got)'
      BY <2>2, <3>2 DEF Came
    <3> QED
      BY <1>4, <1>e, <1>f, <2>1, <2>2, <3>1, <3>3
  <2>4. CASE c.topic \notin subscribed
    <3>1. QueueSame(c.topic) /\ {c.topic} \X S \subseteq lost'
      BY <1>t, <2>1, <2>2, <2>4, PublishOwn
    <3>2. \A k \in S : Came(c, k, p, got)'
      BY <3>1 DEF Came
    <3> QED
      BY <1>4, <1>e, <1>h, <2>1, <3>1, <3>2
  <2> QED
    BY <2>3, <2>4
<1>6. CASE Forgets(m, c)
  <2>1. PICK S \in SUBSET Minions :
          ResultLeaves(m, c, S) /\ lost' = lost \cup ({c.topic} \X S)
    BY <1>6 DEF Forgets
  <2>2. QueueSame(c.topic)
    BY <1>6 DEF Forgets, QueueSame
  <2>3. \A k \in S : Came(c, k, p, got)'
    BY <2>1 DEF Came
  <2> QED
    BY <1>4, <1>e, <1>h, <2>1, <2>2, <2>3
<1>7. CASE Closes(m, c)
  <2>1. PICK tk : /\ Greenlets(m, c) = {tk}
                  /\ \/ Refuses(m, c) /\ Publish(c.topic, INTERRUPT(m))
                     \/ /\ tk.phase = "running" /\ tk.todo = {}
                        /\ Publish(c.topic, WORK(m))
    BY <1>7 DEF Closes
  <2>2. PICK msg \in {WORK(m), INTERRUPT(m)} : Publish(c.topic, msg)
    BY <2>1
  <2>m. msg \in Message /\ \A x \in Maids : EndOf(msg, x) <=> x = m
    BY DEF WORK, INTERRUPT, Message, Signal, EndOf
  <2>3. Greenlets(m, c)' = {}
    BY <1>7 DEF Closes
  <2>4. CASE QueueSame(c.topic)
    BY <1>e, <1>h, <2>3, <2>4
  <2>5. CASE QueueGets(c.topic, msg)
    <3>1. /\ p = n + 1 /\ inbox'[c.topic][n + 1] = msg
          /\ \A i \in 1 .. n : inbox'[c.topic][i] = inbox[c.topic][i]
      BY <1>n, <1>p, <2>5 DEF QueueGets
    <3>2. Refuses(m, c) \/ \A k \in due[m] : Came(c, k, p, got)'
      <4>1. CASE tk.phase = "running" /\ tk.todo = {}
        <5>1. \A k \in due[m] : Came(c, k, n, got)
          BY <1>n, <2>1, <4>1 DEF Owes
        <5> QED
          BY <1>g, <5>1
      <4> QED
        BY <2>1, <4>1
    <3>3. ASSUME NEW x \in Maids, NEW i \in 1 .. p, EndOf(inbox'[c.topic][i], x)
          PROVE  Refuses(x, c)' \/ \A k \in due[x] : Came(c, k, i, got)'
      <4>1. CASE i \in 1 .. n
        BY <1>o, <1>r, <3>1, <3>3, <4>1
      <4>2. CASE i = p
        BY <1>r, <2>m, <3>1, <3>2, <3>3, <4>2
      <4> QED
        BY <3>1, <4>1, <4>2
    <3> QED
      BY <2>3, <3>3
  <2> QED
    BY <1>t, <2>2, <2>m, <2>4, <2>5, PublishOwn
<1>8. CASE Fails(m, c)
  <2>1. Greenlets(m, c)' = {} /\ QueueSame(c.topic)
    BY <1>8 DEF Fails, QueueSame
  <2> QED
    BY <1>e, <1>h, <2>1
<1>9. CASE Elsewhere(m, c)
  <2>1. Greenlets(m, c)' = Greenlets(m, c) /\ QueueSame(c.topic)
    BY <1>9 DEF Elsewhere, Same
  <2> QED
    BY <1>e, <1>h, <1>s, <2>1
<1>10. CASE Repeats(m, c)
  <2>1. PICK k \in Minions, o \in Outcome : Publish(c.topic, Ret({k}, o))
    BY <1>10 DEF Repeats
  <2>2. Ret({k}, o) \in Message /\ \A x \in Maids : ~EndOf(Ret({k}, o), x)
    BY MessageKinds DEF Ret, Message, Data
  <2>3. Greenlets(m, c)' = Greenlets(m, c)
    BY <1>10 DEF Repeats
  <2>4. CASE QueueGets(c.topic, Ret({k}, o))
    BY <1>e, <1>f, <1>s, <2>2, <2>3, <2>4
  <2>5. CASE QueueSame(c.topic)
    BY <1>e, <1>h, <1>s, <2>3, <2>5
  <2> QED
    BY <1>t, <2>1, <2>2, <2>4, <2>5, PublishOwn
<1> QED
  BY <1>1, <1>2, <1>3, <1>5, <1>6, <1>7, <1>8, <1>9, <1>10, <1>m DEF StepsOn

\* What has been reported stays reported.
LEMMA PaidStays ==
    ASSUME lost \subseteq lost', NEW c, NEW due, NEW got, NEW more,
           got \subseteq more, NEW ended, Paid(c, due, got, ended)
    PROVE  Paid(c, due, more, ended)'
BY DEF Paid, Came, Refuses

\* With a subscriber, the PING of a maid is the first thing that it sends.
LEMMA MaidsPingFirst ==
    ASSUME MaidTypeOK, NEW c \in Command, Single(c), Own(c), MaidNext,
           c.topic \in subscribed,
           NEW pinged \in SUBSET Maids, NEW ended \in SUBSET Maids,
           PingsAhead(c, pinged, ended)
    PROVE  PingsAhead(c, pinged, ended)'
<1>t. c.topic \in Topics
  BY DEF Command
<1> DEFINE t == c.topic
<1>n. PICK n \in Nat : n = Len(inbox[t])
  BY <1>t, QueueType
<1>1. /\ \A x \in Maids : Awaits(x, c)' => Awaits(x, c)
      /\ \A x \in pinged : ~Awaits(x, c)'
  BY QueueSteps DEF PingsAhead
<1>2. CASE GetsNothing(c)
  <2>1. /\ QueueSame(c.topic)
        /\ \A x \in Maids : Greenlets(x, c)' # {} => Greenlets(x, c) # {}
    BY <1>2 DEF GetsNothing
  <2> QED
    BY <1>1, <2>1 DEF QueueSame, PingsAhead
<1> DEFINE Pinged(x, i) == \E j \in 1 .. i : PingOf(inbox'[t][j], x)
<1>3. ASSUME NEW msg, QueueGets(t, msg)
      PROVE  /\ Len(inbox'[t]) = n + 1
             /\ \A i \in 1 .. n : inbox'[t][i] = inbox[t][i]
             /\ inbox'[t][n + 1] = msg
             /\ \A x \in Maids : Greenlets(x, c) # {} =>
                   x \in pinged \/ Pinged(x, n + 1)
             /\ \A x \in Maids : \A i \in 1 .. n : EndOf(inbox'[t][i], x) =>
                   x \in pinged \/ Pinged(x, i)
  <2>1. /\ Len(inbox'[t]) = n + 1
        /\ \A i \in 1 .. n : inbox'[t][i] = inbox[t][i]
        /\ inbox'[t][n + 1] = msg
    BY <1>3, <1>n DEF QueueGets
  <2>2. \A i \in 1 .. n : 1 .. i \subseteq 1 .. n /\ i \in 1 .. n + 1
    OBVIOUS
  <2>3. 1 .. n \subseteq 1 .. n + 1
    OBVIOUS
  <2> HIDE DEF t
  <2>4. \A x \in Maids : Greenlets(x, c) # {} => x \in pinged \/ Pinged(x, n + 1)
    BY <1>n, <2>1, <2>3 DEF PingsAhead, t
  <2>5. \A x \in Maids : \A i \in 1 .. n : EndOf(inbox'[t][i], x) =>
          x \in pinged \/ Pinged(x, i)
    BY <1>n, <2>1, <2>2 DEF PingsAhead, t
  <2> QED
    BY <2>1, <2>4, <2>5
<1>4. ASSUME NEW m \in Maids, GetsPing(m, c) PROVE PingsAhead(c, pinged, ended)'
  <2>1. QueueGets(t, PING(m)) /\ \A x \in Maids : PingOf(PING(m), x) <=> x = m
    BY <1>4 DEF GetsPing, PING, PingOf
  <2>2. \A x \in Maids : ~EndOf(PING(m), x)
    BY DEF PING, EndOf
  <2>3. Awaits(m, c) /\ ~Awaits(m, c)'
    BY <1>4 DEF GetsPing
  <2>4. m \notin pinged /\ \A i \in 1 .. n : ~PingOf(inbox[t][i], m)
    BY <1>n, <2>3 DEF PingsAhead
  <2>5. Pinged(m, n + 1)
    BY <1>3, <2>1
  <2>6. ASSUME NEW x \in Maids, NEW i \in 1 .. n + 1
        PROVE  /\ EndOf(inbox'[t][i], x) => x \in pinged \/ Pinged(x, i)
               /\ PingOf(inbox'[t][i], x) => x = m \/ i \in 1 .. n
               /\ PingOf(inbox'[t][i], x) /\ x = m => i = n + 1
    <3> HIDE DEF t, Pinged
    <3>1. CASE i \in 1 .. n
      BY <1>3, <2>1, <2>4, <3>1
    <3>2. CASE i = n + 1
      BY <1>3, <2>1, <2>2, <3>2
    <3> QED
      BY <3>1, <3>2
  <2>7. ASSUME NEW x \in Maids, NEW i \in 1 .. n + 1, PingOf(inbox'[t][i], x)
        PROVE  /\ ~Awaits(x, c)' /\ x \notin pinged
               /\ \A j \in 1 .. n + 1 : PingOf(inbox'[t][j], x) => i = j
    <3>1. CASE x = m
      BY <2>3, <2>4, <2>6, <2>7, <3>1
    <3>2. CASE x # m
      <4>1. \A j \in 1 .. n + 1 : PingOf(inbox'[t][j], x) =>
              j \in 1 .. n /\ PingOf(inbox[t][j], x)
        BY <1>3, <2>1, <2>6, <3>2
      <4> QED
        BY <1>1, <1>n, <2>7, <4>1 DEF PingsAhead
    <3> QED
      BY <3>1, <3>2
  <2>8. \A x \in Maids : Greenlets(x, c)' # {} => x \in pinged \/ Pinged(x, n + 1)
    BY <1>3, <1>4, <2>1, <2>5 DEF GetsPing
  <2>9. Len(inbox'[t]) = n + 1 /\ ended \subseteq pinged
    BY <1>3, <2>1 DEF PingsAhead
  <2> QED
    BY <1>1, <2>6, <2>7, <2>8, <2>9 DEF PingsAhead, EndOf, PingOf
<1>5. ASSUME NEW m \in Maids, GetsReturn(m, c) \/ GetsEnd(m, c)
      PROVE  PingsAhead(c, pinged, ended)'
  <2>1. /\ Greenlets(m, c) # {}
        /\ \A x \in Maids : Greenlets(x, c)' # {} => Greenlets(x, c) # {}
    BY <1>5 DEF GetsReturn, GetsEnd
  <2>2. PICK msg : /\ QueueGets(t, msg)
                   /\ \A x \in Maids : ~PingOf(msg, x) /\ (EndOf(msg, x) => x = m)
    <3>1. CASE GetsReturn(m, c)
      BY <3>1, MessageKinds DEF GetsReturn
    <3>2. CASE GetsEnd(m, c)
      BY <3>2 DEF GetsEnd, WORK, INTERRUPT, EndOf, PingOf
    <3> QED
      BY <1>5, <3>1, <3>2
  <2>6. ASSUME NEW x \in Maids, NEW i \in 1 .. n + 1
        PROVE  /\ EndOf(inbox'[t][i], x) => x \in pinged \/ Pinged(x, i)
               /\ PingOf(inbox'[t][i], x) =>
                    i \in 1 .. n /\ PingOf(inbox[t][i], x)
    <3> HIDE DEF t, Pinged
    <3>1. CASE i \in 1 .. n
      BY <1>3, <2>2, <3>1
    <3>2. CASE i = n + 1
      BY <1>3, <2>1, <2>2, <3>2
    <3> QED
      BY <3>1, <3>2
  <2>7. ASSUME NEW x \in Maids, NEW i \in 1 .. n + 1, PingOf(inbox'[t][i], x)
        PROVE  /\ ~Awaits(x, c)' /\ x \notin pinged
               /\ \A j \in 1 .. n + 1 : PingOf(inbox'[t][j], x) => i = j
    BY <1>1, <1>n, <2>6, <2>7 DEF PingsAhead
  <2>8. \A x \in Maids : Greenlets(x, c)' # {} => x \in pinged \/ Pinged(x, n + 1)
    BY <1>3, <2>1, <2>2
  <2>9. Len(inbox'[t]) = n + 1 /\ ended \subseteq pinged
    BY <1>3, <2>2 DEF PingsAhead
  <2> QED
    BY <1>1, <2>6, <2>7, <2>8, <2>9 DEF PingsAhead, EndOf, PingOf
<1> QED
  BY <1>2, <1>4, <1>5, QueueSteps

(* The client reads the head of the queue.                                 *)

QueueMoves(t) ==
    /\ Len(inbox[t]) > 0
    /\ Len(inbox'[t]) = Len(inbox[t]) - 1
    /\ \A i \in 1 .. Len(inbox'[t]) : inbox'[t][i] = inbox[t][i + 1]

\* the set of ended, or of pinged maids after reading a message
EndsWith(ended, msg) ==
    IF msg.kind \in {"work", "interrupt"} THEN ended \cup {msg.sub_ip} ELSE ended
PingsWith(pinged, msg) ==
    IF msg.kind = "ping" THEN pinged \cup {msg.sub_ip} ELSE pinged

\* The message that the client reads has the fields its kind promises.
LEMMA HeadType ==
    ASSUME MaidTypeOK, NEW t \in Topics, inbox[t] # <<>>
    PROVE  /\ Len(inbox[t]) > 0 /\ Head(inbox[t]) = inbox[t][1]
           /\ inbox[t][1] \in Message
           /\ inbox[t][1].kind \in
                {"subscribe", "ping", "work", "interrupt", "data"}
           /\ inbox[t][1].kind \in {"ping", "work", "interrupt"} =>
                inbox[t][1].sub_ip \in Maids
           /\ inbox[t][1].kind = "data" => /\ inbox[t][1].items \subseteq Minions
                                           /\ inbox[t][1].out \in Outcome
<1>1. inbox[t] \in Seq(Message)
  BY QueueType
<1>2. Len(inbox[t]) > 0 /\ Head(inbox[t]) = inbox[t][1] /\ inbox[t][1] \in Message
  BY <1>1, HeadTailProperties, EmptySeq, LenProperties
<1> QED
  BY <1>2 DEF Message, Confirmation, Signal, Data

\* The queue without its head.
LEMMA HeadTaken ==
    ASSUME MaidTypeOK, NEW t \in Topics, inbox[t] # <<>>,
           inbox'[t] = Tail(inbox[t])
    PROVE  QueueMoves(t)
<1>1. inbox[t] \in Seq(Message)
  BY QueueType
<1> QED
  BY <1>1, HeadTailProperties, EmptySeq, LenProperties DEF QueueMoves

\* An end that is read is the only one of its maid.
LEMMA TurnClosesOnce ==
    ASSUME MaidTypeOK, NEW c \in Command, QueueMoves(c.topic),
           UNCHANGED <<cmdq, tasks>>,
           NEW ended \in SUBSET Maids, ClosesOnce(c, ended),
           NEW msg, msg = inbox[c.topic][1]
    PROVE  /\ ClosesOnce(c, EndsWith(ended, msg))'
           /\ msg.kind \in {"work", "interrupt"} => msg.sub_ip \notin ended
<1>t. c.topic \in Topics
  BY DEF Command
<1>n. PICK n \in Nat : n = Len(inbox[c.topic])
  BY <1>t, QueueType
<1>1. /\ n > 0 /\ Len(inbox'[c.topic]) = n - 1
      /\ \A i \in 1 .. n - 1 : /\ i + 1 \in 1 .. n
                               /\ inbox'[c.topic][i] = inbox[c.topic][i + 1]
  BY <1>n DEF QueueMoves
<1>2. \A x \in Maids : Holds(x, c)' <=> Holds(x, c)
  BY DEF Holds, Awaits, Greenlets
<1>3. 1 \in 1 .. n
  BY <1>1
<1>4. inbox[c.topic][1] \in Message
  BY <1>3, <1>n, <1>t, QueueType
<1>5. CASE msg.kind \notin {"work", "interrupt"}
  <2>1. EndsWith(ended, msg) = ended
    BY <1>5 DEF EndsWith
  <2>2. ASSUME NEW x \in Maids, NEW i \in 1 .. n - 1, EndOf(inbox'[c.topic][i], x)
        PROVE  /\ ~Holds(x, c)' /\ x \notin ended
               /\ \A j \in 1 .. n - 1 : EndOf(inbox'[c.topic][j], x) => i = j
    <3>1. \A j \in 1 .. n - 1 : EndOf(inbox'[c.topic][j], x) => i + 1 = j + 1
      BY <1>1, <1>n, <2>2 DEF ClosesOnce
    <3>2. ~Holds(x, c)' /\ x \notin ended
      BY <1>1, <1>2, <1>n, <2>2 DEF ClosesOnce
    <3> QED
      BY <3>1, <3>2
  <2> QED
    BY <1>1, <1>2, <1>5, <2>1, <2>2 DEF ClosesOnce, EndOf
<1>6. CASE msg.kind \in {"work", "interrupt"}
  <2> DEFINE m == msg.sub_ip
  <2>1. m \in Maids /\ EndOf(inbox[c.topic][1], m)
    BY <1>4, <1>6 DEF EndOf, Message, Confirmation, Signal, Data
  <2>2. /\ m \notin ended /\ ~Holds(m, c)
        /\ \A j \in 1 .. n : EndOf(inbox[c.topic][j], m) => 1 = j
    BY <1>3, <1>n, <2>1 DEF ClosesOnce
  <2>3. EndsWith(ended, msg) = ended \cup {m}
    BY <1>6 DEF EndsWith
  <2> HIDE DEF m
  <2>4. ASSUME NEW x \in Maids, NEW i \in 1 .. n - 1, EndOf(inbox'[c.topic][i], x)
        PROVE  /\ ~Holds(x, c)' /\ x \notin ended /\ x # m
               /\ \A j \in 1 .. n - 1 : EndOf(inbox'[c.topic][j], x) => i = j
    <3>1. \A j \in 1 .. n - 1 : EndOf(inbox'[c.topic][j], x) => i + 1 = j + 1
      BY <1>1, <1>n, <2>4 DEF ClosesOnce
    <3>2. ~Holds(x, c)' /\ x \notin ended
      BY <1>1, <1>2, <1>n, <2>4 DEF ClosesOnce
    <3>3. x # m
      <4>1. EndOf(inbox[c.topic][i + 1], x) /\ i + 1 \in 1 .. n /\ i + 1 # 1
        BY <1>1, <2>4
      <4> QED
        BY <2>2, <4>1
    <3> QED
      BY <3>1, <3>2, <3>3
  <2>5. \A x \in ended \cup {m} : ~Holds(x, c)'
    BY <1>2, <2>1, <2>2 DEF ClosesOnce
  <2> QED
    BY <1>1, <2>2, <2>3, <2>4, <2>5 DEF ClosesOnce, EndOf, m
<1> QED
  BY <1>5, <1>6

\* A return that is still queued is ahead of an end that is not read.
LEMMA TurnReturnsAhead ==
    ASSUME MaidTypeOK, NEW c \in Command, QueueMoves(c.topic),
           NEW ended \in SUBSET Maids, ReturnsAhead(c, ended),
           NEW msg, msg = inbox[c.topic][1]
    PROVE  ReturnsAhead(c, EndsWith(ended, msg))'
<1>t. c.topic \in Topics
  BY DEF Command
<1>n. PICK n \in Nat : n = Len(inbox[c.topic])
  BY <1>t, QueueType
<1>1. /\ n > 0 /\ Len(inbox'[c.topic]) = n - 1
      /\ \A i \in 1 .. n - 1 : /\ i + 1 \in 1 .. n
                               /\ inbox'[c.topic][i] = inbox[c.topic][i + 1]
  BY <1>n DEF QueueMoves
<1>2. ASSUME NEW i \in 1 .. n - 1, inbox'[c.topic][i].kind = "data"
      PROVE  \E m \in Maids \ EndsWith(ended, msg) : \A j \in 1 .. n - 1 :
                EndOf(inbox'[c.topic][j], m) => i < j
  <2>1. PICK m \in Maids \ ended : \A j \in 1 .. n :
            EndOf(inbox[c.topic][j], m) => i + 1 < j
    BY <1>1, <1>2, <1>n DEF ReturnsAhead
  <2>2. m \notin EndsWith(ended, msg)
    <3>1. ~EndOf(inbox[c.topic][1], m)
      BY <1>1, <2>1
    <3> QED
      BY <2>1, <3>1 DEF EndsWith, EndOf
  <2>3. ASSUME NEW j \in 1 .. n - 1, EndOf(inbox'[c.topic][j], m)
        PROVE  i < j
    <3>1. i + 1 < j + 1
      BY <1>1, <2>1, <2>3
    <3> QED
      BY <3>1
  <2> QED
    BY <2>2, <2>3
<1> QED
  BY <1>1, <1>2 DEF ReturnsAhead, EndOf, EndsWith

\* What came before an end that is read has been read, or was lost.
LEMMA TurnPays ==
    ASSUME MaidTypeOK, NEW c \in Command, QueueMoves(c.topic),
           UNCHANGED tasks, lost \subseteq lost',
           NEW ended \in SUBSET Maids, NEW due \in [Maids -> SUBSET Minions],
           NEW got, NEW more, got \subseteq more,
           NEW msg, msg = inbox[c.topic][1],
           msg.kind = "data" => msg.items \subseteq more,
           Owes(c, due, got), Paid(c, due, got, ended)
    PROVE  /\ Owes(c, due, more)'
           /\ Paid(c, due, more, EndsWith(ended, msg))'
<1>t. c.topic \in Topics
  BY DEF Command
<1>n. PICK n \in Nat : n = Len(inbox[c.topic])
  BY <1>t, QueueType
<1>1. /\ n > 0 /\ Len(inbox'[c.topic]) = n - 1
      /\ \A i \in 1 .. n - 1 : /\ i + 1 \in 1 .. n
                               /\ inbox'[c.topic][i] = inbox[c.topic][i + 1]
  BY <1>n DEF QueueMoves
<1>2. ASSUME NEW k, NEW i \in 1 .. n, Came(c, k, i, got)
      PROVE  Came(c, k, i - 1, more)'
  <2>1. CASE k \in got \/ <<c.topic, k>> \in lost
    BY <2>1 DEF Came
  <2>2. ASSUME NEW j \in 1 .. i, inbox[c.topic][j].kind = "data",
               k \in inbox[c.topic][j].items
        PROVE  Came(c, k, i - 1, more)'
    <3>1. CASE j = 1
      BY <2>2, <3>1 DEF Came
    <3>2. CASE j # 1
      <4>1. j - 1 \in 1 .. i - 1 /\ j - 1 \in 1 .. n - 1 /\ (j - 1) + 1 = j
        BY <1>2, <2>2, <3>2
      <4>2. inbox'[c.topic][j - 1] = inbox[c.topic][j]
        BY <1>1, <4>1
      <4> QED
        BY <2>2, <4>1, <4>2 DEF Came
    <3> QED
      BY <3>1, <3>2
  <2> QED
    BY <1>2, <2>1, <2>2 DEF Came
<1>3. \A m \in Maids : /\ Greenlets(m, c)' = Greenlets(m, c)
                       /\ Refuses(m, c)' <=> Refuses(m, c)
  BY DEF Greenlets, Refuses
<1>4. ASSUME NEW m \in Maids
      PROVE  /\ \A tk \in Greenlets(m, c)' : tk.phase = "running" =>
                  \A k \in due[m] : \/ \E S \in tk.todo : k \in S
                                    \/ Came(c, k, n - 1, more)'
             /\ \A i \in 1 .. n - 1 : EndOf(inbox'[c.topic][i], m) =>
                  \/ Refuses(m, c)'
                  \/ \A k \in due[m] : Came(c, k, i, more)'
  <2>1. \A k : Came(c, k, n, got) => Came(c, k, n - 1, more)'
    BY <1>1, <1>2
  <2>2. ASSUME NEW i \in 1 .. n - 1, EndOf(inbox'[c.topic][i], m)
        PROVE  Refuses(m, c)' \/ \A k \in due[m] : Came(c, k, i, more)'
    <3>1. /\ i + 1 \in 1 .. n /\ EndOf(inbox[c.topic][i + 1], m)
          /\ (i + 1) - 1 = i
      BY <1>1, <2>2
    <3>2. Refuses(m, c) \/ \A k \in due[m] : Came(c, k, i + 1, got)
      BY <1>n, <3>1 DEF Owes
    <3> QED
      BY <1>2, <1>3, <3>1, <3>2
  <2>3. \A tk \in Greenlets(m, c) : tk.phase = "running" =>
          \A k \in due[m] : (\E S \in tk.todo : k \in S) \/ Came(c, k, n, got)
    BY <1>n DEF Owes
  <2> QED
    BY <1>3, <2>1, <2>2, <2>3
<1>5. Owes(c, due, more)'
  BY <1>1, <1>4 DEF Owes, EndOf
<1>6. ASSUME NEW m \in EndsWith(ended, msg)
      PROVE  Refuses(m, c)' \/ \A k \in due[m] : Came(c, k, 0, more)'
  <2>1. CASE m \in ended
    BY <2>1 DEF Paid, Came, Refuses
  <2>2. CASE m \notin ended
    <3>1. EndOf(inbox[c.topic][1], m) /\ 1 \in 1 .. n
      BY <1>1, <1>6, <2>2 DEF EndsWith, EndOf
    <3>2. m \in Maids
      BY <1>n, <1>t, <3>1, QueueType DEF EndOf, Message, Confirmation, Signal, Data
    <3>3. Refuses(m, c) \/ \A k \in due[m] : Came(c, k, 1, got)
      BY <1>n, <3>1, <3>2 DEF Owes
    <3> QED
      BY <1>2, <1>3, <3>1, <3>2, <3>3
  <2> QED
    BY <2>1, <2>2
<1> QED
  BY <1>5, <1>6 DEF Paid, EndsWith

\* A maid whose end is read has had its PING read before.
LEMMA TurnPingsFirst ==
    ASSUME MaidTypeOK, NEW c \in Command, QueueMoves(c.topic),
           UNCHANGED <<cmdq, tasks>>,
           NEW pinged \in SUBSET Maids, NEW ended \in SUBSET Maids,
           PingsAhead(c, pinged, ended),
           NEW msg, msg = inbox[c.topic][1]
    PROVE  /\ PingsAhead(c, PingsWith(pinged, msg), EndsWith(ended, msg))'
           /\ msg.kind = "ping" => msg.sub_ip \notin pinged
<1>t. c.topic \in Topics
  BY DEF Command
<1> DEFINE t == c.topic
           now == PingsWith(pinged, msg)
<1>n. PICK n \in Nat : n = Len(inbox[t])
  BY <1>t, QueueType
<1>1. /\ n > 0 /\ 1 \in 1 .. n /\ Len(inbox'[t]) = n - 1
      /\ \A i \in 1 .. n - 1 : /\ i + 1 \in 1 .. n
                               /\ inbox'[t][i] = inbox[t][i + 1]
  BY <1>n DEF QueueMoves
<1>2. \A x \in Maids : /\ Awaits(x, c)' <=> Awaits(x, c)
                       /\ Greenlets(x, c)' = Greenlets(x, c)
  BY DEF Awaits, Greenlets
<1>3. \A x \in Maids : /\ x \in now <=> x \in pinged \/ PingOf(msg, x)
                       /\ x \in EndsWith(ended, msg) <=> x \in ended \/ EndOf(msg, x)
  BY DEF PingsWith, EndsWith, PingOf, EndOf
<1>m. msg.kind \in {"ping", "work", "interrupt"} => msg.sub_ip \in Maids
  <2>1. inbox[t][1] \in Message
    BY <1>1, <1>n, <1>t, QueueType
  <2> QED
    BY <2>1 DEF Message, Confirmation, Signal, Data
<1>s. now \subseteq Maids /\ EndsWith(ended, msg) \subseteq Maids
  BY <1>m DEF PingsWith, EndsWith
<1> HIDE DEF now
<1>4. \A x \in Maids : EndOf(msg, x) => x \in pinged
  <2>1. ASSUME NEW x \in Maids, EndOf(msg, x) PROVE x \in pinged
    <3>1. x \in pinged \/ \E j \in 1 .. 1 : PingOf(inbox[t][j], x)
      BY <1>1, <1>n, <2>1 DEF PingsAhead
    <3>2. ~PingOf(msg, x)
      BY <2>1 DEF EndOf, PingOf
    <3> QED
      BY <3>1, <3>2
  <2> QED
    BY <2>1
<1>5. EndsWith(ended, msg) \subseteq now
  BY <1>3, <1>4, <1>s DEF PingsAhead
<1>6. ASSUME NEW x \in Maids, PingOf(msg, x)
      PROVE  /\ ~Awaits(x, c) /\ x \notin pinged
             /\ \A j \in 1 .. n : PingOf(inbox[t][j], x) => 1 = j
  BY <1>1, <1>6, <1>n DEF PingsAhead
<1>7. \A x \in now : ~Awaits(x, c)'
  BY <1>2, <1>3, <1>6, <1>s DEF PingsAhead
<1>8. ASSUME NEW x \in Maids, NEW i \in 1 .. n,
             \E j \in 1 .. i : PingOf(inbox[t][j], x)
      PROVE  x \in now \/ \E j \in 1 .. i - 1 : PingOf(inbox'[t][j], x)
  <2>1. PICK j \in 1 .. i : PingOf(inbox[t][j], x)
    BY <1>8
  <2>2. CASE j = 1
    BY <1>3, <2>1, <2>2
  <2>3. CASE j # 1
    <3>1. j - 1 \in 1 .. i - 1 /\ j - 1 \in 1 .. n - 1 /\ (j - 1) + 1 = j
      BY <1>8, <2>3
    <3>2. inbox'[t][j - 1] = inbox[t][j]
      BY <1>1, <3>1
    <3> QED
      BY <2>1, <3>1, <3>2
  <2> QED
    BY <2>2, <2>3
<1>9. ASSUME NEW x \in Maids, Greenlets(x, c)' # {}
      PROVE  x \in now \/ \E j \in 1 .. n - 1 : PingOf(inbox'[t][j], x)
  <2>1. x \in pinged \/ \E j \in 1 .. n : PingOf(inbox[t][j], x)
    BY <1>2, <1>9, <1>n DEF PingsAhead
  <2>2. n \in 1 .. n
    BY <1>1
  <2> QED
    BY <1>3, <1>8, <2>1, <2>2
<1>10. ASSUME NEW x \in Maids, NEW i \in 1 .. n - 1, EndOf(inbox'[t][i], x)
       PROVE  x \in now \/ \E j \in 1 .. i : PingOf(inbox'[t][j], x)
  <2>1. i + 1 \in 1 .. n /\ EndOf(inbox[t][i + 1], x) /\ (i + 1) - 1 = i
    BY <1>1, <1>10
  <2>2. x \in pinged \/ \E j \in 1 .. i + 1 : PingOf(inbox[t][j], x)
    BY <1>n, <2>1 DEF PingsAhead
  <2> QED
    BY <1>3, <1>8, <2>1, <2>2
<1>11. ASSUME NEW x \in Maids, NEW i \in 1 .. n - 1, PingOf(inbox'[t][i], x)
       PROVE  /\ ~Awaits(x, c)' /\ x \notin now
              /\ \A j \in 1 .. n - 1 : PingOf(inbox'[t][j], x) => i = j
  <2>1. i + 1 \in 1 .. n /\ PingOf(inbox[t][i + 1], x) /\ i + 1 # 1
    BY <1>1, <1>11
  <2>2. /\ ~Awaits(x, c) /\ x \notin pinged
        /\ \A j \in 1 .. n : PingOf(inbox[t][j], x) => i + 1 = j
    BY <1>n, <2>1 DEF PingsAhead
  <2>3. ~PingOf(msg, x)
    BY <1>1, <2>1, <2>2
  <2>4. \A j \in 1 .. n - 1 : PingOf(inbox'[t][j], x) => i + 1 = j + 1
    BY <1>1, <2>2
  <2>5. \A j \in 1 .. n - 1 : i + 1 = j + 1 => i = j
    OBVIOUS
  <2> QED
    BY <1>2, <1>3, <2>2, <2>3, <2>4, <2>5
<1>12. PingsAhead(c, now, EndsWith(ended, msg))'
  BY <1>1, <1>5, <1>7, <1>9, <1>10, <1>11 DEF PingsAhead, EndOf, PingOf, EndsWith
<1>13. msg.kind = "ping" => msg.sub_ip \notin pinged
  BY <1>6, <1>m DEF PingOf
<1> QED
  BY <1>12, <1>13 DEF now, PingsWith

\* When the client has read nothing yet and no maid has begun, all is in order.
LEMMA FreshTopic ==
    ASSUME NEW c \in Command, NEW due,
           \A m \in Maids : Greenlets(m, c)' = {},
           \A i \in 1 .. Len(inbox'[c.topic]) :
              inbox'[c.topic][i].kind = "subscribe"
    PROVE  /\ ClosesOnce(c, {})' /\ ReturnsAhead(c, {})'
           /\ Owes(c, due, {})' /\ Paid(c, due, {}, {})'
           /\ PingsAhead(c, {}, {})'
BY DEF ClosesOnce, ReturnsAhead, Owes, Paid, PingsAhead, EndOf, PingOf

\* Nothing comes for a command that nobody holds.
LEMMA QuietTopic ==
    ASSUME MaidTypeOK, NEW c \in Command, Single(c), Own(c), MaidNext,
           \A m \in Maids : ~Holds(m, c)
    PROVE  /\ QueueSame(c.topic)
           /\ \A m \in Maids : ~Holds(m, c)'
BY QueueSteps DEF GetsNothing, GetsPing, GetsReturn, GetsEnd, Holds

\* A SYNC_RUN or SALT_CP that is not refused has a result for every minion
\* that it matches, a FIND_ACCEPT for every minion of the maid.
LEMMA ResultsCover ==
    ASSUME NEW m \in Maids, NEW c \in Command
    PROVE  /\ c.type \in {SYNC_RUN, SALT_CP} =>
                \A k \in Matched(m, c.tgt) : \E S \in Results(m, c) : k \in S
           /\ c.type = FIND_ACCEPT =>
                \A k \in Accepted[m] : \E S \in Results(m, c) : k \in S
<1>1. CASE c.type = SYNC_RUN
  <2>1. \A k \in Matched(m, c.tgt) : {k} \in Results(m, c)
    BY <1>1 DEF Results, SYNC_RUN, SALT_CP, FIND_ACCEPT, LIST_JOBS, ASYNC_RUN,
       LOOKUP_JID
  <2> QED
    BY <1>1, <2>1 DEF SYNC_RUN, SALT_CP, FIND_ACCEPT
<1>2. CASE c.type = SALT_CP
  <2>1. Results(m, c) = {Matched(m, c.tgt)}
    BY <1>2 DEF Results, SYNC_RUN, SALT_CP, FIND_ACCEPT, LIST_JOBS, ASYNC_RUN,
       LOOKUP_JID
  <2> QED
    BY <1>2, <2>1 DEF SYNC_RUN, SALT_CP, FIND_ACCEPT
<1>3. CASE c.type = FIND_ACCEPT
  <2>1. Results(m, c) = {Accepted[m]}
    BY <1>3 DEF Results, SYNC_RUN, SALT_CP, FIND_ACCEPT, LIST_JOBS, ASYNC_RUN,
       LOOKUP_JID
  <2> QED
    BY <1>3, <2>1 DEF SYNC_RUN, SALT_CP, FIND_ACCEPT
<1> QED
  BY <1>1, <1>2, <1>3
-----------------------------------------------------------------------------
(* The four invariants of a command together, for the clients that need    *)
(* all of them.                                                            *)

InOrder(c, due, got, ended) ==
    /\ ClosesOnce(c, ended)
    /\ ReturnsAhead(c, ended)
    /\ Owes(c, due, got)
    /\ Paid(c, due, got, ended)

\* no result of the command has been lost
NoneLost(c) == \A k : <<c.topic, k>> \notin lost

\* Steps that touch neither maids nor queues leave a command as it is.
LEMMA StillInOrder ==
    ASSUME UNCHANGED <<cmdq, tasks, inbox, lost>>, NEW c
    PROVE  /\ \A due, got, ended :
                InOrder(c, due, got, ended) => InOrder(c, due, got, ended)'
           /\ Single(c) => Single(c)'
           /\ Own(c) => Own(c)'
           /\ NoneLost(c) => NoneLost(c)'
           /\ \A m \in Maids : Holds(m, c)' <=> Holds(m, c)
BY DEF InOrder, ClosesOnce, ReturnsAhead, Owes, Paid, Came, Holds, Awaits,
       Greenlets, Single, Own, NoneLost, Refuses, EndOf

\* So does a step that only takes from a queue, but for the invariants of
\* that queue.
LEMMA StillHeld ==
    ASSUME UNCHANGED <<cmdq, tasks>>, NEW c
    PROVE  /\ Single(c) => Single(c)'
           /\ Own(c) => Own(c)'
           /\ \A m \in Maids : Holds(m, c)' <=> Holds(m, c)
BY DEF Holds, Awaits, Greenlets, Single, Own

\* In a topic with nothing but confirmations, and no greenlet, all is in order.
LEMMA FreshInOrder ==
    ASSUME NEW c \in Command, NEW due,
           \A m \in Maids : Greenlets(m, c)' = {},
           \A i \in 1 .. Len(inbox'[c.topic]) :
              inbox'[c.topic][i].kind = "subscribe"
    PROVE  InOrder(c, due, {}, {})'
BY FreshTopic DEF InOrder

\* The maids' steps keep the order of a command's messages, if a greenlet that
\* begins has what is due of its maid among its results.
LEMMA MaidsInOrder ==
    ASSUME MaidTypeOK, NEW c \in Command, Single(c), Own(c), MaidNext,
           NEW due \in [Maids -> SUBSET Minions], NEW got,
           NEW ended \in SUBSET Maids,
           \A m \in Maids : BeginsRun(m, c) =>
              \A k \in due[m] : \E S \in Results(m, c) : k \in S,
           InOrder(c, due, got, ended)
    PROVE  InOrder(c, due, got, ended)'
<1>1. lost \subseteq lost'
  BY QueueSteps
<1>2. ClosesOnce(c, ended) /\ ReturnsAhead(c, ended)
  BY DEF InOrder
<1>3. ClosesOnce(c, ended)' /\ ReturnsAhead(c, ended)'
  BY <1>2, MaidsCloseOnce, MaidsReturnAhead
<1>4. Owes(c, due, got) /\ Paid(c, due, got, ended)
  BY DEF InOrder
<1>5. Owes(c, due, got)'
  BY <1>4, MaidsOwe
<1>6. Paid(c, due, got, ended)'
  BY <1>1, <1>4, PaidStays
<1> QED
  BY <1>3, <1>5, <1>6 DEF InOrder

\* A client that takes one message keeps the order, when it records what a
\* return names and whose end it has read; it reads no end twice.
LEMMA TurnInOrder ==
    ASSUME MaidTypeOK, NEW c \in Command, QueueMoves(c.topic),
           UNCHANGED <<cmdq, tasks>>, lost \subseteq lost',
           NEW due \in [Maids -> SUBSET Minions],
           NEW got, NEW more, got \subseteq more,
           NEW ended \in SUBSET Maids,
           NEW msg, msg = inbox[c.topic][1],
           msg.kind = "data" => msg.items \subseteq more,
           InOrder(c, due, got, ended)
    PROVE  /\ InOrder(c, due, more, EndsWith(ended, msg))'
           /\ msg.kind \in {"work", "interrupt"} => msg.sub_ip \notin ended
<1>1. ClosesOnce(c, ended) /\ ReturnsAhead(c, ended)
  BY DEF InOrder
<1>2. Owes(c, due, got) /\ Paid(c, due, got, ended)
  BY DEF InOrder
<1>3. /\ ClosesOnce(c, EndsWith(ended, msg))'
      /\ msg.kind \in {"work", "interrupt"} => msg.sub_ip \notin ended
  BY <1>1, TurnClosesOnce
<1>4. ReturnsAhead(c, EndsWith(ended, msg))'
  BY <1>1, TurnReturnsAhead
<1>5. Owes(c, due, more)' /\ Paid(c, due, more, EndsWith(ended, msg))'
  BY <1>2, TurnPays
<1> QED
  BY <1>3, <1>4, <1>5 DEF InOrder

\* When the end of every maid has been read, no maid has anything to do any
\* more, no return is queued, and what they had to report has been read.
LEMMA AllEnded ==
    ASSUME NEW c, NEW due, NEW got, InOrder(c, due, got, Maids)
    PROVE  /\ \A m \in Maids : ~Holds(m, c)
           /\ \A i \in 1 .. Len(inbox[c.topic]) : inbox[c.topic][i].kind # "data"
           /\ NoneLost(c) => \A m \in Maids : Refuses(m, c) \/ due[m] \subseteq got
<1>1. /\ \A m \in Maids : ~Holds(m, c)
      /\ \A i \in 1 .. Len(inbox[c.topic]) : inbox[c.topic][i].kind # "data"
  BY DEF InOrder, ClosesOnce, ReturnsAhead
<1>2. ASSUME NoneLost(c), NEW m \in Maids, ~Refuses(m, c), NEW k \in due[m]
      PROVE  k \in got
  <2>1. Came(c, k, 0, got)
    BY <1>2 DEF InOrder, Paid
  <2> QED
    BY <1>2, <2>1 DEF Came, NoneLost
<1> QED
  BY <1>1, <1>2

\* When the end that the client reads is the last one, it has read all that
\* the maids had to report.
LEMMA LastEnd ==
    ASSUME NEW c \in Command, NEW due, NEW got, NEW ended \in SUBSET Maids,
           InOrder(c, due, got, ended), NoneLost(c),
           Len(inbox[c.topic]) \in Nat, Len(inbox[c.topic]) > 0,
           NEW msg, msg = inbox[c.topic][1],
           msg.kind \in {"work", "interrupt"}, EndsWith(ended, msg) = Maids
    PROVE  \A m \in Maids : Refuses(m, c) \/ due[m] \subseteq got
<1>1. ASSUME NEW m \in Maids, ~Refuses(m, c), NEW k \in due[m] PROVE k \in got
  <2>1. CASE m \in ended
    <3>1. Came(c, k, 0, got)
      BY <1>1, <2>1 DEF InOrder, Paid
    <3> QED
      BY <3>1 DEF Came, NoneLost
  <2>2. CASE m \notin ended
    <3>1. EndOf(inbox[c.topic][1], m)
      BY <2>2 DEF EndsWith, EndOf
    <3>2. Came(c, k, 1, got)
      BY <1>1, <3>1 DEF InOrder, Owes
    <3> QED
      BY <3>2 DEF Came, NoneLost
  <2> QED
    BY <2>1, <2>2
<1> QED
  BY <1>1

\* Only a SYNC_RUN loses a result on a topic that has a subscriber.
LEMMA NoneLostKept ==
    ASSUME MaidTypeOK, NEW c \in Command, Single(c), Own(c), MaidNext,
           c.topic \in subscribed, c.type # SYNC_RUN, NoneLost(c)
    PROVE  NoneLost(c)'
<1>t. c.topic \in Topics
  BY DEF Command
<1>p. ASSUME NEW msg \in Message, Publish(c.topic, msg) PROVE UNCHANGED lost
  BY <1>p, <1>t, PublishOwn
<1>1. PICK m \in Maids : StepsOn(m, c)
  BY MaidStepsOn
<1>2. CASE TakesUp(m, c)
  <2>1. PING(m) \in Message
    BY DEF PING, Message, Signal
  <2> QED
    BY <1>2, <1>p, <2>1 DEF TakesUp, NoneLost
<1>3. CASE Delivers(m, c)
  <2>1. PICK S \in SUBSET Minions, o \in Outcome : Publish(c.topic, Ret(S, o))
    BY <1>3 DEF Delivers
  <2>2. Ret(S, o) \in Message
    BY DEF Ret, Message, Data
  <2> QED
    BY <1>p, <2>1, <2>2 DEF NoneLost
<1>4. CASE Closes(m, c)
  <2>1. PICK msg \in {WORK(m), INTERRUPT(m)} : Publish(c.topic, msg)
    BY <1>4 DEF Closes
  <2>2. msg \in Message
    BY DEF WORK, INTERRUPT, Message, Signal
  <2> QED
    BY <1>p, <2>1, <2>2 DEF NoneLost
<1>5. CASE GetsReady(m, c) \/ BeginsRun(m, c) \/ Fails(m, c) \/ Elsewhere(m, c)
  BY <1>5 DEF GetsReady, BeginsRun, Fails, Elsewhere, NoneLost
<1> QED
  BY <1>1, <1>2, <1>3, <1>4, <1>5 DEF StepsOn, Forgets, Repeats

\* Nothing is lost for a command that nobody holds.
LEMMA QuietNoneLost ==
    ASSUME MaidTypeOK, NEW c \in Command, Single(c), Own(c), MaidNext,
           \A m \in Maids : ~Holds(m, c), NoneLost(c)
    PROVE  NoneLost(c)'
<1>1. PICK m \in Maids : StepsOn(m, c)
  BY MaidStepsOn
<1>2. Greenlets(m, c) = {} /\ ~Awaits(m, c)
  BY DEF Holds
<1> QED
  BY <1>1, <1>2 DEF StepsOn, TakesUp, GetsReady, BeginsRun, Delivers, Forgets,
     ResultLeaves, Repeats, Closes, Fails, Elsewhere, NoneLost
-----------------------------------------------------------------------------
(* Commands that share a topic: which of them are still to be sent to a    *)
(* minion, or still have to publish its return.                            *)

\* maid m has the command and has not handed it to LocalClient yet
Unsent(m, c) ==
    Awaits(m, c) \/ \E tk \in Greenlets(m, c) : tk.phase # "running"

\* maid m has still to publish minion k's return for the command
Carries(m, c, k) ==
    /\ k \in Matched(m, c.tgt)
    /\ Unsent(m, c) \/ \E tk \in Greenlets(m, c) : \E S \in tk.todo : k \in S

\* what a greenlet has still to publish are results of its command
TodoOK == \A m \in Maids : \A tk \in tasks[m] :
    /\ tk.phase # "running" => tk.todo = {}
    /\ tk.cmd.type = SYNC_RUN => tk.todo \subseteq Results(m, tk.cmd)

\* A SYNC_RUN has one result for each minion.
LEMMA SyncResults ==
    ASSUME NEW m, NEW c, c.type = SYNC_RUN
    PROVE  /\ Results(m, c) = IF Matched(m, c.tgt) = {}
                              THEN {{}} ELSE {{k} : k \in Matched(m, c.tgt)}
           /\ \A S \in Results(m, c) : \A k \in S :
                S = {k} /\ k \in Matched(m, c.tgt)
<1>1. Results(m, c) = IF Matched(m, c.tgt) = {}
                      THEN {{}} ELSE {{k} : k \in Matched(m, c.tgt)}
  BY DEF Results, SYNC_RUN, SALT_CP, FIND_ACCEPT, LIST_JOBS, ASYNC_RUN, LOOKUP_JID
<1> QED
  BY <1>1

\* What a SYNC_RUN greenlet has still to report are results of its command, in
\* every step of the maids.
LEMMA TodoKept ==
    ASSUME MaidTypeOK, TodoOK, MaidNext
    PROVE  TodoOK'
<1>1. PICK m \in Maids : MaidWork(m) \/ MaidFault(m)
  BY DEF MaidNext
<1>r. \A x \in Maids : \A c : c.type = SYNC_RUN => Results(x, c)' = Results(x, c)
  BY SyncResults DEF Results, Matched, SYNC_RUN, SALT_CP, FIND_ACCEPT, LIST_JOBS,
     ASYNC_RUN, LOOKUP_JID
<1>2. ASSUME \A x \in Maids \ {m} : tasks'[x] = tasks[x],
             \A new \in tasks'[m] : \/ new \in tasks[m]
                                    \/ /\ new.phase # "running" => new.todo = {}
                                       /\ new.cmd.type = SYNC_RUN =>
                                            new.todo \subseteq Results(m, new.cmd)
      PROVE  TodoOK'
  <2>1. ASSUME NEW x \in Maids, NEW tk \in tasks'[x]
        PROVE  /\ tk.phase # "running" => tk.todo = {}
               /\ tk.cmd.type = SYNC_RUN => tk.todo \subseteq Results(x, tk.cmd)
    BY <1>2, <2>1 DEF TodoOK
  <2> QED
    BY <1>r, <2>1 DEF TodoOK
<1>3. CASE MaidReceive(m)
  BY <1>2, <1>3 DEF MaidReceive, Greenlet, PoolPlace, MaidTypeOK
<1>4. ASSUME NEW tk \in tasks[m], MaidSpawn(m, tk)
      PROVE  TodoOK'
  <2>1. tk \in Task
    BY DEF MaidTypeOK
  <2>2. tasks' = [tasks EXCEPT ![m] = (@ \ {tk}) \cup {[tk EXCEPT !.phase = "spawned"]}]
    BY <1>4 DEF MaidSpawn
  <2>3. [tk EXCEPT !.phase = "spawned"].todo = {}
    BY <1>4, <2>1 DEF MaidSpawn, TodoOK, Task
  <2> QED
    BY <1>2, <2>2, <2>3 DEF MaidTypeOK
<1>5. ASSUME NEW tk \in tasks[m], TaskStart(m, tk)
      PROVE  TodoOK'
  <2> DEFINE new == [tk EXCEPT !.phase = "running", !.todo = Results(m, tk.cmd)]
  <2>1. tk \in Task
    BY DEF MaidTypeOK
  <2>2. tasks' = [tasks EXCEPT ![m] = (@ \ {tk}) \cup {new}]
    BY <1>5 DEF TaskStart
  <2>3. new.phase = "running" /\ new.cmd = tk.cmd /\ new.todo = Results(m, tk.cmd)
    BY <2>1 DEF Task
  <2> HIDE DEF new
  <2> QED
    BY <1>2, <2>2, <2>3 DEF MaidTypeOK
<1>6. ASSUME NEW tk \in tasks[m], TaskEmit(m, tk) \/ TaskDrop(m, tk)
      PROVE  TodoOK'
  <2>1. PICK S, R :
          /\ S \in tk.todo
          /\ R \in {{}, S}
          /\ tasks' = [tasks EXCEPT ![m] = (@ \ {tk}) \cup {Reported(tk, S, R)}]
    BY <1>6, StepReports
  <2> DEFINE new == Reported(tk, S, R)
  <2>2. tk \in Task /\ tk.phase = "running" /\ R \in SUBSET Minions
    <3>1. tk \in Task /\ tk.phase = "running"
      BY <1>6 DEF MaidTypeOK, TaskEmit, TaskDrop
    <3>2. S \in SUBSET Minions
      BY <2>1, <3>1 DEF Task
    <3> QED
      BY <2>1, <3>1, <3>2
  <2>3. new.phase = "running" /\ new.cmd = tk.cmd /\ new.todo \subseteq tk.todo
    BY <2>2, ReportedTask
  <2>4. tasks' = [tasks EXCEPT ![m] = (@ \ {tk}) \cup {new}]
    BY <2>1
  <2> HIDE DEF new
  <2>5. tk.cmd.type = SYNC_RUN => tk.todo \subseteq Results(m, tk.cmd)
    BY DEF TodoOK
  <2> QED
    BY <1>2, <2>3, <2>4, <2>5 DEF MaidTypeOK
<1>7. ASSUME NEW tk \in tasks[m],
             TaskRefuse(m, tk) \/ TaskFinish(m, tk) \/ TaskAbort(m, tk)
      PROVE  TodoOK'
  BY <1>2, <1>7 DEF TaskRefuse, TaskFinish, TaskAbort, MaidTypeOK
<1>8. CASE \/ MaidCrash(m) \/ MaidRestart(m)
           \/ \E tk \in tasks[m] : TaskRepeat(m, tk)
  BY <1>2, <1>8 DEF MaidCrash, MaidRestart, TaskRepeat, MaidTypeOK
<1> QED
  BY <1>1, <1>3, <1>4, <1>5, <1>6, <1>7, <1>8 DEF MaidWork, MaidFault

\* A step of the maids gives no maid anything new to send or to publish.
LEMMA CarriesShrinks ==
    ASSUME MaidTypeOK, NEW c \in Command, Single(c), MaidNext, NEW m \in Maids
    PROVE  /\ Unsent(m, c)' => Unsent(m, c)
           /\ \A k : Carries(m, c, k)' => Carries(m, c, k)
<1>1. PICK x \in Maids : /\ StepsOn(x, c)
                         /\ \A y \in Maids \ {x} : Same(y, c)
  BY MaidStepsOn
<1>2. CASE Same(m, c)
  BY <1>2 DEF Same, Unsent, Carries, Matched
<1>3. CASE TakesUp(m, c)
  BY <1>3 DEF TakesUp, Unsent, Carries, Matched
<1>4. CASE GetsReady(m, c)
  <2>1. Unsent(m, c)
    BY <1>4 DEF GetsReady, Unsent
  <2> QED
    BY <2>1 DEF Carries, Matched
<1>5. CASE BeginsRun(m, c)
  <2>1. Unsent(m, c)
    BY <1>5 DEF BeginsRun, Unsent
  <2> QED
    BY <2>1 DEF Carries, Matched
<1>6. ASSUME NEW S, ResultLeaves(m, c, S)
      PROVE  /\ Unsent(m, c)' => Unsent(m, c)
             /\ \A k : Carries(m, c, k)' => Carries(m, c, k)
  BY <1>6 DEF ResultLeaves, Unsent, Carries, Matched
<1>7. CASE Closes(m, c)
  BY <1>7 DEF Closes, Unsent, Carries, Matched
<1>8. CASE Fails(m, c)
  BY <1>8 DEF Fails, Unsent, Carries, Matched
<1> QED
  BY <1>1, <1>2, <1>3, <1>4, <1>5, <1>6, <1>7, <1>8
  DEF StepsOn, Delivers, Forgets, Repeats, Same, Elsewhere

\* Who sends a command to a minion had it to send, and has so no longer.
LEMMA SentSteps ==
    ASSUME MaidTypeOK, \A d \in Command : Single(d), MaidNext, NEW k \in Minions
    PROVE  \/ sent'[k] = sent[k]
           \/ /\ sent'[k] = sent[k] + 1
              /\ \E m \in Maids : \E c \in Command :
                   /\ c.type \in Targeted /\ k \in Matched(m, c.tgt)
                   /\ Unsent(m, c) /\ ~Unsent(m, c)'
<1>1. PICK m \in Maids : MaidWork(m) \/ MaidFault(m)
  BY DEF MaidNext
<1>2. CASE UNCHANGED sent
  BY <1>2
<1>3. ASSUME NEW tk \in tasks[m], TaskStart(m, tk), sent'[k] # sent[k]
      PROVE  /\ sent'[k] = sent[k] + 1
             /\ \E c \in Command :
                  /\ c.type \in Targeted /\ k \in Matched(m, c.tgt)
                  /\ Unsent(m, c) /\ ~Unsent(m, c)'
  <2> DEFINE c == tk.cmd
             new == [tk EXCEPT !.phase = "running", !.todo = Results(m, tk.cmd)]
  <2>1. tk \in Task /\ c \in Command
    BY DEF MaidTypeOK, Task
  <2>2. /\ c.type \in Targeted /\ k \in Matched(m, c.tgt)
        /\ sent'[k] = sent[k] + 1
    BY <1>3 DEF TaskStart
  <2>3. /\ tk.phase # "running" /\ UNCHANGED cmdq
        /\ tasks' = [tasks EXCEPT ![m] = (@ \ {tk}) \cup {new}]
    BY <1>3 DEF TaskStart
  <2>4. new.phase = "running" /\ new.cmd = c
    BY <2>1 DEF Task
  <2> HIDE DEF new
  <2>5. Greenlets(m, c)' = {new} /\ Greenlets(m, c) # {}
    <3>1. Replaces(m, tk, new)
      BY <2>3 DEF Replaces
    <3>2. tk \in Greenlets(m, c)
      BY DEF Greenlets
    <3> QED
      BY <2>1, <2>4, <3>1, <3>2, GreenletReplaced
  <2>6. ~Awaits(m, c)'
    <3>1. ~Awaits(m, c)
      BY <2>1, <2>5 DEF Single
    <3> QED
      BY <2>3, <3>1 DEF Awaits
  <2>7. Unsent(m, c) /\ ~Unsent(m, c)'
    BY <2>3, <2>4, <2>5, <2>6 DEF Unsent, Greenlets
  <2> QED
    BY <2>1, <2>2, <2>7
<1>4. UNCHANGED sent \/ \E tk \in tasks[m] : TaskStart(m, tk)
  BY <1>1 DEF MaidWork, MaidFault, MaidReceive, MaidSpawn, TaskRefuse, TaskEmit,
     TaskFinish, TaskRepeat, TaskDrop, TaskAbort, MaidCrash, MaidRestart
<1> QED
  BY <1>2, <1>3, <1>4

\* The maids have no part in the failures of a client's connection.
LEMMA MaidsKeepRedis ==
    ASSUME MaidTypeOK, MaidNext
    PROVE  faults'["redis"] = faults["redis"]
<1>1. ASSUME NEW f \in {"crash", "abort", "drop", "again"}, Fault(f)
      PROVE  faults'["redis"] = faults["redis"]
  BY <1>1 DEF Fault, FaultKinds, MaidTypeOK
<1> QED
  BY <1>1 DEF MaidNext, MaidWork, MaidFault, MaidReceive, MaidSpawn, TaskRefuse,
     TaskStart, TaskEmit, TaskFinish, TaskRepeat, TaskDrop, TaskAbort,
     MaidCrash, MaidRestart

\* A publish gives the maids that are up one more command to send.
LEMMA PublishCarries ==
    ASSUME MaidTypeOK, NEW c \in Command, PublishToSyndicSub(c),
           UNCHANGED tasks, NEW d \in Command, NEW m \in Maids
    PROVE  /\ Unsent(m, d)' => Unsent(m, d) \/ d = c
           /\ \A k : Carries(m, d, k)' =>
                Carries(m, d, k) \/ (d = c /\ k \in Matched(m, c.tgt))
<1>1. /\ Greenlets(m, d)' = Greenlets(m, d)
      /\ d # c => (Awaits(m, d)' <=> Awaits(m, d))
  BY PublishHolds
<1>2. Unsent(m, d)' => Unsent(m, d) \/ d = c
  BY <1>1 DEF Unsent
<1>3. ASSUME NEW k, Carries(m, d, k)', d # c PROVE Carries(m, d, k)
  <2>1. /\ k \in Matched(m, d.tgt)
        /\ Unsent(m, d)' \/ \E tk \in Greenlets(m, d)' : \E S \in tk.todo : k \in S
    BY <1>3 DEF Carries, Matched
  <2> QED
    BY <1>1, <1>2, <1>3, <2>1 DEF Carries
<1>4. ASSUME NEW k, Carries(m, d, k)', d = c PROVE k \in Matched(m, c.tgt)
  BY <1>4 DEF Carries, Matched
<1> QED
  BY <1>2, <1>3, <1>4

\* What a maid carries depends on its queue and its greenlets only.
LEMMA StillCarried ==
    ASSUME UNCHANGED <<cmdq, tasks>>, NEW c, NEW m
    PROVE  /\ Unsent(m, c)' <=> Unsent(m, c)
           /\ \A k : Carries(m, c, k)' <=> Carries(m, c, k)
BY DEF Unsent, Carries, Awaits, Greenlets, Matched

\* A step that leaves the greenlets and what was sent leaves what is to report.
LEMMA StillTodo == UNCHANGED <<tasks, sent>> /\ TodoOK => TodoOK'
BY DEF TodoOK, Results, JobCache, Matched

\* At the beginning no greenlet has anything to publish, and what carries a
\* command holds it.
LEMMA NoTodo == MaidInit => TodoOK
BY DEF MaidInit, TodoOK

\* A maid that carries a command, or has not sent it yet, holds it.
LEMMA CarriesHolds ==
    ASSUME NEW m, NEW c
    PROVE  /\ Unsent(m, c) => Holds(m, c)
           /\ \A k : Carries(m, c, k) => Holds(m, c)
BY DEF Unsent, Carries, Holds
-----------------------------------------------------------------------------
(* Clients side by side: what the steps of the others leave of a command.  *)

\* Steps that concern other topics leave a command as it is.
LEMMA SameTopic ==
    ASSUME NEW c, inbox'[c.topic] = inbox[c.topic], UNCHANGED tasks,
           lost \subseteq lost',
           \A m \in Maids : Awaits(m, c)' => Awaits(m, c),
           NEW ended \in SUBSET Maids
    PROVE  /\ ClosesOnce(c, ended) => ClosesOnce(c, ended)'
           /\ \A due, got : Owes(c, due, got) => Owes(c, due, got)'
           /\ \A pinged \in SUBSET Maids :
                PingsAhead(c, pinged, ended) => PingsAhead(c, pinged, ended)'
<1>1. ClosesOnce(c, ended) => ClosesOnce(c, ended)'
  BY DEF ClosesOnce, Holds, Greenlets, EndOf
<1>2. ASSUME NEW due, NEW got, Owes(c, due, got) PROVE Owes(c, due, got)'
  BY <1>2 DEF Owes, Came, Greenlets, EndOf, Refuses
<1>3. ASSUME NEW pinged \in SUBSET Maids, PingsAhead(c, pinged, ended)
      PROVE  PingsAhead(c, pinged, ended)'
  <2>1. \A m \in pinged : ~Awaits(m, c)
    BY <1>3 DEF PingsAhead
  <2>2. ASSUME NEW m \in Maids, Greenlets(m, c)' # {}
        PROVE  \/ m \in pinged
               \/ \E j \in 1 .. Len(inbox'[c.topic]) :
                     PingOf(inbox'[c.topic][j], m)
    BY <1>3, <2>2 DEF PingsAhead, Greenlets
  <2>3. ASSUME NEW m \in Maids, NEW i \in 1 .. Len(inbox'[c.topic])
        PROVE  /\ EndOf(inbox'[c.topic][i], m) =>
                    \/ m \in pinged
                    \/ \E j \in 1 .. i : PingOf(inbox'[c.topic][j], m)
               /\ PingOf(inbox'[c.topic][i], m) =>
                    /\ ~Awaits(m, c)
                    /\ m \notin pinged
                    /\ \A j \in 1 .. Len(inbox'[c.topic]) :
                          PingOf(inbox'[c.topic][j], m) => i = j
    BY <1>3 DEF PingsAhead
  <2>4. ended \subseteq pinged
    BY <1>3 DEF PingsAhead
  <2> QED
    BY <2>1, <2>2, <2>3, <2>4 DEF PingsAhead
<1> QED
  BY <1>1, <1>2, <1>3

\* A queue that is emptied takes nothing with it that is not counted as lost.
LEMMA QueueGone ==
    ASSUME NEW c, UNCHANGED <<cmdq, tasks>>,
           inbox'[c.topic] = <<>> \/ inbox'[c.topic] = <<[kind |-> "subscribe"]>>,
           lost \subseteq lost', {c.topic} \X Queued(c.topic) \subseteq lost',
           Len(inbox[c.topic]) \in Nat,
           DOMAIN inbox[c.topic] = 1 .. Len(inbox[c.topic])
    PROVE  /\ \A ended : ClosesOnce(c, ended) => ClosesOnce(c, ended)'
           /\ \A due, got : Owes(c, due, got) => Owes(c, due, got)'
<1>1. ASSUME NEW i \in 1 .. Len(inbox'[c.topic])
      PROVE  inbox'[c.topic][i].kind = "subscribe"
  BY <1>1
<1>2. ASSUME NEW ended, ClosesOnce(c, ended) PROVE ClosesOnce(c, ended)'
  BY <1>1, <1>2 DEF ClosesOnce, Holds, Awaits, Greenlets, EndOf
<1>3. ASSUME NEW due, NEW got, Owes(c, due, got) PROVE Owes(c, due, got)'
  <2>1. ASSUME NEW k, Came(c, k, Len(inbox[c.topic]), got)
        PROVE  k \in got \/ <<c.topic, k>> \in lost'
    <3>1. CASE k \in got \/ <<c.topic, k>> \in lost
      BY <3>1
    <3>2. CASE \E j \in 1 .. Len(inbox[c.topic]) :
                  inbox[c.topic][j].kind = "data" /\ k \in inbox[c.topic][j].items
      <4>1. k \in Queued(c.topic)
        BY <3>2 DEF Queued, Named
      <4> QED
        BY <4>1
    <3> QED
      BY <2>1, <3>1, <3>2 DEF Came
  <2> QED
    BY <1>1, <1>3, <2>1 DEF Owes, Came, Greenlets, EndOf
<1> QED
  BY <1>2, <1>3

\* The message at the head of the queue: an end is the first of its maid,
LEMMA HeadEndsOnce ==
    ASSUME NEW c, Len(inbox[c.topic]) \in Nat, Len(inbox[c.topic]) > 0,
           NEW msg, msg = inbox[c.topic][1],
           msg.kind \in {"work", "interrupt"}, msg.sub_ip \in Maids,
           NEW ended, ClosesOnce(c, ended)
    PROVE  msg.sub_ip \notin ended
<1>1. 1 \in 1 .. Len(inbox[c.topic])
  OBVIOUS
<1> QED
  BY <1>1 DEF ClosesOnce, EndOf

\* comes after the maid's PING, which is the first as well,
LEMMA HeadPings ==
    ASSUME NEW c, Len(inbox[c.topic]) \in Nat, Len(inbox[c.topic]) > 0,
           NEW msg, msg = inbox[c.topic][1],
           msg.kind \in {"work", "interrupt", "ping"} => msg.sub_ip \in Maids,
           NEW ended, NEW pinged, PingsAhead(c, pinged, ended)
    PROVE  /\ EndsWith(ended, msg) \subseteq PingsWith(pinged, msg)
           /\ msg.kind = "ping" => msg.sub_ip \notin pinged
<1>1. 1 \in 1 .. Len(inbox[c.topic])
  OBVIOUS
<1>2. ASSUME msg.kind \in {"work", "interrupt"} PROVE msg.sub_ip \in pinged
  BY <1>1, <1>2 DEF PingsAhead, EndOf, PingOf
<1>3. ASSUME msg.kind = "ping" PROVE msg.sub_ip \notin pinged
  BY <1>1, <1>3 DEF PingsAhead, PingOf
<1> QED
  BY <1>2, <1>3 DEF EndsWith, PingsWith, PingsAhead

\* and after all that the maid had to report.
LEMMA HeadPays ==
    ASSUME NEW c, Len(inbox[c.topic]) \in Nat, Len(inbox[c.topic]) > 0,
           NEW msg, msg = inbox[c.topic][1],
           msg.kind \in {"work", "interrupt"} => msg.sub_ip \in Maids,
           NEW ended, NEW due, NEW got, NEW more,
           Owes(c, due, got), Paid(c, due, got, ended), got \subseteq more
    PROVE  Paid(c, due, more, EndsWith(ended, msg))
<1>1. 1 \in 1 .. Len(inbox[c.topic])
  OBVIOUS
<1>2. \A m \in ended : Refuses(m, c) \/ \A k \in due[m] : Came(c, k, 0, more)
  BY DEF Paid, Came
<1>3. ASSUME msg.kind \in {"work", "interrupt"}, ~Refuses(msg.sub_ip, c),
             NEW k \in due[msg.sub_ip]
      PROVE  Came(c, k, 0, more)
  <2>1. Came(c, k, 1, got)
    BY <1>1, <1>3 DEF Owes, EndOf
  <2> QED
    BY <1>3, <2>1 DEF Came
<1> QED
  BY <1>2, <1>3 DEF Paid, EndsWith
=============================================================================
