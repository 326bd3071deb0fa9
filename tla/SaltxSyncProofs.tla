--------------------------- MODULE SaltxSyncProofs ---------------------------
(***************************************************************************)
(* Theorems about the synchronous fan-out of the command line, SaltxSync,  *)
(* for every set of maids, minions and targets.  First that no return is   *)
(* missed and that the client implements FanOut; then what the client      *)
(* counts: that its counters are the sizes of the sets of maids they stand *)
(* for, that the stop tests, which compare them, leave no running maid     *)
(* behind, that a command reaches a minion at most once through each of    *)
(* its maids, and that the sizes in the report are those of its parts.     *)
(***************************************************************************)
EXTENDS SaltxSync, MaidProofs, FiniteSetTheorems

\* The command that the client publishes is a command.
LEMMA WrapMesageType == wrapMesage \in Command
BY SyncAssumption DEF wrapMesage, Command, FunctionType, Targeted, SYNC_RUN

\* The end of the loop's body keeps the types of what it changes.
LEMMA EndOfBodyType ==
    ASSUME MaidTypeOK, pc = "listening", inbox[Topic] # <<>>, EndOfBody
    PROVE  /\ inbox' \in [Topics -> Seq(Message)]
           /\ subscribed' \subseteq Topics
           /\ pc' \in {"listening", "done"}
           /\ stop' \in {"none", "T0", "T1", "T2"}
           /\ UNCHANGED <<up, cmdq, tasks, sent, lost>>
<1>1. inbox[Topic] \in Seq(Message)
  BY SyncAssumption DEF MaidTypeOK
<1>2. Tail(inbox[Topic]) \in Seq(Message)
  BY <1>1, HeadTailProperties
<1>3. inbox' \in [Topics -> Seq(Message)]
  <2>1. <<>> \in Seq(Message)
    OBVIOUS
  <2> QED
    BY <1>2, <2>1 DEF MaidTypeOK, EndOfBody
<1>4. stop' \in {"none", "T0", "T1", "T2"}
  BY DEF EndOfBody, StopTest
<1> QED
  BY <1>3, <1>4 DEF MaidTypeOK, EndOfBody

\* The message that the client reads has the fields its kind promises.
LEMMA ReadsType ==
    ASSUME MaidTypeOK, NEW kinds, Reads(kinds)
    PROVE  /\ callResult \in Message
           /\ callResult.kind \in kinds
           /\ callResult.kind \in {"ping", "work", "interrupt"} =>
                callResult.sub_ip \in Maids
           /\ callResult.kind = "data" => /\ callResult.items \subseteq Minions
                                          /\ callResult.out \in Outcome
<1>1. inbox[Topic] \in Seq(Message) /\ inbox[Topic] # <<>>
  BY SyncAssumption DEF MaidTypeOK, Reads
<1>2. callResult \in Message
  BY <1>1, HeadTailProperties DEF callResult
<1> QED
  BY <1>2 DEF Reads, Message, Confirmation, Signal, Data

\* Every step of the client or of a maid keeps TypeOK.
LEMMA TypeStep == TypeOK /\ [Next]_vars => TypeOK'
<1> SUFFICES ASSUME TypeOK, [Next]_vars PROVE TypeOK'
  OBVIOUS
<1>t. MaidTypeOK
  BY DEF TypeOK
<1>1. CASE SubscribeTopic
  BY <1>1, <1>t, SubscribeType, SyncAssumption
  DEF SubscribeTopic, TypeOK, MaidTypeOK, countVars, reportVars
<1>2. CASE PublishCommand
  BY <1>2, <1>t, PublishToSyndicSubType, WrapMesageType
  DEF PublishCommand, TypeOK, MaidTypeOK, countVars, reportVars
<1>3. CASE Expire
  BY <1>3 DEF Expire, TypeOK, MaidTypeOK, maidVars, countVars, reportVars
<1>4. CASE LoseConnection
  <2>1. faults' \in [FaultKinds -> Nat] /\ lost' \subseteq Topics \X Minions
    BY <1>4, <1>t, FaultType, LoseQueuesType, SyncAssumption
    DEF LoseConnection, MaidTypeOK
  <2>2. inbox' \in [Topics -> Seq(Message)] /\ subscribed' \subseteq Topics
    <3>1. CASE Subscribe(Topic)
      BY <3>1, <1>t, SubscribeType, SyncAssumption DEF MaidTypeOK
    <3>2. CASE ~Subscribe(Topic)
      <4>1. <<>> \in Seq(Message)
        OBVIOUS
      <4> QED
        BY <1>4, <1>t, <3>2, <4>1 DEF LoseConnection, MaidTypeOK
    <3> QED
      BY <3>1, <3>2
  <2> QED
    BY <1>4, <2>1, <2>2
    DEF LoseConnection, TypeOK, MaidTypeOK, countVars, reportVars
<1>5. CASE Listen
  <2>1. pc = "listening" /\ inbox[Topic] # <<>> /\ EndOfBody
    BY <1>5 DEF Listen, OnConfirmation, OnPing, OnResult, OnEmptyReturn,
                OnMissed, OnReturn, Reads
  <2>2. /\ inbox' \in [Topics -> Seq(Message)]
        /\ subscribed' \subseteq Topics
        /\ pc' \in {"listening", "done"}
        /\ stop' \in {"none", "T0", "T1", "T2"}
        /\ UNCHANGED <<up, cmdq, tasks, sent, lost>>
    BY <2>1, <1>t, EndOfBodyType
  <2>3. CASE OnConfirmation
    BY <2>2, <2>3 DEF OnConfirmation, TypeOK, MaidTypeOK, countVars, reportVars
  <2>4. CASE OnPing
    BY <2>2, <2>4 DEF OnPing, TypeOK, MaidTypeOK, reportVars
  <2>5. CASE OnResult
    <3>1. callResult.sub_ip \in Maids
      BY <1>t, <2>5, ReadsType DEF OnResult
    <3> QED
      BY <2>2, <2>5, <3>1 DEF OnResult, TypeOK, MaidTypeOK, reportVars
  <2>6. CASE OnEmptyReturn
    BY <2>2, <2>6 DEF OnEmptyReturn, TypeOK, MaidTypeOK, countVars, reportVars
  <2>7. CASE OnMissed
    <3>1. callResult.items \subseteq Minions
      BY <1>t, <2>7, ReadsType DEF OnMissed
    <3> QED
      BY <2>2, <2>7, <3>1 DEF OnMissed, TypeOK, MaidTypeOK, countVars
  <2>8. CASE OnReturn
    <3>1. callResult.items \subseteq Minions
      BY <1>t, <2>8, ReadsType DEF OnReturn
    <3>2. faults' \in [FaultKinds -> Nat] /\ resultCount' \in Nat
      BY <1>t, <2>8, FaultType DEF OnReturn, TypeOK, MaidTypeOK
    <3>3. normalsize' \in Nat /\ emptyRet' \in Nat
      BY <2>8 DEF OnReturn, TypeOK
    <3> QED
      BY <2>2, <2>8, <3>1, <3>2, <3>3 DEF OnReturn, TypeOK, MaidTypeOK
  <2> QED
    BY <1>5, <2>3, <2>4, <2>5, <2>6, <2>7, <2>8 DEF Listen
<1>6. CASE MaidNext /\ UNCHANGED clientVars
  <2>1. MaidTypeOK'
    BY <1>6, <1>t, MaidNextType
  <2> QED
    BY <1>6, <2>1 DEF TypeOK, clientVars, countVars, reportVars
<1>7. CASE UNCHANGED vars
  BY <1>7 DEF TypeOK, MaidTypeOK, vars, maidVars, clientVars, countVars,
              reportVars
<1> QED
  BY <1>1, <1>2, <1>3, <1>4, <1>5, <1>6, <1>7 DEF Next, Client, Terminated

\* Type correctness: the variables of the client, of the bus and of the maids
\* always have the types that the code gives them.
THEOREM TypeCorrect == Spec => []TypeOK
<1>1. ASSUME Init PROVE TypeOK
  <2>1. MaidTypeOK
    BY <1>1, MaidInitType DEF Init
  <2> QED
    BY <1>1, <2>1 DEF Init, TypeOK
<1> QED
  BY <1>1, TypeStep, PTL DEF Spec
-----------------------------------------------------------------------------
(* The returns of a maid reach the client before its WORK.                 *)
(*                                                                         *)
(* The argument: a maid holds the command at most once (OneCommandEach),   *)
(* so it ends at most once (EndsOnce); while a greenlet runs, each of its  *)
(* results is still to be sent, is queued, or is in the report             *)
(* (ReturnsUnderway); the queue is first in, first out, so what precedes   *)
(* the WORK is in the report when the WORK is read.                        *)

\* The command is a SYNC_RUN for Tgt.
LEMMA WrapMesageFields ==
    /\ wrapMesage.topic = Topic
    /\ wrapMesage.type = SYNC_RUN
    /\ wrapMesage.tgt = Tgt
BY DEF wrapMesage

\* The results of the command are the singletons of the matched minions.
LEMMA EachHasResult ==
    ASSUME NEW m \in Maids
    PROVE  \A k \in Matched(m, Tgt) : {k} \in Results(m, wrapMesage)
<1>1. PICK c : c = wrapMesage
  OBVIOUS
<1>2. c.type = SYNC_RUN /\ c.tgt = Tgt
  BY <1>1, WrapMesageFields
<1>3. Results(m, c) = IF Matched(m, Tgt) = {}
                      THEN {{}} ELSE {{k} : k \in Matched(m, Tgt)}
  BY <1>2, SyncResults
<1> QED
  BY <1>1, <1>3

\* what a step does to the queue of the command's topic
Appended(msg) ==
    /\ Topic \in subscribed
    /\ Len(inbox'[Topic]) = Len(inbox[Topic]) + 1
    /\ \A i \in 1 .. Len(inbox[Topic]) : inbox'[Topic][i] = inbox[Topic][i]
    /\ inbox'[Topic][Len(inbox[Topic]) + 1] = msg

Untouched == inbox'[Topic] = inbox[Topic]

Taken ==
    /\ Len(inbox[Topic]) > 0
    /\ Len(inbox'[Topic]) = Len(inbox[Topic]) - 1
    /\ \A i \in 1 .. Len(inbox'[Topic]) : inbox'[Topic][i] = inbox[Topic][i + 1]

\* The length of the queue is a number.
LEMMA QueueLength ==
    ASSUME MaidTypeOK
    PROVE  inbox[Topic] \in Seq(Message) /\ Len(inbox[Topic]) \in Nat
BY SyncAssumption, LenProperties DEF MaidTypeOK

\* A publish appends its message, if somebody is subscribed.
LEMMA PublishEffect ==
    ASSUME MaidTypeOK, NEW msg, msg \in Message, Publish(Topic, msg)
    PROVE  IF Topic \in subscribed THEN Appended(msg) ELSE Untouched
<1>1. inbox[Topic] \in Seq(Message)
  BY QueueLength
<1>2. CASE Topic \in subscribed
  <2>1. inbox'[Topic] = Append(inbox[Topic], msg)
    BY <1>2, SyncAssumption DEF Publish, MaidTypeOK
  <2> QED
    BY <1>1, <1>2, <2>1, AppendProperties DEF Appended
<1>3. CASE Topic \notin subscribed
  BY <1>3 DEF Publish, Untouched
<1> QED
  BY <1>2, <1>3

\* The steps of a maid, as the only greenlet of its only command.
Receives(m) ==
    /\ cmdq[m] = <<wrapMesage>>
    /\ cmdq' = [cmdq EXCEPT ![m] = <<>>]
    /\ tasks' = [tasks EXCEPT ![m] =
          {Greenlet(wrapMesage, "spawned")}]
    /\ Publish(Topic, PING(m))

Starts(m) ==
    /\ \E tk \in tasks[m] :
          /\ tk.phase = "spawned"
          /\ tasks' = [tasks EXCEPT ![m] =
                {[tk EXCEPT !.phase = "running", !.todo = Results(m, wrapMesage)]}]
    /\ UNCHANGED <<cmdq, inbox>>

Drops(m) ==
    /\ \E tk \in tasks[m] : \E S \in tk.todo :
          /\ tasks' = [tasks EXCEPT ![m] = {Reported(tk, S, {})}]
          /\ lost' = lost \cup ({Topic} \X S)
    /\ UNCHANGED <<cmdq, inbox>>

Emits(m) ==
    /\ \E tk \in tasks[m] : \E S \in tk.todo, o \in Outcome :
          /\ tasks' = [tasks EXCEPT ![m] =
                {Reported(tk, S, IF o = "no_return" THEN {} ELSE S)}]
          /\ Publish(Topic, Ret(S, o))
    /\ UNCHANGED cmdq

EmitsAgain(m) ==
    /\ \E tk \in tasks[m] : \E k \in tk.returned, o \in Outcome \ {"no_return"} :
          Publish(Topic, Ret({k}, o))
    /\ UNCHANGED <<cmdq, tasks>>

Ends(m) ==
    /\ tasks' = [tasks EXCEPT ![m] = {}]
    /\ \/ /\ Refuses(m, wrapMesage)
          /\ Publish(Topic, INTERRUPT(m))
       \/ /\ \A tk \in tasks[m] : tk.phase = "running" /\ tk.todo = {}
          /\ Publish(Topic, WORK(m))
    /\ tasks[m] # {}
    /\ UNCHANGED cmdq

Dies(m) ==
    /\ tasks' = [tasks EXCEPT ![m] = {}]
    /\ cmdq' \in {cmdq, [cmdq EXCEPT ![m] = <<>>]}
    /\ UNCHANGED inbox

\* Every step of a maid is one of these, or leaves all three alone.
LEMMA MaidSteps ==
    ASSUME TypeOK, OneCommandEach, MaidNext
    PROVE  \/ \E m \in Maids : \/ Receives(m) \/ Starts(m) \/ Emits(m)
                               \/ EmitsAgain(m) \/ Drops(m) \/ Ends(m)
                               \/ Dies(m)
           \/ UNCHANGED <<cmdq, tasks, inbox>>
<1>1. PICK m \in Maids : MaidWork(m) \/ MaidFault(m)
  BY DEF MaidNext
<1>2. /\ cmdq[m] \in {<<>>, <<wrapMesage>>}
      /\ \A tk \in tasks[m] : /\ cmdq[m] = <<>>
                              /\ tk.cmd = wrapMesage
                              /\ tk.phase # "waiting"
                              /\ tasks[m] = {tk}
  BY DEF OneCommandEach
<1>3. CASE MaidReceive(m)
  <2>1. cmdq[m] = <<wrapMesage>> /\ tasks[m] = {}
    BY <1>2, <1>3 DEF MaidReceive
  <2>2. Head(cmdq[m]) = wrapMesage /\ Tail(cmdq[m]) = <<>>
    BY <2>1
  <2>3. PoolPlace(m) = "spawned"
    BY <2>1, MaidAssumption, FS_EmptySet DEF PoolPlace
  <2> QED
    BY <1>3, <2>1, <2>2, <2>3, WrapMesageFields DEF MaidReceive, Receives
<1>4. ASSUME NEW tk \in tasks[m], TaskRefuse(m, tk) PROVE Ends(m)
  BY <1>2, <1>4, WrapMesageFields DEF TaskRefuse, Ends
<1>5. ASSUME NEW tk \in tasks[m], TaskStart(m, tk) PROVE Starts(m)
  BY <1>2, <1>5 DEF TaskStart, Starts
<1>6. ASSUME NEW tk \in tasks[m], TaskEmit(m, tk) PROVE Emits(m)
  <2>2. PICK S \in tk.todo, o \in Outcome :
          /\ Publish(tk.cmd.topic, Ret(S, o))
          /\ tasks' = [tasks EXCEPT ![m] = (@ \ {tk}) \cup
                {Reported(tk, S, IF o = "no_return" THEN {} ELSE S)}]
    BY <1>6 DEF TaskEmit
  <2>3. tasks' = [tasks EXCEPT ![m] =
                {Reported(tk, S, IF o = "no_return" THEN {} ELSE S)}]
    BY <1>2, <2>2
  <2> QED
    BY <1>2, <1>6, <2>2, <2>3, WrapMesageFields DEF TaskEmit, Emits
<1>7. ASSUME NEW tk \in tasks[m], TaskFinish(m, tk) PROVE Ends(m)
  BY <1>2, <1>7, WrapMesageFields DEF TaskFinish, Ends
<1>8. ASSUME NEW tk \in tasks[m], TaskDrop(m, tk) PROVE Drops(m)
  <2>1. PICK S \in tk.todo :
          /\ tasks' = [tasks EXCEPT ![m] = (@ \ {tk}) \cup
                         {Reported(tk, S, {})}]
          /\ lost' = lost \cup ({tk.cmd.topic} \X S)
    BY <1>8 DEF TaskDrop
  <2>2. tasks' = [tasks EXCEPT ![m] = {Reported(tk, S, {})}]
    BY <1>2, <2>1
  <2> QED
    BY <1>2, <1>8, <2>1, <2>2, WrapMesageFields DEF TaskDrop, Drops
<1>9. ASSUME NEW tk \in tasks[m], TaskAbort(m, tk) PROVE Dies(m)
  BY <1>2, <1>9 DEF TaskAbort, Dies
<1>10. CASE MaidCrash(m)
  BY <1>10 DEF MaidCrash, Dies
<1>11. CASE MaidRestart(m)
  BY <1>11 DEF MaidRestart
<1>12. ASSUME NEW tk \in tasks[m], MaidSpawn(m, tk) PROVE FALSE
  BY <1>2, <1>12 DEF MaidSpawn
<1>13. ASSUME NEW tk \in tasks[m], TaskRepeat(m, tk) PROVE EmitsAgain(m)
  BY <1>2, <1>13, WrapMesageFields DEF TaskRepeat, EmitsAgain
<1> QED
  BY <1>1, <1>3, <1>4, <1>5, <1>6, <1>7, <1>8, <1>9, <1>10, <1>11, <1>12, <1>13
  DEF MaidWork, MaidFault

\* A result that a greenlet publishes is about minions.
LEMMA EmitPublishes ==
    ASSUME MaidTypeOK, NEW m \in Maids, Emits(m)
    PROVE  \E S \in SUBSET Minions, o \in Outcome : Publish(Topic, Ret(S, o))
<1>1. PICK tk \in tasks[m] : \E S \in tk.todo, o \in Outcome :
        Publish(Topic, Ret(S, o))
  BY DEF Emits
<1>2. tk.todo \subseteq SUBSET Minions
  BY DEF MaidTypeOK, Task
<1> QED
  BY <1>1, <1>2

\* A minion that returns again has returned, and is a minion.
LEMMA AgainPublishes ==
    ASSUME MaidTypeOK, NEW m \in Maids, EmitsAgain(m)
    PROVE  \E S \in SUBSET Minions, o \in Outcome : Publish(Topic, Ret(S, o))
<1>1. PICK tk \in tasks[m] : \E k \in tk.returned, o \in Outcome :
        Publish(Topic, Ret({k}, o))
  BY DEF EmitsAgain
<1>2. tk.returned \subseteq Minions
  BY DEF MaidTypeOK, Task
<1> QED
  BY <1>1, <1>2

\* No step of a maid is a display error, and what is lost stays lost.
LEMMA MaidsOnlyLose ==
    ASSUME MaidTypeOK, MaidNext
    PROVE  /\ lost \subseteq lost'
           /\ missing \subseteq missing'
           /\ faults'["display"] = faults["display"]
<1>1. lost \subseteq lost'
  <2>p. ASSUME NEW t, NEW msg, Publish(t, msg) PROVE lost \subseteq lost'
    BY <2>p DEF Publish
  <2>1. PICK m \in Maids : MaidWork(m) \/ MaidFault(m)
    BY DEF MaidNext
  <2>2. MaidReceive(m) => lost \subseteq lost'
    BY <2>p DEF MaidReceive
  <2>3. ASSUME NEW tk, \/ TaskRefuse(m, tk) \/ TaskFinish(m, tk)
                       \/ TaskEmit(m, tk) \/ TaskRepeat(m, tk)
        PROVE  lost \subseteq lost'
    <3>1. CASE TaskRefuse(m, tk) \/ TaskFinish(m, tk)
      BY <2>p, <3>1 DEF TaskRefuse, TaskFinish
    <3>2. CASE TaskEmit(m, tk)
      <4>1. PICK S \in tk.todo, o \in Outcome : Publish(tk.cmd.topic, Ret(S, o))
        BY <3>2 DEF TaskEmit
      <4> QED
        BY <2>p, <4>1
    <3>3. CASE TaskRepeat(m, tk)
      <4>1. PICK k \in tk.returned, o \in Outcome :
              Publish(tk.cmd.topic, Ret({k}, o))
        BY <3>3 DEF TaskRepeat
      <4> QED
        BY <2>p, <4>1
    <3> QED
      BY <2>3, <3>1, <3>2, <3>3
  <2>4. ASSUME NEW tk, MaidSpawn(m, tk) \/ TaskStart(m, tk) \/ TaskDrop(m, tk)
                       \/ TaskAbort(m, tk)
        PROVE  lost \subseteq lost'
    BY <2>4 DEF MaidSpawn, TaskStart, TaskDrop, TaskAbort
  <2>5. MaidCrash(m) \/ MaidRestart(m) => lost \subseteq lost'
    BY DEF MaidCrash, MaidRestart
  <2> QED
    BY <2>1, <2>2, <2>3, <2>4, <2>5 DEF MaidWork, MaidFault
<1>2. faults'["display"] = faults["display"]
  <2>1. ASSUME NEW kind \in {"crash", "abort", "drop", "again"}, Fault(kind)
        PROVE  faults'["display"] = faults["display"]
    BY <2>1 DEF Fault, MaidTypeOK, FaultKinds
  <2> QED
    BY <2>1 DEF MaidNext, MaidWork, MaidFault, MaidReceive, MaidSpawn,
                TaskRefuse, TaskStart, TaskEmit, TaskFinish, TaskRepeat,
                TaskDrop, TaskAbort, MaidCrash, MaidRestart
<1> QED
  BY <1>1, <1>2 DEF missing

\* What a maid publishes are messages, and only the last is an end.
LEMMA MaidSignals ==
    ASSUME NEW m \in Maids, NEW S \in SUBSET Minions, NEW o \in Outcome
    PROVE  /\ PING(m) \in Message /\ \A x \in Maids : ~IsEnd(PING(m), x)
           /\ Ret(S, o) \in Message /\ \A x \in Maids : ~IsEnd(Ret(S, o), x)
           /\ Ret(S, o).kind = "data" /\ Ret(S, o).items = S
           /\ WORK(m) \in Message
           /\ INTERRUPT(m) \in Message
           /\ \A x \in Maids : /\ IsEnd(WORK(m), x) <=> x = m
                               /\ IsEnd(INTERRUPT(m), x) <=> x = m
           /\ WORK(m).kind # "data" /\ INTERRUPT(m).kind # "data"
BY MaidMessages DEF IsEnd, PING, WORK, INTERRUPT, Ret

\* A step of a maid makes no maid busy, and what it does to the queue.
LEMMA MaidsOnlyFinish ==
    ASSUME TypeOK, OneCommandEach, MaidNext
    PROVE  /\ \A x \in Maids : Busy(x)' => Busy(x)
           /\ \/ Untouched
              \/ /\ \E x \in Maids : Busy(x)
                 /\ \E msg \in Message : Appended(msg)
<1>t. MaidTypeOK
  BY DEF TypeOK
<1>1. CASE UNCHANGED <<cmdq, tasks, inbox>>
  BY <1>1 DEF Busy, Untouched
<1>2. ASSUME NEW m \in Maids,
             \/ Receives(m) \/ Starts(m) \/ Emits(m) \/ EmitsAgain(m)
             \/ Drops(m) \/ Ends(m) \/ Dies(m)
      PROVE  /\ \A x \in Maids : Busy(x)' => Busy(x)
             /\ \/ Untouched
                \/ Busy(m) /\ \E msg \in Message : Appended(msg)
  <2>1. CASE Receives(m)
    <3>1. PING(m) \in Message
      BY DEF PING, Message, Signal
    <3>2. Busy(m) /\ \A x \in Maids : Busy(x)' => Busy(x)
      <4>1. cmdq[m] # <<>>
        BY <2>1 DEF Receives
      <4>2. \A x \in Maids : x # m => /\ cmdq'[x] = cmdq[x]
                                      /\ tasks'[x] = tasks[x]
        BY <1>t, <2>1 DEF Receives, MaidTypeOK
      <4> QED
        BY <4>1, <4>2 DEF Busy
    <3> QED
      BY <1>t, <2>1, <3>1, <3>2, PublishEffect DEF Receives
  <2>2. CASE Starts(m)
    <3>1. Busy(m)
      BY <2>2 DEF Starts, Busy
    <3> QED
      BY <1>t, <2>2, <3>1 DEF Starts, Busy, MaidTypeOK, Untouched
  <2>3. CASE Emits(m)
    <3>1. PICK tk \in tasks[m] : \E S \in tk.todo, o \in Outcome :
            /\ \E new : tasks' = [tasks EXCEPT ![m] = {new}]
            /\ Publish(Topic, Ret(S, o))
      BY <2>3 DEF Emits
    <3>2. PICK S \in tk.todo, o \in Outcome : Publish(Topic, Ret(S, o))
      BY <3>1
    <3>3. tk.todo \in SUBSET SUBSET Minions
      BY <1>t DEF MaidTypeOK, Task
    <3>4. Ret(S, o) \in Message
      BY <3>3 DEF Ret, Message, Data
    <3>5. Busy(m) /\ \A x \in Maids : Busy(x)' => Busy(x)
      BY <1>t, <2>3, <3>1 DEF Emits, Busy, MaidTypeOK
    <3> QED
      BY <1>t, <3>2, <3>4, <3>5, PublishEffect
  <2>4. CASE Ends(m)
    <3>1. WORK(m) \in Message /\ INTERRUPT(m) \in Message
      BY DEF WORK, INTERRUPT, Message, Signal
    <3>2. Busy(m) /\ \A x \in Maids : Busy(x)' => Busy(x)
      BY <1>t, <2>4 DEF Ends, Busy, MaidTypeOK
    <3> QED
      BY <1>t, <2>4, <3>1, <3>2, PublishEffect DEF Ends
  <2>5. CASE Dies(m)
    BY <1>t, <2>5 DEF Dies, Busy, MaidTypeOK, Untouched
  <2>6. CASE Drops(m)
    <3>1. Busy(m)
      BY <2>6 DEF Drops, Busy
    <3> QED
      BY <1>t, <2>6, <3>1 DEF Drops, Busy, MaidTypeOK, Untouched
  <2>7. CASE EmitsAgain(m)
    <3>1. Busy(m) /\ \A x \in Maids : Busy(x)' => Busy(x)
      BY <2>7 DEF EmitsAgain, Busy
    <3>2. PICK S \in SUBSET Minions, o \in Outcome : Publish(Topic, Ret(S, o))
      BY <1>t, <2>7, AgainPublishes
    <3> QED
      BY <1>t, <3>1, <3>2, MaidSignals, PublishEffect
  <2> QED
    BY <1>2, <2>1, <2>2, <2>3, <2>4, <2>5, <2>6, <2>7
<1> QED
  BY <1>1, <1>2, MaidSteps
\* The steps of the maids keep the subscription in step with the client.
LEMMA MaidsKeepTopic ==
    ASSUME TypeOK, TopicFollowsPhase, OneCommandEach,
           MaidNext, UNCHANGED clientVars
    PROVE  TopicFollowsPhase'
<1>1. UNCHANGED subscribed
  BY MaidsKeepSubscriptions
<1>2. UNCHANGED <<pc, stop, resultExeSet>>
  BY DEF clientVars, countVars
<1>3. ASSUME pc \in {"start", "subscribed", "done"}
      PROVE  inbox'[Topic] = inbox[Topic]
  <2>1. CASE Untouched
    BY <2>1 DEF Untouched
  <2>2. ASSUME NEW msg \in Message, Appended(msg), NEW x \in Maids, Busy(x)
        PROVE  FALSE
    BY <1>3, <2>2 DEF Appended, TopicFollowsPhase, OneCommandEach
  <2> QED
    BY <2>1, <2>2, MaidsOnlyFinish
<1> QED
  BY <1>1, <1>2, <1>3 DEF TopicFollowsPhase

\* The steps of the maids give no maid the command a second time.
LEMMA MaidsKeepOneCommand ==
    ASSUME TypeOK, OneCommandEach, MaidNext, UNCHANGED clientVars
    PROVE  OneCommandEach'
<1>t. MaidTypeOK
  BY DEF TypeOK
<1>p. UNCHANGED pc
  BY DEF clientVars
<1>b. \A x \in Maids : Busy(x)' => Busy(x)
  BY MaidsOnlyFinish
<1>1. ASSUME NEW m \in Maids,
             \/ Receives(m) \/ Starts(m) \/ Emits(m) \/ EmitsAgain(m)
             \/ Drops(m) \/ Ends(m) \/ Dies(m)
      PROVE  \A x \in Maids :
               /\ cmdq'[x] \in {<<>>, <<wrapMesage>>}
               /\ \A tk \in tasks'[x] : /\ cmdq'[x] = <<>>
                                        /\ tk.cmd = wrapMesage
                                        /\ tk.phase # "waiting"
                                        /\ tasks'[x] = {tk}
  <2>1. /\ \A x \in Maids : x # m => /\ cmdq'[x] = cmdq[x]
                                     /\ tasks'[x] = tasks[x]
        /\ cmdq'[m] \in {<<>>, cmdq[m]}
    BY <1>t, <1>1
    DEF Receives, Starts, Emits, EmitsAgain, Drops, Ends, Dies, MaidTypeOK
  <2>2. \A tk \in tasks'[m] : /\ cmdq'[m] = <<>>
                              /\ tk.cmd = wrapMesage
                              /\ tk.phase # "waiting"
                              /\ tasks'[m] = {tk}
    <3>1. CASE Receives(m)
      <4> DEFINE new == Greenlet(wrapMesage, "spawned")
      <4>1. new.cmd = wrapMesage /\ new.phase # "waiting"
        BY DEF Greenlet
      <4>2. tasks'[m] = {new}
        BY <1>t, <3>1 DEF Receives, MaidTypeOK
      <4>3. cmdq'[m] = <<>>
        BY <1>t, <3>1 DEF Receives, MaidTypeOK
      <4> HIDE DEF new
      <4> QED
        BY <4>1, <4>2, <4>3
    <3>2. CASE Starts(m)
      <4>1. PICK tk \in tasks[m] : tasks' = [tasks EXCEPT ![m] =
              {[tk EXCEPT !.phase = "running", !.todo = Results(m, wrapMesage)]}]
        BY <3>2 DEF Starts
      <4>2. tk \in Task /\ tk.cmd = wrapMesage /\ cmdq[m] = <<>>
        BY <1>t, <4>1 DEF MaidTypeOK, OneCommandEach
      <4> DEFINE new == [tk EXCEPT !.phase = "running",
                                   !.todo = Results(m, wrapMesage)]
      <4>3. new.cmd = wrapMesage /\ new.phase # "waiting"
        BY <4>2 DEF Task
      <4>4. tasks'[m] = {new}
        BY <1>t, <4>1 DEF MaidTypeOK
      <4>5. cmdq'[m] = <<>>
        BY <3>2, <4>2 DEF Starts
      <4> QED
        BY <4>3, <4>4, <4>5
    <3>3. CASE Emits(m) \/ Drops(m)
      <4>e. PICK tk \in tasks[m] : \E S \in tk.todo : \E R \in {{}, S} :
              tasks' = [tasks EXCEPT ![m] = {Reported(tk, S, R)}]
        BY <3>3 DEF Emits, Drops
      <4>1. PICK S, R :
          /\ S \in tk.todo
          /\ tasks' = [tasks EXCEPT ![m] = {Reported(tk, S, R)}]
        BY <4>e
      <4>2. /\ tk \in Task /\ tk.cmd = wrapMesage /\ cmdq[m] = <<>>
            /\ tk.phase # "waiting"
        BY <1>t, <4>1 DEF MaidTypeOK, OneCommandEach
      <4> DEFINE new == Reported(tk, S, R)
      <4>3. new.cmd = wrapMesage /\ new.phase # "waiting"
        BY <4>2 DEF Task, Reported
      <4>4. tasks'[m] = {new}
        BY <1>t, <4>1 DEF MaidTypeOK
      <4>5. cmdq'[m] = <<>>
        BY <3>3, <4>2 DEF Emits, Drops
      <4> QED
        BY <4>3, <4>4, <4>5
    <3>4. CASE Ends(m) \/ Dies(m)
      BY <1>t, <3>4 DEF Ends, Dies, MaidTypeOK
    <3>5. CASE EmitsAgain(m)
      BY <3>5 DEF EmitsAgain, OneCommandEach
    <3> QED
      BY <1>1, <3>1, <3>2, <3>3, <3>4, <3>5
  <2> QED
    BY <2>1, <2>2 DEF OneCommandEach
<1>2. CASE UNCHANGED <<cmdq, tasks, inbox>>
  BY <1>2, <1>p DEF OneCommandEach, Busy
<1> QED
  BY <1>1, <1>2, <1>b, <1>p, MaidSteps DEF OneCommandEach

\* Messages that are no ends, and maids that grow no busier, keep EndsOnce.
LEMMA QuietEndsOnce ==
    ASSUME TypeOK, EndsOnce, UNCHANGED <<resultExeSet, resultCount>>,
           faults'["display"] = faults["display"],
           \A x \in Maids : Busy(x)' => Busy(x),
           \/ Untouched
           \/ \E msg : Appended(msg) /\ \A x \in Maids : ~IsEnd(msg, x)
    PROVE  EndsOnce'
<1>e. resultExeSet \subseteq Maids
  BY DEF TypeOK
<1>l. Len(inbox[Topic]) \in Nat
  BY QueueLength DEF TypeOK
<1>1. CASE Untouched
  BY <1>1, <1>e DEF EndsOnce, Untouched, IsEnd
<1>2. ASSUME NEW msg, Appended(msg), \A x \in Maids : ~IsEnd(msg, x)
      PROVE  EndsOnce'
  <2> DEFINE n == Len(inbox[Topic])
  <2>1. ASSUME NEW m \in Maids, NEW i \in 1 .. n + 1, IsEnd(inbox'[Topic][i], m)
        PROVE  i \in 1 .. n /\ inbox'[Topic][i] = inbox[Topic][i]
    BY <1>2, <1>l, <2>1 DEF Appended
  <2>2. ASSUME NEW m \in Maids, NEW i \in 1 .. n + 1, IsEnd(inbox'[Topic][i], m)
        PROVE  /\ ~(Busy(m)')
               /\ m \notin resultExeSet'
               /\ \A j \in 1 .. n + 1 : IsEnd(inbox'[Topic][j], m) => i = j
    BY <2>1, <2>2 DEF EndsOnce
  <2>3. Len(inbox'[Topic]) = n + 1
    BY <1>2 DEF Appended
  <2> HIDE DEF n
  <2> QED
    BY <1>e, <2>2, <2>3 DEF EndsOnce, IsEnd
<1> QED
  BY <1>1, <1>2
\* A maid that ends the command is no longer busy, and ends it only once.
LEMMA MaidsKeepEndsOnce ==
    ASSUME TypeOK, TopicFollowsPhase, OneCommandEach, EndsOnce,
           MaidNext, UNCHANGED clientVars
    PROVE  EndsOnce'
<1>t. MaidTypeOK
  BY DEF TypeOK
<1>c. /\ UNCHANGED <<resultExeSet, resultCount>>
      /\ faults'["display"] = faults["display"]
  BY <1>t, MaidsOnlyLose DEF clientVars, countVars
<1>b. \A x \in Maids : Busy(x)' => Busy(x)
  BY MaidsOnlyFinish
<1>l. Len(inbox[Topic]) \in Nat
  BY <1>t, QueueLength
<1>1. CASE UNCHANGED <<cmdq, tasks, inbox>>
  BY <1>1, <1>b, <1>c, QuietEndsOnce DEF Untouched
<1>2. ASSUME NEW m \in Maids, Receives(m) PROVE EndsOnce'
  <2>1. Untouched \/ Appended(PING(m))
    BY <1>t, <1>2, MaidMessages, PublishEffect DEF Receives, Outcome
  <2>2. \A x \in Maids : ~IsEnd(PING(m), x)
    BY DEF IsEnd, PING
  <2> QED
    BY <1>b, <1>c, <2>1, <2>2, QuietEndsOnce
<1>3. ASSUME NEW m \in Maids, Starts(m) \/ Drops(m) \/ Dies(m) PROVE EndsOnce'
  BY <1>b, <1>c, <1>3, QuietEndsOnce DEF Starts, Drops, Dies, Untouched
<1>4. ASSUME NEW m \in Maids, Emits(m) \/ EmitsAgain(m) PROVE EndsOnce'
  <2>2. PICK S \in SUBSET Minions, o \in Outcome : Publish(Topic, Ret(S, o))
    BY <1>t, <1>4, AgainPublishes, EmitPublishes
  <2>3. S \in SUBSET Minions
    OBVIOUS
  <2>4. Untouched \/ Appended(Ret(S, o))
    BY <1>t, <2>2, <2>3, MaidSignals, PublishEffect
  <2>5. \A x \in Maids : ~IsEnd(Ret(S, o), x)
    BY DEF IsEnd, Ret
  <2> QED
    BY <1>b, <1>c, <2>4, <2>5, QuietEndsOnce
<1>5. ASSUME NEW m \in Maids, Ends(m) PROVE EndsOnce'
  <2> DEFINE n == Len(inbox[Topic])
  <2>1. PICK msg \in Message :
          Publish(Topic, msg) /\ \A x \in Maids : IsEnd(msg, x) <=> x = m
    BY <1>5, MaidSignals DEF Ends, Outcome
  <2>2. Busy(m) /\ ~(Busy(m)')
    <3>1. tasks[m] # {} /\ tasks'[m] = {} /\ cmdq'[m] = cmdq[m]
      BY <1>t, <1>5 DEF Ends, MaidTypeOK
    <3>2. cmdq[m] = <<>>
      BY <3>1 DEF OneCommandEach
    <3> QED
      BY <3>1, <3>2 DEF Busy
  <2>3. CASE Untouched
    BY <1>b, <1>c, <2>3, QuietEndsOnce
  <2>4. CASE Appended(msg)
    <3>1. m \notin resultExeSet
      BY <2>2 DEF EndsOnce
    <3>2. \A i \in 1 .. n : ~IsEnd(inbox[Topic][i], m)
      BY <2>2 DEF EndsOnce
    <3>3. Len(inbox'[Topic]) = n + 1
      BY <2>4 DEF Appended
    <3>4. ASSUME NEW x \in Maids, NEW i \in 1 .. n + 1,
                 IsEnd(inbox'[Topic][i], x)
          PROVE  /\ ~(Busy(x)')
                 /\ x \notin resultExeSet'
                 /\ \A j \in 1 .. n + 1 : IsEnd(inbox'[Topic][j], x) => i = j
      <4>1. \A j \in 1 .. n : inbox'[Topic][j] = inbox[Topic][j]
        BY <2>4 DEF Appended
      <4>2. inbox'[Topic][n + 1] = msg
        BY <2>4 DEF Appended
      <4>3. CASE x = m
        <5>1. \A j \in 1 .. n + 1 : IsEnd(inbox'[Topic][j], x) => j = n + 1
          BY <1>l, <3>2, <4>1, <4>3
        <5> HIDE DEF n
        <5> QED
          BY <1>c, <2>2, <3>1, <3>4, <4>3, <5>1
      <4>4. CASE x # m
        <5>1. \A j \in 1 .. n + 1 : IsEnd(inbox'[Topic][j], x) =>
                j \in 1 .. n /\ IsEnd(inbox[Topic][j], x)
          BY <1>l, <2>1, <4>1, <4>2, <4>4
        <5>2. i \in 1 .. n /\ IsEnd(inbox[Topic][i], x)
          BY <3>4, <5>1
        <5> QED
          BY <1>b, <1>c, <5>1, <5>2 DEF EndsOnce
      <4> QED
        BY <4>3, <4>4
    <3>5. \A x \in resultExeSet' : ~(Busy(x)')
      BY <1>b, <1>c DEF EndsOnce, TypeOK
    <3>6. (resultCount = Cardinality(resultExeSet) + faults["display"])'
      BY <1>c DEF EndsOnce
    <3> HIDE DEF n
    <3> QED
      BY <3>3, <3>4, <3>5, <3>6 DEF EndsOnce, IsEnd
  <2> QED
    BY <1>t, <2>1, <2>3, <2>4, PublishEffect
<1> QED
  BY <1>1, <1>2, <1>3, <1>4, <1>5, MaidSteps

\* After a step of a maid, what was received still is.
LEMMA ReceivedKept ==
    ASSUME TypeOK, UNCHANGED accounted, missing \subseteq missing',
           Untouched \/ \E msg : Appended(msg),
           NEW k, NEW n \in 0 .. Len(inbox[Topic]), Received(k, n)
    PROVE  \/ k \in accounted' \cup missing'
           \/ \E j \in 1 .. n : /\ inbox'[Topic][j].kind = "data"
                                /\ k \in inbox'[Topic][j].items
<1>1. Len(inbox[Topic]) \in Nat
  BY QueueLength DEF TypeOK
<1>2. \A j \in 1 .. n : inbox'[Topic][j] = inbox[Topic][j]
  BY <1>1 DEF Untouched, Appended
<1> QED
  BY <1>2 DEF Received
\* No step of a maid loses a result: it is still to come, queued or received.
LEMMA MaidsKeepUnderway ==
    ASSUME TypeOK, TopicFollowsPhase, OneCommandEach, ReturnsUnderway,
           MaidNext, UNCHANGED clientVars
    PROVE  ReturnsUnderway'
<1> DEFINE n  == Len(inbox[Topic])
           nn == Len(inbox'[Topic])
           Arrived(k, i) ==
             \/ k \in accounted' \cup missing'
             \/ \E j \in 1 .. i : /\ inbox'[Topic][j].kind = "data"
                                  /\ k \in inbox'[Topic][j].items
           Coming(m) == \A tk \in tasks'[m] : tk.phase = "running" =>
             \A k \in Matched(m, Tgt) : {k} \in tk.todo \/ Arrived(k, nn)
           Safe(m, i) == \/ Refuses(m, wrapMesage)
                         \/ \A k \in Matched(m, Tgt) : Arrived(k, i)
<1>t. MaidTypeOK
  BY DEF TypeOK
<1>l. n \in Nat
  BY <1>t, QueueLength
<1>a. UNCHANGED accounted /\ UNCHANGED pc /\ missing \subseteq missing'
  BY <1>t, MaidsOnlyLose DEF clientVars, reportVars, accounted
<1> SUFFICES ASSUME pc = "listening"
             PROVE  \A m \in Maids :
                      /\ Coming(m)
                      /\ \A i \in 1 .. nn : IsEnd(inbox'[Topic][i], m) => Safe(m, i)
  BY <1>a DEF ReturnsUnderway, Received, IsEnd
<1>s. Topic \in subscribed
  BY DEF TopicFollowsPhase
<1>q. \/ Untouched /\ nn = n
      \/ (\E msg : Appended(msg)) /\ nn = n + 1
  BY MaidsOnlyFinish DEF Untouched, Appended
<1>r. \A k : \A i \in 0 .. n : Received(k, i) => Arrived(k, i)
  BY <1>a, <1>q, ReceivedKept
<1>m. \A k : Arrived(k, n) => Arrived(k, nn)
  BY <1>l, <1>q
<1>o. \A m \in Maids : \A i \in 1 .. n :
        /\ inbox'[Topic][i] = inbox[Topic][i]
        /\ IsEnd(inbox'[Topic][i], m) => Safe(m, i)
  <2>1. ASSUME NEW m \in Maids, NEW i \in 1 .. n PROVE i \in 0 .. n
    BY <1>l
  <2>2. \A i \in 1 .. n : inbox'[Topic][i] = inbox[Topic][i]
    BY <1>q DEF Untouched, Appended
  <2> HIDE DEF Arrived, n
  <2> QED
    BY <1>r, <2>1, <2>2 DEF ReturnsUnderway, n
<1>c. ASSUME NEW m \in Maids, tasks'[m] = tasks[m] PROVE Coming(m)
  <2>1. n \in 0 .. n
    BY <1>l
  <2> HIDE DEF Arrived, n
  <2> QED
    BY <1>c, <1>r, <1>m, <2>1 DEF ReturnsUnderway, n
<1>e. ASSUME Untouched
      PROVE  \A m \in Maids : \A i \in 1 .. nn :
               IsEnd(inbox'[Topic][i], m) => Safe(m, i)
  BY <1>e, <1>o DEF Untouched
<1>f. ASSUME NEW msg, Appended(msg),
             \A m \in Maids : IsEnd(msg, m) => Safe(m, n + 1)
      PROVE  \A m \in Maids : \A i \in 1 .. nn :
               IsEnd(inbox'[Topic][i], m) => Safe(m, i)
  <2>1. nn = n + 1 /\ inbox'[Topic][n + 1] = msg
    BY <1>f DEF Appended
  <2>2. \A i \in 1 .. nn : i \in 1 .. n \/ i = n + 1
    BY <1>l, <2>1
  <2> HIDE DEF Safe, n, nn
  <2> QED
    BY <1>f, <1>o, <2>1, <2>2
<1>1. CASE UNCHANGED <<cmdq, tasks, inbox>>
  <2>1. Untouched
    BY <1>1 DEF Untouched
  <2>2. \A m \in Maids : tasks'[m] = tasks[m]
    BY <1>1
  <2> HIDE DEF Coming, Safe, nn
  <2> QED
    BY <1>c, <1>e, <2>1, <2>2
<1>2. ASSUME NEW m \in Maids,
             \/ Receives(m) \/ Starts(m) \/ Emits(m) \/ EmitsAgain(m)
             \/ Drops(m) \/ Ends(m) \/ Dies(m)
      PROVE  \A x \in Maids :
               /\ Coming(x)
               /\ \A i \in 1 .. nn : IsEnd(inbox'[Topic][i], x) => Safe(x, i)
  <2>1. \A x \in Maids \ {m} : tasks'[x] = tasks[x]
    BY <1>t, <1>2
    DEF Receives, Starts, Emits, EmitsAgain, Drops, Ends, Dies, MaidTypeOK
  <2>2. Coming(m) /\ \A x \in Maids : \A i \in 1 .. nn :
                       IsEnd(inbox'[Topic][i], x) => Safe(x, i)
    <3>1. CASE Receives(m)
      <4>1. Appended(PING(m)) /\ \A x \in Maids : ~IsEnd(PING(m), x)
        BY <1>s, <1>t, <3>1, MaidSignals, PublishEffect
        DEF Receives, Outcome
      <4> DEFINE new == Greenlet(wrapMesage, "spawned")
      <4>2. tasks'[m] = {new} /\ new.phase # "running"
        BY <1>t, <3>1 DEF Receives, MaidTypeOK, Greenlet
      <4> HIDE DEF Arrived, Safe, n, nn, new
      <4> QED
        BY <1>f, <4>1, <4>2
    <3>2. CASE Starts(m)
      <4>1. PICK tk \in tasks[m] : tasks' = [tasks EXCEPT ![m] =
              {[tk EXCEPT !.phase = "running", !.todo = Results(m, wrapMesage)]}]
        BY <3>2 DEF Starts
      <4> DEFINE new == [tk EXCEPT !.phase = "running",
                                   !.todo = Results(m, wrapMesage)]
      <4>2. tasks'[m] = {new}
        BY <1>t, <4>1 DEF MaidTypeOK
      <4>3. new.todo = Results(m, wrapMesage)
        BY <1>t, <4>1 DEF MaidTypeOK, Task
      <4>4. Untouched
        BY <3>2 DEF Starts, Untouched
      <4> HIDE DEF Arrived, Safe, nn, new
      <4> QED
        BY <1>e, <4>2, <4>3, <4>4, EachHasResult
    <3>3. CASE Emits(m)
      <4>1. PICK tk \in tasks[m] : \E S \in tk.todo, o \in Outcome :
              /\ tasks' = [tasks EXCEPT ![m] =
                    {Reported(tk, S, IF o = "no_return" THEN {} ELSE S)}]
              /\ Publish(Topic, Ret(S, o))
        BY <3>3 DEF Emits
      <4>2. PICK S \in tk.todo, o \in Outcome :
              /\ tasks' = [tasks EXCEPT ![m] =
                    {Reported(tk, S, IF o = "no_return" THEN {} ELSE S)}]
              /\ Publish(Topic, Ret(S, o))
        BY <4>1
      <4>3. S \in SUBSET Minions
        BY <1>t DEF MaidTypeOK, Task
      <4>4. /\ Appended(Ret(S, o))
            /\ \A x \in Maids : ~IsEnd(Ret(S, o), x)
            /\ Ret(S, o).kind = "data" /\ Ret(S, o).items = S
        BY <1>s, <1>t, <4>2, <4>3, MaidSignals, PublishEffect
      <4> DEFINE new == Reported(tk, S, IF o = "no_return" THEN {} ELSE S)
      <4>5. tasks'[m] = {new}
        BY <1>t, <4>2 DEF MaidTypeOK
      <4>6. new.todo = tk.todo \ {S} /\ new.phase = tk.phase
        BY <1>t, <4>1 DEF MaidTypeOK, Task, Reported
      <4>7. \A k \in S : Arrived(k, nn)
        <5>1. nn = n + 1 /\ inbox'[Topic][nn] = Ret(S, o) /\ nn \in 1 .. nn
          BY <1>l, <4>4 DEF Appended
        <5> HIDE DEF nn
        <5> QED
          BY <4>4, <5>1
      <4>8. ASSUME new.phase = "running", NEW k \in Matched(m, Tgt)
            PROVE  {k} \in new.todo \/ Arrived(k, nn)
        <5>1. {k} \in tk.todo \/ Received(k, n)
          BY <4>6, <4>8 DEF ReturnsUnderway
        <5>2. n \in 0 .. n
          BY <1>l
        <5> HIDE DEF Arrived, n, nn, new
        <5> QED
          BY <1>m, <1>r, <4>6, <4>7, <5>1, <5>2
      <4> HIDE DEF Arrived, Safe, n, nn, new
      <4> QED
        BY <1>f, <4>4, <4>5, <4>8
    <3>4. CASE Ends(m)
      <4>1. tasks'[m] = {}
        BY <1>t, <3>4 DEF Ends, MaidTypeOK
      <4>2. PICK msg \in Message :
              /\ Publish(Topic, msg)
              /\ \A x \in Maids : IsEnd(msg, x) <=> x = m
              /\ \/ Refuses(m, wrapMesage)
                 \/ \A tk \in tasks[m] : tk.phase = "running" /\ tk.todo = {}
        BY <3>4, MaidSignals DEF Ends, Outcome
      <4>3. Appended(msg)
        BY <1>s, <1>t, <4>2, PublishEffect
      <4>4. Safe(m, n + 1)
        <5>1. CASE Refuses(m, wrapMesage)
          BY <5>1
        <5>2. CASE \A tk \in tasks[m] : tk.phase = "running" /\ tk.todo = {}
          <6>1. PICK tk \in tasks[m] : tk.phase = "running" /\ tk.todo = {}
            BY <3>4, <5>2 DEF Ends
          <6>2. \A k \in Matched(m, Tgt) : Received(k, n)
            BY <6>1 DEF ReturnsUnderway
          <6>3. n \in 0 .. n /\ nn = n + 1
            BY <1>l, <4>3 DEF Appended
          <6> HIDE DEF Arrived, n, nn
          <6> QED
            BY <1>m, <1>r, <6>2, <6>3
        <5> QED
          BY <4>2, <5>1, <5>2
      <4> HIDE DEF Arrived, Safe, n, nn
      <4> QED
        BY <1>f, <4>1, <4>2, <4>3, <4>4
    <3>5. CASE Dies(m)
      <4>1. tasks'[m] = {} /\ Untouched
        BY <1>t, <3>5 DEF Dies, MaidTypeOK, Untouched
      <4> HIDE DEF Arrived, Safe, nn
      <4> QED
        BY <1>e, <4>1
    <3>6. CASE Drops(m)
      <4>1. PICK tk \in tasks[m] : \E S \in tk.todo :
              /\ tasks' = [tasks EXCEPT ![m] = {Reported(tk, S, {})}]
              /\ lost' = lost \cup ({Topic} \X S)
        BY <3>6 DEF Drops
      <4>2. PICK S \in tk.todo :
              /\ tasks' = [tasks EXCEPT ![m] = {Reported(tk, S, {})}]
              /\ lost' = lost \cup ({Topic} \X S)
        BY <4>1
      <4> DEFINE new == Reported(tk, S, {})
      <4>3. tasks'[m] = {new} /\ Untouched
        BY <1>t, <3>6, <4>2 DEF Drops, MaidTypeOK, Untouched
      <4>4. new.todo = tk.todo \ {S} /\ new.phase = tk.phase
        BY <1>t, <4>1 DEF MaidTypeOK, Task, Reported
      <4>5. S \in SUBSET Minions
        BY <1>t DEF MaidTypeOK, Task
      <4>6. \A k \in S : Arrived(k, nn)
        BY <4>2, <4>5 DEF missing
      <4>7. ASSUME new.phase = "running", NEW k \in Matched(m, Tgt)
            PROVE  {k} \in new.todo \/ Arrived(k, nn)
        <5>1. {k} \in tk.todo \/ Received(k, n)
          BY <4>4, <4>7 DEF ReturnsUnderway
        <5>2. n \in 0 .. n
          BY <1>l
        <5> HIDE DEF Arrived, n, nn, new
        <5> QED
          BY <1>m, <1>r, <4>4, <4>6, <5>1, <5>2
      <4> HIDE DEF Arrived, Safe, n, nn, new
      <4> QED
        BY <1>e, <4>3, <4>7
    <3>7. CASE EmitsAgain(m)
      <4>1. PICK S \in SUBSET Minions, o \in Outcome : Publish(Topic, Ret(S, o))
        BY <1>t, <3>7, AgainPublishes
      <4>2. /\ Appended(Ret(S, o))
            /\ \A x \in Maids : ~IsEnd(Ret(S, o), x)
        BY <1>s, <1>t, <4>1, MaidSignals, PublishEffect
      <4>3. Coming(m)
        BY <1>c, <3>7 DEF EmitsAgain
      <4> HIDE DEF Arrived, Coming, Safe, n, nn
      <4> QED
        BY <1>f, <4>2, <4>3
    <3> QED
      BY <1>2, <3>1, <3>2, <3>3, <3>4, <3>5, <3>6, <3>7
  <2> HIDE DEF Coming, Safe, nn
  <2> QED
    BY <1>c, <2>1, <2>2
<1> HIDE DEF Coming, Safe, nn
<1> QED
  BY <1>1, <1>2, MaidSteps
\* A turn of the client's loop, seen from the queue and the report: the first
\* message is taken or, on a stop, the queue is thrown away; a return enters
\* the report; WORK and INTERRUPT are counted.
Turn ==
    LET msg == inbox[Topic][1] IN
    /\ pc = "listening"
    /\ Len(inbox[Topic]) > 0
    /\ \/ Taken /\ pc' = "listening" /\ stop' = "none" /\ UNCHANGED subscribed
       \/ /\ inbox'[Topic] = <<>>
          /\ pc' = "done"
          /\ stop' # "none"
          /\ subscribed' = subscribed \ {Topic}
    /\ stop' = StopTest(pingCount', resultCount', expired')
    /\ accounted' = accounted \cup (IF msg.kind = "data" THEN msg.items ELSE {})
    /\ IF msg.kind \in {"work", "interrupt"}
       THEN /\ resultExeSet' = resultExeSet \cup {msg.sub_ip}
            /\ resultCount' = resultCount + 1
            /\ UNCHANGED faults
       ELSE /\ UNCHANGED resultExeSet
            /\ \/ UNCHANGED <<resultCount, faults>>
               \/ /\ resultCount' = resultCount + 1
                  /\ faults' = [faults EXCEPT !["display"] = @ + 1]
    /\ UNCHANGED <<cmdq, tasks, lost>>

\* The client listens in turns; a display error counts one message wrongly.
LEMMA ListenIsTurn ==
    ASSUME TypeOK, Listen
    PROVE  Turn
<1>t. MaidTypeOK
  BY DEF TypeOK
<1> DEFINE msg == inbox[Topic][1]
<1>1. /\ pc = "listening"
      /\ inbox[Topic] # <<>>
      /\ callResult = msg
      /\ EndOfBody
  BY DEF Listen, OnConfirmation, OnPing, OnResult, OnEmptyReturn, OnMissed,
         OnReturn, Reads, callResult
<1>2. inbox[Topic] \in Seq(Message) /\ Len(inbox[Topic]) \in Nat
  BY <1>t, QueueLength
<1>3. Len(inbox[Topic]) > 0
  BY <1>1, <1>2, EmptySeq
<1>4. \/ Taken /\ pc' = "listening" /\ stop' = "none" /\ UNCHANGED subscribed
      \/ /\ inbox'[Topic] = <<>>
         /\ pc' = "done"
         /\ stop' # "none"
         /\ subscribed' = subscribed \ {Topic}
  <2>1. CASE stop' = "none"
    <3>1. inbox'[Topic] = Tail(inbox[Topic])
      BY <1>1, <1>t, <2>1, SyncAssumption DEF EndOfBody, MaidTypeOK
    <3>2. Taken
      BY <1>1, <1>2, <1>3, <3>1, HeadTailProperties DEF Taken
    <3> QED
      BY <1>1, <2>1, <3>2 DEF EndOfBody
  <2>2. CASE stop' # "none"
    BY <1>1, <1>t, <2>2, SyncAssumption DEF EndOfBody, MaidTypeOK
  <2> QED
    BY <2>1, <2>2
<1>5. Fault("display") => faults' = [faults EXCEPT !["display"] = @ + 1]
  BY DEF Fault
<1>6. /\ accounted' = accounted \cup (IF msg.kind = "data" THEN msg.items ELSE {})
      /\ IF msg.kind \in {"work", "interrupt"}
         THEN /\ resultExeSet' = resultExeSet \cup {msg.sub_ip}
              /\ resultCount' = resultCount + 1
              /\ UNCHANGED faults
         ELSE /\ UNCHANGED resultExeSet
              /\ \/ UNCHANGED <<resultCount, faults>>
                 \/ /\ resultCount' = resultCount + 1
                    /\ faults' = [faults EXCEPT !["display"] = @ + 1]
  <2> HIDE DEF msg
  <2>1. CASE OnConfirmation
    BY <1>1, <2>1 DEF OnConfirmation, Reads, countVars, reportVars, accounted
  <2>2. CASE OnPing
    BY <1>1, <2>2 DEF OnPing, Reads, reportVars, accounted
  <2>3. CASE OnResult
    BY <1>1, <2>3 DEF OnResult, Reads, reportVars, accounted
  <2>4. CASE OnEmptyReturn
    BY <1>1, <2>4 DEF OnEmptyReturn, Reads, countVars, reportVars, accounted
  <2>5. CASE OnMissed
    BY <1>1, <2>5 DEF OnMissed, Reads, countVars, accounted
  <2>6. CASE OnReturn
    BY <1>1, <1>5, <2>6 DEF OnReturn, Reads, accounted
  <2> QED
    BY <2>1, <2>2, <2>3, <2>4, <2>5, <2>6 DEF Listen
<1> QED
  BY <1>1, <1>3, <1>4, <1>6 DEF Turn, EndOfBody

\* A turn of the loop moves the queue on by one, or ends it.
LEMMA TurnKeepsUnderway ==
    ASSUME TypeOK, ReturnsUnderway, Turn
    PROVE  ReturnsUnderway'
<1> SUFFICES ASSUME pc' = "listening" PROVE ReturnsUnderway'
  BY DEF ReturnsUnderway
<1> DEFINE n == Len(inbox[Topic])
<1>1. n \in Nat /\ n > 0 /\ Taken
  BY QueueLength DEF Turn, TypeOK
<1>2. Len(inbox'[Topic]) = n - 1
  BY <1>1 DEF Taken
<1>3. ASSUME NEW k, NEW i \in 1 .. n, Received(k, i)
      PROVE  \/ k \in accounted' \cup missing'
             \/ \E j \in 1 .. i - 1 : /\ inbox'[Topic][j].kind = "data"
                                      /\ k \in inbox'[Topic][j].items
  <2>1. CASE k \in accounted \cup missing
    BY <2>1 DEF Turn, missing
  <2>2. ASSUME NEW j \in 1 .. i, inbox[Topic][j].kind = "data",
               k \in inbox[Topic][j].items
        PROVE  \/ k \in accounted' \cup missing'
               \/ /\ j - 1 \in 1 .. i - 1
                  /\ inbox'[Topic][j - 1].kind = "data"
                  /\ k \in inbox'[Topic][j - 1].items
    <3>1. CASE j = 1
      BY <2>2, <3>1 DEF Turn
    <3>2. CASE j # 1
      <4>1. j - 1 \in 1 .. n - 1 /\ j - 1 \in 1 .. i - 1 /\ (j - 1) + 1 = j
        BY <1>1, <3>2
      <4>2. inbox'[Topic][j - 1] = inbox[Topic][j]
        BY <1>1, <1>2, <4>1 DEF Taken
      <4> QED
        BY <2>2, <4>1, <4>2
    <3> QED
      BY <3>1, <3>2
  <2> QED
    BY <1>3, <2>1, <2>2 DEF Received
<1>4. ASSUME NEW m \in Maids, NEW tk \in tasks'[m], tk.phase = "running",
             NEW k \in Matched(m, Tgt)
      PROVE  {k} \in tk.todo \/ Received(k, Len(inbox[Topic]))'
  <2>1. tk \in tasks[m] /\ pc = "listening"
    BY DEF Turn
  <2>2. {k} \in tk.todo \/ Received(k, n)
    BY <1>4, <2>1 DEF ReturnsUnderway
  <2>3. n \in 1 .. n
    BY <1>1
  <2> QED
    BY <1>2, <1>3, <2>2, <2>3 DEF Received
<1>5. ASSUME NEW m \in Maids, NEW i \in 1 .. n - 1, IsEnd(inbox'[Topic][i], m)
      PROVE  \/ Refuses(m, wrapMesage)
             \/ \A k \in Matched(m, Tgt) : Received(k, i)'
  <2>1. i + 1 \in 1 .. n /\ (i + 1) - 1 = i
    BY <1>1
  <2>2. IsEnd(inbox[Topic][i + 1], m)
    BY <1>1, <1>2, <1>5 DEF Taken
  <2>3. \/ Refuses(m, wrapMesage)
        \/ \A k \in Matched(m, Tgt) : Received(k, i + 1)
    BY <2>1, <2>2 DEF ReturnsUnderway, Turn
  <2> QED
    BY <1>3, <2>1, <2>3 DEF Received
<1> QED
  BY <1>2, <1>4, <1>5 DEF ReturnsUnderway, IsEnd
\* The maid whose end the client reads was not counted before.
LEMMA TurnKeepsEndsOnce ==
    ASSUME TypeOK, EndsOnce, Turn
    PROVE  EndsOnce'
<1> DEFINE n == Len(inbox[Topic])
           msg == inbox[Topic][1]
<1>1. n \in Nat /\ n > 0 /\ msg \in Message /\ 1 \in 1 .. n
  <2>1. inbox[Topic] \in Seq(Message) /\ n \in Nat /\ n > 0
    BY QueueLength DEF Turn, TypeOK
  <2> QED
    BY <2>1, ElementOfSeq
<1>2. \A m : Busy(m)' <=> Busy(m)
  BY DEF Turn, Busy
<1>f. IsFiniteSet(resultExeSet) /\ Cardinality(resultExeSet) \in Nat
  BY FS_Subset, FS_CardinalityType, MaidAssumption DEF TypeOK
<1>d. faults["display"] \in Nat /\ faults \in [FaultKinds -> Nat]
      /\ "display" \in FaultKinds
  BY DEF TypeOK, MaidTypeOK, FaultKinds
<1>3. /\ resultCount' = Cardinality(resultExeSet') + faults'["display"]
      /\ \A m \in resultExeSet' : ~Busy(m)
      /\ \A m \in Maids : m \in resultExeSet' => m \in resultExeSet \/ IsEnd(msg, m)
  <2>1. CASE msg.kind \in {"work", "interrupt"}
    <3>1. msg.sub_ip \in Maids /\ IsEnd(msg, msg.sub_ip)
      BY <1>1, <2>1 DEF Message, Confirmation, Signal, Data, IsEnd
    <3>2. msg.sub_ip \notin resultExeSet /\ ~Busy(msg.sub_ip)
      BY <1>1, <3>1 DEF EndsOnce
    <3>4. Cardinality(resultExeSet \cup {msg.sub_ip})
            = Cardinality(resultExeSet) + 1
      BY <1>f, <3>2, FS_AddElement
    <3>5. /\ resultExeSet' = resultExeSet \cup {msg.sub_ip}
          /\ resultCount' = resultCount + 1
          /\ faults' = faults
      BY <2>1 DEF Turn
    <3>6. /\ resultCount = Cardinality(resultExeSet) + faults["display"]
          /\ \A m \in resultExeSet : ~Busy(m)
      BY DEF EndsOnce
    <3> HIDE DEF msg
    <3>7. resultCount' = Cardinality(resultExeSet') + faults'["display"]
      BY <1>d, <1>f, <3>4, <3>5, <3>6
    <3> QED
      BY <3>1, <3>2, <3>5, <3>6, <3>7
  <2>2. CASE msg.kind \notin {"work", "interrupt"}
    BY <1>d, <1>f, <2>2 DEF Turn, EndsOnce
  <2> QED
    BY <2>1, <2>2
<1>4. ASSUME NEW m \in Maids, NEW i \in 1 .. Len(inbox'[Topic]),
             IsEnd(inbox'[Topic][i], m)
      PROVE  /\ ~Busy(m)
             /\ m \notin resultExeSet'
             /\ \A j \in 1 .. Len(inbox'[Topic]) :
                  IsEnd(inbox'[Topic][j], m) => i = j
  <2>1. Taken
    <3>1. inbox'[Topic] # <<>>
      BY <1>4
    <3> QED
      BY <3>1 DEF Turn
  <2>2. \A j \in 1 .. Len(inbox'[Topic]) :
          /\ j + 1 \in 1 .. n
          /\ j + 1 # 1
          /\ inbox'[Topic][j] = inbox[Topic][j + 1]
    BY <1>1, <2>1 DEF Taken
  <2>3. IsEnd(inbox[Topic][i + 1], m)
    BY <1>4, <2>2
  <2>4. ~Busy(m) /\ m \notin resultExeSet /\ ~IsEnd(msg, m)
    BY <1>1, <2>2, <2>3 DEF EndsOnce
  <2>5. \A j \in 1 .. Len(inbox'[Topic]) :
          IsEnd(inbox'[Topic][j], m) => i + 1 = j + 1
    BY <2>2, <2>3 DEF EndsOnce
  <2>6. \A j \in 1 .. Len(inbox'[Topic]) : i + 1 = j + 1 => i = j
    BY <1>1, <2>1 DEF Taken
  <2> QED
    BY <1>3, <2>4, <2>5, <2>6
<1> QED
  BY <1>2, <1>3, <1>4 DEF EndsOnce, IsEnd, TypeOK

\* When the client reads the end of a maid, it has read the maid's results.
LEMMA TurnKeepsReturns ==
    ASSUME TypeOK, ReturnsUnderway, ReturnsBeforeWork, Turn
    PROVE  ReturnsBeforeWork'
<1> DEFINE msg == inbox[Topic][1]
<1>1. /\ 1 \in 1 .. Len(inbox[Topic])
      /\ msg \in Message
  <2>1. inbox[Topic] \in Seq(Message) /\ Len(inbox[Topic]) \in Nat
        /\ Len(inbox[Topic]) > 0
    BY QueueLength DEF Turn, TypeOK
  <2> QED
    BY <2>1, ElementOfSeq
<1>2. \A m : AllReturned(m) => AllReturned(m)'
  BY DEF Turn, AllReturned, missing
<1>3. CASE msg.kind \in {"work", "interrupt"}
  <2>1. msg.sub_ip \in Maids /\ IsEnd(msg, msg.sub_ip)
    BY <1>1, <1>3 DEF Message, Confirmation, Signal, Data, IsEnd
  <2>2. \/ Refuses(msg.sub_ip, wrapMesage)
        \/ \A k \in Matched(msg.sub_ip, Tgt) : Received(k, 1)
    BY <1>1, <2>1 DEF ReturnsUnderway, Turn
  <2>3. \A k : Received(k, 1) => k \in accounted \cup missing
    <3>1. msg.kind # "data" /\ \A j \in 1 .. 1 : j = 1
      BY <1>3
    <3> QED
      BY <3>1 DEF Received
  <2>4. AllReturned(msg.sub_ip)
    BY <2>2, <2>3 DEF AllReturned
  <2> QED
    BY <1>2, <1>3, <2>4 DEF Turn, ReturnsBeforeWork
<1>4. CASE msg.kind \notin {"work", "interrupt"}
  BY <1>2, <1>4 DEF Turn, ReturnsBeforeWork
<1> QED
  BY <1>3, <1>4

\* T2 compares counts; equal counts are equal sets when every maid is known.
LEMMA TurnStops ==
    ASSUME TypeOK', EndsOnce', Turn
    PROVE  StopMeansAllEnded'
<1> SUFFICES ASSUME stop' = "T2", faults'["display"] = 0,
                    Maids \subseteq comeSubList
             PROVE  Maids \subseteq resultExeSet'
  BY DEF StopMeansAllEnded
<1>1. resultCount' = syndic_count
  <2>1. StopTest(pingCount', resultCount', expired') = "T2"
    BY DEF Turn
  <2> QED
    BY <2>1 DEF StopTest
<1>2. comeSubList = Maids
  BY SyncAssumption DEF comeSubList
<1>4. resultExeSet' \in SUBSET Maids /\ IsFiniteSet(Maids)
  BY MaidAssumption DEF TypeOK
<1>3. Cardinality(resultExeSet') = Cardinality(Maids)
  <2>1. Cardinality(resultExeSet') \in Nat
    BY <1>4, FS_Subset, FS_CardinalityType
  <2> QED
    BY <1>1, <1>2, <2>1 DEF EndsOnce, syndic_count
<1>5. Cardinality(Maids) = Cardinality(resultExeSet') => Maids = resultExeSet'
  BY <1>4, FS_Subset
<1> QED
  BY <1>3, <1>5
\* The client's first steps establish what the rest of the argument needs.
LEMMA ClientStartKeeps ==
    ASSUME IInv, SubscribeTopic \/ PublishCommand
    PROVE  /\ TopicFollowsPhase'
           /\ OneCommandEach'
           /\ EndsOnce'
           /\ ReturnsUnderway'
           /\ ReturnsBeforeWork'
           /\ StopMeansAllEnded'
<1>t. MaidTypeOK
  BY DEF IInv, TypeOK
<1>1. \A x \in Maids : cmdq[x] = <<>> /\ tasks[x] = {}
  BY DEF IInv, OneCommandEach, Busy, SubscribeTopic, PublishCommand
<1>2. /\ resultExeSet = {}
      /\ UNCHANGED <<resultExeSet, resultCount, accounted, stop, faults>>
  BY DEF IInv, TopicFollowsPhase, SubscribeTopic, PublishCommand, countVars,
         reportVars, accounted
<1>3. stop = "none"
  BY DEF IInv, TopicFollowsPhase, SubscribeTopic, PublishCommand
<1> DEFINE confirmation == [kind |-> "subscribe"]
<1>4. inbox'[Topic] = <<confirmation>> /\ Topic \in subscribed'
  <2>1. CASE SubscribeTopic
    BY <1>t, <2>1, SyncAssumption DEF SubscribeTopic, Subscribe, MaidTypeOK
  <2>2. CASE PublishCommand
    BY <2>2 DEF PublishCommand, IInv, TopicFollowsPhase
  <2> QED
    BY <2>1, <2>2
<1>5. /\ Len(inbox'[Topic]) = 1
      /\ \A i \in 1 .. 1 : inbox'[Topic][i].kind \notin {"work", "interrupt", "data"}
  BY <1>4
<1>6. TopicFollowsPhase'
  BY <1>2, <1>3, <1>4 DEF TopicFollowsPhase, SubscribeTopic, PublishCommand
<1>7. OneCommandEach'
  <2>1. CASE SubscribeTopic
    BY <1>1, <2>1 DEF SubscribeTopic, OneCommandEach, Busy
  <2>2. CASE PublishCommand
    <3>1. \A x \in Maids : cmdq'[x] \in {<<>>, <<wrapMesage>>}
      <4>1. Append(<<>>, wrapMesage) = <<wrapMesage>>
        OBVIOUS
      <4> QED
        BY <1>1, <2>2, <4>1 DEF PublishCommand, PublishToSyndicSub
    <3>2. \A x \in Maids : tasks'[x] = {}
      BY <1>1, <2>2 DEF PublishCommand
    <3> QED
      BY <2>2, <3>1, <3>2 DEF PublishCommand, OneCommandEach
  <2> QED
    BY <2>1, <2>2
<1>8. EndsOnce'
  BY <1>2, <1>5 DEF EndsOnce, IsEnd, IInv
<1>9. ReturnsUnderway'
  <2>1. \A x \in Maids : tasks'[x] = {}
    BY <1>1 DEF SubscribeTopic, PublishCommand
  <2> QED
    BY <1>5, <2>1 DEF ReturnsUnderway, IsEnd
<1> QED
  BY <1>2, <1>3, <1>6, <1>7, <1>8, <1>9
  DEF ReturnsBeforeWork, StopMeansAllEnded

\* What was queued when the connection is lost is lost, and nothing else.
LEMMA LossKeeps ==
    ASSUME IInv, LoseConnection
    PROVE  /\ TopicFollowsPhase'
           /\ OneCommandEach'
           /\ EndsOnce'
           /\ ReturnsUnderway'
           /\ ReturnsBeforeWork'
           /\ StopMeansAllEnded'
<1>t. MaidTypeOK
  BY DEF IInv, TypeOK
<1> DEFINE n == Len(inbox[Topic])
           confirmation == [kind |-> "subscribe"]
<1>1. /\ pc = "listening" /\ stop = "none" /\ stop' = "none"
      /\ pc' \in {"listening", "raised"}
      /\ UNCHANGED <<cmdq, tasks, resultExeSet, resultCount, accounted>>
  BY DEF LoseConnection, IInv, TopicFollowsPhase, countVars, reportVars,
         accounted
<1>2. faults'["display"] = faults["display"]
  BY <1>t DEF LoseConnection, Fault, MaidTypeOK, FaultKinds
<1>3. /\ inbox'[Topic] \in {<<>>, <<confirmation>>}
      /\ pc' = "listening" => Topic \in subscribed'
  <2>1. CASE Subscribe(Topic)
    BY <1>t, <2>1, SyncAssumption DEF Subscribe, MaidTypeOK
  <2>2. CASE ~Subscribe(Topic)
    BY <1>1, <1>t, <2>2, SyncAssumption DEF LoseConnection, MaidTypeOK
  <2> QED
    BY <2>1, <2>2
<1>4. \A i \in 1 .. Len(inbox'[Topic]) :
        inbox'[Topic][i].kind \notin {"work", "interrupt", "data"}
  <2>1. CASE inbox'[Topic] = <<>>
    BY <2>1
  <2>2. CASE inbox'[Topic] = <<confirmation>>
    <3>1. /\ Len(inbox'[Topic]) = 1
          /\ \A i \in 1 .. 1 : inbox'[Topic][i].kind = "subscribe"
      BY <2>2
    <3> QED
      BY <3>1
  <2> QED
    BY <1>3, <2>1, <2>2
<1>5. missing \subseteq missing' /\ Queued(Topic) \cap Minions \subseteq missing'
  <2>1. lost' = lost \cup ({Topic} \X Queued(Topic))
    BY DEF LoseConnection, LoseQueues
  <2> QED
    BY <2>1 DEF missing
<1>6. ASSUME NEW k \in Minions, Received(k, n)
      PROVE  k \in accounted' \cup missing'
  <2>1. ASSUME NEW j \in 1 .. n, inbox[Topic][j].kind = "data",
               k \in inbox[Topic][j].items
        PROVE  k \in Queued(Topic)
    <3>1. inbox[Topic] \in Seq(Message) /\ DOMAIN inbox[Topic] = 1 .. n
      BY <1>t, QueueLength, LenProperties
    <3> QED
      BY <2>1, <3>1 DEF Queued, Named
  <2> QED
    BY <1>1, <1>5, <1>6, <2>1 DEF Received
<1>7. TopicFollowsPhase'
  BY <1>1, <1>3 DEF TopicFollowsPhase
<1>8. OneCommandEach'
  BY <1>1 DEF IInv, OneCommandEach
<1>9. EndsOnce'
  <2>1. \A m : Busy(m)' <=> Busy(m)
    BY <1>1 DEF Busy
  <2> QED
    BY <1>1, <1>2, <1>4, <2>1 DEF IInv, EndsOnce, IsEnd, TypeOK
<1>10. ReturnsUnderway'
  <2>1. ASSUME NEW m \in Maids, NEW tk \in tasks[m], tk.phase = "running",
               NEW k \in Matched(m, Tgt)
        PROVE  {k} \in tk.todo \/ k \in accounted' \cup missing'
    <3>1. k \in Minions
      BY WrapMesageType, WrapMesageFields, ResultsType
    <3> QED
      BY <1>1, <1>6, <2>1, <3>1 DEF IInv, ReturnsUnderway
  <2> QED
    BY <1>1, <1>4, <2>1 DEF ReturnsUnderway, IsEnd, Received
<1>11. ReturnsBeforeWork'
  BY <1>1, <1>5 DEF IInv, ReturnsBeforeWork, AllReturned
<1> QED
  BY <1>1, <1>7, <1>8, <1>9, <1>10, <1>11 DEF StopMeansAllEnded

\* Every step keeps the inductive invariant.
LEMMA InductiveStep ==
    ASSUME IInv, [Next]_vars
    PROVE  IInv'
<1>t. TypeOK'
  BY TypeStep DEF IInv
<1>1. CASE SubscribeTopic \/ PublishCommand
  BY <1>1, <1>t, ClientStartKeeps DEF IInv
<1>2. CASE Expire \/ UNCHANGED vars
  <2>1. UNCHANGED <<cmdq, tasks, inbox, subscribed, pc, resultExeSet,
                    resultCount, accounted, missing, faults, stop>>
    BY <1>2 DEF missing, Expire, vars, maidVars, clientVars, countVars, reportVars,
                accounted
  <2>2. TopicFollowsPhase' /\ OneCommandEach'
    BY <2>1 DEF IInv, TopicFollowsPhase, OneCommandEach, Busy
  <2>3. EndsOnce'
    BY <2>1 DEF IInv, EndsOnce, IsEnd, Busy
  <2>4. ReturnsUnderway'
    BY <2>1 DEF IInv, ReturnsUnderway, IsEnd, Received
  <2>5. ReturnsBeforeWork' /\ StopMeansAllEnded'
    BY <2>1 DEF IInv, ReturnsBeforeWork, AllReturned, StopMeansAllEnded
  <2> QED
    BY <1>t, <2>2, <2>3, <2>4, <2>5 DEF IInv
<1>3. CASE Listen
  <2>1. Turn
    BY <1>3, ListenIsTurn DEF IInv
  <2>2. TopicFollowsPhase'
    <3>1. CASE Taken /\ pc' = "listening" /\ stop' = "none" /\ UNCHANGED subscribed
      BY <2>1, <3>1 DEF Turn, TopicFollowsPhase, IInv
    <3>2. CASE /\ inbox'[Topic] = <<>>
               /\ pc' = "done"
               /\ subscribed' = subscribed \ {Topic}
      BY <3>2 DEF TopicFollowsPhase
    <3> QED
      BY <2>1, <3>1, <3>2 DEF Turn
  <2>3. OneCommandEach'
    <3>1. UNCHANGED <<cmdq, tasks>> /\ pc' \notin {"start", "subscribed"}
      BY <2>1 DEF Turn
    <3> QED
      BY <3>1 DEF OneCommandEach, IInv
  <2>4. EndsOnce' /\ ReturnsUnderway' /\ ReturnsBeforeWork'
    BY <2>1, TurnKeepsEndsOnce, TurnKeepsUnderway, TurnKeepsReturns DEF IInv
  <2>5. StopMeansAllEnded'
    BY <1>t, <2>1, <2>4, TurnStops
  <2> QED
    BY <1>t, <2>2, <2>3, <2>4, <2>5 DEF IInv
<1>4. CASE LoseConnection
  BY <1>4, <1>t, LossKeeps DEF IInv
<1>5. CASE MaidNext /\ UNCHANGED clientVars
  <2>1. /\ TopicFollowsPhase'
        /\ OneCommandEach'
        /\ EndsOnce'
        /\ ReturnsUnderway'
    BY <1>5, MaidsKeepTopic, MaidsKeepOneCommand, MaidsKeepEndsOnce,
       MaidsKeepUnderway DEF IInv
  <2>2. UNCHANGED <<resultExeSet, accounted, stop>>
    BY <1>5 DEF clientVars, countVars, reportVars, accounted
  <2>3. missing \subseteq missing' /\ faults'["display"] = faults["display"]
    BY <1>5, MaidsOnlyLose DEF IInv, TypeOK
  <2>4. ReturnsBeforeWork' /\ StopMeansAllEnded'
    BY <2>2, <2>3 DEF IInv, ReturnsBeforeWork, AllReturned, StopMeansAllEnded
  <2> QED
    BY <1>t, <2>1, <2>4 DEF IInv
<1> QED
  BY <1>1, <1>2, <1>3, <1>4, <1>5 DEF Next, Client, Terminated

\* The initial states satisfy it.
LEMMA InductiveInit == Init => IInv
<1> SUFFICES ASSUME Init PROVE IInv
  OBVIOUS
<1>1. TypeOK
  BY MaidInitType DEF Init, TypeOK
<1>2. /\ pc = "start" /\ stop = "none" /\ resultExeSet = {} /\ resultCount = 0
      /\ inbox[Topic] = <<>> /\ Topic \notin subscribed
      /\ \A x \in Maids : cmdq[x] = <<>> /\ tasks[x] = {}
  BY SyncAssumption DEF Init, MaidInit
<1>3. EndsOnce
  <2>1. Cardinality({}) = 0 /\ faults["display"] = 0
    BY FS_EmptySet DEF Init, MaidInit, FaultKinds
  <2> QED
    BY <1>2, <2>1 DEF EndsOnce
<1> QED
  BY <1>1, <1>2, <1>3
  DEF IInv, TopicFollowsPhase, OneCommandEach, Busy, ReturnsUnderway,
      ReturnsBeforeWork, StopMeansAllEnded

\* The inductive invariant holds, whatever fails.
THEOREM Inductive == Spec => []IInv
<1>1. IInv /\ [Next]_vars => IInv'
  BY InductiveStep
<1> QED
  BY <1>1, InductiveInit, PTL DEF Spec

\* A WORK never overtakes the results of its maid: whatever fails, a maid
\* that the client has counted as finished has all its minions in the client's
\* report, but for those whose result got lost on the way (executeCallback,
\* startListen).
THEOREM WorkIsLast == Spec => []ReturnsBeforeWork
<1>1. IInv => ReturnsBeforeWork
  BY DEF IInv
<1> QED
  BY <1>1, Inductive, PTL

\* The loop's normal end, T2, misses no minion when the maids are the nodes
\* that the super master knows.
THEOREM NormalEndIsComplete ==
    ASSUME Maids \subseteq comeSubList
    PROVE  Spec => []CompleteStop
<1>1. IInv => CompleteStop
  <2>1. comeSubList \subseteq Maids
    BY SyncAssumption DEF comeSubList
  <2> QED
    BY <2>1 DEF IInv, StopMeansAllEnded, ReturnsBeforeWork, CompleteStop
<1> QED
  BY <1>1, Inductive, PTL
-----------------------------------------------------------------------------
(* The client implements the promise of FanOut.                            *)

\* A turn of the loop gathers, completes or gives up.
LEMMA TurnImplements ==
    ASSUME IInv, IInv', Turn, Maids \subseteq comeSubList
    PROVE  Abstract!Gather \/ Abstract!Complete \/ Abstract!GiveUp
<1> DEFINE msg == inbox[Topic][1]
           S == IF msg.kind = "data" THEN msg.items ELSE {}
<1>1. S \in SUBSET Minions
  <2>1. inbox[Topic] \in Seq(Message) /\ Len(inbox[Topic]) \in Nat
        /\ Len(inbox[Topic]) > 0
    BY QueueLength DEF Turn, IInv, TypeOK
  <2>2. msg \in Message
    BY <2>1, ElementOfSeq
  <2> QED
    BY <2>2 DEF Message, Confirmation, Signal, Data
<1>2. Abstract!Collect
  <2>1. accounted' = accounted \cup S /\ missing' = missing \cup {}
    BY DEF Turn, missing
  <2> HIDE DEF S
  <2> QED
    BY <1>1, <2>1 DEF Abstract!Collect, Abstract!Lose
<1>3. pc = "listening"
  BY DEF Turn
<1>4. CASE pc' = "listening"
  BY <1>2, <1>3, <1>4 DEF Abstract!Gather, status
<1>5. CASE pc' = "done" /\ stop' = "T2" /\ faults'["display"] = 0
  <2>1. Maids \subseteq resultExeSet'
    BY <1>5 DEF IInv, StopMeansAllEnded
  <2>2. \A m \in comeSubList : Refuses(m, wrapMesage) \/ 
          Matched(m, Tgt) \subseteq accounted' \cup missing'
    <3>1. comeSubList \subseteq Maids
      BY SyncAssumption DEF comeSubList
    <3> QED
      BY <2>1, <3>1 DEF IInv, ReturnsBeforeWork, AllReturned
  <2>3. UNION {IF Refuses(m, wrapMesage) THEN {} ELSE Matched(m, Tgt) :
               m \in comeSubList} \subseteq accounted' \cup missing'
    BY <2>2
  <2> QED
    BY <1>2, <1>3, <1>5, <2>3 DEF Abstract!Complete, status
<1>6. CASE pc' = "done" /\ (stop' \in {"T0", "T1"} \/ faults'["display"] # 0)
  BY <1>2, <1>3, <1>6 DEF Abstract!GiveUp, status
<1>7. pc' = "listening" \/ (pc' = "done" /\ stop' \in {"T0", "T1", "T2"})
  <2>1. stop' \in {"none", "T0", "T1", "T2"}
    BY DEF IInv, TypeOK
  <2>2. pc' = "listening" \/ (pc' = "done" /\ stop' # "none")
    BY DEF Turn
  <2> QED
    BY <2>1, <2>2
<1> QED
  BY <1>4, <1>5, <1>6, <1>7

\* The fan-out keeps the promise of FanOut: it asks once, gathers, and says
\* that it is complete only when every minion it asked for is in the report.
THEOREM SyncImplementsFanOut ==
    ASSUME Maids \subseteq comeSubList
    PROVE  Spec => ImplementsFanOut
<1>1. Init => Abstract!Init
  BY DEF Init, MaidInit, Abstract!Init, accounted, missing, status
<1>2. ASSUME IInv, IInv', [Next]_vars PROVE [Abstract!Next]_Abstract!vars
  <2>1. CASE SubscribeTopic
    BY <2>1 DEF SubscribeTopic, reportVars, accounted, missing, status,
                Abstract!vars
  <2>2. CASE PublishCommand
    <3>1. UNCHANGED accounted /\ missing' = missing \cup {}
      BY <2>2 DEF PublishCommand, reportVars, accounted, missing
    <3> QED
      BY <2>2, <3>1 DEF PublishCommand, status, Abstract!Next, Abstract!Ask,
                        Abstract!Lose
  <2>3. CASE Expire
    BY <2>3 DEF Expire, maidVars, reportVars, accounted, missing, status,
                Abstract!vars
  <2>4. CASE Listen
    BY <1>2, <2>4, ListenIsTurn, TurnImplements DEF IInv, Abstract!Next
  <2>5. CASE LoseConnection
    <3>1. /\ pc = "listening" /\ pc' \in {"listening", "raised"}
          /\ stop' = "none"
          /\ accounted' = accounted \cup {}
          /\ missing \subseteq missing'
      BY <1>2, <2>5 DEF LoseConnection, LoseQueues, reportVars, accounted,
                        missing, IInv, TopicFollowsPhase
    <3>2. missing' = missing \cup missing' /\ missing' \in SUBSET Minions
      BY <3>1 DEF missing
    <3> QED
      BY <3>1, <3>2 DEF status, Abstract!Next, Abstract!Stray, Abstract!GiveUp,
                        Abstract!Collect, Abstract!Lose
  <2>6. CASE MaidNext /\ UNCHANGED clientVars
    <3>1. /\ UNCHANGED <<accounted, pc, stop>>
          /\ missing \subseteq missing'
          /\ faults'["display"] = faults["display"]
      BY <1>2, <2>6, MaidsOnlyLose
      DEF IInv, TypeOK, clientVars, reportVars, accounted
    <3>2. missing' = missing \cup missing' /\ missing' \in SUBSET Minions
      BY <3>1 DEF missing
    <3> QED
      BY <3>1, <3>2 DEF status, Abstract!Next, Abstract!Stray, Abstract!Lose
  <2>7. CASE UNCHANGED vars
    BY <2>7 DEF vars, maidVars, clientVars, reportVars, accounted, missing,
                status, Abstract!vars
  <2> QED
    BY <1>2, <2>1, <2>2, <2>3, <2>4, <2>5, <2>6, <2>7
    DEF Next, Client, Terminated
<1> QED
  BY <1>1, <1>2, Inductive, PTL DEF Spec, ImplementsFanOut, Abstract!Spec

-----------------------------------------------------------------------------
(* What the client counts: the inductive invariant, on top of IInv.        *)

IsPing(msg, m) == msg.kind = "ping" /\ msg.sub_ip = m

\* a maid answers PING at most once: while it has the command in its queue it
\* has not, and afterwards the PING is in the client's queue or counted
PingsOnce ==
    /\ pc \in {"start", "subscribed"} => resultPingSet = {}
    /\ \A m \in Maids : cmdq[m] # <<>> => m \notin resultPingSet
    /\ \A m \in Maids : \A i \in 1 .. Len(inbox[Topic]) :
          IsPing(inbox[Topic][i], m) =>
            /\ cmdq[m] = <<>>
            /\ m \notin resultPingSet
            /\ \A j \in 1 .. Len(inbox[Topic]) :
                  IsPing(inbox[Topic][j], m) => i = j
    /\ pingCount = Cardinality(resultPingSet)

\* the PING of maid m is counted, or is one of the next n messages
Pinged(m, n) ==
    \/ m \in resultPingSet
    \/ \E j \in 1 .. n : IsPing(inbox[Topic][j], m)

\* a known maid's PING comes before its WORK, if no connection was lost
PingsFirst ==
    faults["redis"] = 0 => \A m \in comeSubList :
        /\ Topic \in subscribed /\ tasks[m] # {} => Pinged(m, Len(inbox[Topic]))
        /\ \A i \in 1 .. Len(inbox[Topic]) :
              IsEnd(inbox[Topic][i], m) => Pinged(m, i)
        /\ m \in resultExeSet => m \in resultPingSet

\* the stop tests, when no other maid answers
StopLeavesNone ==
    Maids \subseteq comeSubList => NoneLeftRunning

CountInv == PingsOnce /\ PingsFirst /\ StopLeavesNone

-----------------------------------------------------------------------------
(* The steps of the maids.                                                 *)

\* A maid's step loses no connection.
LEMMA MaidsKeepConnection ==
    ASSUME MaidTypeOK, MaidNext PROVE faults'["redis"] = faults["redis"]
<1>1. ASSUME NEW kind \in {"crash", "abort", "drop", "again"}, Fault(kind)
      PROVE  faults'["redis"] = faults["redis"]
  BY <1>1 DEF Fault, MaidTypeOK, FaultKinds
<1> QED
  BY <1>1 DEF MaidNext, MaidWork, MaidFault, MaidReceive, MaidSpawn,
              TaskRefuse, TaskStart, TaskEmit, TaskFinish, TaskRepeat,
              TaskDrop, TaskAbort, MaidCrash, MaidRestart

\* A step of a maid that sends no PING, seen from the client.
NoPing ==
    /\ \A x \in Maids : cmdq'[x] \in {<<>>, cmdq[x]}
    /\ \A x \in Maids : tasks'[x] # {} => tasks[x] # {}
    /\ \/ Untouched
       \/ \E msg \in Message :
            /\ Appended(msg)
            /\ \A x \in Maids : ~IsPing(msg, x) /\ (IsEnd(msg, x) => tasks[x] # {})

\* Every step of a maid is such a step, or answers PING.
LEMMA MaidsPingOrNot ==
    ASSUME TypeOK, OneCommandEach, MaidNext
    PROVE  NoPing \/ \E m \in Maids : Receives(m)
<1>t. MaidTypeOK
  BY DEF TypeOK
<1>1. CASE UNCHANGED <<cmdq, tasks, inbox>>
  BY <1>1 DEF NoPing, Untouched
<1>2. ASSUME NEW m \in Maids, Starts(m) \/ Drops(m) \/ Dies(m) PROVE NoPing
  BY <1>t, <1>2 DEF Starts, Drops, Dies, NoPing, Untouched, MaidTypeOK
<1>3. ASSUME NEW m \in Maids, Emits(m) \/ EmitsAgain(m) PROVE NoPing
  <2>2. PICK S \in SUBSET Minions, o \in Outcome : Publish(Topic, Ret(S, o))
    BY <1>t, <1>3, AgainPublishes, EmitPublishes
  <2>4. Untouched \/ Appended(Ret(S, o))
    BY <1>t, <2>2, MaidSignals, PublishEffect
  <2>5. /\ Ret(S, o) \in Message
        /\ \A x \in Maids : ~IsPing(Ret(S, o), x) /\ ~IsEnd(Ret(S, o), x)
    BY MaidSignals DEF IsPing
  <2>6. /\ \A x \in Maids : cmdq'[x] = cmdq[x]
        /\ \A x \in Maids : tasks'[x] # {} => tasks[x] # {}
    BY <1>t, <1>3 DEF Emits, EmitsAgain, MaidTypeOK
  <2> QED
    BY <2>4, <2>5, <2>6 DEF NoPing
<1>4. ASSUME NEW m \in Maids, Ends(m) PROVE NoPing
  <2>1. PICK msg \in {WORK(m), INTERRUPT(m)} : Publish(Topic, msg)
    BY <1>4 DEF Ends
  <2>2. /\ msg \in Message
        /\ \A x \in Maids : ~IsPing(msg, x) /\ (IsEnd(msg, x) => x = m)
    BY DEF WORK, INTERRUPT, IsPing, IsEnd, Message, Signal
  <2>3. Untouched \/ Appended(msg)
    BY <1>t, <2>1, <2>2, PublishEffect
  <2>4. /\ \A x \in Maids : cmdq'[x] = cmdq[x]
        /\ \A x \in Maids : tasks'[x] # {} => tasks[x] # {}
        /\ tasks[m] # {}
    BY <1>t, <1>4 DEF Ends, MaidTypeOK
  <2> QED
    BY <2>2, <2>3, <2>4 DEF NoPing
<1> QED
  BY <1>1, <1>2, <1>3, <1>4, MaidSteps

\* A message that is not a PING, or none, keeps both parts.
LEMMA NoPingKeeps ==
    ASSUME TypeOK, PingsOnce, PingsFirst, NoPing,
           UNCHANGED <<pc, countVars, subscribed>>, faults'["redis"] = faults["redis"]
    PROVE  PingsOnce' /\ PingsFirst'
<1> PICK n \in Nat : n = Len(inbox[Topic])
  BY QueueLength DEF TypeOK
<1>l. comeSubList \subseteq Maids
  BY SyncAssumption DEF comeSubList
<1>u. UNCHANGED <<pc, pingCount, resultPingSet, resultExeSet>>
  BY DEF countVars
<1>1. CASE Untouched
  BY <1>1, <1>l, <1>u
  DEF NoPing, Untouched, PingsOnce, PingsFirst, Pinged, IsPing, IsEnd
<1>2. ASSUME NEW msg \in Message, Appended(msg),
             \A x \in Maids : ~IsPing(msg, x) /\ (IsEnd(msg, x) => tasks[x] # {})
      PROVE  PingsOnce' /\ PingsFirst'
  <2>1. /\ Len(inbox'[Topic]) = n + 1
        /\ \A i \in 1 .. n : inbox'[Topic][i] = inbox[Topic][i]
        /\ inbox'[Topic][n + 1] = msg
        /\ \A i \in 1 .. n + 1 : i \in 1 .. n \/ i = n + 1
        /\ \A i \in 1 .. n : i \in 1 .. n + 1
    BY <1>l, <1>2 DEF Appended
  <2>2. \A x \in Maids : \A i \in 1 .. n + 1 :
          IsPing(inbox'[Topic][i], x) => i \in 1 .. n /\ IsPing(inbox[Topic][i], x)
    BY <1>2, <2>1
  <2>3. PingsOnce'
    <3>1. ASSUME NEW x \in Maids, NEW i \in 1 .. n + 1,
                 IsPing(inbox'[Topic][i], x)
          PROVE  /\ cmdq'[x] = <<>>
                 /\ x \notin resultPingSet
                 /\ \A j \in 1 .. n + 1 : IsPing(inbox'[Topic][j], x) => i = j
      BY <2>2, <3>1 DEF PingsOnce, NoPing
    <3>2. \A x \in Maids : cmdq'[x] # <<>> => x \notin resultPingSet
      BY DEF PingsOnce, NoPing
    <3>3. \A x \in Maids : \A i \in 1 .. Len(inbox'[Topic]) :
            IsPing(inbox'[Topic][i], x) =>
              /\ cmdq'[x] = <<>>
              /\ x \notin resultPingSet'
              /\ \A j \in 1 .. Len(inbox'[Topic]) :
                    IsPing(inbox'[Topic][j], x) => i = j
      BY <1>u, <2>1, <3>1
    <3>4. /\ pc' \in {"start", "subscribed"} => resultPingSet' = {}
          /\ pingCount' = Cardinality(resultPingSet')
      BY <1>u DEF PingsOnce
    <3> QED
      BY <1>u, <3>2, <3>3, <3>4 DEF PingsOnce, IsPing
  <2>4. ASSUME NEW x, NEW i \in 0 .. n + 1, NEW j \in 0 .. n, j <= i, Pinged(x, j)
        PROVE  Pinged(x, i)'
    <3>1. CASE x \in resultPingSet
      BY <1>u, <3>1 DEF Pinged
    <3>2. ASSUME NEW h \in 1 .. j, IsPing(inbox[Topic][h], x) PROVE Pinged(x, i)'
      <4>1. h \in 1 .. n /\ h \in 1 .. i
        BY <2>4
      <4>2. IsPing(inbox'[Topic][h], x)
        BY <2>1, <3>2, <4>1
      <4> QED
        BY <4>1, <4>2 DEF Pinged, IsPing
    <3> QED
      BY <2>4, <3>1, <3>2 DEF Pinged
  <2>5. PingsFirst'
    <3> SUFFICES ASSUME faults["redis"] = 0, NEW m \in comeSubList
                 PROVE  /\ Topic \in subscribed /\ tasks'[m] # {} => Pinged(m, n + 1)'
                        /\ \A i \in 1 .. n + 1 :
                              IsEnd(inbox'[Topic][i], m) => Pinged(m, i)'
                        /\ m \in resultExeSet => m \in resultPingSet
      BY <1>u, <2>1 DEF PingsFirst, IsEnd, Pinged, IsPing
    <3>m. m \in Maids /\ n \in 0 .. n /\ n \in Nat
      BY <1>l
    <3>0. Topic \in subscribed /\ tasks[m] # {} => Pinged(m, n)
      BY DEF PingsFirst
    <3>1. Topic \in subscribed /\ tasks[m] # {} => Pinged(m, n + 1)'
      BY <2>4, <3>m, <3>0
    <3>2. ASSUME NEW i \in 1 .. n + 1, IsEnd(inbox'[Topic][i], m)
          PROVE  Pinged(m, i)'
      <4>1. CASE i \in 1 .. n
        <5>1. Pinged(m, i)
          BY <2>1, <3>2, <4>1 DEF PingsFirst, IsEnd
        <5> QED
          BY <2>4, <3>m, <4>1, <5>1
      <4>2. CASE i = n + 1
        <5>1. tasks[m] # {} /\ Topic \in subscribed
          BY <1>2, <2>1, <3>2, <3>m, <4>2 DEF IsEnd, Appended
        <5> QED
          BY <3>1, <4>2, <5>1
      <4> QED
        BY <2>1, <4>1, <4>2
    <3> QED
      BY <3>m, <3>1, <3>2 DEF PingsFirst, NoPing
  <2> QED
    BY <2>3, <2>5
<1> QED
  BY <1>1, <1>2 DEF NoPing

\* A maid that answers PING has not done so before.
LEMMA PingKeeps ==
    ASSUME IInv, PingsOnce, PingsFirst, NEW m \in Maids, Receives(m),
           UNCHANGED <<pc, countVars, subscribed>>,
           faults'["redis"] = faults["redis"]
    PROVE  PingsOnce' /\ PingsFirst'
<1>t. MaidTypeOK
  BY DEF IInv, TypeOK
<1> PICK n \in Nat : n = Len(inbox[Topic])
  BY QueueLength DEF IInv, TypeOK
<1>l. comeSubList \subseteq Maids
  BY SyncAssumption DEF comeSubList
<1>u. UNCHANGED <<pc, pingCount, resultPingSet, resultExeSet>>
  BY DEF countVars
<1>1. /\ cmdq[m] # <<>> /\ cmdq'[m] = <<>> /\ tasks[m] = {}
      /\ \A x \in Maids : x # m => cmdq'[x] = cmdq[x] /\ tasks'[x] = tasks[x]
  <2>1. cmdq[m] # <<>> /\ cmdq'[m] = <<>>
    BY <1>t DEF Receives, MaidTypeOK
  <2>2. tasks[m] = {}
    BY <2>1 DEF IInv, OneCommandEach
  <2> QED
    BY <1>t, <2>1, <2>2 DEF Receives, MaidTypeOK
<1>2. /\ m \notin resultPingSet
      /\ \A i \in 1 .. n : ~IsPing(inbox[Topic][i], m)
  BY <1>1 DEF PingsOnce
<1>3. /\ PING(m) \in Message
      /\ \A x \in Maids : /\ IsPing(PING(m), x) <=> x = m
                          /\ ~IsEnd(PING(m), x)
  BY DEF PING, IsPing, IsEnd, Message, Signal
<1>4. IF Topic \in subscribed THEN Appended(PING(m)) ELSE Untouched
  BY <1>t, <1>3, PublishEffect DEF Receives
<1>5. CASE Topic \notin subscribed
  <2>1. inbox'[Topic] = inbox[Topic]
    BY <1>4, <1>5 DEF Untouched
  <2>2. PingsOnce'
    BY <1>1, <1>u, <2>1 DEF PingsOnce, IsPing
  <2>3. PingsFirst'
    BY <1>5, <1>u, <1>l, <2>1 DEF PingsFirst, Pinged, IsPing, IsEnd
  <2> QED
    BY <2>2, <2>3
<1>6. CASE Topic \in subscribed
  <2>1. /\ Len(inbox'[Topic]) = n + 1
        /\ \A i \in 1 .. n : inbox'[Topic][i] = inbox[Topic][i]
        /\ inbox'[Topic][n + 1] = PING(m)
        /\ \A i \in 1 .. n + 1 : i \in 1 .. n \/ i = n + 1
        /\ \A i \in 1 .. n : i \in 1 .. n + 1
    BY <1>4, <1>6 DEF Appended
  <2>2. PingsOnce'
    <3>1. ASSUME NEW x \in Maids, NEW i \in 1 .. n + 1,
                 IsPing(inbox'[Topic][i], x)
          PROVE  /\ cmdq'[x] = <<>>
                 /\ x \notin resultPingSet
                 /\ \A j \in 1 .. n + 1 : IsPing(inbox'[Topic][j], x) => i = j
      <4>1. CASE x = m
        <5>1. \A j \in 1 .. n + 1 : IsPing(inbox'[Topic][j], m) => j = n + 1
          BY <1>2, <2>1
        <5> QED
          BY <1>1, <1>2, <3>1, <4>1, <5>1
      <4>2. CASE x # m
        <5>1. \A j \in 1 .. n + 1 : IsPing(inbox'[Topic][j], x) =>
                j \in 1 .. n /\ IsPing(inbox[Topic][j], x)
          BY <1>3, <2>1, <4>2
        <5> QED
          BY <1>1, <3>1, <4>2, <5>1 DEF PingsOnce
      <4> QED
        BY <4>1, <4>2
    <3>2. \A x \in Maids : cmdq'[x] # <<>> => x \notin resultPingSet
      BY <1>1 DEF PingsOnce
    <3>3. \A x \in Maids : \A i \in 1 .. Len(inbox'[Topic]) :
            IsPing(inbox'[Topic][i], x) =>
              /\ cmdq'[x] = <<>>
              /\ x \notin resultPingSet'
              /\ \A j \in 1 .. Len(inbox'[Topic]) :
                    IsPing(inbox'[Topic][j], x) => i = j
      BY <1>u, <2>1, <3>1
    <3>4. /\ pc' \in {"start", "subscribed"} => resultPingSet' = {}
          /\ pingCount' = Cardinality(resultPingSet')
      BY <1>u DEF PingsOnce
    <3> QED
      BY <1>u, <3>2, <3>3, <3>4 DEF PingsOnce, IsPing
  <2>3. PingsFirst'
    <3> SUFFICES ASSUME faults["redis"] = 0, NEW x \in comeSubList
                 PROVE  /\ tasks'[x] # {} => Pinged(x, n + 1)'
                        /\ \A i \in 1 .. n + 1 :
                              IsEnd(inbox'[Topic][i], x) => Pinged(x, i)'
                        /\ x \in resultExeSet => x \in resultPingSet
      BY <1>u, <2>1 DEF PingsFirst, IsEnd, Pinged, IsPing
    <3>1. \A j \in 1 .. n : IsPing(inbox[Topic][j], x) => IsPing(inbox'[Topic][j], x)
      BY <2>1
    <3>2. tasks'[x] # {} => Pinged(x, n + 1)'
      <4>1. CASE x = m
        <5>1. IsPing(inbox'[Topic][n + 1], m) /\ n + 1 \in 1 .. n + 1
          BY <1>3, <2>1
        <5> QED
          BY <4>1, <5>1 DEF Pinged, IsPing
      <4>2. CASE x # m
        <5>1. tasks'[x] # {} => Pinged(x, n)
          BY <1>1, <1>6, <1>l, <4>2 DEF PingsFirst
        <5> QED
          BY <1>u, <2>1, <3>1, <5>1 DEF Pinged, IsPing
      <4> QED
        BY <4>1, <4>2
    <3>3. ASSUME NEW i \in 1 .. n + 1, IsEnd(inbox'[Topic][i], x)
          PROVE  Pinged(x, i)'
      <4>1. i \in 1 .. n /\ IsEnd(inbox[Topic][i], x)
        BY <1>3, <1>l, <2>1, <3>3 DEF IsEnd
      <4>2. Pinged(x, i)
        BY <4>1 DEF PingsFirst
      <4>3. \A j \in 1 .. i : j \in 1 .. n
        BY <4>1
      <4> QED
        BY <1>u, <3>1, <4>2, <4>3 DEF Pinged, IsPing
    <3> QED
      BY <3>2, <3>3 DEF PingsFirst
  <2> QED
    BY <2>2, <2>3
<1> QED
  BY <1>5, <1>6

\* The steps of the maids keep the invariant.
LEMMA MaidsKeepCounts ==
    ASSUME IInv, CountInv, MaidNext, UNCHANGED clientVars
    PROVE  CountInv'
<1>t. TypeOK /\ MaidTypeOK /\ OneCommandEach
  BY DEF IInv, TypeOK
<1>1. /\ UNCHANGED <<pc, countVars, subscribed>>
      /\ UNCHANGED <<stop, resultPingSet, resultExeSet>>
      /\ faults'["redis"] = faults["redis"]
      /\ faults'["display"] = faults["display"]
  BY <1>t, MaidsKeepConnection, MaidsOnlyLose, MaidsKeepSubscriptions
  DEF clientVars, countVars
<1>2. PingsOnce' /\ PingsFirst'
  BY <1>t, <1>1, MaidsPingOrNot, NoPingKeeps, PingKeeps DEF CountInv
<1>3. StopLeavesNone'
  BY <1>1 DEF CountInv, StopLeavesNone, NoneLeftRunning
<1> QED
  BY <1>2, <1>3 DEF CountInv

-----------------------------------------------------------------------------
(* The steps of the client.                                                *)

\* The first steps of the client: nobody has answered yet.
LEMMA StartKeepsCounts ==
    ASSUME IInv, CountInv, SubscribeTopic \/ PublishCommand
    PROVE  CountInv'
<1>1. /\ \A x \in Maids : tasks[x] = {} /\ tasks'[x] = {}
      /\ resultExeSet = {} /\ resultPingSet = {} /\ stop = "none"
      /\ UNCHANGED <<resultExeSet, resultPingSet, pingCount, stop, faults>>
  BY DEF IInv, OneCommandEach, TopicFollowsPhase, Busy, CountInv, PingsOnce,
         SubscribeTopic, PublishCommand, countVars
<1> DEFINE confirmation == [kind |-> "subscribe"]
<1>2. inbox'[Topic] = <<confirmation>>
  <2>1. CASE SubscribeTopic
    BY <2>1, SyncAssumption
    DEF SubscribeTopic, Subscribe, IInv, TypeOK, MaidTypeOK
  <2>2. CASE PublishCommand
    BY <2>2 DEF PublishCommand, IInv, TopicFollowsPhase
  <2> QED
    BY <2>1, <2>2
<1>3. /\ Len(inbox'[Topic]) = 1
      /\ \A i \in 1 .. 1 : inbox'[Topic][i].kind \notin {"ping", "work", "interrupt"}
  BY <1>2
<1>4. PingsOnce'
  BY <1>1, <1>3 DEF PingsOnce, IsPing, CountInv
<1>5. PingsFirst'
  <2>1. comeSubList \subseteq Maids
    BY SyncAssumption DEF comeSubList
  <2> QED
    BY <1>1, <1>3, <2>1 DEF PingsFirst, IsEnd
<1> QED
  BY <1>1, <1>4, <1>5 DEF CountInv, StopLeavesNone, NoneLeftRunning

\* When a connection is lost, PINGs on their way are, too.
LEMMA LossKeepsCounts ==
    ASSUME IInv, CountInv, LoseConnection PROVE CountInv'
<1>t. MaidTypeOK /\ stop = "none"
  BY DEF IInv, TypeOK, TopicFollowsPhase, LoseConnection
<1>1. /\ pc' \in {"listening", "raised"}
      /\ UNCHANGED <<cmdq, resultExeSet, resultPingSet, pingCount, stop>>
  BY DEF LoseConnection, countVars
<1>2. faults'["redis"] # 0
  BY <1>t DEF LoseConnection, Fault, MaidTypeOK, FaultKinds
<1> DEFINE confirmation == [kind |-> "subscribe"]
<1>3. inbox'[Topic] \in {<<>>, <<confirmation>>}
  <2>1. CASE Subscribe(Topic)
    BY <1>t, <2>1, SyncAssumption DEF Subscribe, MaidTypeOK
  <2>2. CASE ~Subscribe(Topic)
    BY <1>t, <2>2, SyncAssumption DEF LoseConnection, MaidTypeOK
  <2> QED
    BY <2>1, <2>2
<1>4. \A i \in 1 .. Len(inbox'[Topic]) : inbox'[Topic][i].kind # "ping"
  <2>1. CASE inbox'[Topic] = <<>>
    BY <2>1
  <2>2. CASE inbox'[Topic] = <<confirmation>>
    <3>1. /\ Len(inbox'[Topic]) = 1
          /\ \A i \in 1 .. 1 : inbox'[Topic][i].kind = "subscribe"
      BY <2>2
    <3> QED
      BY <3>1
  <2> QED
    BY <1>3, <2>1, <2>2
<1>5. PingsOnce'
  BY <1>1, <1>4 DEF PingsOnce, IsPing, CountInv
<1> QED
  BY <1>t, <1>1, <1>2, <1>5
  DEF CountInv, PingsFirst, StopLeavesNone, NoneLeftRunning

\* What a turn of the loop counts of the PINGs, and that it loses nothing.
LEMMA TurnPings ==
    ASSUME TypeOK, Listen
    PROVE  /\ IF callResult.kind = "ping" /\ callResult.sub_ip \in comeSubList
              THEN /\ pingCount' = pingCount + 1
                   /\ resultPingSet' = resultPingSet \cup {callResult.sub_ip}
              ELSE UNCHANGED <<pingCount, resultPingSet>>
           /\ faults'["redis"] = faults["redis"]
<1>1. Fault("display") => faults'["redis"] = faults["redis"]
  BY DEF Fault, TypeOK, MaidTypeOK, FaultKinds
<1>2. CASE OnConfirmation \/ OnResult \/ OnEmptyReturn
  BY <1>2 DEF OnConfirmation, OnResult, OnEmptyReturn, Reads, countVars
<1>3. CASE OnPing
  BY <1>3 DEF OnPing, Reads
<1>4. CASE OnMissed
  BY <1>4 DEF OnMissed, Reads, countVars
<1>5. CASE OnReturn
  BY <1>1, <1>5 DEF OnReturn, Reads
<1> QED
  BY <1>2, <1>3, <1>4, <1>5 DEF Listen

\* The client counts a PING once.
LEMMA TurnKeepsPingsOnce ==
    ASSUME IInv, PingsOnce, Listen PROVE PingsOnce'
<1>t. TypeOK /\ Turn
  BY ListenIsTurn DEF IInv
<1> PICK n \in Nat : n = Len(inbox[Topic])
  BY <1>t, QueueLength DEF TypeOK
<1> DEFINE msg == inbox[Topic][1]
<1>1. /\ n > 0 /\ 1 \in 1 .. n /\ callResult = msg
      /\ UNCHANGED cmdq /\ pc' \notin {"start", "subscribed"}
  BY <1>t DEF Turn, callResult
<1>2. /\ resultPingSet \subseteq resultPingSet'
      /\ \A x \in Maids : x \in resultPingSet' => x \in resultPingSet \/ IsPing(msg, x)
  BY <1>t, <1>1, TurnPings DEF IsPing
<1>3. pingCount' = Cardinality(resultPingSet')
  <2>1. IsFiniteSet(resultPingSet) /\ Cardinality(resultPingSet) \in Nat
    BY <1>t, FS_Subset, FS_CardinalityType, MaidAssumption, SyncAssumption
    DEF TypeOK, comeSubList
  <2>2. CASE msg.kind = "ping" /\ msg.sub_ip \in comeSubList
    <3>1. msg.sub_ip \in Maids /\ IsPing(msg, msg.sub_ip)
      BY <2>2, SyncAssumption DEF comeSubList, IsPing
    <3>2. msg.sub_ip \notin resultPingSet
      BY <1>1, <3>1 DEF PingsOnce
    <3>3. Cardinality(resultPingSet \cup {msg.sub_ip}) = Cardinality(resultPingSet) + 1
      BY <2>1, <3>2, FS_AddElement
    <3> QED
      BY <1>t, <1>1, <2>2, <3>3, TurnPings DEF PingsOnce
  <2>3. CASE ~(msg.kind = "ping" /\ msg.sub_ip \in comeSubList)
    BY <1>t, <1>1, <2>3, TurnPings DEF PingsOnce
  <2> QED
    BY <2>2, <2>3
<1>4. ASSUME NEW m \in Maids, NEW i \in 1 .. Len(inbox'[Topic]),
             IsPing(inbox'[Topic][i], m)
      PROVE  /\ cmdq[m] = <<>>
             /\ m \notin resultPingSet'
             /\ \A j \in 1 .. Len(inbox'[Topic]) :
                  IsPing(inbox'[Topic][j], m) => i = j
  <2>1. Taken
    <3>1. inbox'[Topic] # <<>>
      BY <1>4
    <3> QED
      BY <1>t, <3>1 DEF Turn
  <2>2. \A j \in 1 .. Len(inbox'[Topic]) :
          /\ j + 1 \in 1 .. n
          /\ j + 1 # 1
          /\ inbox'[Topic][j] = inbox[Topic][j + 1]
    BY <1>1, <2>1 DEF Taken
  <2>3. IsPing(inbox[Topic][i + 1], m)
    BY <1>4, <2>2
  <2>4. cmdq[m] = <<>> /\ m \notin resultPingSet /\ ~IsPing(msg, m)
    BY <1>1, <2>2, <2>3 DEF PingsOnce
  <2>5. \A j \in 1 .. Len(inbox'[Topic]) :
          IsPing(inbox'[Topic][j], m) => i + 1 = j + 1
    BY <2>2, <2>3 DEF PingsOnce
  <2>6. \A j \in 1 .. Len(inbox'[Topic]) : i + 1 = j + 1 => i = j
    BY <1>1, <2>1 DEF Taken
  <2> QED
    BY <1>2, <2>4, <2>5, <2>6
<1>5. \A m \in Maids : cmdq[m] # <<>> => m \notin resultPingSet'
  BY <1>1, <1>2 DEF PingsOnce
<1> QED
  BY <1>1, <1>3, <1>4, <1>5 DEF PingsOnce, IsPing

\* When the client reads the end of a known maid, it has read its PING.
LEMMA TurnKeepsPingsFirst ==
    ASSUME IInv, PingsOnce, PingsFirst, Listen PROVE PingsFirst'
<1>t. TypeOK /\ Turn
  BY ListenIsTurn DEF IInv
<1> PICK n \in Nat : n = Len(inbox[Topic])
  BY <1>t, QueueLength DEF TypeOK
<1> DEFINE msg == inbox[Topic][1]
<1> SUFFICES ASSUME faults["redis"] = 0, NEW m \in comeSubList
             PROVE  /\ Topic \in subscribed' /\ tasks[m] # {} =>
                          Pinged(m, Len(inbox[Topic]))'
                    /\ \A i \in 1 .. Len(inbox'[Topic]) :
                          IsEnd(inbox'[Topic][i], m) => Pinged(m, i)'
                    /\ m \in resultExeSet' => m \in resultPingSet'
  BY <1>t, TurnPings DEF PingsFirst, IsEnd, Turn
<1>1. n > 0 /\ 1 \in 1 .. n /\ callResult = msg /\ m \in Maids
  BY <1>t, SyncAssumption DEF Turn, callResult, comeSubList
<1>2. /\ resultPingSet \subseteq resultPingSet'
      /\ IsPing(msg, m) => m \in resultPingSet'
  BY <1>t, <1>1, TurnPings DEF IsPing
<1>3. m \in resultExeSet' => m \in resultPingSet'
  <2>1. CASE m \in resultExeSet
    BY <1>2, <2>1 DEF PingsFirst
  <2>2. CASE IsEnd(msg, m)
    <3>1. Pinged(m, 1) /\ ~IsPing(msg, m)
      BY <1>1, <2>2 DEF PingsFirst, IsEnd, IsPing
    <3> QED
      BY <1>2, <3>1 DEF Pinged
  <2>3. m \in resultExeSet' => m \in resultExeSet \/ IsEnd(msg, m)
    BY <1>t DEF Turn, IsEnd
  <2> QED
    BY <2>1, <2>2, <2>3
<1>4. CASE inbox'[Topic] = <<>> /\ Topic \notin subscribed'
  BY <1>3, <1>4
<1>5. CASE Taken /\ UNCHANGED subscribed
  <2>1. /\ Len(inbox'[Topic]) = n - 1
        /\ \A j \in 1 .. n - 1 : inbox'[Topic][j] = inbox[Topic][j + 1]
    BY <1>5 DEF Taken
  <2>2. ASSUME NEW i \in 0 .. n - 1, Pinged(m, i + 1) PROVE Pinged(m, i)'
    <3>1. CASE m \in resultPingSet
      BY <1>2, <3>1 DEF Pinged
    <3>2. ASSUME NEW j \in 1 .. i + 1, IsPing(inbox[Topic][j], m)
          PROVE  Pinged(m, i)'
      <4>1. CASE j = 1
        BY <1>2, <3>2, <4>1 DEF Pinged
      <4>2. CASE j # 1
        <5>1. j - 1 \in 1 .. i /\ j - 1 \in 1 .. n - 1 /\ (j - 1) + 1 = j
          BY <1>1, <4>2
        <5>2. IsPing(inbox'[Topic][j - 1], m)
          BY <2>1, <3>2, <5>1
        <5> QED
          BY <5>1, <5>2 DEF Pinged, IsPing
      <4> QED
        BY <4>1, <4>2
    <3> QED
      BY <2>2, <3>1, <3>2 DEF Pinged
  <2>3. tasks[m] # {} /\ Topic \in subscribed' => Pinged(m, Len(inbox[Topic]))'
    <3> SUFFICES ASSUME tasks[m] # {}, Topic \in subscribed'
                 PROVE  Pinged(m, n - 1)'
      BY <2>1 DEF Pinged, IsPing
    <3>1. Pinged(m, n)
      BY <1>5 DEF PingsFirst
    <3>2. n - 1 \in 0 .. n - 1 /\ (n - 1) + 1 = n
      BY <1>1
    <3> QED
      BY <2>2, <3>1, <3>2
  <2>4. ASSUME NEW i \in 1 .. n - 1, IsEnd(inbox'[Topic][i], m)
        PROVE  Pinged(m, i)'
    <3>1. i + 1 \in 1 .. n /\ i \in 0 .. n - 1 /\ IsEnd(inbox[Topic][i + 1], m)
      BY <1>1, <2>1, <2>4
    <3>2. Pinged(m, i + 1)
      BY <3>1 DEF PingsFirst
    <3> QED
      BY <2>2, <3>1, <3>2
  <2> QED
    BY <1>3, <2>1, <2>3, <2>4
<1> QED
  BY <1>t, <1>4, <1>5 DEF Turn

\* T0 and T2 compare the counts: no fewer maids have ended than have answered,
\* and those that have ended are among them.
LEMMA TurnLeavesNone ==
    ASSUME IInv, IInv', PingsOnce', PingsFirst', Listen PROVE StopLeavesNone'
<1> SUFFICES ASSUME Maids \subseteq comeSubList, stop' \in {"T0", "T2"},
                    faults'["display"] = 0, faults'["redis"] = 0
             PROVE  resultPingSet' \subseteq resultExeSet'
  BY DEF StopLeavesNone, NoneLeftRunning
<1>t. Turn
  BY ListenIsTurn DEF IInv
<1>1. /\ resultExeSet' \subseteq resultPingSet'
      /\ resultPingSet' \subseteq Maids
  BY SyncAssumption DEF IInv, TypeOK, PingsFirst, comeSubList
<1>2. /\ IsFiniteSet(resultPingSet')
      /\ Cardinality(resultPingSet') \in Nat
      /\ Cardinality(resultExeSet') \in Nat
      /\ Cardinality(resultExeSet') <= Cardinality(resultPingSet')
      /\ Cardinality(resultExeSet') = Cardinality(resultPingSet') =>
            resultExeSet' = resultPingSet'
  BY <1>1, MaidAssumption, FS_Subset, FS_CardinalityType
<1>3. syndic_count \in Nat
  BY MaidAssumption, SyncAssumption, FS_Subset, FS_CardinalityType
  DEF syndic_count, comeSubList
<1>4. resultCount' >= pingCount'
  <2>1. StopTest(pingCount', resultCount', expired') \in {"T0", "T2"}
    BY <1>t DEF Turn
  <2>2. pingCount' \in Nat /\ resultCount' \in Nat
    BY DEF IInv, TypeOK
  <2> QED
    BY <1>3, <2>1, <2>2 DEF StopTest
<1>5. /\ pingCount' = Cardinality(resultPingSet')
      /\ resultCount' = Cardinality(resultExeSet')
  BY <1>2 DEF IInv, EndsOnce, PingsOnce
<1> QED
  BY <1>2, <1>4, <1>5

\* The invariant is inductive, given that of SaltxSync.
LEMMA CountStep == ASSUME IInv, CountInv, [Next]_vars PROVE CountInv'
<1>i. IInv'
  BY InductiveStep
<1>1. CASE SubscribeTopic \/ PublishCommand
  BY <1>1, StartKeepsCounts
<1>2. CASE Expire \/ UNCHANGED vars
  <2>1. UNCHANGED <<cmdq, tasks, inbox, subscribed, pc, resultExeSet,
                    resultPingSet, pingCount, faults, stop>>
    BY <1>2 DEF Expire, vars, maidVars, clientVars, countVars
  <2>2. PingsOnce' /\ StopLeavesNone'
    BY <2>1 DEF CountInv, PingsOnce, IsPing, StopLeavesNone, NoneLeftRunning
  <2>3. PingsFirst'
    BY <2>1 DEF CountInv, PingsFirst, Pinged, IsPing, IsEnd
  <2> QED
    BY <2>2, <2>3 DEF CountInv
<1>3. CASE Listen
  <2>1. PingsOnce' /\ PingsFirst'
    BY <1>3, TurnKeepsPingsOnce, TurnKeepsPingsFirst DEF CountInv
  <2>2. StopLeavesNone'
    BY <1>i, <1>3, <2>1, TurnLeavesNone
  <2> QED
    BY <2>1, <2>2 DEF CountInv
<1>4. CASE LoseConnection
  BY <1>4, LossKeepsCounts
<1>5. CASE MaidNext /\ UNCHANGED clientVars
  BY <1>5, MaidsKeepCounts
<1> QED
  BY <1>1, <1>2, <1>3, <1>4, <1>5 DEF Next, Client, Terminated

\* At the beginning nothing is counted and no PING is on its way.
LEMMA CountInit == Init => CountInv
<1> SUFFICES ASSUME Init PROVE CountInv
  OBVIOUS
<1>1. /\ stop = "none" /\ resultExeSet = {} /\ resultPingSet = {} /\ pingCount = 0
      /\ inbox[Topic] = <<>>
      /\ \A x \in Maids : tasks[x] = {}
      /\ comeSubList \subseteq Maids
  BY SyncAssumption DEF Init, MaidInit, comeSubList
<1>2. Cardinality({}) = 0
  BY FS_EmptySet
<1> QED
  BY <1>1, <1>2
  DEF CountInv, PingsOnce, PingsFirst, StopLeavesNone, NoneLeftRunning

\* The invariant of the counters holds in every state, with that of SaltxSync.
LEMMA CountsInductive == Spec => [](IInv /\ CountInv)
<1>1. Init => IInv /\ CountInv
  BY InductiveInit, CountInit
<1>2. (IInv /\ CountInv) /\ [Next]_vars => (IInv /\ CountInv)'
  BY InductiveStep, CountStep
<1> QED
  BY <1>1, <1>2, PTL DEF Spec

\* The counters that decide when the loop stops count every maid's PING and
\* every maid's WORK once, whatever crashes, restarts or gets lost: they are
\* the sizes of the sets beside them, up to the messages that could not be
\* displayed (executeCallback).
THEOREM CountersAreExact == Spec => []CountsAreExact
<1>1. IInv /\ CountInv => CountsAreExact
  BY DEF IInv, EndsOnce, CountInv, PingsOnce, CountsAreExact
<1> QED
  BY <1>1, CountsInductive, PTL

\* When the loop stops by T0 or T2 every maid that has answered PING has ended,
\* if the maids are the nodes that the super master knows (executeCallback).
THEOREM StopLeavesNobody ==
    ASSUME Maids \subseteq comeSubList
    PROVE  Spec => []NoneLeftRunning
<1>1. CountInv => NoneLeftRunning
  BY DEF CountInv, StopLeavesNone
<1> QED
  BY <1>1, CountsInductive, PTL

-----------------------------------------------------------------------------
(* A command is sent to a minion at most once through each of its maids.   *)

\* maid m has the command and has not handed it to LocalClient yet
Unserved(m) == cmdq[m] # <<>> \/ \E tk \in tasks[m] : tk.phase = "spawned"

\* the maids through which minion k may have got the command
Passed(k) == {m \in Maids : k \in Accepted[m] /\ ~Unserved(m)}

SentInv ==
    /\ pc \in {"start", "subscribed"} => \A k \in Minions : sent[k] = 0
    /\ \A k \in Minions : sent[k] <= Cardinality(Passed(k))

\* The maids through which a minion may have got the command are finitely many.
LEMMA PassedFinite ==
    ASSUME NEW k
    PROVE  IsFiniteSet(Passed(k)) /\ Cardinality(Passed(k)) \in Nat
<1>1. Passed(k) \in SUBSET Maids
  BY DEF Passed
<1> QED
  BY <1>1, FS_Subset, FS_CardinalityType, MaidAssumption

\* A maid that starts the command stops holding it; no other step of a maid
\* sends it to anyone or lets a maid hold it that did not.
LEMMA MaidsSend ==
    ASSUME TypeOK, OneCommandEach, MaidNext
    PROVE  \/ /\ UNCHANGED sent
              /\ \A x \in Maids : Unserved(x)' => Unserved(x)
           \/ \E m \in Maids :
                /\ Unserved(m) /\ ~Unserved(m)'
                /\ \A x \in Maids : x # m => (Unserved(x)' <=> Unserved(x))
                /\ \A k \in Minions : \/ sent'[k] = sent[k]
                                      \/ k \in Accepted[m] /\ sent'[k] = sent[k] + 1
<1>t. MaidTypeOK
  BY DEF TypeOK
<1>1. PICK m \in Maids : MaidWork(m) \/ MaidFault(m)
  BY DEF MaidNext
<1>2. \A tk \in tasks[m] : /\ cmdq[m] = <<>>
                           /\ tk.cmd = wrapMesage
                           /\ tk.phase # "waiting"
                           /\ tasks[m] = {tk}
                           /\ tk \in Task
  BY <1>t DEF OneCommandEach, MaidTypeOK
<1>3. CASE MaidReceive(m) \/ MaidCrash(m) \/ MaidRestart(m)
  BY <1>3, <1>t DEF MaidReceive, MaidCrash, MaidRestart, Unserved, MaidTypeOK
<1>4. ASSUME NEW tk \in tasks[m],
             TaskRefuse(m, tk) \/ TaskFinish(m, tk) \/ TaskAbort(m, tk)
      PROVE  UNCHANGED sent /\ \A x \in Maids : Unserved(x)' => Unserved(x)
  BY <1>4, <1>t DEF TaskRefuse, TaskFinish, TaskAbort, Unserved, MaidTypeOK
<1>5. ASSUME NEW tk \in tasks[m], TaskEmit(m, tk) \/ TaskDrop(m, tk)
      PROVE  UNCHANGED sent /\ \A x \in Maids : Unserved(x)' => Unserved(x)
  <2>e. PICK S \in tk.todo : \E R \in {{}, S} :
          tasks' = [tasks EXCEPT ![m] = (@ \ {tk}) \cup {Reported(tk, S, R)}]
    BY <1>5, StepReports
  <2>1. PICK R : tasks' = [tasks EXCEPT ![m] =
                             (@ \ {tk}) \cup {Reported(tk, S, R)}]
    BY <2>e
  <2>2. tk.phase = "running" /\ UNCHANGED <<cmdq, sent>>
    BY <1>5 DEF TaskEmit, TaskDrop
  <2>3. Reported(tk, S, R).phase = "running"
    BY <1>2, <2>2 DEF Task, Reported
  <2>4. \A new \in tasks'[m] : new \in tasks[m] \/ new.phase = "running"
    BY <1>t, <2>1, <2>3 DEF MaidTypeOK
  <2>5. \A x \in Maids : x # m => tasks'[x] = tasks[x]
    BY <1>t, <2>1 DEF MaidTypeOK
  <2> QED
    BY <2>2, <2>4, <2>5 DEF Unserved
<1>6. ASSUME NEW tk \in tasks[m], TaskStart(m, tk)
      PROVE  /\ Unserved(m) /\ ~Unserved(m)'
             /\ \A x \in Maids : x # m => (Unserved(x)' <=> Unserved(x))
             /\ \A k \in Minions : \/ sent'[k] = sent[k]
                                   \/ k \in Accepted[m] /\ sent'[k] = sent[k] + 1
  <2> DEFINE new == [tk EXCEPT !.phase = "running", !.todo = Results(m, tk.cmd)]
  <2>1. new.phase = "running"
    BY <1>2 DEF Task
  <2>2. tasks'[m] = {new} /\ cmdq'[m] = <<>>
    BY <1>2, <1>6, <1>t DEF TaskStart, MaidTypeOK
  <2> HIDE DEF new
  <2>3. Unserved(m) /\ ~Unserved(m)'
    BY <1>6, <2>1, <2>2 DEF TaskStart, Unserved
  <2>4. \A x \in Maids : x # m => tasks'[x] = tasks[x] /\ cmdq'[x] = cmdq[x]
    BY <1>6, <1>t DEF TaskStart, MaidTypeOK
  <2>5. Matched(m, tk.cmd.tgt) \subseteq Accepted[m]
    BY DEF Matched
  <2>6. \A k \in Minions : \/ sent'[k] = sent[k]
                           \/ k \in Accepted[m] /\ sent'[k] = sent[k] + 1
    BY <1>6, <1>t, <2>5 DEF TaskStart, MaidTypeOK
  <2> QED
    BY <2>3, <2>4, <2>6 DEF Unserved
<1>7. ASSUME NEW tk \in tasks[m], MaidSpawn(m, tk) PROVE FALSE
  BY <1>2, <1>7 DEF MaidSpawn
<1>8. ASSUME NEW tk \in tasks[m], TaskRepeat(m, tk)
      PROVE  UNCHANGED sent /\ \A x \in Maids : Unserved(x)' => Unserved(x)
  BY <1>8 DEF TaskRepeat, Unserved
<1> QED
  BY <1>1, <1>3, <1>4, <1>5, <1>6, <1>7, <1>8
  DEF MaidWork, MaidFault, MaidReceive, MaidCrash, MaidRestart

\* Every step keeps the bound of what a minion has been sent by the number of
\* its maids that do not hold the command any more.
LEMMA SentStep == ASSUME IInv, SentInv, [Next]_vars PROVE SentInv'
<1>t. TypeOK /\ TypeOK' /\ OneCommandEach
  BY InductiveStep DEF IInv
<1>n. \A k \in Minions : sent[k] \in Nat
  BY <1>t DEF TypeOK, MaidTypeOK
<1>1. CASE MaidNext /\ UNCHANGED clientVars
  <2>p. UNCHANGED pc
    BY <1>1 DEF clientVars
  <2>1. CASE UNCHANGED sent /\ \A x \in Maids : Unserved(x)' => Unserved(x)
    <3>1. ASSUME NEW k \in Minions PROVE sent[k] <= Cardinality(Passed(k)')
      <4>1. Passed(k) \subseteq Passed(k)' /\ Passed(k)' \subseteq Maids
        BY <2>1 DEF Passed
      <4>2. IsFiniteSet(Passed(k)') /\ Cardinality(Passed(k)') \in Nat
        BY <4>1, FS_Subset, FS_CardinalityType, MaidAssumption
      <4>3. Cardinality(Passed(k)) <= Cardinality(Passed(k)')
        BY <4>1, <4>2, FS_Subset
      <4> QED
        BY <1>n, <4>2, <4>3, PassedFinite DEF SentInv
    <3> QED
      BY <2>1, <2>p, <3>1 DEF SentInv
  <2>2. ASSUME NEW m \in Maids,
               Unserved(m) /\ ~Unserved(m)',
               \A x \in Maids : x # m => (Unserved(x)' <=> Unserved(x)),
               \A k \in Minions : \/ sent'[k] = sent[k]
                                  \/ k \in Accepted[m] /\ sent'[k] = sent[k] + 1
        PROVE  SentInv'
    <3>1. pc \notin {"start", "subscribed"}
      <4>1. Busy(m)
        BY <2>2 DEF Unserved, Busy
      <4> QED
        BY <4>1, <1>t DEF OneCommandEach
    <3>2. ASSUME NEW k \in Minions PROVE sent'[k] <= Cardinality(Passed(k)')
      <4>1. CASE k \in Accepted[m]
        <5>1. Passed(k)' = Passed(k) \cup {m} /\ m \notin Passed(k)
          BY <2>2, <4>1 DEF Passed
        <5>2. Cardinality(Passed(k)') = Cardinality(Passed(k)) + 1
          BY <5>1, PassedFinite, FS_AddElement
        <5> QED
          BY <1>n, <2>2, <5>2, PassedFinite DEF SentInv
      <4>2. CASE k \notin Accepted[m]
        <5>1. Passed(k)' = Passed(k) /\ sent'[k] = sent[k]
          BY <2>2, <4>2 DEF Passed
        <5> QED
          BY <5>1 DEF SentInv
      <4> QED
        BY <4>1, <4>2
    <3> QED
      BY <2>p, <3>1, <3>2 DEF SentInv
  <2> QED
    BY <1>1, <1>t, <2>1, <2>2, MaidsSend
<1>2. CASE PublishCommand
  <2>1. UNCHANGED sent /\ pc = "subscribed" /\ pc' = "listening"
    BY <1>2 DEF PublishCommand
  <2>2. ASSUME NEW k \in Minions PROVE sent[k] <= Cardinality(Passed(k)')
    <3>1. Passed(k)' \subseteq Maids
      BY DEF Passed
    <3>2. Cardinality(Passed(k)') \in Nat
      BY <3>1, FS_Subset, FS_CardinalityType, MaidAssumption
    <3> QED
      BY <2>1, <3>2 DEF SentInv
  <2> QED
    BY <2>1, <2>2 DEF SentInv
<1>3. CASE SubscribeTopic \/ Expire \/ Listen \/ LoseConnection \/ UNCHANGED vars
  <2>1. UNCHANGED <<sent, cmdq, tasks>>
    BY <1>3 DEF SubscribeTopic, Expire, Listen, OnConfirmation, OnPing, OnResult,
                OnEmptyReturn, OnMissed, OnReturn, EndOfBody, LoseConnection,
                maidVars, vars
  <2>2. pc' \in {"start", "subscribed"} => pc \in {"start", "subscribed"}
    BY <1>3 DEF SubscribeTopic, Expire, Listen, OnConfirmation, OnPing, OnResult,
                OnEmptyReturn, OnMissed, OnReturn, EndOfBody, Reads,
                LoseConnection, clientVars, vars
  <2>3. \A k : Passed(k)' = Passed(k)
    BY <2>1 DEF Passed, Unserved
  <2> QED
    BY <2>1, <2>2, <2>3 DEF SentInv
<1> QED
  BY <1>1, <1>2, <1>3 DEF Next, Client, Terminated

\* Whatever crashes and restarts, and however often, a command reaches a minion
\* at most once through each maid that has accepted its key (startListen, run).
THEOREM CommandedOnce == Spec => []SentAtMostOnce
<1>1. Init => IInv /\ SentInv
  <2>1. ASSUME Init PROVE SentInv
    <3>1. \A k \in Minions : sent[k] = 0
      BY <2>1 DEF Init, MaidInit
    <3> QED
      BY <3>1, PassedFinite DEF SentInv
  <2> QED
    BY <2>1, InductiveInit
<1>2. (IInv /\ SentInv) /\ [Next]_vars => (IInv /\ SentInv)'
  BY InductiveStep, SentStep
<1>3. IInv /\ SentInv => SentAtMostOnce
  <2> SUFFICES ASSUME IInv, SentInv, NEW k \in Minions
               PROVE  sent[k] <= Cardinality({m \in Maids : k \in Accepted[m]})
    BY DEF SentAtMostOnce
  <2> DEFINE All == {m \in Maids : k \in Accepted[m]}
  <2>1. IsFiniteSet(All) /\ Cardinality(All) \in Nat
    BY FS_Subset, FS_CardinalityType, MaidAssumption
  <2>2. Passed(k) \subseteq All
    BY DEF Passed
  <2>3. Cardinality(Passed(k)) <= Cardinality(All)
    BY <2>1, <2>2, FS_Subset
  <2>4. sent[k] \in Nat /\ sent[k] <= Cardinality(Passed(k))
    BY DEF SentInv, IInv, TypeOK, MaidTypeOK
  <2> HIDE DEF All
  <2>5. sent[k] <= Cardinality(All)
    BY <2>1, <2>3, <2>4, PassedFinite
  <2> QED
    BY <2>5 DEF All
<1> QED
  BY <1>1, <1>2, <1>3, PTL DEF Spec

-----------------------------------------------------------------------------
(* The sizes in the report.  A minion with one maid is in one place only   *)
(* as long as it has not returned: its maid has still to report it, or one *)
(* message says that it did not answer, or missedList has it.  A minion    *)
(* that has returned may do so again, but is never reported as missed.     *)

\* each minion has accepted one maid as its master
OneMaidEach ==
    \A m, n \in Maids : Accepted[m] \cap Accepted[n] # {} => m = n

\* maid m has still to report minion k
Pending(m, k) ==
    /\ k \in Matched(m, Tgt)
    /\ \/ cmdq[m] # <<>>
       \/ \E tk \in tasks[m] : tk.phase = "spawned" \/ {k} \in tk.todo

\* message i of the queue names minion k
Names(i, k) == inbox[Topic][i].kind = "data" /\ k \in inbox[Topic][i].items

\* message i says that minion k did not answer
Misses(i, k) == Names(i, k) /\ inbox[Topic][i].out = "no_return"

\* minion k has returned to a greenlet of maid m
Returned(m, k) == \E tk \in tasks[m] : k \in tk.returned

\* a greenlet that runs has one result for each minion that has not returned
TodoSingle ==
    \A m \in Maids : \A tk \in tasks[m] :
        /\ tk.phase = "spawned" => tk.todo = {} /\ tk.returned = {}
        /\ \A S \in tk.todo : \A k \in S : S = {k} /\ k \in Matched(m, Tgt)
        /\ \A k \in tk.returned : k \in Matched(m, Tgt) /\ {k} \notin tk.todo

\* a minion that is still to be reported is not in the queue, nor in the report
PendingUnseen ==
    \A m \in Maids, k \in Minions : Pending(m, k) =>
        /\ k \notin accounted
        /\ \A i \in 1 .. Len(inbox[Topic]) : ~Names(i, k)

\* a minion that did not answer is in one message of the queue, and not in
\* the report
MissedOnce ==
    \A i \in 1 .. Len(inbox[Topic]), k \in Minions : Misses(i, k) =>
        /\ k \notin accounted
        /\ \A j \in 1 .. Len(inbox[Topic]) : Names(j, k) => i = j

\* a message names one minion, and one that is not missed unless it says so
NamedOne ==
    \A i \in 1 .. Len(inbox[Topic]), k \in Minions : Names(i, k) =>
        inbox[Topic][i].items = {k} /\ k \notin missedList

\* a minion that has returned is not reported as missed
ReturnedKnown ==
    \A m \in Maids, k \in Minions : Returned(m, k) =>
        /\ k \notin missedList
        /\ \A i \in 1 .. Len(inbox[Topic]) : ~Misses(i, k)

\* the sizes are those of the sets, and what has been returned again
SizesExact ==
    /\ sucset \cap missedList = {}
    /\ normalsize + emptyRet >= Cardinality(sucset)
    /\ normalsize + emptyRet = Cardinality(sucset) <=> repeatet = {}

SizeInv ==
    /\ TodoSingle /\ PendingUnseen /\ MissedOnce /\ NamedOne /\ ReturnedKnown
    /\ SizesExact
    /\ pc \in {"start", "subscribed"} => accounted = {}

\* A minion that has returned is not to be reported any more.
LEMMA ReturnedNotPending ==
    ASSUME OneCommandEach, TodoSingle, NEW m \in Maids, NEW k \in Minions,
           Returned(m, k)
    PROVE  k \in Matched(m, Tgt) /\ ~Pending(m, k)
<1>1. PICK tk \in tasks[m] : k \in tk.returned
  BY DEF Returned
<1>2. cmdq[m] = <<>> /\ tasks[m] = {tk}
  BY DEF OneCommandEach
<1> QED
  BY <1>1, <1>2 DEF TodoSingle, Pending

\* A minion is reported by one maid.
LEMMA PendingOnce ==
    ASSUME OneMaidEach, NEW m \in Maids, NEW n \in Maids, NEW k \in Minions,
           k \in Matched(m, Tgt), k \in Matched(n, Tgt)
    PROVE  m = n
BY DEF OneMaidEach, Matched

\* The result of a greenlet's start are sets of one minion.
LEMMA ResultsSingle ==
    ASSUME NEW m \in Maids
    PROVE  \A S \in Results(m, wrapMesage) : \A k \in S :
              S = {k} /\ k \in Matched(m, Tgt)
<1>1. PICK c : c = wrapMesage
  OBVIOUS
<1>2. c.type = SYNC_RUN /\ c.tgt = Tgt
  BY <1>1, WrapMesageFields
<1> QED
  BY <1>1, <1>2, SyncResults

\* A greenlet that replaces the only one of maid m, and what it means for what
\* is still to be reported.
LEMMA Replaced ==
    ASSUME TypeOK, TodoSingle, NEW m \in Maids, NEW new,
           tasks' = [tasks EXCEPT ![m] = {new}],
           \A x \in Maids : cmdq'[x] \in {<<>>, cmdq[x]},
           new.phase = "spawned" =>
                new.todo = {} /\ new.returned = {} /\ cmdq[m] # <<>>,
           \A S \in new.todo : \A k \in S : S = {k} /\ k \in Matched(m, Tgt),
           \A S \in new.todo : \A k \in S : Pending(m, k),
           \A k \in new.returned : k \in Matched(m, Tgt) /\ {k} \notin new.todo
    PROVE  /\ TodoSingle'
           /\ \A x \in Maids, k \in Minions : Pending(x, k)' => Pending(x, k)
           /\ \A x \in Maids, k \in Minions : Returned(x, k)' =>
                Returned(x, k) \/ k \in new.returned
<1>t. tasks \in [Maids -> SUBSET Task]
  BY DEF TypeOK, MaidTypeOK
<1>1. tasks'[m] = {new} /\ \A x \in Maids \ {m} : tasks'[x] = tasks[x]
  BY <1>t
<1>2. \A x \in Maids, k \in Minions : k \in Matched(x, Tgt)' <=> k \in Matched(x, Tgt)
  BY DEF Matched
<1>3. TodoSingle'
  BY <1>1, <1>2 DEF TodoSingle
<1>4. ASSUME NEW k \in Minions, Pending(m, k)' PROVE Pending(m, k)
  <2>1. k \in Matched(m, Tgt)
    BY <1>2, <1>4 DEF Pending
  <2>2. CASE cmdq[m] # <<>>
    BY <2>1, <2>2 DEF Pending
  <2>3. CASE cmdq[m] = <<>>
    <3>1. {k} \in new.todo
      BY <1>1, <1>4, <2>3 DEF Pending
    <3> QED
      BY <3>1
  <2> QED
    BY <2>2, <2>3
<1>5. ASSUME NEW x \in Maids \ {m}, NEW k \in Minions, Pending(x, k)'
      PROVE  Pending(x, k)
  BY <1>1, <1>2, <1>5 DEF Pending
<1>6. \A x \in Maids, k \in Minions : Returned(x, k)' =>
        Returned(x, k) \/ k \in new.returned
  BY <1>1 DEF Returned
<1> QED
  BY <1>3, <1>4, <1>5, <1>6

\* What a step of the maids does to the queue: nothing, or a message that
\* names nobody; a minion's first return, or the word that it did not answer;
\* or a return that comes again.
QuietStep ==
    /\ Untouched \/ \E msg \in Message : Appended(msg) /\ msg.kind # "data"
    /\ \A x \in Maids, k \in Minions : Returned(x, k)' =>
         Returned(x, k) \/ \E y \in Maids : Pending(y, k) /\ ~Pending(y, k)'

ReturnStep ==
    \E m \in Maids, S \in SUBSET Minions, o \in Outcome :
       /\ Appended(Ret(S, o))
       /\ \A k \in S : S = {k} /\ Pending(m, k) /\ ~Pending(m, k)'
       /\ \A x \in Maids, k \in Minions : Returned(x, k)' =>
            Returned(x, k) \/ (k \in S /\ o # "no_return")

AgainStep ==
    /\ \E m \in Maids, k \in Minions, o \in Outcome \ {"no_return"} :
         Appended(Ret({k}, o)) /\ Returned(m, k)
    /\ \A x \in Maids, k \in Minions : Returned(x, k)' => Returned(x, k)

\* The maids have less and less to report, one minion at a time.
LEMMA MaidsReport ==
    ASSUME TypeOK, OneCommandEach, TodoSingle, MaidNext
    PROVE  /\ TodoSingle'
           /\ \A x \in Maids, k \in Minions : Pending(x, k)' => Pending(x, k)
           /\ \/ QuietStep \/ ReturnStep \/ AgainStep
<1>t. MaidTypeOK
  BY DEF TypeOK
<1>c. \A x \in Maids : \A tk \in tasks[x] :
        /\ cmdq[x] = <<>> /\ tk.cmd = wrapMesage /\ tasks[x] = {tk}
        /\ tk \in Task
        /\ tk.phase = "spawned" => tk.todo = {} /\ tk.returned = {}
        /\ \A S \in tk.todo : \A k \in S : S = {k} /\ k \in Matched(x, Tgt)
        /\ \A k \in tk.returned : k \in Matched(x, Tgt) /\ {k} \notin tk.todo
  BY <1>t DEF OneCommandEach, MaidTypeOK, TodoSingle
<1>1. CASE UNCHANGED <<cmdq, tasks, inbox>>
  BY <1>1
  DEF TodoSingle, Pending, Matched, Untouched, QuietStep, Returned
<1>2. ASSUME NEW m \in Maids, Receives(m)
      PROVE  /\ TodoSingle'
             /\ \A x \in Maids, k \in Minions : Pending(x, k)' => Pending(x, k)
             /\ QuietStep
  <2> DEFINE new == Greenlet(wrapMesage, "spawned")
  <2>1. new.todo = {} /\ new.returned = {} /\ cmdq[m] # <<>>
    BY <1>2 DEF Receives, Greenlet
  <2>2. /\ tasks' = [tasks EXCEPT ![m] = {new}]
        /\ \A x \in Maids : cmdq'[x] \in {<<>>, cmdq[x]}
    BY <1>2, <1>t DEF Receives, MaidTypeOK
  <2> HIDE DEF new
  <2>3. PING(m) \in Message /\ PING(m).kind # "data"
    BY DEF PING, Message, Signal
  <2>4. Untouched \/ Appended(PING(m))
    BY <1>2, <1>t, <2>3, PublishEffect DEF Receives
  <2>5. /\ TodoSingle'
        /\ \A x \in Maids, k \in Minions : Pending(x, k)' => Pending(x, k)
        /\ \A x \in Maids, k \in Minions : Returned(x, k)' => Returned(x, k)
    BY <2>1, <2>2, Replaced
  <2> QED
    BY <2>3, <2>4, <2>5 DEF QuietStep
<1>3. ASSUME NEW m \in Maids, Starts(m)
      PROVE  /\ TodoSingle'
             /\ \A x \in Maids, k \in Minions : Pending(x, k)' => Pending(x, k)
             /\ QuietStep
  <2>1. PICK tk \in tasks[m] :
          /\ tk.phase = "spawned"
          /\ tasks' = [tasks EXCEPT ![m] =
                {[tk EXCEPT !.phase = "running", !.todo = Results(m, wrapMesage)]}]
    BY <1>3 DEF Starts
  <2> DEFINE new == [tk EXCEPT !.phase = "running", !.todo = Results(m, wrapMesage)]
  <2>2. /\ new.phase = "running" /\ new.todo = Results(m, wrapMesage)
        /\ new.returned = {}
    BY <1>c, <2>1 DEF Task
  <2>3. tasks' = [tasks EXCEPT ![m] = {new}]
    BY <2>1
  <2> HIDE DEF new
  <2>4. \A S \in new.todo : \A k \in S : S = {k} /\ k \in Matched(m, Tgt)
    BY <2>2, ResultsSingle
  <2>5. \A S \in new.todo : \A k \in S : Pending(m, k)
    BY <2>1, <2>4 DEF Pending
  <2>6. (\A x \in Maids : cmdq'[x] \in {<<>>, cmdq[x]}) /\ Untouched
    BY <1>3 DEF Starts, Untouched
  <2>7. /\ TodoSingle'
        /\ \A x \in Maids, k \in Minions : Pending(x, k)' => Pending(x, k)
        /\ \A x \in Maids, k \in Minions : Returned(x, k)' => Returned(x, k)
    BY <2>2, <2>3, <2>4, <2>5, <2>6, Replaced
  <2> QED
    BY <2>6, <2>7 DEF QuietStep
<1>4. ASSUME NEW m \in Maids, NEW tk \in tasks[m], NEW S \in tk.todo,
             NEW R \in {{}, S},
             tasks' = [tasks EXCEPT ![m] = {Reported(tk, S, R)}],
             UNCHANGED cmdq
      PROVE  /\ TodoSingle'
             /\ \A x \in Maids, k \in Minions : Pending(x, k)' => Pending(x, k)
             /\ S \in SUBSET Minions
             /\ \A k \in S : S = {k} /\ Pending(m, k) /\ ~Pending(m, k)'
             /\ \A x \in Maids, k \in Minions : Returned(x, k)' =>
                  Returned(x, k) \/ k \in R
  <2> DEFINE new == Reported(tk, S, R)
  <2>1. /\ tk.phase # "spawned" /\ cmdq[m] = <<>>
        /\ new.phase = tk.phase /\ new.todo = tk.todo \ {S}
        /\ new.returned = tk.returned \cup R
    BY <1>4, <1>c DEF Task, Reported
  <2>2. tasks' = [tasks EXCEPT ![m] = {new}]
    BY <1>4
  <2> HIDE DEF new
  <2>3. tasks'[m] = {new}
    BY <1>t, <2>2 DEF MaidTypeOK
  <2>4. ASSUME NEW Q \in tk.todo, NEW k \in Q
        PROVE  Q = {k} /\ k \in Matched(m, Tgt) /\ Pending(m, k)
    <3>1. Q = {k} /\ k \in Matched(m, Tgt)
      BY <1>c
    <3>2. {k} \in tk.todo
      BY <3>1
    <3> QED
      BY <3>1, <3>2 DEF Pending
  <2>5. ASSUME NEW k \in S PROVE S = {k} /\ Pending(m, k) /\ ~Pending(m, k)'
    <3>1. S = {k} /\ Pending(m, k)
      BY <2>4
    <3>2. {k} \notin new.todo
      BY <2>1, <3>1
    <3>3. cmdq'[m] = <<>>
      BY <1>4, <2>1
    <3> QED
      BY <2>1, <2>3, <3>1, <3>2, <3>3 DEF Pending
  <2>6. /\ TodoSingle'
        /\ \A x \in Maids, k \in Minions : Pending(x, k)' => Pending(x, k)
        /\ \A x \in Maids, k \in Minions : Returned(x, k)' =>
             Returned(x, k) \/ k \in R
    <3>1. \A x \in Maids : cmdq'[x] \in {<<>>, cmdq[x]}
      BY <1>4
    <3>2. \A Q \in new.todo : \A k \in Q :
            Q = {k} /\ k \in Matched(m, Tgt) /\ Pending(m, k)
      BY <2>1, <2>4
    <3>3. \A k \in new.returned : k \in Matched(m, Tgt) /\ {k} \notin new.todo
      BY <1>c, <2>1, <2>4
    <3>4. \A x \in Maids, k \in Minions : Returned(x, k)' =>
            Returned(x, k) \/ k \in new.returned
      BY <2>1, <2>2, <3>1, <3>2, <3>3, Replaced
    <3>5. \A x \in Maids, k \in Minions : Returned(x, k)' =>
            Returned(x, k) \/ k \in R
      <4>1. \A x \in Maids \ {m} : tasks'[x] = tasks[x]
        BY <1>t, <2>2 DEF MaidTypeOK
      <4> QED
        BY <2>1, <2>3, <3>4, <4>1 DEF Returned
    <3> QED
      BY <2>1, <2>2, <3>1, <3>2, <3>3, <3>5, Replaced
  <2>7. S \in SUBSET Minions
    BY <1>c DEF Task
  <2> QED
    BY <2>5, <2>6, <2>7
<1>5. ASSUME NEW m \in Maids, Emits(m)
      PROVE  /\ TodoSingle'
             /\ \A x \in Maids, k \in Minions : Pending(x, k)' => Pending(x, k)
             /\ QuietStep \/ ReturnStep
  <2>1. PICK tk \in tasks[m] : \E S \in tk.todo, o \in Outcome :
          /\ tasks' = [tasks EXCEPT ![m] =
                {Reported(tk, S, IF o = "no_return" THEN {} ELSE S)}]
          /\ Publish(Topic, Ret(S, o))
    BY <1>5 DEF Emits
  <2>2. PICK S \in tk.todo, o \in Outcome :
          /\ tasks' = [tasks EXCEPT ![m] =
                {Reported(tk, S, IF o = "no_return" THEN {} ELSE S)}]
          /\ Publish(Topic, Ret(S, o))
    BY <2>1
  <2> DEFINE R == IF o = "no_return" THEN {} ELSE S
  <2>3. UNCHANGED cmdq /\ R \in {{}, S}
    BY <1>5 DEF Emits
  <2>r. tasks' = [tasks EXCEPT ![m] = {Reported(tk, S, R)}]
    BY <2>2
  <2>e. \A k : k \in R => k \in S /\ o # "no_return"
    OBVIOUS
  <2> HIDE DEF R
  <2>4. /\ TodoSingle'
        /\ \A x \in Maids, k \in Minions : Pending(x, k)' => Pending(x, k)
        /\ S \in SUBSET Minions
        /\ \A k \in S : S = {k} /\ Pending(m, k) /\ ~Pending(m, k)'
        /\ \A x \in Maids, k \in Minions : Returned(x, k)' =>
             Returned(x, k) \/ k \in R
    BY <1>4, <2>r, <2>3
  <2>5. Ret(S, o) \in Message
    BY <2>4, MaidMessages
  <2>6. CASE Appended(Ret(S, o))
    <3>1. \A x \in Maids, k \in Minions : Returned(x, k)' =>
            Returned(x, k) \/ (k \in S /\ o # "no_return")
      BY <2>4, <2>e
    <3>2. ReturnStep
      BY <2>4, <2>6, <3>1 DEF ReturnStep
    <3> QED
      BY <2>4, <3>2
  <2>7. CASE Untouched
    <3>1. \A x \in Maids, k \in Minions : Returned(x, k)' =>
            Returned(x, k) \/ (\E y \in Maids : Pending(y, k) /\ ~Pending(y, k)')
      BY <2>4, <2>e
    <3> QED
      BY <2>4, <2>7, <3>1 DEF QuietStep
  <2> QED
    BY <1>t, <2>2, <2>5, <2>6, <2>7, PublishEffect
<1>6. ASSUME NEW m \in Maids, Drops(m)
      PROVE  /\ TodoSingle'
             /\ \A x \in Maids, k \in Minions : Pending(x, k)' => Pending(x, k)
             /\ QuietStep
  <2>1. PICK tk \in tasks[m] : \E S \in tk.todo :
          tasks' = [tasks EXCEPT ![m] = {Reported(tk, S, {})}]
    BY <1>6 DEF Drops
  <2>2. PICK S \in tk.todo : tasks' = [tasks EXCEPT ![m] = {Reported(tk, S, {})}]
    BY <2>1
  <2>3. UNCHANGED cmdq /\ Untouched /\ {} \in {{}, S}
    BY <1>6 DEF Drops, Untouched
  <2>4. /\ TodoSingle'
        /\ \A x \in Maids, k \in Minions : Pending(x, k)' => Pending(x, k)
        /\ \A x \in Maids, k \in Minions : Returned(x, k)' =>
             Returned(x, k) \/ k \in {}
    BY <1>4, <2>2, <2>3
  <2> QED
    BY <2>3, <2>4 DEF QuietStep
<1>8. ASSUME NEW m \in Maids, EmitsAgain(m)
      PROVE  /\ TodoSingle'
             /\ \A x \in Maids, k \in Minions : Pending(x, k)' => Pending(x, k)
             /\ QuietStep \/ AgainStep
  <2>1. PICK tk \in tasks[m] : \E k \in tk.returned, o \in Outcome \ {"no_return"} :
          Publish(Topic, Ret({k}, o))
    BY <1>8 DEF EmitsAgain
  <2>2. PICK k \in tk.returned, o \in Outcome \ {"no_return"} :
          Publish(Topic, Ret({k}, o))
    BY <2>1
  <2>3. k \in Minions /\ Returned(m, k)
    BY <1>c DEF Task, Returned
  <2>4. Untouched \/ Appended(Ret({k}, o))
    BY <1>t, <2>2, <2>3, MaidSignals, PublishEffect
  <2>5. UNCHANGED <<cmdq, tasks>>
    BY <1>8 DEF EmitsAgain
  <2>6. /\ TodoSingle'
        /\ \A x \in Maids, z \in Minions : Pending(x, z)' <=> Pending(x, z)
        /\ \A x \in Maids, z \in Minions : Returned(x, z)' <=> Returned(x, z)
    BY <2>5 DEF TodoSingle, Pending, Matched, Returned
  <2> QED
    BY <2>2, <2>3, <2>4, <2>6 DEF QuietStep, AgainStep
<1>7. ASSUME NEW m \in Maids, Ends(m) \/ Dies(m)
      PROVE  /\ TodoSingle'
             /\ \A x \in Maids, k \in Minions : Pending(x, k)' => Pending(x, k)
             /\ QuietStep
  <2>1. /\ tasks' = [tasks EXCEPT ![m] = {}]
        /\ \A x \in Maids : cmdq'[x] \in {<<>>, cmdq[x]}
    BY <1>7, <1>t DEF Ends, Dies, MaidTypeOK
  <2>2. \A x \in Maids : tasks'[x] \in {{}, tasks[x]}
    BY <1>t, <2>1 DEF MaidTypeOK
  <2>3. /\ TodoSingle'
        /\ \A x \in Maids, k \in Minions : Pending(x, k)' => Pending(x, k)
        /\ \A x \in Maids, k \in Minions : Returned(x, k)' => Returned(x, k)
    BY <2>1, <2>2 DEF TodoSingle, Pending, Matched, Returned
  <2>4. Dies(m) => QuietStep
    BY <2>3 DEF Dies, Untouched, QuietStep
  <2>5. \A msg \in {WORK(m), INTERRUPT(m)} : msg \in Message /\ msg.kind # "data"
    BY DEF WORK, INTERRUPT, Message, Signal
  <2>6. Ends(m) => \E msg \in {WORK(m), INTERRUPT(m)} : Publish(Topic, msg)
    BY DEF Ends
  <2>7. Ends(m) => QuietStep
    BY <1>t, <2>3, <2>5, <2>6, PublishEffect DEF QuietStep
  <2> QED
    BY <1>7, <2>3, <2>4, <2>7
<1> QED
  BY <1>1, <1>2, <1>3, <1>5, <1>6, <1>7, <1>8, MaidSteps

\* A step that keeps the queue, or appends to it what names no minion.
LEMMA QuietKeepsSizes ==
    ASSUME TypeOK, SizeInv, TodoSingle', UNCHANGED clientVars,
           \A x \in Maids, k \in Minions : Pending(x, k)' => Pending(x, k),
           QuietStep
    PROVE  SizeInv'
<1>n. Len(inbox[Topic]) \in Nat
  BY QueueLength DEF TypeOK
<1>1. UNCHANGED <<accounted, sucset, missedList, repeatet, normalsize, emptyRet, pc>>
  BY DEF clientVars, reportVars, accounted
<1>2. ASSUME NEW i \in 1 .. Len(inbox'[Topic]), NEW k, Names(i, k)'
      PROVE  /\ i \in 1 .. Len(inbox[Topic]) /\ Names(i, k)
             /\ inbox'[Topic][i] = inbox[Topic][i]
  <2>1. CASE Untouched
    BY <1>2, <2>1 DEF Untouched, Names
  <2>2. ASSUME NEW msg \in Message, Appended(msg), msg.kind # "data"
        PROVE  /\ i \in 1 .. Len(inbox[Topic]) /\ Names(i, k)
               /\ inbox'[Topic][i] = inbox[Topic][i]
    BY <1>2, <1>n, <2>2 DEF Appended, Names
  <2> QED
    BY <2>1, <2>2 DEF QuietStep
<1>3. PendingUnseen'
  BY <1>1, <1>2 DEF SizeInv, PendingUnseen
<1>m. ASSUME NEW i \in 1 .. Len(inbox'[Topic]), NEW k, Misses(i, k)'
      PROVE  i \in 1 .. Len(inbox[Topic]) /\ Misses(i, k)
  BY <1>m, <1>2 DEF Misses
<1>4. MissedOnce'
  BY <1>1, <1>2, <1>m DEF SizeInv, MissedOnce
<1>5. NamedOne'
  BY <1>1, <1>2 DEF SizeInv, NamedOne
<1>6. ReturnedKnown'
  <2> SUFFICES ASSUME NEW x \in Maids, NEW k \in Minions, Returned(x, k)'
               PROVE  /\ k \notin missedList
                      /\ \A i \in 1 .. Len(inbox[Topic]) : ~Misses(i, k)
    BY <1>1, <1>m DEF ReturnedKnown
  <2>1. CASE Returned(x, k)
    BY <2>1 DEF SizeInv, ReturnedKnown
  <2>2. ASSUME NEW y \in Maids, Pending(y, k)
        PROVE  /\ k \notin missedList
               /\ \A i \in 1 .. Len(inbox[Topic]) : ~Misses(i, k)
    BY <2>2 DEF SizeInv, PendingUnseen, Misses, accounted
  <2> QED
    BY <2>1, <2>2 DEF QuietStep
<1> QED
  BY <1>1, <1>3, <1>4, <1>5, <1>6 DEF SizeInv, SizesExact

\* The queue with one more message: what a message names was named before, or
\* is named by the new one.
LEMMA OneMore ==
    ASSUME TypeOK, UNCHANGED clientVars, NEW S \in SUBSET Minions,
           NEW o \in Outcome, Appended(Ret(S, o)), NEW n \in Nat,
           n = Len(inbox[Topic])
    PROVE  /\ Len(inbox'[Topic]) = n + 1
           /\ \A i \in 1 .. n : \A k : /\ Names(i, k)' <=> Names(i, k)
                                       /\ Misses(i, k)' <=> Misses(i, k)
           /\ \A k : Names(n + 1, k)' <=> k \in S
           /\ \A k : Misses(n + 1, k)' <=> k \in S /\ o = "no_return"
           /\ \A i \in 1 .. n : inbox'[Topic][i] = inbox[Topic][i]
           /\ inbox'[Topic][n + 1].items = S
           /\ \A i \in 1 .. n + 1 : i \in 1 .. n \/ i = n + 1
           /\ n + 1 \notin 1 .. n
           /\ UNCHANGED <<accounted, sucset, missedList, repeatet, normalsize,
                          emptyRet, pc>>
<1>1. PICK msg : msg = Ret(S, o)
  OBVIOUS
<1>2. msg.kind = "data" /\ msg.items = S /\ msg.out = o
  BY <1>1 DEF Ret
<1>3. /\ Len(inbox'[Topic]) = n + 1
      /\ \A i \in 1 .. n : inbox'[Topic][i] = inbox[Topic][i]
      /\ inbox'[Topic][n + 1] = msg
  BY <1>1 DEF Appended
<1>4. \A i \in 1 .. n + 1 : i \in 1 .. n \/ i = n + 1
  OBVIOUS
<1>5. UNCHANGED <<accounted, sucset, missedList, repeatet, normalsize, emptyRet,
                  pc>>
  BY DEF clientVars, reportVars, accounted
<1> QED
  BY <1>2, <1>3, <1>4, <1>5 DEF Names, Misses

\* A return that arrives was still to be reported, and is so no longer.
LEMMA ReturnKeepsSizes ==
    ASSUME OneMaidEach, TypeOK, OneCommandEach, SizeInv, TodoSingle',
           UNCHANGED clientVars,
           \A x \in Maids, k \in Minions : Pending(x, k)' => Pending(x, k),
           ReturnStep
    PROVE  SizeInv'
<1>s. PICK m \in Maids, S \in SUBSET Minions, o \in Outcome :
        /\ Appended(Ret(S, o))
        /\ \A k \in S : S = {k} /\ Pending(m, k) /\ ~Pending(m, k)'
        /\ \A x \in Maids, k \in Minions : Returned(x, k)' =>
             Returned(x, k) \/ (k \in S /\ o # "no_return")
  BY DEF ReturnStep
<1>n. PICK n \in Nat : n = Len(inbox[Topic])
  BY QueueLength DEF TypeOK
<1>1. /\ Len(inbox'[Topic]) = n + 1
      /\ \A i \in 1 .. n : \A k : /\ Names(i, k)' <=> Names(i, k)
                                  /\ Misses(i, k)' <=> Misses(i, k)
      /\ \A k : Names(n + 1, k)' <=> k \in S
      /\ \A k : Misses(n + 1, k)' <=> k \in S /\ o = "no_return"
      /\ \A i \in 1 .. n : inbox'[Topic][i] = inbox[Topic][i]
      /\ inbox'[Topic][n + 1].items = S
      /\ \A i \in 1 .. n + 1 : i \in 1 .. n \/ i = n + 1
      /\ n + 1 \notin 1 .. n
      /\ UNCHANGED <<accounted, sucset, missedList, repeatet, normalsize,
                     emptyRet, pc>>
  <2>1. Appended(Ret(S, o))
    BY <1>s
  <2> QED
    BY <2>1, <1>n, OneMore
<1>6. ASSUME NEW k \in S
      PROVE  /\ k \in Minions /\ k \notin accounted /\ k \notin missedList
             /\ \A i \in 1 .. n : ~Names(i, k) /\ ~Misses(i, k)
             /\ \A x \in Maids : ~Pending(x, k)' /\ ~Returned(x, k)
  <2>1. k \in Minions /\ Pending(m, k) /\ ~Pending(m, k)'
    BY <1>s
  <2>2. ASSUME NEW x \in Maids, Pending(x, k)' \/ Returned(x, k) PROVE FALSE
    <3>1. k \in Matched(x, Tgt)
      BY <2>1, <2>2, ReturnedNotPending DEF Pending, SizeInv
    <3>2. x = m
      BY <2>1, <3>1, PendingOnce DEF Pending
    <3> QED
      BY <2>1, <2>2, <3>2, ReturnedNotPending DEF SizeInv
  <2> QED
    BY <1>n, <2>1, <2>2 DEF SizeInv, PendingUnseen, accounted, Misses
<1>7. PendingUnseen'
  <2> SUFFICES ASSUME NEW x \in Maids, NEW k \in Minions, Pending(x, k)'
               PROVE  /\ k \notin accounted'
                      /\ \A i \in 1 .. n + 1 : ~Names(i, k)'
    BY <1>1 DEF PendingUnseen
  <2>1. Pending(x, k) /\ k \notin S
    BY <1>6
  <2>2. k \notin accounted /\ \A i \in 1 .. n : ~Names(i, k)
    BY <1>n, <2>1 DEF SizeInv, PendingUnseen
  <2> QED
    BY <1>1, <2>1, <2>2
<1>8. MissedOnce'
  <2> SUFFICES ASSUME NEW i \in 1 .. n + 1, NEW k \in Minions, Misses(i, k)'
               PROVE  /\ k \notin accounted'
                      /\ \A j \in 1 .. n + 1 : Names(j, k)' => i = j
    BY <1>1 DEF MissedOnce
  <2>1. CASE k \in S
    BY <1>1, <1>6, <2>1
  <2>2. CASE k \notin S
    <3>1. i \in 1 .. n /\ Misses(i, k)
      BY <1>1, <2>2
    <3>2. k \notin accounted /\ \A j \in 1 .. n : Names(j, k) => i = j
      BY <1>n, <3>1 DEF SizeInv, MissedOnce
    <3> QED
      BY <1>1, <2>2, <3>2
  <2> QED
    BY <2>1, <2>2
<1>9. NamedOne'
  <2> SUFFICES ASSUME NEW i \in 1 .. n + 1, NEW k \in Minions, Names(i, k)'
               PROVE  inbox'[Topic][i].items = {k} /\ k \notin missedList
    BY <1>1 DEF NamedOne
  <2>1. CASE k \in S
    <3>1. i = n + 1 /\ S = {k}
      BY <1>1, <1>6, <1>s, <2>1
    <3> QED
      BY <1>1, <1>6, <2>1, <3>1
  <2>2. CASE k \notin S
    <3>1. i \in 1 .. n /\ Names(i, k)
      BY <1>1, <2>2
    <3> QED
      BY <1>1, <1>n, <3>1 DEF SizeInv, NamedOne
  <2> QED
    BY <2>1, <2>2
<1>10. ReturnedKnown'
  <2> SUFFICES ASSUME NEW x \in Maids, NEW k \in Minions, Returned(x, k)'
               PROVE  /\ k \notin missedList
                      /\ \A i \in 1 .. n + 1 : ~Misses(i, k)'
    BY <1>1 DEF ReturnedKnown
  <2>1. CASE k \in S
    <3>1. o # "no_return"
      BY <1>6, <1>s, <2>1
    <3> QED
      BY <1>1, <1>6, <2>1, <3>1
  <2>2. CASE k \notin S
    <3>1. Returned(x, k)
      BY <1>s, <2>2
    <3> QED
      BY <1>1, <1>n, <2>2, <3>1 DEF SizeInv, ReturnedKnown
  <2> QED
    BY <2>1, <2>2
<1> QED
  BY <1>1, <1>7, <1>8, <1>9, <1>10 DEF SizeInv, SizesExact

\* A return that comes again names a minion that nobody reports as missed.
LEMMA AgainKeepsSizes ==
    ASSUME OneMaidEach, TypeOK, OneCommandEach, SizeInv, TodoSingle',
           UNCHANGED clientVars,
           \A x \in Maids, k \in Minions : Pending(x, k)' => Pending(x, k),
           AgainStep
    PROVE  SizeInv'
<1>s. PICK m \in Maids, z \in Minions, o \in Outcome \ {"no_return"} :
        Appended(Ret({z}, o)) /\ Returned(m, z)
  BY DEF AgainStep
<1>n. PICK n \in Nat : n = Len(inbox[Topic])
  BY QueueLength DEF TypeOK
<1>1. /\ Len(inbox'[Topic]) = n + 1
      /\ \A i \in 1 .. n : \A k : /\ Names(i, k)' <=> Names(i, k)
                                  /\ Misses(i, k)' <=> Misses(i, k)
      /\ \A k : Names(n + 1, k)' <=> k \in {z}
      /\ \A k : Misses(n + 1, k)' <=> k \in {z} /\ o = "no_return"
      /\ \A i \in 1 .. n : inbox'[Topic][i] = inbox[Topic][i]
      /\ inbox'[Topic][n + 1].items = {z}
      /\ \A i \in 1 .. n + 1 : i \in 1 .. n \/ i = n + 1
      /\ n + 1 \notin 1 .. n
      /\ UNCHANGED <<accounted, sucset, missedList, repeatet, normalsize,
                     emptyRet, pc>>
  BY <1>s, <1>n, OneMore
<1>2. /\ z \notin missedList
      /\ \A i \in 1 .. n : ~Misses(i, z)
      /\ \A x \in Maids : ~Pending(x, z)
  <2>1. ASSUME NEW x \in Maids, Pending(x, z) PROVE FALSE
    <3>1. z \in Matched(m, Tgt) /\ ~Pending(m, z)
      BY <1>s, ReturnedNotPending DEF SizeInv
    <3>2. x = m
      BY <2>1, <3>1, PendingOnce DEF Pending
    <3> QED
      BY <2>1, <3>1, <3>2
  <2> QED
    BY <1>s, <1>n, <2>1 DEF SizeInv, ReturnedKnown
<1>3. PendingUnseen'
  <2> SUFFICES ASSUME NEW x \in Maids, NEW k \in Minions, Pending(x, k)
               PROVE  /\ k \notin accounted'
                      /\ \A i \in 1 .. n + 1 : ~Names(i, k)'
    BY <1>1 DEF PendingUnseen
  <2>1. k # z /\ k \notin accounted /\ \A i \in 1 .. n : ~Names(i, k)
    BY <1>2, <1>n DEF SizeInv, PendingUnseen
  <2> QED
    BY <1>1, <2>1
<1>4. MissedOnce'
  <2> SUFFICES ASSUME NEW i \in 1 .. n + 1, NEW k \in Minions, Misses(i, k)'
               PROVE  /\ k \notin accounted'
                      /\ \A j \in 1 .. n + 1 : Names(j, k)' => i = j
    BY <1>1 DEF MissedOnce
  <2>1. i \in 1 .. n /\ Misses(i, k) /\ k # z
    BY <1>1, <1>2
  <2>2. k \notin accounted /\ \A j \in 1 .. n : Names(j, k) => i = j
    BY <1>n, <2>1 DEF SizeInv, MissedOnce
  <2> QED
    BY <1>1, <2>1, <2>2
<1>5. NamedOne'
  <2> SUFFICES ASSUME NEW i \in 1 .. n + 1, NEW k \in Minions, Names(i, k)'
               PROVE  inbox'[Topic][i].items = {k} /\ k \notin missedList
    BY <1>1 DEF NamedOne
  <2>1. CASE i = n + 1
    BY <1>1, <1>2, <2>1
  <2>2. CASE i \in 1 .. n
    BY <1>1, <1>n, <2>2 DEF SizeInv, NamedOne
  <2> QED
    BY <1>1, <2>1, <2>2
<1>6. ReturnedKnown'
  <2> SUFFICES ASSUME NEW x \in Maids, NEW k \in Minions, Returned(x, k)
               PROVE  /\ k \notin missedList
                      /\ \A i \in 1 .. n + 1 : ~Misses(i, k)'
    BY <1>1 DEF ReturnedKnown, AgainStep
  <2> QED
    BY <1>1, <1>n DEF SizeInv, ReturnedKnown
<1> QED
  BY <1>1, <1>3, <1>4, <1>5, <1>6 DEF SizeInv, SizesExact

\* The client reads a message: the minion that it names enters the report,
\* and is counted there.
LEMMA ListenKeepsSizes ==
    ASSUME TypeOK, SizeInv, Listen
    PROVE  SizeInv'
<1>t. Turn
  BY ListenIsTurn
<1>n. PICK n \in Nat : n = Len(inbox[Topic])
  BY QueueLength DEF TypeOK
<1>m. PICK msg : msg = inbox[Topic][1]
  OBVIOUS
<1> DEFINE items == IF msg.kind = "data" THEN msg.items ELSE {}
<1>1. /\ accounted' = accounted \cup items
      /\ UNCHANGED <<cmdq, tasks>>
      /\ pc' \in {"listening", "done"}
      /\ n > 0
      /\ Taken \/ inbox'[Topic] = <<>>
  BY <1>m, <1>n, <1>t DEF Turn
<1>2. \A k : k \in items <=> Names(1, k)
  BY <1>m DEF Names
<1>3. items \subseteq Minions
  <2>1. msg \in Message
    BY <1>m, <1>n, <1>1, QueueLength, ElementOfSeq DEF TypeOK
  <2> QED
    BY <2>1 DEF Message, Confirmation, Signal, Data
<1>c. callResult = msg
  <2>1. inbox[Topic] # <<>> /\ inbox[Topic] \in Seq(Message)
    BY QueueLength DEF TypeOK, Listen, OnConfirmation, OnPing, OnResult,
       OnEmptyReturn, OnMissed, OnReturn, Reads
  <2> QED
    BY <1>m, <2>1 DEF callResult
<1>l. \/ missedList' = missedList
      \/ /\ msg.kind = "data" /\ msg.out = "no_return"
         /\ missedList' = missedList \cup items
  BY <1>c DEF Listen, OnConfirmation, OnPing, OnResult, OnEmptyReturn,
     OnMissed, OnReturn, Reads, reportVars
<1> HIDE DEF items
<1>a. ASSUME NEW k \in Minions, k \in missedList', k \notin missedList
      PROVE  Misses(1, k)
  BY <1>a, <1>l, <1>2, <1>m DEF Misses
<1>4. /\ TodoSingle'
      /\ \A x \in Maids, k \in Minions : /\ Pending(x, k)' <=> Pending(x, k)
                                         /\ Returned(x, k)' <=> Returned(x, k)
  BY <1>1 DEF SizeInv, TodoSingle, Pending, Returned, Matched
<1>5. ASSUME NEW i \in 1 .. Len(inbox'[Topic]), NEW k
      PROVE  /\ i + 1 \in 1 .. n /\ i + 1 # 1
             /\ inbox'[Topic][i] = inbox[Topic][i + 1]
             /\ Names(i, k)' <=> Names(i + 1, k)
             /\ Misses(i, k)' <=> Misses(i + 1, k)
  BY <1>1, <1>n, <1>5 DEF Taken, Names, Misses
<1>6. PendingUnseen'
  BY <1>1, <1>2, <1>4, <1>5, <1>n DEF SizeInv, PendingUnseen
<1>f. 1 \in 1 .. n
  BY <1>1
<1>7. MissedOnce'
  <2> SUFFICES ASSUME NEW i \in 1 .. Len(inbox'[Topic]), NEW k \in Minions,
                      Misses(i, k)'
               PROVE  /\ k \notin accounted'
                      /\ \A j \in 1 .. Len(inbox'[Topic]) : Names(j, k)' => i = j
    BY DEF MissedOnce
  <2>1. i + 1 \in 1 .. n /\ Misses(i + 1, k)
    BY <1>5
  <2>2. k \notin accounted /\ \A j \in 1 .. n : Names(j, k) => i + 1 = j
    BY <1>n, <2>1 DEF SizeInv, MissedOnce
  <2>3. k \notin items
    BY <1>2, <1>5, <1>f, <2>2
  <2>4. ASSUME NEW j \in 1 .. Len(inbox'[Topic]), Names(j, k)' PROVE i = j
    <3>1. j + 1 \in 1 .. n /\ Names(j + 1, k)
      BY <1>5, <2>4
    <3> QED
      BY <2>2, <3>1
  <2> QED
    BY <1>1, <2>2, <2>3, <2>4
<1>8. NamedOne'
  <2> SUFFICES ASSUME NEW i \in 1 .. Len(inbox'[Topic]), NEW k \in Minions,
                      Names(i, k)'
               PROVE  inbox'[Topic][i].items = {k} /\ k \notin missedList'
    BY DEF NamedOne
  <2>1. /\ i + 1 \in 1 .. n /\ i + 1 # 1 /\ Names(i + 1, k)
        /\ inbox'[Topic][i] = inbox[Topic][i + 1]
    BY <1>5
  <2>2. inbox[Topic][i + 1].items = {k} /\ k \notin missedList
    BY <1>n, <2>1 DEF SizeInv, NamedOne
  <2>3. ~Misses(1, k)
    BY <1>f, <1>n, <2>1 DEF SizeInv, MissedOnce
  <2> QED
    BY <1>a, <2>1, <2>2, <2>3
<1>9. ReturnedKnown'
  <2> SUFFICES ASSUME NEW x \in Maids, NEW k \in Minions, Returned(x, k)
               PROVE  /\ k \notin missedList'
                      /\ \A i \in 1 .. Len(inbox'[Topic]) : ~Misses(i, k)'
    BY <1>4 DEF ReturnedKnown
  <2>1. k \notin missedList /\ \A i \in 1 .. n : ~Misses(i, k)
    BY <1>n DEF SizeInv, ReturnedKnown
  <2> QED
    BY <1>a, <1>5, <1>f, <2>1
<1>10. ASSUME NEW k \in items
       PROVE  /\ items = {k} /\ k \in Minions /\ k \notin missedList
              /\ msg.out = "no_return" => k \notin accounted
  <2>1. Names(1, k) /\ k \in Minions
    BY <1>2, <1>3
  <2>2. inbox[Topic][1].items = {k} /\ k \notin missedList
    BY <1>f, <1>n, <2>1 DEF SizeInv, NamedOne
  <2>3. msg.out = "no_return" => k \notin accounted
    BY <1>f, <1>m, <1>n, <2>1 DEF SizeInv, MissedOnce, Misses
  <2> QED
    BY <1>m, <2>1, <2>2, <2>3 DEF Names, items
<1>11. SizesExact'
  <2>f. /\ IsFiniteSet(sucset) /\ Cardinality(sucset) \in Nat
        /\ normalsize \in Nat /\ emptyRet \in Nat
    BY MaidAssumption, FS_Subset, FS_CardinalityType DEF TypeOK
  <2>1. CASE OnReturn
    <3>1. /\ callResult.kind = "data" /\ callResult.items # {}
          /\ sucset' = sucset \cup callResult.items
          /\ repeatet' = repeatet \cup (callResult.items \cap sucset)
          /\ \/ normalsize' = normalsize + 1 /\ emptyRet' = emptyRet
             \/ normalsize' = normalsize /\ emptyRet' = emptyRet + 1
          /\ missedList' = missedList
      BY <2>1 DEF OnReturn, Reads
    <3>2. items = callResult.items
      BY <1>c, <3>1 DEF items
    <3>3. PICK k : k \in items
      BY <3>1, <3>2
    <3>4. items = {k} /\ k \notin missedList
      BY <1>10, <3>3
    <3>5. normalsize' + emptyRet' = normalsize + emptyRet + 1
      BY <2>f, <3>1
    <3>6. CASE k \in sucset
      <4>1. sucset' = sucset /\ repeatet' # {}
        BY <3>1, <3>2, <3>4, <3>6
      <4> QED
        BY <2>f, <3>1, <3>5, <4>1 DEF SizeInv, SizesExact
    <3>7. CASE k \notin sucset
      <4>1. Cardinality(sucset') = Cardinality(sucset) + 1
        <5>1. sucset' = sucset \cup {k}
          BY <3>1, <3>2, <3>4
        <5> QED
          BY <2>f, <3>7, <5>1, FS_AddElement
      <4>2. repeatet' = repeatet /\ sucset' \cap missedList' = {}
        BY <3>1, <3>2, <3>4, <3>7 DEF SizeInv, SizesExact
      <4> QED
        BY <2>f, <3>5, <4>1, <4>2 DEF SizeInv, SizesExact
    <3> QED
      BY <3>6, <3>7
  <2>2. CASE OnMissed
    <3>1. /\ callResult.kind = "data" /\ callResult.out = "no_return"
          /\ missedList' = missedList \cup callResult.items
          /\ UNCHANGED <<sucset, repeatet, normalsize, emptyRet>>
      BY <2>2 DEF OnMissed, Reads
    <3>2. items = callResult.items
      BY <1>c, <3>1 DEF items
    <3>3. items \cap sucset = {}
      BY <1>10, <1>c, <3>1 DEF accounted
    <3> QED
      BY <3>1, <3>2, <3>3 DEF SizeInv, SizesExact
  <2>3. CASE OnConfirmation \/ OnPing \/ OnResult \/ OnEmptyReturn
    BY <2>3 DEF OnConfirmation, OnPing, OnResult, OnEmptyReturn, reportVars,
       SizeInv, SizesExact
  <2> QED
    BY <2>1, <2>2, <2>3 DEF Listen
<1> QED
  BY <1>1, <1>4, <1>6, <1>7, <1>8, <1>9, <1>11 DEF SizeInv

\* A queue that names nobody, and a report that does not change.
LEMMA EmptyKeepsSizes ==
    ASSUME SizeInv,
           UNCHANGED <<tasks, sucset, missedList, repeatet, normalsize, emptyRet>>,
           pc' \in {"start", "subscribed"} => pc \in {"start", "subscribed"},
           \A i \in 1 .. Len(inbox'[Topic]) : inbox'[Topic][i].kind # "data",
           \/ UNCHANGED cmdq
           \/ accounted = {}
    PROVE  SizeInv'
<1>1. /\ UNCHANGED accounted
      /\ \A i \in 1 .. Len(inbox'[Topic]), k \in Minions :
            ~Names(i, k)' /\ ~Misses(i, k)'
  BY DEF accounted, Names, Misses
<1>2. TodoSingle' /\ SizesExact'
  BY DEF SizeInv, TodoSingle, Matched, SizesExact
<1>3. PendingUnseen'
  <2>1. CASE UNCHANGED cmdq
    BY <1>1, <2>1 DEF SizeInv, PendingUnseen, Pending, Matched
  <2>2. CASE accounted = {}
    BY <1>1, <2>2 DEF PendingUnseen
  <2> QED
    BY <2>1, <2>2
<1>4. MissedOnce' /\ NamedOne'
  BY <1>1 DEF MissedOnce, NamedOne
<1>5. ReturnedKnown'
  BY <1>1 DEF SizeInv, ReturnedKnown, Returned
<1> QED
  BY <1>1, <1>2, <1>3, <1>4, <1>5 DEF SizeInv

\* Every step keeps the invariant of the sizes.
LEMMA SizeStep == OneMaidEach /\ IInv /\ SizeInv /\ [Next]_vars => SizeInv'
<1> SUFFICES ASSUME OneMaidEach, IInv, SizeInv, [Next]_vars PROVE SizeInv'
  OBVIOUS
<1>t. TypeOK /\ MaidTypeOK /\ OneCommandEach /\ TopicFollowsPhase
  BY DEF IInv, TypeOK
<1> DEFINE confirmation == [kind |-> "subscribe"]
<1>c. ASSUME inbox'[Topic] = <<>> \/ inbox'[Topic] = <<confirmation>>
      PROVE  \A i \in 1 .. Len(inbox'[Topic]) : inbox'[Topic][i].kind # "data"
  <2>1. CASE inbox'[Topic] = <<>>
    BY <2>1
  <2>2. CASE inbox'[Topic] = <<confirmation>>
    <3>1. Len(inbox'[Topic]) = 1 /\ inbox'[Topic][1].kind = "subscribe"
      BY <2>2
    <3> QED
      BY <3>1
  <2> QED
    BY <1>c, <2>1, <2>2
<1>1. CASE SubscribeTopic
  <2>1. inbox'[Topic] = <<confirmation>> /\ pc = "start"
    BY <1>1, <1>t, SyncAssumption DEF SubscribeTopic, Subscribe, MaidTypeOK
  <2>2. UNCHANGED <<cmdq, tasks, sucset, missedList, repeatet, normalsize,
                  emptyRet>>
    BY <1>1 DEF SubscribeTopic, reportVars
  <2> QED
    BY <1>c, <2>1, <2>2, EmptyKeepsSizes
<1>2. CASE PublishCommand
  <2>1. inbox'[Topic] = <<confirmation>> /\ pc = "subscribed"
    BY <1>2, <1>t DEF PublishCommand, TopicFollowsPhase
  <2>2. UNCHANGED <<tasks, sucset, missedList, repeatet, normalsize,
                  emptyRet>>
    BY <1>2 DEF PublishCommand, reportVars
  <2>3. accounted = {}
    BY <2>1 DEF SizeInv
  <2> QED
    BY <1>c, <2>1, <2>2, <2>3, EmptyKeepsSizes
<1>3. CASE Expire \/ UNCHANGED vars
  <2>1. UNCHANGED <<cmdq, tasks, inbox, sucset, missedList, repeatet, normalsize,
                  emptyRet, pc>>
    BY <1>3 DEF Expire, vars, maidVars, clientVars, reportVars
  <2>2. TodoSingle' /\ SizesExact' /\ UNCHANGED accounted
    BY <2>1 DEF SizeInv, TodoSingle, SizesExact, Matched, accounted
  <2>3. PendingUnseen' /\ ReturnedKnown'
    BY <2>1, <2>2 DEF SizeInv, PendingUnseen, ReturnedKnown, Pending, Returned,
       Matched, Names, Misses
  <2>4. MissedOnce' /\ NamedOne'
    BY <2>1, <2>2 DEF SizeInv, MissedOnce, NamedOne, Names, Misses
  <2> QED
    BY <2>1, <2>2, <2>3, <2>4 DEF SizeInv
<1>4. CASE Listen
  BY <1>4, <1>t, ListenKeepsSizes
<1>5. CASE LoseConnection
  <2>1. inbox'[Topic] = <<>> \/ inbox'[Topic] = <<confirmation>>
    BY <1>5, <1>t, SyncAssumption DEF LoseConnection, Subscribe, MaidTypeOK
  <2>2. UNCHANGED <<cmdq, tasks, sucset, missedList, repeatet, normalsize,
                  emptyRet>>
    BY <1>5 DEF LoseConnection, reportVars
  <2>3. pc' \in {"listening", "raised"}
    BY <1>5 DEF LoseConnection
  <2> QED
    BY <1>c, <2>1, <2>2, <2>3, EmptyKeepsSizes
<1>6. CASE MaidNext /\ UNCHANGED clientVars
  <2>1. /\ TodoSingle'
        /\ \A x \in Maids, k \in Minions : Pending(x, k)' => Pending(x, k)
        /\ QuietStep \/ ReturnStep \/ AgainStep
    BY <1>6, <1>t, MaidsReport DEF SizeInv
  <2> QED
    BY <1>6, <1>t, <2>1, QuietKeepsSizes, ReturnKeepsSizes, AgainKeepsSizes
<1> QED
  BY <1>1, <1>2, <1>3, <1>4, <1>5, <1>6 DEF Next, Client, Terminated

\* At the beginning nobody is to be reported, and nobody is.
LEMMA SizeInit == Init => SizeInv
<1> SUFFICES ASSUME Init PROVE SizeInv
  OBVIOUS
<1>1. /\ accounted = {} /\ sucset = {} /\ missedList = {} /\ repeatet = {}
      /\ normalsize = 0 /\ emptyRet = 0
      /\ \A m \in Maids : cmdq[m] = <<>> /\ tasks[m] = {}
      /\ inbox[Topic] = <<>>
  BY SyncAssumption DEF Init, MaidInit, accounted
<1> QED
  BY <1>1, FS_EmptySet
  DEF SizeInv, TodoSingle, PendingUnseen, MissedOnce, NamedOne, ReturnedKnown,
      SizesExact, Pending, Returned

\* The sizes printed at the end add up to the number of minions in the report,
\* if no minion has two maids: nobody is both missed and returned, and nobody
\* is counted twice, whatever fails, unless it is in repeatet; then they are
\* more (executeCallback).
THEOREM SizesAreRight == OneMaidEach => (Spec => []SizesAddUp)
<1> SUFFICES ASSUME OneMaidEach PROVE Spec => []SizesAddUp
  OBVIOUS
<1>1. IInv /\ SizeInv => SizesAddUp
  <2> SUFFICES ASSUME IInv, SizeInv
               PROVE  SizesAddUp
    OBVIOUS
  <2> DEFINE s == Cardinality(sucset)
             l == Cardinality(missedList)
  <2>1. IsFiniteSet(sucset) /\ IsFiniteSet(missedList)
    BY MaidAssumption, FS_Subset DEF IInv, TypeOK
  <2>2. Cardinality(sucset \cup missedList) =
          s + l - Cardinality(sucset \cap missedList)
    BY <2>1, FS_Union
  <2>3. Cardinality(sucset \cap missedList) = 0
    BY FS_EmptySet DEF SizeInv, SizesExact
  <2>4. s \in Nat /\ l \in Nat /\ normalsize \in Nat /\ emptyRet \in Nat
    BY <2>1, FS_CardinalityType DEF IInv, TypeOK
  <2>5. /\ normalsize + emptyRet >= s
        /\ normalsize + emptyRet = s <=> repeatet = {}
    BY DEF SizeInv, SizesExact
  <2>6. Cardinality(accounted) = s + l
    BY <2>2, <2>3, <2>4 DEF accounted
  <2> HIDE DEF s, l
  <2>7. /\ normalsize + emptyRet + l >= s + l
        /\ normalsize + emptyRet + l = s + l <=> repeatet = {}
    BY <2>4, <2>5
  <2> QED
    BY <2>6, <2>7 DEF SizesAddUp, l
<1>2. Spec => []IInv
  BY Inductive
<1>3. IInv /\ SizeInv /\ [Next]_vars => SizeInv'
  BY SizeStep
<1> QED
  BY <1>1, <1>2, <1>3, SizeInit, PTL DEF Spec
=============================================================================
