-------------------------------- MODULE Maid --------------------------------
(***************************************************************************)
(* The Redis bus and the maids (salt/newrun/__init__.py, class             *)
(* SyndicSubcribe, started by SaltMaid.start in salt/cli/daemons.py).      *)
(*                                                                         *)
(* A super master publishes a command on one topic that every maid listens *)
(* to.  A maid answers PING on the command's private topic, spawns a       *)
(* greenlet for it, and the greenlet publishes the results of its minions  *)
(* followed by one WORK, or a single INTERRUPT when it refuses the command.*)
(* Redis publish/subscribe keeps the order of one connection's messages    *)
(* and delivers at most once: who is not subscribed at the moment of a     *)
(* publish never sees the message.                                         *)
(*                                                                         *)
(* The modules SaltxSync, SaltxBatch, SaltxApi, SaltxJobs and SaltCp       *)
(* extend this one with a client.                                          *)
(***************************************************************************)
EXTENDS Integers, Sequences, FiniteSets

CONSTANTS
    Maids,      \* the sub masters that listen to the super master's topic
    Minions,    \* the minions of all the maids
    Accepted,   \* Accepted[m]: the minions whose keys maid m has accepted
    Topics,     \* the private topics ('tempTopic') of the commands
    MayBeDown,  \* the maids that may be down when the command is published
    PoolSize,   \* how many greenlets a maid's pool holds
    FaultPlans  \* bound: the faults of one behaviour stay within one plan

\* the faults that may happen, see the actions that use them
FaultKinds == {"crash", "abort", "drop", "display", "redis", "again"}

ASSUME MaidAssumption ==
    /\ IsFiniteSet(Maids)
    /\ IsFiniteSet(Minions)
    /\ Accepted \in [Maids -> SUBSET Minions]
    /\ MayBeDown \subseteq Maids
    /\ PoolSize \in Nat \ {0}
    /\ FaultPlans \subseteq [FaultKinds -> Nat]

VARIABLES
    up,         \* up[m]: maid m is running and subscribed to the command topic
    cmdq,       \* cmdq[m]: the commands queued on maid m's subscription
    tasks,      \* tasks[m]: the greenlets of maid m's pool
    subscribed, \* the private topics that have a subscriber
    inbox,      \* inbox[t]: the messages queued on the subscription to topic t
    sent,       \* sent[k]: how often a command was sent to minion k (history)
    lost,       \* <<t, k>>: a result of minion k for topic t was lost (history)
    faults      \* faults[kind]: how many of them have happened so far

maidVars == <<up, cmdq, tasks, subscribed, inbox, sent, lost, faults>>

-----------------------------------------------------------------------------
(* Messages.                                                               *)

SYNC_RUN    == "sync_run"
SALT_CP     == "salt_cp"
ASYNC_RUN   == "aysnc_run"
FIND_ACCEPT == "find_accept"
LOOKUP_JID  == "jobs.list_job"
LIST_JOBS   == "jobs.list_jobs"

\* the types that send something to minions, and those that only ask the maid
Targeted == {SYNC_RUN, SALT_CP, ASYNC_RUN}
FunctionType == Targeted \cup {FIND_ACCEPT, LOOKUP_JID, LIST_JOBS}

\* '*', a list of minions, one minion's address, or any other glob
Target == [kind : {"all", "list", "ip", "glob"}, ids : SUBSET Minions]

Command == [topic : Topics, round : Nat, type : FunctionType, tgt : Target]

\* What LocalClient reports of a minion: it answered with return code 0 and
\* a value, it answered with anything else, or it did not answer in time.
Outcome == {"ok", "bad", "no_return"}

Confirmation == [kind : {"subscribe"}]
Signal == [kind : {"ping", "work", "interrupt"}, sub_ip : Maids]
Data   == [kind : {"data"}, items : SUBSET Minions, out : Outcome]

Message == Confirmation \cup Signal \cup Data

PING(m)      == [kind |-> "ping", sub_ip |-> m]
WORK(m)      == [kind |-> "work", sub_ip |-> m]
INTERRUPT(m) == [kind |-> "interrupt", sub_ip |-> m]
Ret(S, o)    == [kind |-> "data", items |-> S, out |-> o]

\* A greenlet: waiting for a place in the pool, spawned for cmd, then running
\* with the results still to come and the minions that have returned.
Task == [cmd : Command, phase : {"waiting", "spawned", "running"},
         todo : SUBSET SUBSET Minions, returned : SUBSET Minions]

\* the greenlet that startListen makes for cmd
Greenlet(cmd, phase) ==
    [cmd |-> cmd, phase |-> phase, todo |-> {}, returned |-> {}]

MaidTypeOK ==
    /\ up \in [Maids -> BOOLEAN]
    /\ cmdq \in [Maids -> Seq(Command)]
    /\ tasks \in [Maids -> SUBSET Task]
    /\ subscribed \subseteq Topics
    /\ inbox \in [Topics -> Seq(Message)]
    /\ sent \in [Minions -> Nat]
    /\ lost \subseteq Topics \X Minions
    /\ faults \in [FaultKinds -> Nat]

-----------------------------------------------------------------------------
(* Redis: PUBLISH and SUBSCRIBE.                                           *)

\* the minions whose results a message carries
Named(msg) == IF msg.kind = "data" THEN msg.items ELSE {}

\* PUBLISH on private topic t: queued if somebody is subscribed, else lost.
Publish(t, msg) ==
    IF t \in subscribed
    THEN inbox' = [inbox EXCEPT ![t] = Append(@, msg)] /\ UNCHANGED lost
    ELSE lost' = lost \cup ({t} \X Named(msg)) /\ UNCHANGED inbox

\* the minions whose results are queued on topic t
Queued(t) == UNION {Named(inbox[t][i]) : i \in DOMAIN inbox[t]}

\* A connection is gone, and with it what is queued on the topics in T.
LoseQueues(T) ==
    lost' = lost \cup UNION {{t} \X Queued(t) : t \in T}

\* SUBSCRIBE to t; the confirmation is the first message the client reads.
Subscribe(t) ==
    /\ subscribed' = subscribed \cup {t}
    /\ inbox' = [inbox EXCEPT ![t] = <<[kind |-> "subscribe"]>>]

\* PUBLISH on the command topic: every maid that is up gets a copy.
PublishToSyndicSub(c) ==
    cmdq' = [m \in Maids |-> IF up[m] THEN Append(cmdq[m], c) ELSE cmdq[m]]

Fault(kind) ==
    /\ faults' = [faults EXCEPT ![kind] = @ + 1]
    /\ \E plan \in FaultPlans : \A f \in FaultKinds : faults'[f] <= plan[f]

-----------------------------------------------------------------------------
(* A maid.                                                                 *)

\* the target's minions that maid m has accepted (getAcceptIp)
Matched(m, tgt) ==
    IF tgt.kind = "all" THEN Accepted[m] ELSE tgt.ids \cap Accepted[m]

\* run() answers INTERRUPT to a list without a minion of its own, and to a
\* target that is neither a list, nor '*', nor an address
Refuses(m, c) ==
    /\ c.type \in Targeted
    /\ \/ c.tgt.kind = "list" /\ Matched(m, c.tgt) = {}
       \/ c.tgt.kind = "glob"

\* the minions in the jobs that maid m's own job cache holds
JobCache(m) == {k \in Accepted[m] : sent[k] > 0}

\* The results a command yields: one message for each minion of a SYNC_RUN
\* (cmd_cli yields {} once when no minion matches), one message in all for
\* the other types; none for an ASYNC_RUN, nor for a LOOKUP_JID, whose key
\* jobs_subcache_<jid>_<node> nothing writes.
Results(m, c) ==
    CASE c.type = FIND_ACCEPT -> {Accepted[m]}
      [] c.type = LIST_JOBS   -> {JobCache(m)}
      [] c.type \in {ASYNC_RUN, LOOKUP_JID} -> {}
      [] c.type = SALT_CP     -> {Matched(m, c.tgt)}
      [] c.type = SYNC_RUN    -> IF Matched(m, c.tgt) = {}
                                 THEN {{}}
                                 ELSE {{k} : k \in Matched(m, c.tgt)}

\* spawn() lets a greenlet wait until the pool has a place for it
PoolPlace(m) == IF Cardinality(tasks[m]) < PoolSize THEN "spawned" ELSE "waiting"

\* Mutant of MaidReceive: the command stays in the queue.
MaidReceiveAgain(m) ==
    /\ up[m]
    /\ cmdq[m] # <<>>
    /\ tasks[m] = {}
    /\ LET cmd == Head(cmdq[m]) IN
         /\ Publish(cmd.topic, PING(m))
         /\ tasks' = [tasks EXCEPT ![m] = {Greenlet(cmd, "spawned")}]
    /\ UNCHANGED <<up, cmdq, subscribed, sent, faults>>

\* startListen: take the next command, answer PING, spawn the greenlet.  The
\* listener stands still while a greenlet waits for its place in the pool.
MaidReceive(m) ==
    /\ up[m]
    /\ cmdq[m] # <<>>
    /\ \A tk \in tasks[m] : tk.phase # "waiting"
    /\ LET cmd == Head(cmdq[m]) IN
         /\ Publish(cmd.topic, PING(m))
         /\ tasks' = [tasks EXCEPT ![m] = @ \cup {Greenlet(cmd, PoolPlace(m))}]
    /\ cmdq' = [cmdq EXCEPT ![m] = Tail(@)]
    /\ UNCHANGED <<up, subscribed, sent, faults>>

\* startListen: the pool has a place for the greenlet that waits
MaidSpawn(m, tk) ==
    /\ tk.phase = "waiting"
    /\ Cardinality(tasks[m] \ {tk}) < PoolSize
    /\ tasks' = [tasks EXCEPT ![m] = (@ \ {tk}) \cup
            {[tk EXCEPT !.phase = "spawned"]}]
    /\ UNCHANGED <<up, cmdq, subscribed, inbox, sent, lost, faults>>

\* run: refuse the command
TaskRefuse(m, tk) ==
    /\ tk.phase = "spawned"
    /\ Refuses(m, tk.cmd)
    /\ Publish(tk.cmd.topic, INTERRUPT(m))
    /\ tasks' = [tasks EXCEPT ![m] = @ \ {tk}]
    /\ UNCHANGED <<up, cmdq, subscribed, sent, faults>>

\* run: hand the command to LocalClient, which sends it to the minions
TaskStart(m, tk) ==
    /\ tk.phase = "spawned"
    /\ ~Refuses(m, tk.cmd)
    /\ tasks' = [tasks EXCEPT ![m] = (@ \ {tk}) \cup
            {[tk EXCEPT !.phase = "running", !.todo = Results(m, tk.cmd)]}]
    /\ sent' = IF tk.cmd.type \notin Targeted
               THEN sent
               ELSE [k \in Minions |-> IF k \in Matched(m, tk.cmd.tgt)
                                       THEN sent[k] + 1 ELSE sent[k]]
    /\ UNCHANGED <<up, cmdq, subscribed, inbox, lost, faults>>

\* greenlet tk once it is through with S, for which those of R have returned
Reported(tk, S, R) ==
    [tk EXCEPT !.todo = @ \ {S}, !.returned = @ \cup R]

\* run: publish one result.  The dict that cmd returns for a SALT_CP also has
\* the minions that did not answer.
TaskEmit(m, tk) ==
    /\ tk.phase = "running"
    /\ \E S \in tk.todo, o \in Outcome :
         /\ S = {} \/ tk.cmd.type # SYNC_RUN => o = "ok"
         /\ Publish(tk.cmd.topic, Ret(S, o))
         /\ tasks' = [tasks EXCEPT ![m] = (@ \ {tk}) \cup
                {Reported(tk, S, IF o = "no_return" THEN {} ELSE S)}]
    /\ UNCHANGED <<up, cmdq, subscribed, sent, faults>>

\* fault "again": a minion's return comes once more.  get_iter_returns yields
\* every return event of the job, and cmd_cli passes each of them on; only
\* afterwards does it name the minions with no_return.
TaskRepeat(m, tk) ==
    /\ tk.phase = "running"
    /\ tk.cmd.type = SYNC_RUN
    /\ Fault("again")
    /\ \E k \in tk.returned, o \in Outcome \ {"no_return"} :
         Publish(tk.cmd.topic, Ret({k}, o))
    /\ UNCHANGED <<up, cmdq, tasks, subscribed, sent>>

\* Mutant of TaskFinish: WORK is published before the loop over the results
\* has ended.
TaskFinishEarly(m, tk) ==
    /\ tk.phase = "running"
    /\ Publish(tk.cmd.topic, WORK(m))
    /\ tasks' = [tasks EXCEPT ![m] = @ \ {tk}]
    /\ UNCHANGED <<up, cmdq, subscribed, sent, faults>>

\* run: after the last result, publish WORK
TaskFinish(m, tk) ==
    /\ tk.phase = "running"
    /\ tk.todo = {}
    /\ Publish(tk.cmd.topic, WORK(m))
    /\ tasks' = [tasks EXCEPT ![m] = @ \ {tk}]
    /\ UNCHANGED <<up, cmdq, subscribed, sent, faults>>

\* fault "drop": a minion of a SYNC_RUN is not reported.  Formatting or
\* encoding its return raises, which the loop logs and goes on after; or
\* LocalClient never names it (its find_job failed, the publish failed).
TaskDrop(m, tk) ==
    /\ tk.phase = "running"
    /\ tk.cmd.type = SYNC_RUN
    /\ Fault("drop")
    /\ \E S \in tk.todo :
         /\ tasks' = [tasks EXCEPT ![m] = (@ \ {tk}) \cup {Reported(tk, S, {})}]
         /\ lost' = lost \cup ({tk.cmd.topic} \X S)
    /\ UNCHANGED <<up, cmdq, subscribed, inbox, sent>>

\* Mutant of TaskAbort: the greenlet starts over.
TaskAbortRetries(m, tk) ==
    /\ tk.phase # "waiting"
    /\ Fault("abort")
    /\ tasks' = [tasks EXCEPT ![m] = (@ \ {tk}) \cup
            {Greenlet(tk.cmd, "spawned")}]
    /\ UNCHANGED <<up, cmdq, subscribed, inbox, sent, lost>>

\* fault "abort": LocalClient raises outside that loop, the greenlet dies
TaskAbort(m, tk) ==
    /\ tk.phase # "waiting"
    /\ Fault("abort")
    /\ tasks' = [tasks EXCEPT ![m] = @ \ {tk}]
    /\ UNCHANGED <<up, cmdq, subscribed, inbox, sent, lost>>

\* fault "crash": the daemon dies with its queue and its greenlets
MaidCrash(m) ==
    /\ up[m]
    /\ Fault("crash")
    /\ up' = [up EXCEPT ![m] = FALSE]
    /\ cmdq' = [cmdq EXCEPT ![m] = <<>>]
    /\ tasks' = [tasks EXCEPT ![m] = {}]
    /\ UNCHANGED <<subscribed, inbox, sent, lost>>

\* SaltMaid.start: a maid (re)starts and subscribes; it gets what is
\* published from now on
MaidRestart(m) ==
    /\ ~up[m]
    /\ up' = [up EXCEPT ![m] = TRUE]
    /\ UNCHANGED <<cmdq, tasks, subscribed, inbox, sent, lost, faults>>

-----------------------------------------------------------------------------
MaidInit ==
    /\ up \in [Maids -> BOOLEAN]
    /\ \A m \in Maids \ MayBeDown : up[m]
    /\ cmdq = [m \in Maids |-> <<>>]
    /\ tasks = [m \in Maids |-> {}]
    /\ subscribed = {}
    /\ inbox = [t \in Topics |-> <<>>]
    /\ sent = [k \in Minions |-> 0]
    /\ lost = {}
    /\ faults = [f \in FaultKinds |-> 0]

\* what a maid does when nothing goes wrong; the scheduler is fair to it
MaidWork(m) ==
    \/ MaidReceive(m)
    \/ \E tk \in tasks[m] : \/ MaidSpawn(m, tk)
                            \/ TaskRefuse(m, tk)
                            \/ TaskStart(m, tk)
                            \/ TaskEmit(m, tk)
                            \/ TaskFinish(m, tk)

MaidFault(m) ==
    \/ \E tk \in tasks[m] : TaskRepeat(m, tk) \/ TaskDrop(m, tk) \/ TaskAbort(m, tk)
    \/ MaidCrash(m)
    \/ MaidRestart(m)

MaidNext == \E m \in Maids : MaidWork(m) \/ MaidFault(m)
=============================================================================
