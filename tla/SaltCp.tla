------------------------------- MODULE SaltCp -------------------------------
(***************************************************************************)
(* salt-cp in a fan-out: run_oldstyle_v1 in salt/cli/cp.py.  The client    *)
(* prints what each maid reports of the copy.  It has no timeout: the loop *)
(* ends only on a WORK or INTERRUPT that brings both counts to the number  *)
(* of accepted keys.                                                       *)
(***************************************************************************)
EXTENDS Maid

CONSTANTS
    Keys,       \* the nodes whose keys the super master has accepted
    Tgt,        \* the target of the copy
    Topic       \* the private topic of the command

ASSUME CpAssumption ==
    /\ Keys \subseteq Maids
    /\ Tgt \in Target
    /\ Topic \in Topics

VARIABLES
    pc,             \* "start", "subscribed", "listening", "done" or "raised"
    ping1stCount,   \* PINGs from known maids
    work1stcount,   \* WORKs and INTERRUPTs
    printed,        \* the minions whose result of the copy has been printed
    unshown         \* those for whose result a traceback has been printed

countVars  == <<ping1stCount, work1stcount>>
outputVars == <<printed, unshown>>
clientVars == <<pc, countVars, outputVars>>
vars == <<maidVars, clientVars>>

wrapMesage == [topic |-> Topic, round |-> 1, type |-> SALT_CP, tgt |-> Tgt]

TypeOK ==
    /\ MaidTypeOK
    /\ pc \in {"start", "subscribed", "listening", "done", "raised"}
    /\ ping1stCount \in Nat /\ work1stcount \in Nat
    /\ printed \subseteq Minions /\ unshown \subseteq Minions

Init ==
    /\ MaidInit
    /\ pc = "start"
    /\ ping1stCount = 0 /\ work1stcount = 0
    /\ printed = {} /\ unshown = {}

SubscribeTopic ==
    /\ pc = "start"
    /\ Subscribe(Topic)
    /\ pc' = "subscribed"
    /\ UNCHANGED <<up, cmdq, tasks, sent, lost, faults, countVars, outputVars>>

\* publishToSyndicSub, then pullAccept
PublishCommand ==
    /\ pc = "subscribed"
    /\ PublishToSyndicSub(wrapMesage)
    /\ pc' = "listening"
    /\ UNCHANGED <<up, tasks, subscribed, inbox, sent, lost, faults, countVars,
                   outputVars>>

callResult == Head(inbox[Topic])

Reads(kinds) ==
    /\ pc = "listening"
    /\ inbox[Topic] # <<>>
    /\ callResult.kind \in kinds
    /\ inbox' = [inbox EXCEPT ![Topic] = Tail(@)]
    /\ UNCHANGED <<up, cmdq, tasks, subscribed, sent, lost>>

\* Mutant of OnConfirmation: the next message is never asked for.
OnConfirmationAgain ==
    /\ pc = "listening"
    /\ inbox[Topic] # <<>> /\ callResult.kind = "subscribe"
    /\ UNCHANGED vars

OnConfirmation ==
    /\ Reads({"subscribe"})
    /\ UNCHANGED <<faults, clientVars>>

OnPing ==
    /\ Reads({"ping"})
    /\ ping1stCount' = IF callResult.sub_ip \in Keys
                       THEN ping1stCount + 1 ELSE ping1stCount
    /\ UNCHANGED <<faults, pc, work1stcount, outputVars>>

\* Mutant of OnResult: the number of accepted keys is not looked at.
OnResultFirst ==
    /\ Reads({"work", "interrupt"})
    /\ work1stcount' = work1stcount + 1
    /\ pc' = IF ping1stCount = work1stcount' THEN "done" ELSE pc
    /\ UNCHANGED <<faults, ping1stCount, outputVars>>

\* the only place where the loop can end
OnResult ==
    /\ Reads({"work", "interrupt"})
    /\ work1stcount' = work1stcount + 1
    /\ pc' = IF ping1stCount = work1stcount' /\ work1stcount' = Cardinality(Keys)
             THEN "done" ELSE pc
    /\ UNCHANGED <<faults, ping1stCount, outputVars>>

\* Mutant of OnCpResult: a maid's results are printed as one.
OnCpResultNested ==
    /\ Reads({"data"})
    /\ printed' = printed \cup {callResult.items}
    /\ UNCHANGED <<faults, pc, countVars, unshown>>

\* A maid's results of the copy.  Fault "display": display_output raises, and
\* the handler of that exception prints a traceback and goes on.
OnCpResult ==
    /\ Reads({"data"})
    /\ \/ printed' = printed \cup callResult.items /\ UNCHANGED <<unshown, faults>>
       \/ /\ callResult.items # {}
          /\ Fault("display")
          /\ unshown' = unshown \cup callResult.items
          /\ UNCHANGED printed
    /\ UNCHANGED <<pc, countVars>>

\* fault "redis": the connection is lost and with it what is queued; listen()
\* subscribes again on a new one, or raises, which nothing catches
LoseConnection ==
    /\ pc = "listening"
    /\ Fault("redis")
    /\ \/ Subscribe(Topic) /\ UNCHANGED pc
       \/ /\ pc' = "raised"
          /\ subscribed' = subscribed \ {Topic}
          /\ inbox' = [inbox EXCEPT ![Topic] = <<>>]
    /\ LoseQueues({Topic})
    /\ UNCHANGED <<up, cmdq, tasks, sent, countVars, outputVars>>

Listen == OnConfirmation \/ OnPing \/ OnResult \/ OnCpResult

Client == SubscribeTopic \/ PublishCommand \/ Listen \/ LoseConnection

Terminated ==
    /\ pc \in {"done", "raised"}
    /\ \A m \in Maids : tasks[m] = {} /\ cmdq[m] = <<>>
    /\ UNCHANGED vars

Next == Client \/ (MaidNext /\ UNCHANGED clientVars) \/ Terminated

Spec == Init /\ [][Next]_vars

Fairness ==
    /\ WF_vars(SubscribeTopic \/ PublishCommand \/ Listen)
    /\ \A m \in Maids : WF_vars(MaidWork(m) /\ UNCHANGED clientVars)

FairSpec == Spec /\ Fairness

-----------------------------------------------------------------------------
(* Properties.                                                             *)

\* what maid m still has to do for the copy
Busy(m) == cmdq[m] # <<>> \/ tasks[m] # {}

\* The copy ends only when every maid the super master knows is through with
\* it, and everything that they reported has been read: nothing is left on
\* the topic for a reader that is gone.
DoneMeansDone ==
    pc = "done" => /\ \A m \in Keys : ~Busy(m)
                   /\ \A i \in 1 .. Len(inbox[Topic]) :
                         inbox[Topic][i].kind # "data"

\* the minions a result of whom got lost with the client's connection
missing == {k \in Minions : <<Topic, k>> \in lost}

\* What is printed by then is whole: the file went to every minion of the
\* target, and each has a line, with the outcome of the copy or False, but for
\* those whose maid's results came out as a traceback or never came.
NobodyMissing ==
    pc = "done" => \A m \in Keys :
        \/ Refuses(m, wrapMesage)
        \/ Matched(m, Tgt) \subseteq printed \cup unshown \cup missing

\* The copy ends, unless a maid that the super master knows is down or dies,
\* a greenlet dies, the connection is lost, or a maid answers whose key is not
\* accepted.
EndsUnlessDown ==
    (/\ Keys = Maids
     /\ [](/\ \A f \in FaultKinds \ {"display"} : faults[f] = 0
           /\ \A m \in Keys : up[m]))
    => <>(pc = "done")
=============================================================================
