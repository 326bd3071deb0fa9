------------------------------ MODULE StateRun ------------------------------
(***************************************************************************)
(* The state runtime of a minion, src/salt/state.py: State.call_chunks     *)
(* calls the low data chunks in order, and call_chunk first calls, by      *)
(* recursion, the requisites of a chunk that have not run yet.  A chunk    *)
(* with parallel: True runs in a process of its own, whose result is       *)
(* collected later by reconcile_procs.  When such a chunk watches a change *)
(* it starts a second process, for mod_watch; only this one is kept in     *)
(* running, but it writes its result under a tag that nobody reads.        *)
(*                                                                         *)
(* A chunk is a number, its place in the order.  A requisite that names    *)
(* several chunks is several edges; one that matches none is an edge to    *)
(* Missing; a watch of a state without mod_watch is a require, as          *)
(* check_requisite makes it.  The call stack is explicit: one frame for    *)
(* each activation of call_chunk.  call_listen then calls the mod_watch of *)
(* the chunks that listen to a change.                                     *)
(***************************************************************************)
EXTENDS Integers, Sequences, FiniteSets

CONSTANTS
    N,          \* number of chunks
    Slses,      \* the low data to run: requisites and options of the chunks
    StackLimit  \* activations of call_chunk before Python's recursion limit

Chunks  == 1 .. N
Missing == 0
Direct  == {"require", "watch", "prereq", "onfail", "onchanges"}

ASSUME StateRunAssumption ==
    /\ N \in Nat \ {0}
    /\ StackLimit \in Nat \ {0}
    /\ Slses \subseteq [req : SUBSET ((Direct \cup {"listen"})
                                        \X Chunks \X (Chunks \cup {Missing})),
                        parallel : SUBSET Chunks, failhard : SUBSET Chunks,
                        invalid : SUBSET Chunks]

VARIABLES
    sls,         \* the low data of this run
    pos,         \* call_chunks: the chunk it is at
    calling,     \*   and whether it has called call_chunk for it
    pc,          \* "chunks", "listen", "done" or "crashed"
    stack,       \* the activations of call_chunk, the innermost first
    running,     \* the results by chunk
    FAILHARD,    \* whether '__FAILHARD__' is in running
    pre,         \* self.pre: the results of the test runs
    active,      \* self.active
    prereq,      \* the chunks whose __prereq__ is True
    prerequired, \* the chunks whose __prerequired__ is True
    alive,       \* the parallel chunks whose process, the one in running, runs
    unread,      \*   and those of which that process is one of mod_watch
    forgotten,   \* the parallel chunks whose process runs, but is not in running
    cache,       \* what ended processes have written, by the tag of the chunk
    heard,       \* the results of call_listen, by the chunk that listens
    did          \* history: how often a chunk was really executed, and how

loopVars == <<sls, pos, calling, pc, heard>>
markVars == <<active, prereq, prerequired>>
procVars == <<alive, unread, forgotten, cache, did>>
resVars  == <<running, pre, FAILHARD>>
vars == <<loopVars, markVars, procVars, resVars, stack>>

-----------------------------------------------------------------------------
(* Results.                                                                *)

Result(result, changes, ran, isProc) ==
    [result |-> result, changes |-> changes, ran |-> ran, proc |-> isProc]

NoChange == Result("true", FALSE, TRUE, FALSE)
Changed  == Result("true", TRUE, TRUE, FALSE)
Failed   == Result("false", FALSE, TRUE, FALSE)
NotRun   == Result("true", FALSE, FALSE, FALSE)   \* __state_ran__: False
Would    == Result("none", TRUE, TRUE, FALSE)     \* a test run that sees changes
Started  == Result("none", FALSE, TRUE, TRUE)     \* 'proc' in a result

\* what a state function may return, and what it may return in a test run
Outcomes == {NoChange, Changed, Failed}
Tests    == {NoChange, Would, Failed}
Results  == Outcomes \cup Tests \cup {NotRun, Started}

\* dictionary dict with result r for chunk c
Put(dict, c, r) ==
    [d \in DOMAIN dict \cup {c} |-> IF d = c THEN r ELSE dict[d]]

-----------------------------------------------------------------------------
(* Requisites.                                                             *)

\* requisite_in gives every target of a prereq a prerequired
Req(kind, c) ==
    IF kind = "prerequired" THEN {a \in Chunks : <<"prereq", a, c>> \in sls.req}
    ELSE {d \in Chunks \cup {Missing} : <<kind, c, d>> \in sls.req}

KindsOf(c) == Direct \cup (IF c \in prereq THEN {} ELSE {"prerequired"})

Present(c) == \E k \in Direct \cup {"prerequired"} : Req(k, c) # {}
Lost(c)    == \E k \in KindsOf(c) : Missing \in Req(k, c)

\* what is read for a process that has ended, or 'Parallel cache failure'
Written(c) == IF c \in DOMAIN cache THEN cache[c] ELSE Failed

\* running with the results that ended processes have written
Reconciled ==
    [c \in DOMAIN running |->
        IF running[c].proc /\ c \notin alive THEN Written(c) ELSE running[c]]

NoProcs == \A c \in DOMAIN running : running[c].proc => c \notin alive

\* what one result adds to fun_stats
StatsOf(kind, r) ==
    LET isOk   == kind = "onfail" /\ r.result = "true"
        isFail == kind # "onfail" /\ r.result = "false"
    IN  CASE isOk   -> {"onfail"}
          [] isFail -> {"fail"}
          [] kind = "onchanges" /\ ~isFail ->
                {IF r.changes THEN "onchangesmet" ELSE "onchanges"}
          [] kind = "watch" /\ ~isFail /\ r.changes -> {"change"}
          [] kind = "prereq" /\ ~isFail /\ r.result # "none" -> {"pre"}
          [] OTHER -> (IF kind = "prereq" THEN {"premet"} ELSE {})
                        \cup (IF r.ran THEN {"met"} ELSE {})

Stats(c, run) ==
    UNION {UNION {LET dict == IF k = "prereq" THEN pre ELSE run
                  IN  IF d \in DOMAIN dict THEN StatsOf(k, dict[d]) ELSE {"unmet"}
                  : d \in Req(k, c)} : k \in KindsOf(c)}

\* check_requisite, once the processes it waits for have ended
Status(c, run) ==
    LET stats == Stats(c, run)
    IN  IF ~Present(c)                THEN "met"
        ELSE IF "unmet" \in stats     THEN "unmet"
        ELSE IF "fail" \in stats      THEN "fail"
        ELSE IF "pre" \in stats       THEN IF "premet" \in stats THEN "met" ELSE "pre"
        ELSE IF "onfail" \in stats /\ "met" \notin stats THEN "onfail"
        ELSE IF "onchanges" \in stats /\ "onchangesmet" \notin stats THEN "onchanges"
        ELSE IF "change" \in stats    THEN "change"
        ELSE "met"

\* mutant: the processes are not waited for
CheckedAtOnce(c) == Present(c) => ~FAILHARD

\* check_requisite can go on: it looks into running only for a chunk with
\* requisites, and then waits for all the processes there
Checked(c)  == Present(c) => ~FAILHARD /\ (NoProcs \/ Lost(c))
\* running as check_requisite leaves it
Seen(c)     == IF Present(c) THEN Reconciled ELSE running

check_failhard(c, run) ==
    c \in sls.failhard \cap DOMAIN run /\ run[c].result = "false"

-----------------------------------------------------------------------------
(* The call stack.                                                         *)

\* todo: the requisites still to call, with the place of their kind in the list
Frame(c) == [chunk |-> c, stage |-> "enter", todo |-> {}, last |-> c]
Top      == stack[1]
At(stage) == stack # <<>> /\ Top.stage = stage /\ pc = "chunks"

Return     == stack' = Tail(stack)
GoTo(f)    == stack' = <<f>> \o Tail(stack)
CallOn(d, f) == stack' = <<Frame(d), f>> \o Tail(stack)

-----------------------------------------------------------------------------
(* State.call.                                                             *)

Count(c, how) == did' = [did EXCEPT ![c] = [n |-> @.n + 1, how |-> how]]

\* a real call of chunk c; run is running before it.  When c watches a chunk
\* that changed, and its own function shows no change, as that of a process and
\* of a chunk that cannot be called never does, mod_watch is called as well.
Execute(c, run, watching) ==
    /\ \/ /\ c \in sls.parallel
          /\ c \in sls.invalid => watching
          /\ running' = Put(run, c, Started)
          /\ alive' = alive \cup {c}
          /\ unread' = IF watching THEN unread \cup {c} ELSE unread \ {c}
          /\ forgotten' = IF watching THEN forgotten \cup ({c} \ sls.invalid)
                                      ELSE forgotten
          /\ Count(c, "running")
       \/ /\ c \notin sls.parallel
          /\ c \in sls.invalid => watching
          /\ \E r \in Outcomes : running' = Put(run, c, r) /\ Count(c, r.result)
          /\ UNCHANGED <<alive, unread, forgotten>>
       \/ /\ c \in sls.invalid
          /\ running' = Put(run, c, Failed)
          /\ UNCHANGED <<alive, unread, forgotten, did>>
    /\ UNCHANGED <<pre, prereq, cache>>

\* mutant: a test run that is not done with test=True
TestRunReally(c, d, watching) ==
    /\ \E r \in IF c \in sls.invalid THEN {Failed} ELSE Outcomes :
         pre' = Put(pre, d, IF watching /\ ~r.changes THEN Would ELSE r)
    /\ prereq' = IF c \in sls.invalid THEN prereq \cup {c} ELSE prereq \ {c}
    /\ UNCHANGED procVars

\* mutant: __prereq__ is left on after the test run
TestRunMarked(c, d, watching) ==
    /\ \E r \in IF c \in sls.invalid THEN {Failed} ELSE Tests :
         pre' = Put(pre, d, IF watching /\ ~r.changes THEN Would ELSE r)
    /\ UNCHANGED <<prereq, procVars>>

\* a test run of chunk c, recorded for d, for which it has __prereq__, and keeps
\* it when it cannot be called; when c watches a chunk that changed, a test run
\* without changes is recorded as one with changes
TestRun(c, d, watching) ==
    /\ \E r \in IF c \in sls.invalid THEN {Failed} ELSE Tests :
         pre' = Put(pre, d, IF watching /\ ~r.changes THEN Would ELSE r)
    /\ prereq' = IF c \in sls.invalid THEN prereq \cup {c} ELSE prereq \ {c}
    /\ UNCHANGED procVars

-----------------------------------------------------------------------------
(* call_chunk.                                                             *)

\* mutant: active is not kept
EnterUnnoticed(c, statuses) ==
    /\ At("enter") /\ c = Top.chunk /\ Len(stack) < StackLimit
    /\ Checked(c)
    /\ (IF Lost(c) THEN "lost" ELSE Status(c, Seen(c))) \in statuses
    /\ UNCHANGED <<loopVars, FAILHARD, active>>

\* on entry, with one of these statuses
Enter(c, statuses) ==
    /\ At("enter") /\ c = Top.chunk /\ Len(stack) < StackLimit
    /\ Checked(c)
    /\ (IF Lost(c) THEN "lost" ELSE Status(c, Seen(c))) \in statuses
    /\ active' = IF Req("prerequired", c) = {} THEN active \cup {c} ELSE active
    /\ UNCHANGED <<loopVars, FAILHARD>>

\* the requisites that are found are told what they are called for
Mark(c) ==
    /\ prereq' = prereq \cup (Req("prereq", c) \ {Missing})
    /\ prerequired' = IF c \in prereq THEN prerequired
                      ELSE prerequired \cup Req("prerequired", c)

\* 'The following requisites were not found'
NotFound(c) ==
    /\ Enter(c, {"lost"})
    /\ Mark(c)
    /\ IF c \in prereq'
       THEN pre' = Put(pre, c, Failed) /\ running' = Seen(c)
       ELSE running' = Put(Seen(c), c, Failed) /\ UNCHANGED pre
    /\ Return
    /\ UNCHANGED procVars

\* some requisites have no result yet: call them, kind by kind
Place == [require |-> 1, watch |-> 2, prereq |-> 3, onfail |-> 4, onchanges |-> 5,
          prerequired |-> 6]

Unmet(c) ==
    /\ Enter(c, {"unmet"})
    /\ Mark(c)
    /\ running' = Seen(c)
    /\ GoTo([Top EXCEPT !.stage = "requisites",
                        !.todo = UNION {{<<Place[k], d>> : d \in Req(k, c)} : k \in KindsOf(c)}])
    /\ UNCHANGED <<procVars, pre>>

\* requisites met, or a change to watch: the state function, in a test run if
\* this is for a prereq
Run(c) ==
    /\ Enter(c, {"met", "change"})
    /\ IF c \in prereq THEN TestRun(c, c, FALSE) /\ running' = Seen(c)
                       ELSE Execute(c, Seen(c), Status(c, Seen(c)) = "change")
    /\ Return
    /\ UNCHANGED prerequired

\* a requisite failed: the result of the test run, if there was one, else False
Fail(c) ==
    /\ Enter(c, {"fail"})
    /\ IF c \in DOMAIN pre
       THEN running' = Put(Seen(c), c, pre[c]) /\ UNCHANGED pre
       ELSE running' = Put(Seen(c), c, Failed) /\ pre' = Put(pre, c, Failed)
    /\ Return
    /\ UNCHANGED <<procVars, prereq, prerequired>>

\* 'No changes detected': none of the prereqs expects any
NoneDetected(c) ==
    /\ Enter(c, {"pre"})
    /\ running' = Put(Seen(c), c, NoChange)
    /\ pre' = Put(pre, c, NoChange)
    /\ Return
    /\ UNCHANGED <<procVars, prereq, prerequired>>

\* 'State was not run because': no onfail failed, no onchanges changed
NotNeeded(c) ==
    /\ Enter(c, {"onfail", "onchanges"})
    /\ running' = Put(Seen(c), c, NotRun)
    /\ Return
    /\ UNCHANGED <<procVars, pre, prereq, prerequired>>

-----------------------------------------------------------------------------
(* The loop over the requisites of an unmet chunk.                         *)

\* t is the next of them
NextRequisite(c, t) ==
    /\ At("requisites") /\ c = Top.chunk
    /\ t \in Top.todo /\ \A u \in Top.todo : t[1] <= u[1]

Without(t) == [Top EXCEPT !.todo = @ \ {t}, !.last = t[2]]

HasRun(c, t) ==
    /\ NextRequisite(c, t)
    /\ t[2] \in DOMAIN running
    /\ GoTo(Without(t))
    /\ UNCHANGED <<loopVars, resVars, markVars, procVars>>

\* mutant: a requisite that has run is called again
DescendAlways(c, t) ==
    /\ NextRequisite(c, t)
    /\ t[2] \notin active
    /\ CallOn(t[2], [Without(t) EXCEPT !.stage = "called"])
    /\ UNCHANGED <<loopVars, resVars, markVars, procVars>>

Descend(c, t) ==
    /\ NextRequisite(c, t)
    /\ t[2] \notin DOMAIN running \cup active
    /\ CallOn(t[2], [Without(t) EXCEPT !.stage = "called"])
    /\ UNCHANGED <<loopVars, resVars, markVars, procVars>>

\* mutant: failhard is not looked at after a requisite
CalledOn(c) ==
    /\ At("called") /\ c = Top.chunk
    /\ GoTo([Top EXCEPT !.stage = "requisites"])
    /\ UNCHANGED <<loopVars, resVars, markVars, procVars>>

\* back from the call: a failed failhard requisite ends this activation
Called(c) ==
    /\ At("called") /\ c = Top.chunk
    /\ IF check_failhard(Top.last, running)
       THEN FAILHARD' = TRUE /\ Return
       ELSE GoTo([Top EXCEPT !.stage = "requisites"]) /\ UNCHANGED FAILHARD
    /\ UNCHANGED <<loopVars, running, pre, markVars, procVars>>

\* the requisite is being called further down the stack: 'Recursive requisite
\* found', or, when it waits for this prereq, a test run recorded for it
Recursive(c, t) ==
    /\ NextRequisite(c, t)
    /\ t[2] \in active \ DOMAIN running
    /\ \/ /\ t[2] \notin prerequired
          /\ running' = Put(running, c, Failed)
          /\ UNCHANGED <<pre, prereq, procVars>>
       \/ /\ t[2] \in prerequired /\ c \notin DOMAIN pre
          /\ TestRun(c, t[2], FALSE)
          /\ UNCHANGED running
       \/ /\ t[2] \in prerequired /\ c \in DOMAIN pre
          /\ UNCHANGED <<running, pre, prereq, procVars>>
    /\ Return
    /\ UNCHANGED <<loopVars, FAILHARD, active, prerequired>>

\* all of them have been called: this chunk again, or its test run
Again(c) ==
    /\ At("requisites") /\ c = Top.chunk /\ Top.todo = {} /\ c \notin prereq
    /\ CallOn(c, [Top EXCEPT !.stage = "again"])
    /\ UNCHANGED <<loopVars, resVars, markVars, procVars>>

Test(c) ==
    /\ At("requisites") /\ c = Top.chunk /\ Top.todo = {} /\ c \in prereq
    /\ Checked(c)
    /\ running' = Seen(c)
    /\ TestRun(c, c, Status(c, Seen(c)) = "change")
    /\ FAILHARD' = (FAILHARD \/ check_failhard(Top.last, running'))
    /\ Return
    /\ UNCHANGED <<loopVars, active, prerequired>>

Ran(c) ==
    /\ At("again") /\ c = Top.chunk
    /\ FAILHARD' = (FAILHARD \/ check_failhard(Top.last, running))
    /\ Return
    /\ UNCHANGED <<loopVars, running, pre, markVars, procVars>>

-----------------------------------------------------------------------------
(* call_chunks.                                                            *)

InLoop == pc = "chunks" /\ stack = <<>> /\ ~calling /\ pos \in Chunks

CallChunk ==
    /\ InLoop /\ ~FAILHARD /\ pos \notin DOMAIN running
    /\ stack' = <<Frame(pos)>>
    /\ calling' = TRUE
    /\ UNCHANGED <<sls, pos, pc, heard, resVars, markVars, procVars>>

SkipChunk ==
    /\ InLoop /\ ~FAILHARD /\ pos \in DOMAIN running
    /\ pos' = pos + 1
    /\ active' = {}
    /\ UNCHANGED <<sls, calling, pc, heard, stack, resVars, prereq, prerequired, procVars>>

\* back from call_chunk
EndOfCall ==
    /\ pc = "chunks" /\ stack = <<>> /\ calling
    /\ calling' = FALSE
    /\ IF check_failhard(pos, running)
       THEN pc' = "listen" /\ UNCHANGED <<pos, active>>
       ELSE pos' = pos + 1 /\ active' = {} /\ UNCHANGED pc
    /\ UNCHANGED <<sls, heard, stack, resVars, prereq, prerequired, procVars>>

\* a failhard requisite has failed
FailHard ==
    /\ InLoop /\ FAILHARD
    /\ FAILHARD' = FALSE
    /\ pc' = "listen"
    /\ UNCHANGED <<sls, pos, calling, heard, stack, running, pre, markVars, procVars>>

\* no chunk is left: wait for the processes
Finish ==
    /\ pc = "chunks" /\ stack = <<>> /\ pos = N + 1 /\ ~FAILHARD /\ NoProcs
    /\ running' = Reconciled
    /\ pc' = "listen"
    /\ UNCHANGED <<sls, pos, calling, heard, stack, FAILHARD, pre, markVars, procVars>>

-----------------------------------------------------------------------------
(* call_listen.                                                            *)

\* the chunks that listen to one with changes
Due == {c \in Chunks : \E d \in Req("listen", c) \cap DOMAIN running : running[d].changes}

\* mod_watch is called for them in order, without their requisites, until one
\* fails hard; of a parallel one only the outcome is kept, which call_chunks
\* waits for before it returns.  A chunk that still has __prereq__ gets a test
\* run only, and no result.
Stops(c, r) == c \in sls.failhard \ sls.parallel /\ r.result = "false"

Listen(c) ==
    /\ pc = "listen"
    /\ c \in Due \ (DOMAIN heard \cup prereq)
    /\ \A d \in Due \ (DOMAIN heard \cup prereq) : c <= d
    /\ \A d \in DOMAIN heard : ~Stops(d, heard[d])
    /\ \E r \in Outcomes : heard' = Put(heard, c, r)
    /\ UNCHANGED <<sls, pos, calling, pc, stack, resVars, markVars, procVars>>

EndListen ==
    /\ pc = "listen"
    /\ \/ Due \subseteq DOMAIN heard \cup prereq
       \/ \E d \in DOMAIN heard : Stops(d, heard[d])
    /\ pc' = "done"
    /\ UNCHANGED <<sls, pos, calling, heard, stack, resVars, markVars, procVars>>

-----------------------------------------------------------------------------
(* What ends the run with an exception, and the processes.                 *)

\* reconcile_procs takes '__FAILHARD__' for a result
AttributeError ==
    /\ FAILHARD
    /\ \/ At("enter") /\ Len(stack) < StackLimit /\ Present(Top.chunk)
       \/ At("requisites") /\ Top.todo = {} /\ Top.chunk \in prereq
       \/ pc = "chunks" /\ stack = <<>> /\ pos = N + 1
    /\ pc' = "crashed"
    /\ UNCHANGED <<sls, pos, calling, heard, stack, resVars, markVars, procVars>>

RecursionError ==
    /\ At("enter") /\ Len(stack) >= StackLimit
    /\ pc' = "crashed"
    /\ UNCHANGED <<sls, pos, calling, heard, stack, resVars, markVars, procVars>>

\* the process of a parallel chunk writes its result and ends
Writes(c) ==
    /\ \E r \in Outcomes :
         /\ cache' = Put(cache, c, r)
         /\ did' = [did EXCEPT ![c].how = r.result]
    /\ UNCHANGED <<loopVars, resVars, markVars, stack, unread>>

ProcessEnds(c) ==
    /\ c \in alive \ unread
    /\ alive' = alive \ {c}
    /\ Writes(c)
    /\ UNCHANGED forgotten

ForgottenEnds(c) ==
    /\ c \in forgotten
    /\ forgotten' = forgotten \ {c}
    /\ Writes(c)
    /\ UNCHANGED alive

\* a process of mod_watch writes its result under the tag of mod_watch
WatcherEnds(c) ==
    /\ c \in alive \cap unread
    /\ alive' = alive \ {c}
    /\ UNCHANGED <<loopVars, resVars, markVars, stack, unread, forgotten, cache, did>>

Ended ==
    /\ pc \in {"done", "crashed"} /\ alive \cup forgotten = {}
    /\ UNCHANGED vars

Init ==
    /\ sls \in Slses
    /\ pos = 1 /\ calling = FALSE /\ pc = "chunks" /\ heard = <<>> /\ stack = <<>>
    /\ running = <<>> /\ pre = <<>> /\ FAILHARD = FALSE
    /\ active = {} /\ prereq = {} /\ prerequired = {}
    /\ alive = {} /\ unread = {} /\ forgotten = {} /\ cache = <<>>
    /\ did = [c \in Chunks |-> [n |-> 0, how |-> "not"]]

Step ==
    \/ \E c \in Chunks :
         \/ NotFound(c) \/ Unmet(c) \/ Run(c) \/ Fail(c) \/ NoneDetected(c)
         \/ NotNeeded(c) \/ Called(c) \/ Again(c) \/ Test(c) \/ Ran(c) \/ Listen(c)
         \/ \E t \in (1 .. 6) \X Chunks : HasRun(c, t) \/ Descend(c, t) \/ Recursive(c, t)
    \/ CallChunk \/ SkipChunk \/ EndOfCall \/ FailHard \/ Finish \/ EndListen
    \/ AttributeError \/ RecursionError

Next ==
    \/ Step
    \/ \E c \in Chunks : ProcessEnds(c) \/ ForgottenEnds(c) \/ WatcherEnds(c)
    \/ Ended

Spec == Init /\ [][Next]_vars

-----------------------------------------------------------------------------
(* Properties.                                                             *)

\* the variables have their types
TypeOK ==
    /\ pos \in 1 .. N + 1 /\ calling \in BOOLEAN /\ FAILHARD \in BOOLEAN
    /\ pc \in {"chunks", "listen", "done", "crashed"}
    /\ Len(stack) <= StackLimit
    /\ {active, prereq, prerequired, alive, unread, forgotten} \subseteq SUBSET Chunks
    /\ {DOMAIN running, DOMAIN pre, DOMAIN cache, DOMAIN heard} \subseteq SUBSET Chunks
    /\ \A c \in DOMAIN running : running[c] \in Results
    /\ \A c \in DOMAIN pre : pre[c] \in Tests
    /\ \A c \in DOMAIN cache : cache[c] \in Outcomes
    /\ \A c \in DOMAIN heard : heard[c] \in Outcomes

\* chunk b is reached from chunk a over requisites of these kinds
Reaches(a, b, kinds) ==
    LET next(c) == UNION {Req(k, c) : k \in kinds}
    IN  \A S \in SUBSET (Chunks \cup {Missing}) :
            next(a) \cup UNION {next(c) : c \in S \cap Chunks} \subseteq S => b \in S

\* a chunk that cannot be called, names a requisite that does not exist, or
\* requires itself
Broken(c) ==
    c \in sls.invalid \/ (\E k \in Direct : Missing \in Req(k, c)) \/ Reaches(c, c, Direct)

\* several prereqs, or one on a cycle of requisites, whichever way round the
\* prereq is taken
Tangled ==
    \/ Cardinality({e \in sls.req : e[1] = "prereq"}) > 1
    \/ \E a \in Chunks : \E b \in Req("prereq", a) \ {Missing} :
        \/ Reaches(b, a, Direct)
        \/ Reaches(a, b, (Direct \ {"prereq"}) \cup {"prerequired"})

\* c is a prereq of another chunk: call_chunk does not keep it in active
IsPrereq(c) == Req("prerequired", c) # {}

Starts(c) == did'[c].n > did[c].n

\* the result of chunk c stands, but for that of a process, which takes the
\* place of 'Started in a separate process'
Stands(c) ==
    /\ c \in DOMAIN running'
    /\ running'[c] = running[c] \/ (running[c].proc /\ ~running'[c].proc)

\* A chunk that has a result does not run again, and its result stands,
\* although call_chunk is entered for a chunk from several places of the
\* recursion, and again after its requisites.  (A prereq of another chunk has
\* two results, and several prereqs can make it run twice.)
ResultsStand ==
    [][\A c \in DOMAIN running : ~IsPrereq(c) => ~Starts(c) /\ Stands(c)]_vars

\* chunk d has a result, and the process that was waited for runs no more; and
\* neither does one that was forgotten
Waited(d) == d \in DOMAIN running /\ (d \in alive => IsPrereq(d))
Over(d)   == Waited(d) /\ (d \in forgotten => IsPrereq(d))

\* what has to succeed before c runs
Needed(c) == UNION {Req(k, c) : k \in {"require", "watch", "onchanges", "prerequired"}}

\* When a chunk runs, what it requires, watches or takes changes from has a
\* result, runs no more and did not fail, and so has the chunk it is a prereq
\* of; what it has in onfail has a result and did fail, unless other requisites
\* count for it; some of its onchanges did change, unless one of its prereqs
\* expects changes and another one does not; and its own prereqs have not run
\* yet.  (Of a prereq only its first result is meant.  Of a parallel chunk that
\* watches a change mod_watch is waited for, but its result is not read, so that
\* it may have failed; what did not fail is the function itself.  And a chunk
\* that has such a chunk in onfail may start while the function still runs:
\* that nobody has written a result counts as a failure.)
InOrder(c) ==
    /\ \A d \in Needed(c) : Over(d) /\ (did[d].how = "false" => IsPrereq(d))
    /\ \A d \in Req("onfail", c) : Waited(d) /\ (d \in unread \/ Over(d))
    /\ Req("onfail", c) # {} =>
         \/ \E d \in Req("onfail", c) : Reconciled[d].result # "true"
         \/ Needed(c) \cup Req("prereq", c) # {}
    /\ Req("onchanges", c) # {} =>
         \/ \E d \in Req("onchanges", c) : Reconciled[d].changes
         \/ \E a, b \in Req("prereq", c) : pre[a].result = "none" /\ pre[b].result # "none"
    /\ ~IsPrereq(c) => \A d \in Req("prereq", c) : did[d].n = 0

StartsInOrder == [][\A c \in Chunks : Starts(c) => InOrder(c)]_vars

\* the result of chunk c is the one its function returned, in its process if it
\* is parallel; if mod_watch was called in a process, it may be a failure to read
\* a result instead, but never the result of mod_watch
Faithful(c) ==
    did[c].n > 0 /\ ~IsPrereq(c) =>
        running[c].result = did[c].how \/ (c \in unread /\ running[c] = Failed)

\* At the end of a run no chunk has run twice, and if the run was not stopped,
\* every chunk has a result, the one its function returned, except a chunk that
\* was test run for a prereq, when it or the chunk with the prereq is broken;
\* and mod_watch was called for exactly the chunks that listen to a change.
\* (For a parallel chunk that watches a change doc/ref/states/requisites.rst
\* promises the return data of mod_watch, which the code never reads.)
EveryChunkReported ==
    /\ pc = "done" /\ ~Tangled =>
        \A c \in Chunks : did[c].n <= 1
    /\ pc = "done" /\ (\A c \in Chunks : ~check_failhard(c, running)) =>
        /\ ~Tangled => \A c \in Chunks :
            \/ c \in DOMAIN running /\ ~running[c].proc /\ Faithful(c)
            \/ /\ c \in DOMAIN pre
               /\ \E a \in Req("prerequired", c) \cup {c} : Broken(a)
        /\ \A c \in Chunks \ prereq :
            c \in DOMAIN heard <=>
                /\ \E d \in Req("listen", c) \cap DOMAIN running : Reconciled[d].changes
                /\ \A d \in DOMAIN heard : Stops(d, heard[d]) => c <= d

\* Only a prereq makes the recursion endless: one whose target has a result but
\* no test run; one between chunks of which one is broken; several of them; or
\* one on a cycle.  Any other cycle is found and reported.
EndlessOnlyByPrereq ==
    pc = "crashed" /\ ~FAILHARD /\ ~Tangled =>
        \E a \in Chunks : \E b \in Req("prereq", a) \ {Missing} :
            b \in DOMAIN running \ DOMAIN pre \/ Broken(a) \/ Broken(b)

\* After a failure of a chunk with failhard, not one in a process, no chunk
\* runs any more, except one without requisites, when the failure was below
\* the requisites of a requisite.
FailhardStops ==
    [][\A c \in Chunks, d \in sls.failhard \ sls.parallel :
        did[d].how = "false" /\ Starts(c) => FAILHARD /\ ~Present(c)]_vars

\* doc/ref/states/requisites.rst: "The use of require demands that the required
\* state executes before the dependent state."  A state that did not have to
\* run counts as executed.
RequireDemandsExecution ==
    [][\A c \in Chunks : Starts(c) =>
        \A d \in Req("require", c) : did[d].n > 0 \/ running[d].result = "true"]_vars
=============================================================================
