--------------------------- MODULE StateRunProofs ---------------------------
(***************************************************************************)
(* Theorems about the state runtime of a minion, StateRun, for every low   *)
(* data: the types of its variables; that nothing runs after a failure     *)
(* with failhard; that the results of chunks stand, but for those of       *)
(* prereqs; and that the requisites of a chunk come before it.             *)
(***************************************************************************)
EXTENDS StateRun, SequenceTheorems, FiniteSetTheorems, TLAPS

-----------------------------------------------------------------------------
(* The inductive invariant.                                                *)

Stages == {"enter", "requisites", "called", "again"}

FrameType == [chunk : Chunks, stage : Stages, last : Chunks,
              todo : SUBSET ((1 .. 6) \X (Chunks \cup {Missing}))]

\* results of chunks, those of processes among procs
Sound(run, procs) ==
    /\ DOMAIN run \subseteq Chunks
    /\ \A c \in DOMAIN run : run[c] \in Results /\ (run[c].proc => c \in procs)

\* frame f has called call_chunk for chunk c
Calls(f, c) ==
    \/ f.stage = "called" /\ f.last = c
    \/ f.stage = "again" /\ f.chunk = c

\* chunks whose process runs or has ended; and the end of one of them
Procs == alive \cup unread \cup DOMAIN cache
Ends(c) == ProcessEnds(c) \/ ForgottenEnds(c) \/ WatcherEnds(c)

\* chunk c is called for real
Executes(c) == Execute(c, Seen(c), Status(c, Seen(c)) = "change")

\* each activation is called by the next one, the outermost by call_chunks,
\* and none is deeper than the limit
StackOK ==
    /\ stack \in Seq(FrameType)
    /\ Len(stack) <= StackLimit
    /\ stack # <<>> /\ Top.stage # "enter" => Len(stack) < StackLimit
    /\ \A i \in 1 .. Len(stack) - 1 : Calls(stack[i + 1], stack[i].chunk)
    /\ stack # <<>> => calling /\ stack[Len(stack)].chunk = pos
    /\ calling => pos \in Chunks
    /\ pos \in 1 .. N + 1 /\ calling \in BOOLEAN

\* a process that has ended has written its result
ResultsOK ==
    /\ Sound(running, Procs)
    /\ DOMAIN pre \subseteq Chunks /\ \A c \in DOMAIN pre : pre[c] \in Tests
    /\ DOMAIN cache \subseteq Chunks /\ \A c \in DOMAIN cache : cache[c] \in Outcomes
    /\ alive \subseteq sls.parallel \cap Chunks /\ unread \subseteq sls.parallel \cap Chunks
    /\ forgotten \subseteq sls.parallel \cap Chunks
    /\ did \in [Chunks -> [n : Nat, how : {"not", "running", "true", "false"}]]

MarksOK ==
    /\ sls \in Slses
    /\ FAILHARD \in BOOLEAN
    /\ pc \in {"chunks", "listen", "done", "crashed"}
    /\ active \subseteq Chunks /\ prereq \subseteq Chunks /\ prerequired \subseteq Chunks
    /\ DOMAIN heard \subseteq Chunks /\ \A c \in DOMAIN heard : heard[c] \in Outcomes

\* call_chunk has just returned for chunk d, to an activation or to call_chunks
JustCalled(d) ==
    \/ stack = <<>> /\ calling /\ pos = d
    \/ stack # <<>> /\ Calls(Top, d)

\* a failure with failhard is in running for the caller, until it is noticed
FailureNoticed ==
    \A d \in sls.failhard \ sls.parallel :
        did[d].how = "false" =>
            \/ FAILHARD
            \/ pc # "chunks"
            \/ check_failhard(d, running) /\ JustCalled(d)

IInv == StackOK /\ ResultsOK /\ MarksOK /\ FailureNoticed

-----------------------------------------------------------------------------
(* Results that are put in a dictionary.                                   *)

\* A result that is put among sound ones.
LEMMA PutSound ==
    ASSUME NEW run, NEW procs, NEW more, Sound(run, procs), procs \subseteq more,
           NEW c \in Chunks, NEW r \in Results, r.proc => c \in more
    PROVE  Sound(Put(run, c, r), more)
BY DEF Put, Sound

\* What check_requisite leaves in running is sound.
LEMMA SeenSound ==
    ASSUME ResultsOK, NEW c
    PROVE  Sound(Seen(c), Procs) /\ Sound(Reconciled, Procs)
<1>1. \A r \in Outcomes : r \in Results /\ ~r.proc
  BY DEF Results, Outcomes, NoChange, Changed, Failed, Result
<1>2. Sound(Reconciled, Procs)
  BY <1>1 DEF ResultsOK, Sound, Reconciled, Written, Outcomes
<1> QED
  BY <1>2 DEF Seen, ResultsOK

\* A result of a test run that is put in self.pre.
LEMMA PutPre ==
    ASSUME ResultsOK, NEW c \in Chunks, NEW r \in Tests
    PROVE  /\ DOMAIN Put(pre, c, r) \subseteq Chunks
           /\ \A d \in DOMAIN Put(pre, c, r) : Put(pre, c, r)[d] \in Tests
BY DEF Put, ResultsOK

\* Results of chunks that do not run keep what is known of the results.
LEMMA RecordKeepsResults ==
    ASSUME ResultsOK, UNCHANGED <<procVars, sls>>,
           Sound(running', Procs),
           \/ UNCHANGED pre
           \/ \E c \in Chunks, r \in Tests : pre' = Put(pre, c, r)
    PROVE  ResultsOK'
BY PutPre DEF ResultsOK, procVars, Procs

\* What a test run is recorded with.
LEMMA TestRunRecords ==
    ASSUME NEW c \in Chunks, NEW d \in Chunks, NEW watching \in BOOLEAN,
           TestRun(c, d, watching), MarksOK
    PROVE  /\ UNCHANGED procVars
           /\ prereq' \subseteq Chunks
           /\ \E r \in Tests : pre' = Put(pre, d, r)
BY DEF TestRun, Tests, MarksOK

\* What a real call does: it starts a process or two, it calls a function, or it
\* cannot call any.
StartsProcess(c) ==
    /\ c \in sls.parallel /\ running' = Put(Seen(c), c, Started)
    /\ alive' = alive \cup {c} /\ unread' \cup {c} = unread \cup {c}
    /\ forgotten' \subseteq forgotten \cup {c} /\ forgotten \subseteq forgotten'
    /\ forgotten' # forgotten => c \in unread'
    /\ Count(c, "running")

CallsFunction(c, r) ==
    /\ c \notin sls.parallel /\ running' = Put(Seen(c), c, r)
    /\ UNCHANGED <<alive, unread, forgotten>>
    /\ Count(c, r.result)

CannotCall(c) ==
    /\ running' = Put(Seen(c), c, Failed)
    /\ UNCHANGED procVars

LEMMA Executed ==
    ASSUME NEW c, Executes(c)
    PROVE  /\ UNCHANGED <<pre, prereq, cache>>
           /\ StartsProcess(c) \/ CannotCall(c) \/ \E r \in Outcomes : CallsFunction(c, r)
<1> DEFINE watching == Status(c, Seen(c)) = "change"
<1>e. Execute(c, Seen(c), watching)
  BY DEF Executes
<1> HIDE DEF watching
<1>u. UNCHANGED <<pre, prereq, cache>>
  BY <1>e DEF Execute
<1>1. CASE /\ c \in sls.parallel /\ running' = Put(Seen(c), c, Started)
           /\ alive' = alive \cup {c}
           /\ unread' = IF watching THEN unread \cup {c} ELSE unread \ {c}
           /\ forgotten' = IF watching THEN forgotten \cup ({c} \ sls.invalid) ELSE forgotten
           /\ Count(c, "running")
  BY <1>1, <1>u DEF StartsProcess
<1>2. CASE /\ c \notin sls.parallel
           /\ \E r \in Outcomes : running' = Put(Seen(c), c, r) /\ Count(c, r.result)
           /\ UNCHANGED <<alive, unread, forgotten>>
  BY <1>2, <1>u DEF CallsFunction
<1>3. CASE running' = Put(Seen(c), c, Failed) /\ UNCHANGED <<alive, unread, forgotten, did>>
  BY <1>3, <1>u DEF CannotCall, procVars
<1> QED
  BY <1>e, <1>1, <1>2, <1>3 DEF Execute

\* A real call keeps what is known of the results.
LEMMA ExecuteKeepsResults ==
    ASSUME ResultsOK, MarksOK, NEW c \in Chunks, UNCHANGED sls, Executes(c)
    PROVE  /\ ResultsOK'
           /\ \A d \in Chunks \ {c} : did'[d] = did[d]
           /\ c \notin sls.parallel =>
                \/ did' = did
                \/ c \in DOMAIN running' /\ running'[c].result = did'[c].how
<1>t. Sound(Seen(c), Procs)
  BY SeenSound
<1>d. did \in [Chunks -> [n : Nat, how : {"not", "running", "true", "false"}]]
  BY DEF ResultsOK
<1>u. UNCHANGED <<pre, prereq, cache>>
  BY Executed
<1>1. CASE StartsProcess(c)
  <2>1. /\ running' = Put(Seen(c), c, Started) /\ alive' = alive \cup {c}
        /\ did' = [did EXCEPT ![c] = [n |-> @.n + 1, how |-> "running"]]
    BY <1>1 DEF StartsProcess, Count
  <2>2. Sound(running', Procs')
    <3>1. Procs \subseteq Procs' /\ c \in Procs'
      BY <1>1, <1>u DEF StartsProcess, Procs
    <3> QED
      BY <1>t, <2>1, <3>1, PutSound DEF Results
  <2>3. did' \in [Chunks -> [n : Nat, how : {"not", "running", "true", "false"}]]
    BY <1>d, <2>1
  <2>4. /\ alive' \subseteq sls.parallel \cap Chunks /\ unread' \subseteq sls.parallel \cap Chunks
        /\ forgotten' \subseteq sls.parallel \cap Chunks
    BY <1>1 DEF StartsProcess, ResultsOK
  <2>5. ResultsOK'
    BY <1>u, <2>1, <2>2, <2>3, <2>4 DEF ResultsOK
  <2> QED
    BY <1>1, <1>d, <2>1, <2>5 DEF StartsProcess
<1>2. ASSUME NEW r \in Outcomes, CallsFunction(c, r)
      PROVE  /\ ResultsOK' /\ \A d \in Chunks \ {c} : did'[d] = did[d]
             /\ c \in DOMAIN running' /\ running'[c].result = did'[c].how
  <2>1. /\ running' = Put(Seen(c), c, r)
        /\ did' = [did EXCEPT ![c] = [n |-> @.n + 1, how |-> r.result]]
        /\ UNCHANGED <<alive, unread, forgotten, cache>>
    BY <1>2, <1>u DEF CallsFunction, Count
  <2>2. r \in Results /\ ~r.proc
    BY DEF Results, Outcomes, NoChange, Changed, Failed, Result
  <2>3. Sound(running', Procs')
    BY <1>t, <2>1, <2>2, PutSound DEF Procs
  <2>4. did' \in [Chunks -> [n : Nat, how : {"not", "running", "true", "false"}]]
    <3>1. r.result \in {"true", "false"}
      BY DEF Outcomes, NoChange, Changed, Failed, Result
    <3> QED
      BY <1>d, <2>1, <3>1
  <2>5. c \in DOMAIN running' /\ running'[c] = r
    BY <2>1 DEF Put
  <2>6. ResultsOK'
    BY <1>u, <2>1, <2>3, <2>4 DEF ResultsOK
  <2> QED
    BY <1>d, <2>1, <2>5, <2>6
<1>3. CASE CannotCall(c)
  <2>1. running' = Put(Seen(c), c, Failed) /\ UNCHANGED procVars
    BY <1>3 DEF CannotCall
  <2>2. Failed \in Results /\ ~Failed.proc
    BY DEF Results, Outcomes, NoChange, Changed, Failed, Result
  <2>3. Sound(running', Procs)
    BY <1>t, <2>1, <2>2, PutSound
  <2> QED
    BY <1>u, <2>1, <2>3, RecordKeepsResults DEF procVars
<1> QED
  BY <1>1, <1>2, <1>3, Executed

-----------------------------------------------------------------------------
(* The call stack.                                                         *)

\* The stack after an activation has returned.
LEMMA Returned ==
    ASSUME StackOK, stack # <<>>, Return
    PROVE  /\ stack' \in Seq(FrameType)
           /\ Len(stack) \in Nat \ {0} /\ Len(stack') = Len(stack) - 1
           /\ \A i \in 1 .. Len(stack') : stack'[i] = stack[i + 1]
BY HeadTailProperties, EmptySeq DEF StackOK, Return

\* The stack when the innermost activation has gone on.
LEMMA GoneOn ==
    ASSUME StackOK, stack # <<>>, NEW f \in FrameType, GoTo(f)
    PROVE  /\ stack' \in Seq(FrameType)
           /\ Len(stack) \in Nat \ {0} /\ Len(stack') = Len(stack)
           /\ stack'[1] = f
           /\ \A i \in 2 .. Len(stack') : stack'[i] = stack[i]
<1>1. Tail(stack) \in Seq(FrameType) /\ Len(Tail(stack)) = Len(stack) - 1
      /\ \A i \in 1 .. Len(stack) - 1 : Tail(stack)[i] = stack[i + 1]
  BY HeadTailProperties DEF StackOK
<1>2. <<f>> \in Seq(FrameType) /\ Len(<<f>>) = 1 /\ <<f>>[1] = f
  OBVIOUS
<1>3. Len(stack) \in Nat \ {0}
  BY EmptySeq DEF StackOK
<1> QED
  BY <1>1, <1>2, <1>3, ConcatProperties DEF GoTo

\* The stack when the innermost activation has called another one.
LEMMA CalledAnother ==
    ASSUME StackOK, stack # <<>>, NEW f \in FrameType, NEW d \in Chunks, CallOn(d, f)
    PROVE  /\ stack' \in Seq(FrameType)
           /\ Len(stack) \in Nat \ {0} /\ Len(stack') = Len(stack) + 1
           /\ stack'[1] = Frame(d) /\ stack'[2] = f
           /\ \A i \in 3 .. Len(stack') : stack'[i] = stack[i - 1]
<1>0. Frame(d) \in FrameType
  BY DEF Frame, FrameType, Stages
<1>1. Tail(stack) \in Seq(FrameType) /\ Len(Tail(stack)) = Len(stack) - 1
      /\ \A i \in 1 .. Len(stack) - 1 : Tail(stack)[i] = stack[i + 1]
  BY HeadTailProperties DEF StackOK
<1>2. /\ <<Frame(d), f>> \in Seq(FrameType) /\ Len(<<Frame(d), f>>) = 2
      /\ <<Frame(d), f>>[1] = Frame(d) /\ <<Frame(d), f>>[2] = f
  BY <1>0
<1>3. Len(stack) \in Nat \ {0}
  BY EmptySeq DEF StackOK
<1> HIDE DEF Frame
<1> QED
  BY <1>1, <1>2, <1>3, ConcatProperties DEF CallOn

\* An activation that returns, returns to the one that called it.
LEMMA ReturnKeepsStack ==
    ASSUME StackOK, stack # <<>>, Return, UNCHANGED <<pos, calling>>,
           NEW c, c = Top.chunk
    PROVE  StackOK' /\ JustCalled(c)'
<1>1. /\ stack' \in Seq(FrameType) /\ Len(stack') = Len(stack) - 1
      /\ \A i \in 1 .. Len(stack') : stack'[i] = stack[i + 1]
      /\ Len(stack) \in Nat \ {0}
  BY Returned
<1>2. Len(stack') <= StackLimit /\ Len(stack') < StackLimit
  BY <1>1, StateRunAssumption DEF StackOK
<1>3. ASSUME NEW i \in 1 .. Len(stack') - 1
      PROVE  Calls(stack'[i + 1], stack'[i].chunk)
  BY <1>1 DEF StackOK
<1>4. CASE Len(stack) = 1
  <2>1. stack' = <<>>
    BY <1>1, <1>4, EmptySeq
  <2> QED
    BY <1>1, <1>2, <1>3, <1>4, <2>1 DEF StackOK, JustCalled, Top
<1>5. CASE Len(stack) > 1
  <2>1. stack' # <<>> /\ stack'[Len(stack')] = stack[Len(stack)]
    BY <1>1, <1>5, EmptySeq
  <2>2. Calls(stack[2], stack[1].chunk) /\ stack'[1] = stack[2]
    BY <1>1, <1>5 DEF StackOK
  <2> QED
    BY <1>1, <1>2, <1>3, <2>1, <2>2 DEF StackOK, JustCalled, Top
<1> QED
  BY <1>1, <1>4, <1>5

\* The innermost activation goes on.
LEMMA GoToKeepsStack ==
    ASSUME StackOK, stack # <<>>, Len(stack) < StackLimit, UNCHANGED <<pos, calling>>,
           NEW f \in FrameType, f.chunk = Top.chunk, GoTo(f)
    PROVE  StackOK'
<1>1. /\ stack' \in Seq(FrameType) /\ Len(stack') = Len(stack)
      /\ stack'[1] = f
      /\ \A i \in 2 .. Len(stack') : stack'[i] = stack[i]
      /\ Len(stack) \in Nat \ {0}
  BY GoneOn
<1>2. stack' # <<>>
  BY <1>1, EmptySeq
<1>3. \A i \in 1 .. Len(stack') : stack'[i].chunk = stack[i].chunk
  BY <1>1 DEF Top
<1>4. ASSUME NEW i \in 1 .. Len(stack') - 1
      PROVE  Calls(stack'[i + 1], stack'[i].chunk)
  <2>1. stack'[i + 1] = stack[i + 1]
    BY <1>1
  <2> QED
    BY <1>1, <1>3, <2>1 DEF StackOK
<1>5. stack'[Len(stack')].chunk = pos
  BY <1>1, <1>3 DEF StackOK
<1> QED
  BY <1>1, <1>2, <1>4, <1>5 DEF StackOK

\* The innermost activation calls another one.
LEMMA CallOnKeepsStack ==
    ASSUME StackOK, stack # <<>>, Len(stack) < StackLimit, UNCHANGED <<pos, calling>>,
           NEW f \in FrameType, f.chunk = Top.chunk, NEW d \in Chunks, Calls(f, d),
           CallOn(d, f)
    PROVE  StackOK'
<1>0. Frame(d) \in FrameType /\ Frame(d).chunk = d /\ Frame(d).stage = "enter"
  BY DEF Frame, FrameType, Stages
<1>1. /\ stack' \in Seq(FrameType) /\ Len(stack') = Len(stack) + 1
      /\ stack'[1] = Frame(d) /\ stack'[2] = f
      /\ \A i \in 3 .. Len(stack') : stack'[i] = stack[i - 1]
      /\ Len(stack) \in Nat \ {0}
  BY CalledAnother
<1>2. stack' # <<>>
  BY <1>1, EmptySeq
<1>3. \A i \in 2 .. Len(stack') : stack'[i].chunk = stack[i - 1].chunk
  BY <1>1 DEF Top
<1>4. ASSUME NEW i \in 1 .. Len(stack') - 1
      PROVE  Calls(stack'[i + 1], stack'[i].chunk)
  <2>1. CASE i = 1
    BY <1>0, <1>1, <2>1
  <2>2. CASE i > 1
    <3>1. stack'[i + 1] = stack[i] /\ stack'[i].chunk = stack[i - 1].chunk
      BY <1>1, <1>3, <2>2
    <3>2. Calls(stack[(i - 1) + 1], stack[i - 1].chunk)
      BY <1>1, <2>2 DEF StackOK
    <3> QED
      BY <1>1, <3>1, <3>2
  <2> QED
    BY <2>1, <2>2
<1>5. stack'[Len(stack')].chunk = pos
  BY <1>1, <1>3 DEF StackOK
<1>6. Len(stack') <= StackLimit /\ stack'[1].stage = "enter"
  BY <1>0, <1>1, StateRunAssumption
<1>7. UNCHANGED <<pos, calling>> /\ calling
  BY DEF StackOK
<1> QED
  BY <1>1, <1>2, <1>4, <1>5, <1>6, <1>7 DEF StackOK, Top

-----------------------------------------------------------------------------
(* call_chunk.                                                             *)

\* The innermost activation, and that the requisites are chunks.
LEMMA TopType ==
    ASSUME StackOK, stack # <<>>
    PROVE  Top \in FrameType
BY HeadTailProperties, EmptySeq DEF StackOK, Top

\* What an activation does before it knows the status of its requisites.
LEMMA EnterKeeps ==
    ASSUME MarksOK, NEW c \in Chunks, NEW statuses, Enter(c, statuses)
    PROVE  /\ stack # <<>> /\ c = Top.chunk /\ Top.stage = "enter" /\ pc = "chunks"
           /\ Len(stack) < StackLimit
           /\ active' \subseteq Chunks
           /\ UNCHANGED <<sls, pos, calling, pc, heard, FAILHARD>>
BY DEF Enter, At, loopVars, MarksOK

\* What the requisites are told.
LEMMA MarkKeeps ==
    ASSUME MarksOK, NEW c \in Chunks, Mark(c)
    PROVE  prereq' \subseteq Chunks /\ prerequired' \subseteq Chunks
BY DEF Mark, Req, MarksOK

\* While an activation has not called anybody, all failures are noticed.
LEMMA NoticedInside ==
    ASSUME FailureNoticed, pc = "chunks", stack # <<>>,
           Top.stage \in {"enter", "requisites"},
           NEW d \in sls.failhard \ sls.parallel, did[d].how = "false"
    PROVE  FAILHARD
BY DEF FailureNoticed, JustCalled, Calls

\* An activation that runs nothing keeps them noticed.
LEMMA QuietKeepsNoticed ==
    ASSUME FailureNoticed, pc = "chunks", stack # <<>>,
           Top.stage \in {"enter", "requisites"},
           UNCHANGED <<sls, did>>, FAILHARD => FAILHARD'
    PROVE  FailureNoticed'
BY NoticedInside DEF FailureNoticed

\* A result of a chunk that does not run, and the return to its caller.
LEMMA RecordAndReturn ==
    ASSUME IInv, stack # <<>>, Top.stage \in {"enter", "requisites"}, pc = "chunks",
           UNCHANGED <<sls, pos, calling, pc, heard, procVars>>,
           FAILHARD' \in BOOLEAN, FAILHARD => FAILHARD',
           active' \subseteq Chunks, prereq' \subseteq Chunks, prerequired' \subseteq Chunks,
           Sound(running', Procs),
           \/ UNCHANGED pre
           \/ \E c \in Chunks, r \in Tests : pre' = Put(pre, c, r),
           Return
    PROVE  IInv'
<1>1. StackOK'
  BY ReturnKeepsStack DEF IInv
<1>2. ResultsOK'
  BY RecordKeepsResults DEF IInv
<1>3. FailureNoticed'
  BY QuietKeepsNoticed DEF IInv, procVars
<1> QED
  BY <1>1, <1>2, <1>3 DEF IInv, MarksOK

\* An activation that goes on, or calls another one, keeps the invariant.
LEMMA StackOnly ==
    ASSUME IInv, StackOK', stack # <<>>, Top.stage \in {"enter", "requisites"}, pc = "chunks",
           UNCHANGED <<sls, pos, calling, pc, heard, procVars, FAILHARD, pre>>,
           Sound(running', Procs),
           active' \subseteq Chunks, prereq' \subseteq Chunks, prerequired' \subseteq Chunks
    PROVE  IInv'
<1>2. ResultsOK'
  BY RecordKeepsResults DEF IInv
<1>3. FailureNoticed'
  BY QuietKeepsNoticed DEF IInv, procVars
<1> QED
  BY <1>2, <1>3 DEF IInv, MarksOK

\* What the results of the table are.
LEMMA ResultKinds ==
    /\ Failed \in Tests /\ NoChange \in Tests
    /\ \A r \in Tests \cup {NotRun} : r \in Results /\ ~r.proc
BY DEF Results, Tests, Would, NotRun, NoChange, Failed, Result

\* The places of the requisites in the list.
LEMMA TodoType ==
    ASSUME NEW c \in Chunks
    PROVE  UNION {{<<Place[k], d>> : d \in Req(k, c)} : k \in KindsOf(c)}
             \subseteq (1 .. 6) \X (Chunks \cup {Missing})
<1>1. ASSUME NEW k \in KindsOf(c), NEW d \in Req(k, c)
      PROVE  Place[k] \in 1 .. 6 /\ d \in Chunks \cup {Missing}
  <2>1. k \in {"require", "watch", "prereq", "onfail", "onchanges", "prerequired"}
    BY DEF KindsOf, Direct
  <2>2. Place[k] \in 1 .. 6
    BY <2>1 DEF Place
  <2> QED
    BY <2>2 DEF Req
<1> QED
  BY <1>1

\* The steps of an activation that looks at its requisites.
LEMMA EnterStep ==
    ASSUME IInv, NEW c \in Chunks,
           NotFound(c) \/ Unmet(c) \/ Run(c) \/ Fail(c) \/ NoneDetected(c) \/ NotNeeded(c)
    PROVE  IInv'
<1> DEFINE procs == Procs
<1>i. StackOK /\ ResultsOK /\ MarksOK /\ FailureNoticed
  BY DEF IInv
<1>p. prereq \subseteq Chunks /\ prerequired \subseteq Chunks
  BY <1>i DEF MarksOK
<1>s. Sound(Seen(c), procs)
  BY <1>i, SeenSound
<1>r. \A r \in Tests \cup {NotRun} : Sound(Put(Seen(c), c, r), procs)
  BY <1>s, ResultKinds, PutSound
<1>b. FAILHARD \in BOOLEAN
  BY <1>i DEF MarksOK
<1>1. CASE NotFound(c)
  <2>1. prereq' \subseteq Chunks /\ prerequired' \subseteq Chunks
    BY <1>1, <1>i, MarkKeeps DEF NotFound
  <2>2. /\ stack # <<>> /\ Top.stage = "enter" /\ pc = "chunks" /\ active' \subseteq Chunks
        /\ UNCHANGED <<sls, pos, calling, pc, heard, FAILHARD>>
    BY <1>1, <1>i, EnterKeeps DEF NotFound
  <2>3. UNCHANGED procVars /\ Return
    BY <1>1 DEF NotFound
  <2>4. \/ pre' = Put(pre, c, Failed) /\ running' = Seen(c)
        \/ running' = Put(Seen(c), c, Failed) /\ UNCHANGED pre
    BY <1>1 DEF NotFound
  <2>5. Sound(running', procs)
    BY <1>s, <1>r, <2>4, ResultKinds
  <2> QED
    BY <1>b, <2>1, <2>2, <2>3, <2>4, <2>5, ResultKinds, RecordAndReturn
<1>2. CASE Unmet(c)
  <2>1. prereq' \subseteq Chunks /\ prerequired' \subseteq Chunks
    BY <1>2, <1>i, MarkKeeps DEF Unmet
  <2>2. /\ stack # <<>> /\ Top.stage = "enter" /\ pc = "chunks" /\ active' \subseteq Chunks
        /\ c = Top.chunk /\ Len(stack) < StackLimit
        /\ UNCHANGED <<sls, pos, calling, pc, heard, FAILHARD>>
    BY <1>2, <1>i, EnterKeeps DEF Unmet
  <2> DEFINE f == [Top EXCEPT !.stage = "requisites",
                      !.todo = UNION {{<<Place[k], d>> : d \in Req(k, c)} : k \in KindsOf(c)}]
  <2>3. GoTo(f) /\ running' = Seen(c) /\ UNCHANGED <<procVars, pre>>
    BY <1>2 DEF Unmet
  <2>4. f \in FrameType /\ f.chunk = Top.chunk
    BY <1>i, <2>2, TopType, TodoType DEF FrameType, Stages
  <2>5. StackOK'
    <3> HIDE DEF f
    <3> QED
      BY <1>i, <2>2, <2>3, <2>4, GoToKeepsStack
  <2> QED
    BY <1>s, <2>1, <2>2, <2>3, <2>5, StackOnly
<1>3. CASE Run(c)
  <2>2. /\ stack # <<>> /\ Top.stage = "enter" /\ pc = "chunks" /\ active' \subseteq Chunks
        /\ c = Top.chunk
        /\ UNCHANGED <<sls, pos, calling, pc, heard, FAILHARD>>
    BY <1>3, <1>i, EnterKeeps DEF Run, Executes
  <2>3. Return /\ UNCHANGED prerequired
    BY <1>3 DEF Run, Executes
  <2>4. CASE c \in prereq
    <3>1. TestRun(c, c, FALSE) /\ running' = Seen(c)
      BY <1>3, <2>4 DEF Run, Executes
    <3>2. UNCHANGED procVars /\ prereq' \subseteq Chunks /\ \E r \in Tests : pre' = Put(pre, c, r)
      BY <1>i, <3>1, TestRunRecords
    <3> QED
      BY <1>b, <1>p, <1>s, <2>2, <2>3, <3>1, <3>2, RecordAndReturn
  <2>5. CASE c \notin prereq
    <3>1. Executes(c)
      BY <1>3, <2>5 DEF Run, Executes
    <3>2. /\ ResultsOK'
          /\ \A d \in Chunks \ {c} : did'[d] = did[d]
          /\ c \notin sls.parallel =>
               \/ did' = did
               \/ c \in DOMAIN running' /\ running'[c].result = did'[c].how
      BY <1>i, <2>2, <3>1, ExecuteKeepsResults
    <3>3. StackOK' /\ JustCalled(c)'
      BY <1>i, <2>2, <2>3, ReturnKeepsStack
    <3>4. FailureNoticed'
      <4>1. ASSUME NEW d \in sls.failhard \ sls.parallel, did'[d].how = "false"
            PROVE  FAILHARD \/ (check_failhard(d, running) /\ JustCalled(d))'
        <5>0. d \in Chunks
          BY <1>i, StateRunAssumption DEF MarksOK
        <5>1. CASE did[d].how = "false"
          BY <1>i, <2>2, <5>1, NoticedInside
        <5>2. CASE did[d].how # "false"
          <6>1. d = c /\ did' # did
            BY <3>2, <4>1, <5>0, <5>2
          <6>2. c \in DOMAIN running' /\ running'[c].result = "false"
            BY <3>2, <4>1, <6>1
          <6> QED
            BY <2>2, <3>3, <6>1, <6>2 DEF check_failhard
        <5> QED
          BY <5>1, <5>2
      <4> QED
        BY <2>2, <4>1 DEF FailureNoticed
    <3>5. MarksOK'
      BY <1>i, <2>2, <2>3, <3>1 DEF MarksOK, Executes, Execute
    <3> QED
      BY <3>2, <3>3, <3>4, <3>5 DEF IInv
  <2> QED
    BY <2>4, <2>5
<1>4. CASE Fail(c)
  <2>2. /\ stack # <<>> /\ Top.stage = "enter" /\ pc = "chunks" /\ active' \subseteq Chunks
        /\ UNCHANGED <<sls, pos, calling, pc, heard, FAILHARD>>
    BY <1>4, <1>i, EnterKeeps DEF Fail
  <2>3. UNCHANGED <<procVars, prereq, prerequired>> /\ Return
    BY <1>4 DEF Fail
  <2>4. \/ c \in DOMAIN pre /\ running' = Put(Seen(c), c, pre[c]) /\ UNCHANGED pre
        \/ running' = Put(Seen(c), c, Failed) /\ pre' = Put(pre, c, Failed)
    BY <1>4 DEF Fail
  <2>5. c \in DOMAIN pre => pre[c] \in Tests
    BY <1>i DEF ResultsOK
  <2>6. Sound(running', procs)
    BY <1>r, <2>4, <2>5, ResultKinds
  <2> QED
    BY <1>b, <1>p, <2>2, <2>3, <2>4, <2>6, ResultKinds, RecordAndReturn
<1>5. CASE NoneDetected(c)
  <2>2. /\ stack # <<>> /\ Top.stage = "enter" /\ pc = "chunks" /\ active' \subseteq Chunks
        /\ UNCHANGED <<sls, pos, calling, pc, heard, FAILHARD>>
    BY <1>5, <1>i, EnterKeeps DEF NoneDetected
  <2>3. UNCHANGED <<procVars, prereq, prerequired>> /\ Return
    BY <1>5 DEF NoneDetected
  <2>4. running' = Put(Seen(c), c, NoChange) /\ pre' = Put(pre, c, NoChange)
    BY <1>5 DEF NoneDetected
  <2>6. Sound(running', procs)
    BY <1>r, <2>4, ResultKinds
  <2> QED
    BY <1>b, <1>p, <2>2, <2>3, <2>4, <2>6, ResultKinds, RecordAndReturn
<1>6. CASE NotNeeded(c)
  <2>2. /\ stack # <<>> /\ Top.stage = "enter" /\ pc = "chunks" /\ active' \subseteq Chunks
        /\ UNCHANGED <<sls, pos, calling, pc, heard, FAILHARD>>
    BY <1>6, <1>i, EnterKeeps DEF NotNeeded
  <2>3. UNCHANGED <<procVars, pre, prereq, prerequired>> /\ Return
    BY <1>6 DEF NotNeeded
  <2>6. Sound(running', procs)
    BY <1>6, <1>r DEF NotNeeded
  <2> QED
    BY <1>b, <1>p, <2>2, <2>3, <2>6, RecordAndReturn
<1> QED
  BY <1>1, <1>2, <1>3, <1>4, <1>5, <1>6

\* The steps of an activation that calls its requisites.
LEMMA RequisiteStep ==
    ASSUME IInv, NEW c \in Chunks,
           \/ Again(c) \/ Test(c)
           \/ \E t \in (1 .. 6) \X Chunks : HasRun(c, t) \/ Descend(c, t) \/ Recursive(c, t)
    PROVE  IInv'
<1> DEFINE procs == Procs
<1>i. StackOK /\ ResultsOK /\ MarksOK /\ FailureNoticed
  BY DEF IInv
<1>p. active \subseteq Chunks /\ prereq \subseteq Chunks /\ prerequired \subseteq Chunks
      /\ FAILHARD \in BOOLEAN
  BY <1>i DEF MarksOK
<1>s. Sound(Seen(c), procs) /\ Sound(running, procs)
  BY <1>i, SeenSound DEF ResultsOK
<1>a. stack # <<>> /\ Top.stage = "requisites" /\ c = Top.chunk /\ pc = "chunks"
  BY DEF Again, Test, HasRun, Descend, Recursive, NextRequisite, At
<1>b. Len(stack) < StackLimit /\ Top \in FrameType
  BY <1>a, <1>i, TopType DEF StackOK
<1>1. CASE Again(c)
  <2> DEFINE f == [Top EXCEPT !.stage = "again"]
  <2>1. CallOn(c, f) /\ UNCHANGED <<loopVars, resVars, markVars, procVars>>
    BY <1>1 DEF Again
  <2>2. f \in FrameType /\ f.chunk = Top.chunk /\ Calls(f, c)
    BY <1>a, <1>b DEF FrameType, Stages, Calls
  <2>3. UNCHANGED <<pos, calling>>
    BY <2>1 DEF loopVars
  <2>4. StackOK'
    <3> HIDE DEF f
    <3> QED
      BY <1>a, <1>b, <1>i, <2>1, <2>2, <2>3, CallOnKeepsStack
  <2> QED
    BY <1>a, <1>p, <1>s, <2>1, <2>4, StackOnly DEF loopVars, resVars, markVars
<1>2. CASE Test(c)
  <2>1. /\ running' = Seen(c) /\ Return
        /\ UNCHANGED <<loopVars, active, prerequired>>
        /\ FAILHARD' \in BOOLEAN /\ (FAILHARD => FAILHARD')
    BY <1>2, <1>p DEF Test, check_failhard
  <2>2. TestRun(c, c, Status(c, Seen(c)) = "change")
    BY <1>2 DEF Test
  <2>3. UNCHANGED procVars /\ prereq' \subseteq Chunks /\ \E r \in Tests : pre' = Put(pre, c, r)
    BY <1>i, <2>2, TestRunRecords
  <2> QED
    BY <1>a, <1>p, <1>s, <2>1, <2>3, RecordAndReturn DEF loopVars
<1>3. ASSUME NEW t \in (1 .. 6) \X Chunks, HasRun(c, t) \/ Descend(c, t)
      PROVE  IInv'
  <2>1. UNCHANGED <<loopVars, resVars, markVars, procVars>>
    BY <1>3 DEF HasRun, Descend
  <2>2. UNCHANGED <<pos, calling>>
    BY <2>1 DEF loopVars
  <2>3. t[2] \in Chunks
    OBVIOUS
  <2> DEFINE g == [Without(t) EXCEPT !.stage = "called"]
  <2>4. /\ Without(t) \in FrameType /\ Without(t).chunk = Top.chunk
        /\ g \in FrameType /\ g.chunk = Top.chunk /\ Calls(g, t[2])
    BY <1>b, <2>3 DEF Without, FrameType, Stages, Calls
  <2>5. CASE HasRun(c, t)
    <3>1. GoTo(Without(t))
      BY <2>5 DEF HasRun
    <3> QED
      BY <1>a, <1>b, <1>i, <1>p, <1>s, <2>1, <2>2, <2>4, <3>1, GoToKeepsStack, StackOnly
      DEF loopVars, resVars, markVars
  <2>6. CASE Descend(c, t)
    <3>1. CallOn(t[2], g)
      BY <2>6 DEF Descend
    <3>2. StackOK'
      <4> HIDE DEF g
      <4> QED
        BY <1>a, <1>b, <1>i, <2>2, <2>3, <2>4, <3>1, CallOnKeepsStack
    <3> QED
      BY <1>a, <1>p, <1>s, <2>1, <3>2, StackOnly DEF loopVars, resVars, markVars
  <2> QED
    BY <1>3, <2>5, <2>6
<1>4. ASSUME NEW t \in (1 .. 6) \X Chunks, Recursive(c, t)
      PROVE  IInv'
  <2>1. Return /\ UNCHANGED <<loopVars, FAILHARD, active, prerequired>> /\ t[2] \in Chunks
    BY <1>4 DEF Recursive
  <2>2. /\ UNCHANGED procVars /\ prereq' \subseteq Chunks
        /\ Sound(running', procs)
        /\ UNCHANGED pre \/ \E d \in Chunks, r \in Tests : pre' = Put(pre, d, r)
    <3>1. CASE running' = Put(running, c, Failed) /\ UNCHANGED <<pre, prereq, procVars>>
      BY <1>p, <1>s, <3>1, ResultKinds, PutSound
    <3>2. CASE TestRun(c, t[2], FALSE) /\ UNCHANGED running
      BY <1>i, <1>s, <2>1, <3>2, TestRunRecords
    <3>3. CASE UNCHANGED <<running, pre, prereq, procVars>>
      BY <1>p, <1>s, <3>3
    <3> QED
      BY <1>4, <3>1, <3>2, <3>3 DEF Recursive
  <2> QED
    BY <1>a, <1>p, <2>1, <2>2, RecordAndReturn DEF loopVars
<1> QED
  BY <1>1, <1>2, <1>3, <1>4

\* An activation that is back from a call either stops with it or lets the
\* failure be noticed by its own caller.
LEMMA BackStep ==
    ASSUME IInv, NEW c \in Chunks, Called(c) \/ Ran(c)
    PROVE  IInv'
<1>i. StackOK /\ ResultsOK /\ MarksOK /\ FailureNoticed
  BY DEF IInv
<1>a. /\ stack # <<>> /\ Top.stage \in {"called", "again"} /\ c = Top.chunk /\ pc = "chunks"
      /\ UNCHANGED <<loopVars, running, pre, markVars, procVars>>
  BY DEF Called, Ran, At
<1>b. Len(stack) < StackLimit /\ Top \in FrameType
  BY <1>a, <1>i, TopType DEF StackOK
<1>c. UNCHANGED <<pos, calling, sls, pc, did>>
  BY <1>a DEF loopVars, procVars
<1>d. FAILHARD' \in BOOLEAN /\ (FAILHARD => FAILHARD')
  BY <1>i DEF Called, Ran, check_failhard, MarksOK
<1>1. StackOK'
  <2> DEFINE f == [Top EXCEPT !.stage = "requisites"]
  <2>1. f \in FrameType /\ f.chunk = Top.chunk
    BY <1>b DEF FrameType, Stages
  <2>2. Return \/ GoTo(f)
    BY DEF Called, Ran
  <2> HIDE DEF f
  <2> QED
    BY <1>a, <1>b, <1>c, <1>i, <2>1, <2>2, ReturnKeepsStack, GoToKeepsStack
<1>2. FailureNoticed'
  <2>1. ASSUME NEW d \in sls.failhard \ sls.parallel, did[d].how = "false", ~FAILHARD'
        PROVE  (check_failhard(d, running) /\ JustCalled(d))'
    <3>1. check_failhard(d, running) /\ Calls(Top, d)
      BY <1>a, <1>d, <1>i, <2>1 DEF FailureNoticed, JustCalled
    <3>2. CASE Called(c)
      <4>1. Top.stage = "called" /\ Top.last = d
        BY <3>1, <3>2 DEF Called, At, Calls
      <4> QED
        BY <2>1, <3>1, <3>2, <4>1 DEF Called
    <3>3. CASE Ran(c)
      <4>1. d = Top.chunk /\ Return
        BY <3>1, <3>3 DEF Ran, At, Calls
      <4>2. JustCalled(d)'
        BY <1>a, <1>c, <1>i, <4>1, ReturnKeepsStack
      <4> QED
        BY <1>a, <1>c, <3>1, <4>2 DEF check_failhard
    <3> QED
      BY <3>2, <3>3
  <2> QED
    BY <1>c, <2>1 DEF FailureNoticed
<1>3. ResultsOK'
  BY <1>a, <1>i DEF ResultsOK, loopVars, procVars, Procs
<1>4. MarksOK'
  BY <1>a, <1>d, <1>i DEF MarksOK, loopVars, markVars
<1> QED
  BY <1>1, <1>2, <1>3, <1>4 DEF IInv

-----------------------------------------------------------------------------
(* call_chunks and what comes after it.                                    *)

\* The steps of call_chunks.
LEMMA LoopStep ==
    ASSUME IInv, CallChunk \/ SkipChunk \/ EndOfCall \/ FailHard \/ Finish
    PROVE  IInv'
<1>i. StackOK /\ ResultsOK /\ MarksOK /\ FailureNoticed
  BY DEF IInv
<1>a. stack = <<>> /\ pc = "chunks" /\ UNCHANGED <<sls, pre, procVars, heard>>
  BY DEF CallChunk, SkipChunk, EndOfCall, FailHard, Finish, InLoop, procVars, resVars
<1>b. Len(<<>>) = 0 /\ <<>> \in Seq(FrameType) /\ N \in Nat /\ StackLimit \in Nat \ {0}
  BY StateRunAssumption
<1>1. StackOK'
  <2>1. CASE CallChunk
    <3> DEFINE f == Frame(pos)
    <3>1. f \in FrameType /\ f.chunk = pos /\ f.stage = "enter"
      BY <2>1 DEF CallChunk, InLoop, Frame, FrameType, Stages
    <3>2. stack' = <<f>> /\ calling' /\ calling' \in BOOLEAN /\ pos' = pos /\ pos \in Chunks
      BY <2>1 DEF CallChunk, InLoop
    <3> HIDE DEF f
    <3> QED
      BY <1>b, <1>i, <3>1, <3>2 DEF StackOK, Top
  <2>2. CASE SkipChunk \/ EndOfCall
    <3>1. stack' = stack /\ ~calling' /\ calling' \in BOOLEAN
      <4>1. CASE SkipChunk
        <5>1. UNCHANGED <<stack, calling>> /\ ~calling
          BY <4>1 DEF SkipChunk, InLoop
        <5>2. calling \in BOOLEAN
          BY <1>i DEF StackOK
        <5> QED
          BY <5>1, <5>2
      <4>2. CASE EndOfCall
        BY <4>2 DEF EndOfCall
      <4> QED
        BY <2>2, <4>1, <4>2
    <3>2. pos \in Chunks /\ pos' \in {pos, pos + 1}
      BY <1>i, <2>2 DEF SkipChunk, EndOfCall, InLoop, StackOK
    <3> QED
      BY <1>a, <1>b, <1>i, <3>1, <3>2 DEF StackOK, Chunks
  <2>3. CASE FailHard \/ Finish
    <3>1. UNCHANGED <<stack, pos, calling>>
      BY <2>3 DEF FailHard, Finish
    <3> QED
      BY <1>i, <3>1 DEF StackOK, Top
  <2> QED
    BY <2>1, <2>2, <2>3
<1>2. ResultsOK'
  <2>1. Sound(running', Procs)
    BY <1>i, SeenSound
    DEF CallChunk, SkipChunk, EndOfCall, FailHard, Finish, resVars, ResultsOK
  <2> QED
    BY <1>a, <1>i, <2>1 DEF ResultsOK, procVars, Procs
<1>3. MarksOK'
  BY <1>a, <1>i
  DEF MarksOK, CallChunk, SkipChunk, EndOfCall, FailHard, Finish, resVars, markVars
<1>d. UNCHANGED <<sls, did>>
  BY <1>a DEF procVars
<1>4. FailureNoticed'
  <2>1. CASE CallChunk \/ SkipChunk
    <3>1. ~FAILHARD /\ ~calling /\ ~FAILHARD'
      BY <2>1 DEF CallChunk, SkipChunk, InLoop, resVars
    <3>2. \A d \in sls.failhard \ sls.parallel : did[d].how # "false"
      BY <1>a, <1>d, <1>i, <3>1 DEF FailureNoticed, JustCalled
    <3> QED
      BY <1>d, <3>2 DEF FailureNoticed
  <2>2. CASE EndOfCall
    <3>1. UNCHANGED <<FAILHARD, running>>
      BY <2>2 DEF EndOfCall, resVars
    <3>2. CASE check_failhard(pos, running)
      BY <2>2, <3>2 DEF EndOfCall, FailureNoticed
    <3>3. CASE ~check_failhard(pos, running)
      <4>1. \A d \in sls.failhard \ sls.parallel : did[d].how = "false" => FAILHARD
        BY <1>a, <1>i, <3>3 DEF FailureNoticed, JustCalled
      <4> QED
        BY <1>d, <3>1, <4>1 DEF FailureNoticed
    <3> QED
      BY <3>2, <3>3
  <2>3. CASE FailHard \/ Finish
    BY <2>3 DEF FailHard, Finish, FailureNoticed
  <2> QED
    BY <2>1, <2>2, <2>3
<1> QED
  BY <1>1, <1>2, <1>3, <1>4 DEF IInv

\* The steps after call_chunks, and the exceptions.
LEMMA EndStep ==
    ASSUME IInv,
           (\E c \in Chunks : Listen(c)) \/ EndListen \/ AttributeError \/ RecursionError
    PROVE  IInv'
<1>i. StackOK /\ ResultsOK /\ MarksOK /\ FailureNoticed
  BY DEF IInv
<1>1. UNCHANGED <<sls, pos, calling, stack, resVars, markVars, procVars>> /\ pc' # "chunks"
  BY DEF Listen, EndListen, AttributeError, RecursionError
<1>2. DOMAIN heard' \subseteq Chunks /\ \A c \in DOMAIN heard' : heard'[c] \in Outcomes
  <2>1. DOMAIN heard \subseteq Chunks /\ \A c \in DOMAIN heard : heard[c] \in Outcomes
    BY <1>i DEF MarksOK
  <2>2. CASE UNCHANGED heard
    BY <2>1, <2>2
  <2>3. ASSUME NEW c \in Chunks, NEW r \in Outcomes, heard' = Put(heard, c, r)
        PROVE  DOMAIN heard' \subseteq Chunks /\ \A d \in DOMAIN heard' : heard'[d] \in Outcomes
    BY <2>1, <2>3 DEF Put
  <2> QED
    BY <2>2, <2>3 DEF Listen, EndListen, AttributeError, RecursionError
<1>3. pc' \in {"chunks", "listen", "done", "crashed"}
  BY <1>i DEF Listen, EndListen, AttributeError, RecursionError, MarksOK
<1>4. StackOK' /\ ResultsOK'
  BY <1>1, <1>i DEF StackOK, ResultsOK, Top, resVars, procVars, Sound, Procs
<1>5. MarksOK' /\ FailureNoticed'
  BY <1>1, <1>2, <1>3, <1>i DEF MarksOK, FailureNoticed, resVars, markVars
<1> QED
  BY <1>4, <1>5 DEF IInv

\* What the end of a process does: it writes a result for its chunk, or, when it
\* is one of mod_watch, nothing.
LEMMA ProcessEnded ==
    ASSUME NEW c, Ends(c)
    PROVE  /\ UNCHANGED <<loopVars, resVars, markVars, stack, unread>>
           /\ alive' \subseteq alive /\ alive \ {c} \subseteq alive'
           /\ forgotten' \subseteq forgotten /\ forgotten \ {c} \subseteq forgotten'
           /\ c \in alive \cup forgotten
           /\ \/ \E r \in Outcomes : /\ cache' = Put(cache, c, r)
                                     /\ did' = [did EXCEPT ![c].how = r.result]
              \/ c \in unread /\ UNCHANGED <<cache, did, forgotten>>
           /\ c \in alive' \/ c \in unread \/ c \in DOMAIN cache'
BY DEF Ends, ProcessEnds, ForgottenEnds, WatcherEnds, Writes, Put

\* It touches no other chunk, and no count.
LEMMA EndTouches ==
    ASSUME ResultsOK, NEW d \in Chunks, Ends(d), NEW c \in Chunks
    PROVE  /\ did'[c].n = did[c].n
           /\ c # d => /\ did'[c] = did[c]
                       /\ c \in DOMAIN cache' <=> c \in DOMAIN cache
                       /\ c \in DOMAIN cache => cache'[c] = cache[c]
<1>t. did \in [Chunks -> [n : Nat, how : {"not", "running", "true", "false"}]]
  BY DEF ResultsOK
<1>1. CASE UNCHANGED <<cache, did>>
  BY <1>1
<1>2. ASSUME NEW r \in Outcomes, cache' = Put(cache, d, r), did' = [did EXCEPT ![d].how = r.result]
      PROVE  /\ did'[c].n = did[c].n
             /\ c # d => /\ did'[c] = did[c]
                         /\ c \in DOMAIN cache' <=> c \in DOMAIN cache
                         /\ c \in DOMAIN cache => cache'[c] = cache[c]
  BY <1>t, <1>2 DEF Put
<1> QED
  BY <1>1, <1>2, ProcessEnded

\* The end of a process: it is not one of a chunk that is called here.
LEMMA ProcessStep ==
    ASSUME IInv, NEW c \in Chunks, Ends(c)
    PROVE  IInv'
<1>i. StackOK /\ ResultsOK /\ MarksOK /\ FailureNoticed
  BY DEF IInv
<1>2. /\ UNCHANGED <<loopVars, resVars, markVars, stack, unread>>
      /\ alive' \subseteq alive /\ alive \ {c} \subseteq alive' /\ forgotten' \subseteq forgotten
      /\ c \in sls.parallel /\ UNCHANGED sls
      /\ c \in alive' \/ c \in unread \/ c \in DOMAIN cache'
  BY <1>i, ProcessEnded DEF ResultsOK, loopVars
<1>o. /\ DOMAIN cache \subseteq DOMAIN cache' /\ DOMAIN cache' \subseteq Chunks
      /\ \A d \in DOMAIN cache' : cache'[d] \in Outcomes
      /\ did' \in [Chunks -> [n : Nat, how : {"not", "running", "true", "false"}]]
      /\ \A d \in Chunks \ {c} : did'[d] = did[d]
  <2>1. CASE UNCHANGED <<cache, did>>
    BY <2>1, <1>i DEF ResultsOK
  <2>2. ASSUME NEW r \in Outcomes, cache' = Put(cache, c, r), did' = [did EXCEPT ![c].how = r.result]
        PROVE  /\ DOMAIN cache \subseteq DOMAIN cache' /\ DOMAIN cache' \subseteq Chunks
               /\ \A d \in DOMAIN cache' : cache'[d] \in Outcomes
               /\ did' \in [Chunks -> [n : Nat, how : {"not", "running", "true", "false"}]]
               /\ \A d \in Chunks \ {c} : did'[d] = did[d]
    <3>1. r.result \in {"true", "false"}
      BY DEF Outcomes, NoChange, Changed, Failed, Result
    <3>2. did \in [Chunks -> [n : Nat, how : {"not", "running", "true", "false"}]]
      BY <1>i DEF ResultsOK
    <3>3. /\ did' \in [Chunks -> [n : Nat, how : {"not", "running", "true", "false"}]]
          /\ \A d \in Chunks \ {c} : did'[d] = did[d]
      BY <2>2, <3>1, <3>2
    <3>4. DOMAIN cache \subseteq Chunks /\ \A d \in DOMAIN cache : cache[d] \in Outcomes
      BY <1>i DEF ResultsOK
    <3> QED
      BY <2>2, <3>3, <3>4 DEF Put
  <2> QED
    BY <2>1, <2>2, ProcessEnded
<1>3. ResultsOK'
  <2>1. Procs \subseteq Procs'
    BY <1>2, <1>o DEF Procs
  <2>2. Sound(running', Procs')
    BY <1>2, <1>i, <2>1 DEF ResultsOK, Sound, resVars
  <2> QED
    BY <1>2, <1>i, <1>o, <2>2 DEF ResultsOK, resVars, loopVars
<1>4. FailureNoticed'
  <2>2. sls.failhard \subseteq Chunks
    BY <1>i, StateRunAssumption DEF MarksOK
  <2> QED
    BY <1>2, <1>i, <1>o, <2>2
    DEF FailureNoticed, JustCalled, check_failhard, Top, loopVars, resVars
<1>5. StackOK' /\ MarksOK'
  BY <1>2, <1>i DEF StackOK, MarksOK, Top, loopVars, resVars, markVars
<1> QED
  BY <1>3, <1>4, <1>5 DEF IInv

-----------------------------------------------------------------------------
(* The theorems.                                                           *)

\* Nothing has run at the beginning.
LEMMA InitIInv == Init => IInv
<1> SUFFICES ASSUME Init PROVE IInv
  OBVIOUS
<1>1. StackOK
  <2>1. stack = <<>> /\ pos = 1 /\ ~calling /\ calling \in BOOLEAN
    BY DEF Init
  <2>2. Len(<<>>) = 0 /\ <<>> \in Seq(FrameType) /\ N \in Nat \ {0} /\ StackLimit \in Nat \ {0}
    BY StateRunAssumption
  <2> QED
    BY <2>1, <2>2 DEF StackOK
<1>2. ResultsOK
  BY DEF Init, ResultsOK, Sound
<1>3. MarksOK
  <2>1. DOMAIN heard = {}
    BY DEF Init
  <2> QED
    BY <2>1 DEF Init, MarksOK
<1>4. FailureNoticed
  BY <1>3, StateRunAssumption DEF Init, FailureNoticed, MarksOK
<1> QED
  BY <1>1, <1>2, <1>3, <1>4 DEF IInv

\* Every step keeps the invariant.
LEMMA NextIInv == IInv /\ [Next]_vars => IInv'
<1> SUFFICES ASSUME IInv, [Next]_vars PROVE IInv'
  OBVIOUS
<1>1. CASE Step
  BY <1>1, EnterStep, RequisiteStep, BackStep, LoopStep, EndStep DEF Step
<1>2. CASE \E c \in Chunks : Ends(c)
  BY <1>2, ProcessStep
<1>3. CASE UNCHANGED vars
  BY <1>3
  DEF IInv, StackOK, ResultsOK, MarksOK, FailureNoticed, JustCalled, check_failhard, Top,
      Procs, vars, loopVars, markVars, procVars, resVars
<1> QED
  BY <1>1, <1>2, <1>3 DEF Next, Ends, Ended

\* The invariant holds in every state of a run.
LEMMA Invariant == Spec => []IInv
BY InitIInv, NextIInv, PTL DEF Spec

\* The variables of a run have their types: what is on the call stack, above
\* all, never exceeds the recursion limit, and a result in running is that of
\* a call, a test run or a process (State.call_chunk).
THEOREM TypesOfRun == Spec => []TypeOK
<1>1. IInv => TypeOK
  BY DEF IInv, StackOK, ResultsOK, MarksOK, Sound, TypeOK, Procs
<1> QED
  BY <1>1, Invariant, PTL

\* Only call_chunk itself really runs a chunk.
LEMMA OnlyRunStarts ==
    ASSUME IInv, [Next]_vars, NEW c \in Chunks, Starts(c)
    PROVE  Run(c)
<1>n. did \in [Chunks -> [n : Nat, how : {"not", "running", "true", "false"}]]
  BY DEF IInv, ResultsOK
<1>1. did' # did
  BY <1>n DEF Starts
<1>2. ASSUME NEW d \in Chunks, Ends(d) PROVE FALSE
  BY <1>2, <1>n DEF Ends, ProcessEnds, ForgottenEnds, WatcherEnds, Writes, Starts
<1>3. ASSUME NEW d \in Chunks, Run(d), d # c PROVE FALSE
  <2>1. CASE d \in prereq
    BY <1>1, <1>3, <2>1 DEF Run, TestRun, procVars
  <2>2. CASE d \notin prereq
    BY <1>3, <1>n, <2>2 DEF Run, Executes, Execute, Count, Starts
  <2> QED
    BY <2>1, <2>2
<1>4. ASSUME NEW d \in Chunks,
             \/ NotFound(d) \/ Unmet(d) \/ Fail(d) \/ NoneDetected(d) \/ NotNeeded(d)
             \/ Called(d) \/ Again(d) \/ Test(d) \/ Ran(d) \/ Listen(d)
             \/ \E t \in (1 .. 6) \X Chunks : HasRun(d, t) \/ Descend(d, t) \/ Recursive(d, t)
      PROVE  UNCHANGED did
  BY <1>4
  DEF NotFound, Unmet, Fail, NoneDetected, NotNeeded, Called, Again, Test, Ran, Listen,
      HasRun, Descend, Recursive, TestRun, procVars
<1>5. CASE CallChunk \/ SkipChunk \/ EndOfCall \/ FailHard \/ Finish \/ EndListen
           \/ AttributeError \/ RecursionError \/ UNCHANGED vars
  BY <1>1, <1>5
  DEF CallChunk, SkipChunk, EndOfCall, FailHard, Finish, EndListen, AttributeError,
      RecursionError, vars, procVars
<1> QED
  BY <1>1, <1>2, <1>3, <1>4, <1>5 DEF Next, Ends, Step, Ended

\* After a failure of a chunk with failhard, not one in a process, no chunk
\* runs any more, except one without requisites, when the failure was below
\* the requisites of a requisite (State.check_failhard, State.call_chunks).
THEOREM FailhardIsObeyed == Spec => FailhardStops
<1>1. ASSUME IInv, [Next]_vars, NEW c \in Chunks, NEW d \in sls.failhard \ sls.parallel,
             did[d].how = "false", Starts(c)
      PROVE  FAILHARD /\ ~Present(c)
  <2>1. \E statuses : Enter(c, statuses)
    BY <1>1, OnlyRunStarts DEF Run, Executes
  <2>2. pc = "chunks" /\ stack # <<>> /\ Top.stage = "enter" /\ Checked(c)
    BY <2>1 DEF Enter, At
  <2>3. FAILHARD
    BY <1>1, <2>2, NoticedInside DEF IInv
  <2> QED
    BY <2>2, <2>3 DEF Checked
<1>2. IInv /\ [Next]_vars =>
        [\A c \in Chunks, d \in sls.failhard \ sls.parallel :
            did[d].how = "false" /\ Starts(c) => FAILHARD /\ ~Present(c)]_vars
  BY <1>1
<1> QED
  BY <1>2, Invariant, PTL DEF Spec, FailhardStops

-----------------------------------------------------------------------------
(* Chunks that are no prereq of another one.  While call_chunk is in such a *)
(* chunk, the chunk is in active, so no requisite calls it again: only the *)
(* chunk itself does, after its requisites.                                *)

\* chunks are only marked when there is a prereq.  (A chunk that is no prereq
\* is marked as well, when it requires the one that it is called for.)
SomePrereq        == \E c \in Chunks : IsPrereq(c)
OnlyPrereqsMarked == prereq \cup prerequired # {} => SomePrereq

\* the activations that have looked at their requisites are in active
Noted ==
    \A i \in 1 .. Len(stack) :
        stack[i].stage # "enter" /\ ~IsPrereq(stack[i].chunk) => stack[i].chunk \in active

\* of the activations of one chunk only the innermost has still to give a result
Alone ==
    \A i, j \in 1 .. Len(stack) :
        i < j /\ stack[i].chunk = stack[j].chunk /\ ~IsPrereq(stack[i].chunk) =>
            stack[j].stage = "again"

\* and while it has, there is none
Fresh ==
    \A i \in 1 .. Len(stack) :
        stack[i].stage # "again" /\ ~IsPrereq(stack[i].chunk) =>
            stack[i].chunk \notin DOMAIN running

ActiveInv == OnlyPrereqsMarked /\ Noted /\ Alone /\ Fresh

\* An activation may give its chunk a result when it returns.
LEMMA ReturnKeepsActive ==
    ASSUME StackOK, ActiveInv, stack # <<>>, Return, UNCHANGED sls,
           DOMAIN running' \subseteq DOMAIN running \cup {Top.chunk},
           active \subseteq active',
           prereq' \cup prerequired' # {} => SomePrereq
    PROVE  ActiveInv'
<1>1. \A c : IsPrereq(c)' <=> IsPrereq(c)
  BY DEF IsPrereq, Req
<1>2. /\ Len(stack) \in Nat \ {0} /\ Len(stack') = Len(stack) - 1
      /\ \A i \in 1 .. Len(stack') : stack'[i] = stack[i + 1]
  BY Returned
<1>3. OnlyPrereqsMarked'
  BY <1>1 DEF OnlyPrereqsMarked, SomePrereq
<1>4. Noted'
  BY <1>1, <1>2 DEF ActiveInv, Noted
<1>5. ASSUME NEW i \in 1 .. Len(stack'), NEW j \in 1 .. Len(stack'), i < j,
             stack'[i].chunk = stack'[j].chunk, ~IsPrereq(stack'[i].chunk)
      PROVE  stack'[j].stage = "again"
  <2>1. /\ i + 1 \in 1 .. Len(stack) /\ stack'[i] = stack[i + 1]
        /\ j + 1 \in 1 .. Len(stack) /\ stack'[j] = stack[j + 1]
        /\ i + 1 < j + 1
    BY <1>2, <1>5
  <2> QED
    BY <1>5, <2>1 DEF ActiveInv, Alone
<1>6. ASSUME NEW i \in 1 .. Len(stack'), stack'[i].stage # "again",
             ~IsPrereq(stack'[i].chunk)
      PROVE  stack'[i].chunk \notin DOMAIN running'
  <2>1. i + 1 \in 1 .. Len(stack) /\ stack'[i] = stack[i + 1] /\ 1 \in 1 .. Len(stack) /\ 1 < i + 1
    BY <1>2
  <2>2. stack[i + 1].chunk \notin DOMAIN running
    BY <1>6, <2>1 DEF ActiveInv, Fresh
  <2>3. stack[i + 1].chunk # Top.chunk
    BY <1>6, <2>1 DEF ActiveInv, Alone, Top
  <2> QED
    BY <2>1, <2>2, <2>3
<1>7. Alone'
  BY <1>1, <1>5 DEF Alone
<1>8. Fresh'
  BY <1>1, <1>6 DEF Fresh
<1> QED
  BY <1>3, <1>4, <1>7, <1>8 DEF ActiveInv

\* The innermost activation goes on.
LEMMA GoToKeepsActive ==
    ASSUME StackOK, ActiveInv, stack # <<>>, UNCHANGED sls,
           NEW f \in FrameType, f.chunk = Top.chunk, f.stage # "again", GoTo(f),
           Top.stage # "again",
           DOMAIN running' = DOMAIN running,
           active \subseteq active',
           IsPrereq(Top.chunk) \/ Top.chunk \in active',
           prereq' \cup prerequired' # {} => SomePrereq
    PROVE  ActiveInv'
<1>1. \A c : IsPrereq(c)' <=> IsPrereq(c)
  BY DEF IsPrereq, Req
<1>2. /\ Len(stack) \in Nat \ {0} /\ Len(stack') = Len(stack)
      /\ stack'[1] = f
      /\ \A i \in 2 .. Len(stack') : stack'[i] = stack[i]
  BY GoneOn
<1>3. OnlyPrereqsMarked'
  BY <1>1 DEF OnlyPrereqsMarked, SomePrereq
<1>c. \A i \in 1 .. Len(stack') : stack'[i].chunk = stack[i].chunk
  BY <1>2 DEF Top
<1>4. Noted'
  BY <1>1, <1>2, <1>c DEF ActiveInv, Noted, Top
<1>5. Alone'
  BY <1>1, <1>2, <1>c DEF ActiveInv, Alone
<1>6. Fresh'
  BY <1>1, <1>2, <1>c DEF ActiveInv, Fresh, Top
<1> QED
  BY <1>3, <1>4, <1>5, <1>6 DEF ActiveInv

\* The innermost activation calls a requisite that is neither in active nor
\* has a result, or its own chunk again.
LEMMA CallOnKeepsActive ==
    ASSUME StackOK, ActiveInv, stack # <<>>, UNCHANGED <<sls, active, prereq, prerequired, running>>,
           NEW f \in FrameType, f.chunk = Top.chunk,
           Top.stage = "requisites", f.stage \in {"called", "again"},
           NEW d \in Chunks, CallOn(d, f),
           \/ f.stage = "again" /\ d = Top.chunk
           \/ d \notin DOMAIN running \cup active
    PROVE  ActiveInv'
<1>0. Frame(d).chunk = d /\ Frame(d).stage = "enter"
  BY DEF Frame
<1>1. \A c : IsPrereq(c)' <=> IsPrereq(c)
  BY DEF IsPrereq, Req
<1>2. /\ Len(stack) \in Nat \ {0} /\ Len(stack') = Len(stack) + 1
      /\ stack'[1] = Frame(d) /\ stack'[2] = f
      /\ \A i \in 3 .. Len(stack') : stack'[i] = stack[i - 1]
  BY CalledAnother
<1>3. OnlyPrereqsMarked'
  BY <1>1 DEF ActiveInv, OnlyPrereqsMarked, SomePrereq
<1>n. \A i \in 1 .. Len(stack) : ~IsPrereq(stack[i].chunk) => stack[i].chunk \in active
  <2> SUFFICES ASSUME NEW i \in 1 .. Len(stack), ~IsPrereq(stack[i].chunk)
               PROVE  stack[i].chunk \in active
    OBVIOUS
  <2>1. CASE i = 1
    BY <2>1 DEF ActiveInv, Noted, Top
  <2>2. CASE i > 1
    <3>1. Calls(stack[(i - 1) + 1], stack[i - 1].chunk)
      BY <1>2, <2>2 DEF StackOK
    <3>2. stack[i].stage # "enter"
      BY <1>2, <3>1 DEF Calls
    <3> QED
      BY <3>2 DEF ActiveInv, Noted
  <2> QED
    BY <2>1, <2>2
<1>c. \A i \in 2 .. Len(stack') : i - 1 \in 1 .. Len(stack) /\ stack'[i].chunk = stack[i - 1].chunk
  BY <1>2 DEF Top
<1>4. Noted'
  BY <1>0, <1>1, <1>2, <1>c, <1>n DEF Noted
<1>5. ASSUME NEW i \in 1 .. Len(stack'), NEW j \in 1 .. Len(stack'), i < j,
             stack'[i].chunk = stack'[j].chunk, ~IsPrereq(stack'[i].chunk)
      PROVE  stack'[j].stage = "again"
  <2>1. CASE j = 2
    <3>1. i = 1 /\ d = Top.chunk
      BY <1>0, <1>2, <1>5, <2>1
    <3>2. Top.chunk \in active
      BY <1>0, <1>2, <1>5, <1>n, <3>1 DEF Top
    <3> QED
      BY <1>2, <2>1, <3>1, <3>2
  <2>2. CASE j > 2 /\ i = 1
    <3>1. stack'[j] = stack[j - 1] /\ j - 1 \in 1 .. Len(stack) /\ 1 < j - 1 /\ 1 \in 1 .. Len(stack)
      BY <1>2, <2>2
    <3>2. d \in active
      BY <1>0, <1>2, <1>5, <1>n, <2>2, <3>1
    <3>3. stack[1].chunk = stack[j - 1].chunk
      BY <1>0, <1>2, <1>5, <2>2, <3>1, <3>2 DEF Top
    <3> QED
      BY <1>0, <1>2, <1>5, <2>2, <3>1, <3>3 DEF ActiveInv, Alone
  <2>3. CASE j > 2 /\ i > 1
    <3>1. /\ stack'[j] = stack[j - 1] /\ j - 1 \in 1 .. Len(stack)
          /\ stack'[i].chunk = stack[i - 1].chunk /\ i - 1 \in 1 .. Len(stack) /\ i - 1 < j - 1
      BY <1>2, <1>c, <1>5, <2>3
    <3> QED
      BY <1>5, <3>1 DEF ActiveInv, Alone
  <2> QED
    BY <1>5, <2>1, <2>2, <2>3
<1>6. ASSUME NEW i \in 1 .. Len(stack'), stack'[i].stage # "again",
             ~IsPrereq(stack'[i].chunk)
      PROVE  stack'[i].chunk \notin DOMAIN running
  <2>1. Top.chunk \notin DOMAIN running \/ IsPrereq(Top.chunk)
    BY <1>2 DEF ActiveInv, Fresh, Top
  <2>2. CASE i = 1
    BY <1>0, <1>2, <1>6, <2>1, <2>2
  <2>3. CASE i = 2
    BY <1>2, <1>6, <2>1, <2>3
  <2>4. CASE i > 2
    BY <1>2, <1>6, <2>4 DEF ActiveInv, Fresh
  <2> QED
    BY <2>2, <2>3, <2>4
<1>7. Alone' /\ Fresh'
  BY <1>1, <1>5, <1>6 DEF Alone, Fresh
<1> QED
  BY <1>3, <1>4, <1>7 DEF ActiveInv

\* What a step does to the results: an activation gives one to its chunk, and
\* the results of ended processes are collected.
LEMMA RunningChanges ==
    ASSUME [Next]_vars
    PROVE  \/ running' \in {running, Reconciled}
           \/ /\ stack # <<>> /\ Top.stage \in {"enter", "requisites"}
              /\ \E r : running' \in {Put(running, Top.chunk, r), Put(Reconciled, Top.chunk, r)}
<1> DEFINE Given ==
      /\ stack # <<>> /\ Top.stage \in {"enter", "requisites"}
      /\ \E r : running' \in {Put(running, Top.chunk, r), Put(Reconciled, Top.chunk, r)}
<1>1. ASSUME NEW c \in Chunks, NotFound(c) \/ Unmet(c) \/ Fail(c) \/ NoneDetected(c) \/ NotNeeded(c)
      PROVE  running' \in {running, Reconciled} \/ Given
  <2>1. stack # <<>> /\ Top.stage = "enter" /\ c = Top.chunk
    BY <1>1 DEF NotFound, Unmet, Fail, NoneDetected, NotNeeded, Enter, At
  <2>2. running' = Seen(c) \/ \E r : running' = Put(Seen(c), c, r)
    BY <1>1 DEF NotFound, Unmet, Fail, NoneDetected, NotNeeded
  <2> QED
    BY <2>1, <2>2 DEF Seen
<1>2. ASSUME NEW c \in Chunks, Run(c)
      PROVE  running' \in {running, Reconciled} \/ Given
  <2>1. stack # <<>> /\ Top.stage = "enter" /\ c = Top.chunk
    BY <1>2 DEF Run, Enter, At
  <2>2. running' = Seen(c) \/ \E r : running' = Put(Seen(c), c, r)
    BY <1>2 DEF Run, Execute
  <2> QED
    BY <2>1, <2>2 DEF Seen
<1>3. ASSUME NEW c \in Chunks, Test(c)
      PROVE  running' \in {running, Reconciled}
  BY <1>3 DEF Test, Seen
<1>4. ASSUME NEW c \in Chunks, NEW t, Recursive(c, t)
      PROVE  running' = running \/ Given
  BY <1>4 DEF Recursive, NextRequisite, At
<1>5. ASSUME NEW c \in Chunks,
             \/ Called(c) \/ Again(c) \/ Ran(c) \/ Listen(c) \/ Ends(c)
             \/ \E t \in (1 .. 6) \X Chunks : HasRun(c, t) \/ Descend(c, t)
      PROVE  running' = running
  BY <1>5 DEF Called, Again, Ran, Listen,
      Ends, ProcessEnds, ForgottenEnds, WatcherEnds, Writes, HasRun, Descend, resVars
<1>6. ASSUME \/ CallChunk \/ SkipChunk \/ EndOfCall \/ FailHard \/ EndListen
             \/ AttributeError \/ RecursionError \/ UNCHANGED vars
      PROVE  running' = running
  BY <1>6
  DEF CallChunk, SkipChunk, EndOfCall, FailHard, EndListen, AttributeError,
      RecursionError, vars, resVars
<1>7. ASSUME Finish PROVE running' = Reconciled
  BY <1>7 DEF Finish
<1> HIDE DEF Given
<1>8. running' \in {running, Reconciled} \/ Given
  <2>1. ASSUME NEW c \in Chunks,
               \/ NotFound(c) \/ Unmet(c) \/ Run(c) \/ Fail(c) \/ NoneDetected(c)
               \/ NotNeeded(c) \/ Called(c) \/ Again(c) \/ Test(c) \/ Ran(c) \/ Listen(c)
               \/ \E t \in (1 .. 6) \X Chunks : HasRun(c, t) \/ Descend(c, t) \/ Recursive(c, t)
        PROVE  running' \in {running, Reconciled} \/ Given
    BY <1>1, <1>2, <1>3, <1>4, <1>5, <2>1
  <2>2. CASE \E c \in Chunks : Ends(c)
    BY <1>5, <2>2
  <2>3. CASE Step
    BY <1>6, <1>7, <2>1, <2>3 DEF Step
  <2> QED
    BY <1>6, <2>2, <2>3 DEF Next, Ends, Ended
<1> QED
  BY <1>8 DEF Given

\* Marks are only given when there is a prereq.
LEMMA MarkedArePrereqs ==
    ASSUME MarksOK, OnlyPrereqsMarked, NEW c \in Chunks, Mark(c)
    PROVE  prereq' \cup prerequired' # {} => SomePrereq
<1>1. ASSUME NEW d \in Req("prereq", c) \ {Missing} PROVE d \in Chunks /\ IsPrereq(d)
  BY <1>1 DEF Req, IsPrereq
<1>2. Req("prerequired", c) # {} => IsPrereq(c)
  BY DEF IsPrereq
<1> QED
  BY <1>1, <1>2 DEF Mark, OnlyPrereqsMarked, SomePrereq

\* The steps of an activation that looks at its requisites.
LEMMA EnterActive ==
    ASSUME IInv, ActiveInv, NEW c \in Chunks,
           NotFound(c) \/ Unmet(c) \/ Run(c) \/ Fail(c) \/ NoneDetected(c) \/ NotNeeded(c)
    PROVE  ActiveInv'
<1>i. StackOK /\ MarksOK /\ OnlyPrereqsMarked
  BY DEF IInv, ActiveInv
<1>1. PICK statuses : Enter(c, statuses)
  BY DEF NotFound, Unmet, Run, Fail, NoneDetected, NotNeeded
<1>2. /\ stack # <<>> /\ c = Top.chunk /\ Top.stage = "enter" /\ UNCHANGED sls
      /\ active \subseteq active' /\ (IsPrereq(c) \/ c \in active')
  BY <1>1 DEF Enter, At, loopVars, IsPrereq
<1>3. DOMAIN Seen(c) = DOMAIN running
  BY DEF Seen, Reconciled
<1>4. \A r : DOMAIN Put(Seen(c), c, r) = DOMAIN running \cup {c}
  BY <1>3 DEF Put
<1>5. DOMAIN running' \subseteq DOMAIN running \cup {c}
  <2>1. running' = Seen(c) \/ \E r : running' = Put(Seen(c), c, r)
    BY DEF NotFound, Unmet, Run, Execute, Fail, NoneDetected, NotNeeded
  <2> QED
    BY <1>3, <1>4, <2>1
<1>6. prereq' \cup prerequired' # {} => SomePrereq
  <2>1. CASE Mark(c)
    BY <1>i, <2>1, MarkedArePrereqs
  <2>2. CASE prereq' \subseteq prereq /\ prerequired' = prerequired
    BY <1>i, <2>2 DEF OnlyPrereqsMarked
  <2>3. Run(c) => prereq' \subseteq prereq /\ prerequired' = prerequired
    BY DEF Run, Execute, TestRun
  <2> QED
    BY <2>1, <2>2, <2>3 DEF NotFound, Unmet, Fail, NoneDetected, NotNeeded
<1>7. CASE Unmet(c)
  <2> DEFINE f == [Top EXCEPT !.stage = "requisites",
                      !.todo = UNION {{<<Place[k], d>> : d \in Req(k, c)} : k \in KindsOf(c)}]
  <2>1. GoTo(f) /\ running' = Seen(c)
    BY <1>7 DEF Unmet
  <2>2. f \in FrameType /\ f.chunk = Top.chunk /\ f.stage # "again"
    BY <1>i, <1>2, TopType, TodoType DEF FrameType, Stages
  <2> HIDE DEF f
  <2> QED
    BY <1>i, <1>2, <1>3, <1>6, <2>1, <2>2, GoToKeepsActive
<1>8. CASE ~Unmet(c)
  <2>1. Return
    BY <1>8 DEF NotFound, Unmet, Run, Fail, NoneDetected, NotNeeded
  <2> QED
    BY <1>i, <1>2, <1>5, <1>6, <2>1, ReturnKeepsActive
<1> QED
  BY <1>7, <1>8

\* The steps of an activation that calls its requisites.
LEMMA RequisiteActive ==
    ASSUME IInv, ActiveInv, NEW c \in Chunks,
           \/ Again(c) \/ Test(c)
           \/ \E t \in (1 .. 6) \X Chunks : HasRun(c, t) \/ Descend(c, t) \/ Recursive(c, t)
    PROVE  ActiveInv'
<1>i. StackOK /\ MarksOK /\ OnlyPrereqsMarked
  BY DEF IInv, ActiveInv
<1>a. /\ stack # <<>> /\ Top.stage = "requisites" /\ c = Top.chunk
      /\ UNCHANGED <<sls, active>>
  BY DEF Again, Test, HasRun, Descend, Recursive, NextRequisite, At, loopVars, markVars
<1>b. Top \in FrameType
  BY <1>a, <1>i, TopType
<1>c. Len(stack) \in Nat \ {0}
  BY <1>a, <1>i, EmptySeq DEF StackOK
<1>n. IsPrereq(Top.chunk) \/ Top.chunk \in active
  BY <1>a, <1>c DEF ActiveInv, Noted, Top
<1>p. prereq \cup prerequired # {} => SomePrereq
  BY <1>i DEF OnlyPrereqsMarked
<1>1. CASE Again(c)
  <2> DEFINE f == [Top EXCEPT !.stage = "again"]
  <2>1. CallOn(c, f) /\ UNCHANGED <<running, prereq, prerequired>>
    BY <1>1 DEF Again, resVars, markVars
  <2>2. f \in FrameType /\ f.chunk = Top.chunk /\ f.stage = "again"
    BY <1>b DEF FrameType, Stages
  <2> HIDE DEF f
  <2> QED
    BY <1>a, <1>i, <2>1, <2>2, CallOnKeepsActive
<1>2. CASE Test(c)
  <2>1. /\ Return /\ DOMAIN running' = DOMAIN running
        /\ prereq' \subseteq prereq /\ UNCHANGED prerequired
    BY <1>2 DEF Test, TestRun, Seen, Reconciled
  <2> QED
    BY <1>a, <1>i, <1>p, <2>1, ReturnKeepsActive
<1>3. ASSUME NEW t \in (1 .. 6) \X Chunks, HasRun(c, t) \/ Descend(c, t)
      PROVE  ActiveInv'
  <2>1. UNCHANGED <<running, prereq, prerequired>> /\ t[2] \in Chunks
    BY <1>3 DEF HasRun, Descend, resVars, markVars
  <2> DEFINE g == [Without(t) EXCEPT !.stage = "called"]
  <2>2. /\ Without(t) \in FrameType /\ Without(t).chunk = Top.chunk
        /\ Without(t).stage = Top.stage
        /\ g \in FrameType /\ g.chunk = Top.chunk /\ g.stage = "called"
    BY <1>b, <2>1 DEF Without, FrameType, Stages
  <2>3. CASE HasRun(c, t)
    <3>1. GoTo(Without(t))
      BY <2>3 DEF HasRun
    <3> QED
      BY <1>a, <1>i, <1>n, <1>p, <2>1, <2>2, <3>1, GoToKeepsActive
  <2>4. CASE Descend(c, t)
    <3>1. CallOn(t[2], g) /\ t[2] \notin DOMAIN running \cup active
      BY <2>4 DEF Descend
    <3> HIDE DEF g
    <3> QED
      BY <1>a, <1>i, <2>1, <2>2, <3>1, CallOnKeepsActive
  <2> QED
    BY <1>3, <2>3, <2>4
<1>4. ASSUME NEW t \in (1 .. 6) \X Chunks, Recursive(c, t)
      PROVE  ActiveInv'
  <2>1. Return /\ (prereq' \cup prerequired' # {} => SomePrereq)
    BY <1>p, <1>4 DEF Recursive, TestRun
  <2>2. running' = running \/ running' = Put(running, c, Failed)
    BY <1>4 DEF Recursive
  <2>3. DOMAIN running' \subseteq DOMAIN running \cup {c}
    BY <2>2 DEF Put
  <2> QED
    BY <1>a, <1>i, <1>p, <2>1, <2>3, ReturnKeepsActive
<1> QED
  BY <1>1, <1>2, <1>3, <1>4

\* An activation that is back from a call.
LEMMA BackActive ==
    ASSUME IInv, ActiveInv, NEW c \in Chunks, Called(c) \/ Ran(c)
    PROVE  ActiveInv'
<1>i. StackOK /\ MarksOK /\ OnlyPrereqsMarked
  BY DEF IInv, ActiveInv
<1>a. /\ stack # <<>> /\ Top.stage \in {"called", "again"} /\ c = Top.chunk
      /\ UNCHANGED <<sls, active, prereq, prerequired, running>>
  BY DEF Called, Ran, At, loopVars, markVars
<1>b. Top \in FrameType /\ Len(stack) \in Nat \ {0}
  BY <1>a, <1>i, TopType, EmptySeq DEF StackOK
<1>n. IsPrereq(Top.chunk) \/ Top.chunk \in active
  BY <1>a, <1>b DEF ActiveInv, Noted, Top
<1>p. prereq \cup prerequired # {} => SomePrereq
  BY <1>i DEF OnlyPrereqsMarked
<1>1. CASE Return
  BY <1>1, <1>a, <1>i, <1>p, ReturnKeepsActive
<1>2. CASE ~Return
  <2> DEFINE f == [Top EXCEPT !.stage = "requisites"]
  <2>1. f \in FrameType /\ f.chunk = Top.chunk /\ f.stage # "again"
    BY <1>b DEF FrameType, Stages
  <2>2. GoTo(f) /\ Top.stage # "again"
    BY <1>2 DEF Called, Ran, At
  <2> HIDE DEF f
  <2> QED
    BY <1>a, <1>i, <1>n, <1>p, <2>1, <2>2, GoToKeepsActive
<1> QED
  BY <1>1, <1>2

\* Every step keeps the chunks that are no prereqs in active.
LEMMA NextActive == IInv /\ ActiveInv /\ [Next]_vars => ActiveInv'
<1> SUFFICES ASSUME IInv, ActiveInv, [Next]_vars PROVE ActiveInv'
  OBVIOUS
<1>i. StackOK /\ OnlyPrereqsMarked
  BY DEF IInv, ActiveInv
<1>l. Len(<<>>) = 0 /\ (stack # <<>> => Len(stack) \in Nat \ {0})
  BY <1>i, EmptySeq DEF StackOK
<1>1. CASE CallChunk
  <2>1. /\ stack' = <<Frame(pos)>> /\ pos \notin DOMAIN running
        /\ UNCHANGED <<sls, running, prereq, prerequired>>
    BY <1>1 DEF CallChunk, resVars, markVars
  <2>2. Len(stack') = 1 /\ stack'[1].chunk = pos /\ stack'[1].stage = "enter"
    BY <2>1 DEF Frame
  <2>3. OnlyPrereqsMarked'
    BY <1>i, <2>1 DEF OnlyPrereqsMarked, SomePrereq, IsPrereq, Req
  <2> QED
    BY <1>i, <2>1, <2>2, <2>3 DEF ActiveInv, Noted, Alone, Fresh, IsPrereq, Req
<1>2. CASE SkipChunk \/ EndOfCall \/ FailHard \/ Finish
  <2>1. stack' = <<>> /\ UNCHANGED <<sls, prereq, prerequired>>
    BY <1>2 DEF SkipChunk, EndOfCall, FailHard, Finish, InLoop, markVars
  <2>2. OnlyPrereqsMarked'
    BY <1>i, <2>1 DEF OnlyPrereqsMarked, SomePrereq, IsPrereq, Req
  <2> QED
    BY <1>i, <1>l, <2>1, <2>2 DEF ActiveInv, Noted, Alone, Fresh, IsPrereq, Req
<1>3. CASE (\E c \in Chunks : Listen(c) \/ Ends(c)) \/ EndListen \/ AttributeError
           \/ RecursionError \/ UNCHANGED vars
  <2>1. UNCHANGED <<sls, stack, running, prereq, prerequired, active>>
    BY <1>3
    DEF Listen,
        Ends, ProcessEnds, ForgottenEnds, WatcherEnds, Writes,
        EndListen, AttributeError, RecursionError, vars, loopVars,
        markVars, resVars
  <2>2. OnlyPrereqsMarked'
    BY <1>i, <2>1 DEF OnlyPrereqsMarked, SomePrereq, IsPrereq, Req
  <2> QED
    BY <2>1, <2>2 DEF ActiveInv, Noted, Alone, Fresh, IsPrereq, Req
<1>4. CASE \E c \in Chunks :
             \/ NotFound(c) \/ Unmet(c) \/ Run(c) \/ Fail(c) \/ NoneDetected(c) \/ NotNeeded(c)
             \/ Called(c) \/ Again(c) \/ Test(c) \/ Ran(c)
             \/ \E t \in (1 .. 6) \X Chunks : HasRun(c, t) \/ Descend(c, t) \/ Recursive(c, t)
  BY <1>4, EnterActive, RequisiteActive, BackActive
<1> QED
  BY <1>1, <1>2, <1>3, <1>4 DEF Next, Ends, Step, Ended

\* At the beginning nothing is called.
LEMMA InitActive == Init => ActiveInv
<1> SUFFICES ASSUME Init PROVE ActiveInv
  OBVIOUS
<1>1. stack = <<>> /\ prereq \cup prerequired = {} /\ Len(<<>>) = 0
  BY DEF Init
<1> QED
  BY <1>1 DEF ActiveInv, OnlyPrereqsMarked, Noted, Alone, Fresh

\* The chunks that are no prereqs are in active while they are called.
LEMMA ActiveInvariant == Spec => [](IInv /\ ActiveInv)
<1>1. Init => IInv /\ ActiveInv
  BY InitIInv, InitActive
<1>2. IInv /\ ActiveInv /\ [Next]_vars => (IInv /\ ActiveInv)'
  BY NextIInv, NextActive
<1> QED
  BY <1>1, <1>2, PTL DEF Spec

\* A step does not touch the result of a chunk that is no prereq.
LEMMA ResultStands ==
    ASSUME IInv, ActiveInv, [Next]_vars, NEW c \in DOMAIN running, ~IsPrereq(c)
    PROVE  ~Starts(c) /\ Stands(c)
<1>1. stack # <<>> /\ Top.stage \in {"enter", "requisites"} => Top.chunk # c
  BY EmptySeq DEF IInv, StackOK, ActiveInv, Fresh, Top
<1>2. ~Starts(c)
  <2>1. c \in Chunks
    BY DEF IInv, ResultsOK, Sound
  <2>2. Run(c) => stack # <<>> /\ Top.stage = "enter" /\ c = Top.chunk
    BY DEF Run, Enter, At
  <2> QED
    BY <1>1, <2>1, <2>2, OnlyRunStarts
<1>3. \A x \in Outcomes : ~x.proc
  BY DEF Outcomes, NoChange, Changed, Failed, Result
<1>4. /\ c \in DOMAIN Reconciled
      /\ Reconciled[c] = running[c] \/ (running[c].proc /\ ~Reconciled[c].proc)
  <2>1. Written(c) \in Outcomes
    BY DEF IInv, ResultsOK, Written, Outcomes
  <2> QED
    BY <1>3, <2>1 DEF Reconciled
<1>5. CASE running' \in {running, Reconciled}
  <2>1. CASE running' = running
    BY <1>2, <2>1 DEF Stands
  <2>2. CASE running' = Reconciled
    BY <1>2, <1>4, <2>2 DEF Stands
  <2> QED
    BY <1>5, <2>1, <2>2
<1>6. CASE /\ stack # <<>> /\ Top.stage \in {"enter", "requisites"}
           /\ \E r : running' \in {Put(running, Top.chunk, r), Put(Reconciled, Top.chunk, r)}
  <2>1. c # Top.chunk
    BY <1>1, <1>6
  <2>2. \A r : /\ c \in DOMAIN Put(running, Top.chunk, r)
               /\ Put(running, Top.chunk, r)[c] = running[c]
               /\ c \in DOMAIN Put(Reconciled, Top.chunk, r)
               /\ Put(Reconciled, Top.chunk, r)[c] = Reconciled[c]
    BY <1>4, <2>1 DEF Put
  <2>3. c \in DOMAIN running' /\ running'[c] \in {running[c], Reconciled[c]}
    BY <1>6, <2>2
  <2>4. CASE running'[c] = running[c]
    BY <1>2, <2>3, <2>4 DEF Stands
  <2>5. CASE running'[c] = Reconciled[c]
    BY <1>2, <1>4, <2>3, <2>5 DEF Stands
  <2> QED
    BY <2>3, <2>4, <2>5
<1> QED
  BY <1>2, <1>5, <1>6, RunningChanges

\* A chunk that has a result does not run again, and its result stands, but
\* for that of a process, whatever the low data and however the chunks require
\* each other; a prereq of another chunk is excepted (State.call_chunk).
THEOREM ResultsAreFinal == Spec => ResultsStand
<1>1. IInv /\ ActiveInv /\ [Next]_vars =>
        [\A c \in DOMAIN running : ~IsPrereq(c) => ~Starts(c) /\ Stands(c)]_vars
  BY ResultStands
<1> QED
  BY <1>1, ActiveInvariant, PTL DEF Spec, ResultsStand

-----------------------------------------------------------------------------
(* What a chunk finds when it runs.  How a chunk that is no prereq was      *)
(* executed can be read from its result, or will be from that of its       *)
(* process; and a prereq only runs after the chunk it is a prereq of.      *)

Recorded(c) ==
    /\ c \notin DOMAIN running => did[c].how = "not" /\ c \notin Procs \cup forgotten
    /\ c \in forgotten => c \in unread
    /\ did[c].n > 0 => did[c].how # "not"
    /\ c \in DOMAIN running /\ running[c].proc =>
         \/ c \in DOMAIN cache /\ cache[c].result = did[c].how /\ c \notin forgotten
         \/ c \notin DOMAIN cache /\ c \in alive \cup unread /\ did[c].how = "running"
    /\ c \in DOMAIN running /\ ~running[c].proc =>
         /\ c \notin alive
         /\ \/ did[c].how \in {"not", running[c].result} /\ c \notin forgotten
            \/ c \in unread /\ running[c] = Failed

\* whatever c is a prereq of has a result when c has run
PrereqsLast ==
    \A c \in Chunks : did[c].n > 0 => Req("prerequired", c) \subseteq DOMAIN running

RecordInv == (\A c \in Chunks : ~IsPrereq(c) => Recorded(c)) /\ PrereqsLast

\* Results are not deleted.
LEMMA RunningGrows ==
    ASSUME [Next]_vars
    PROVE  DOMAIN running \subseteq DOMAIN running'
<1>1. DOMAIN Reconciled = DOMAIN running
  BY DEF Reconciled
<1>2. \A c, r : /\ DOMAIN running \subseteq DOMAIN Put(running, c, r)
                /\ DOMAIN running \subseteq DOMAIN Put(Reconciled, c, r)
  BY <1>1 DEF Put
<1> QED
  BY <1>1, <1>2, RunningChanges

\* A step leaves the result of a chunk that is no prereq alone, or collects it.
LEMMA ResultKept ==
    ASSUME IInv, ActiveInv, [Next]_vars, NEW c \in DOMAIN running, ~IsPrereq(c)
    PROVE  running'[c] \in {running[c], Reconciled[c]}
<1>1. stack # <<>> /\ Top.stage \in {"enter", "requisites"} => Top.chunk # c
  BY EmptySeq DEF IInv, StackOK, ActiveInv, Fresh, Top
<1>2. \A d, r : d # c => /\ Put(running, d, r)[c] = running[c]
                         /\ Put(Reconciled, d, r)[c] = Reconciled[c]
  BY DEF Put, Reconciled
<1> QED
  BY <1>1, <1>2, RunningChanges

\* What is executed, and what the processes are, changes when a chunk runs and
\* when a process ends.
LEMMA ProcsChange ==
    ASSUME [Next]_vars
    PROVE  \/ UNCHANGED procVars
           \/ \E c \in Chunks : Run(c) /\ Executes(c) /\ c \notin prereq
           \/ \E c \in Chunks : Ends(c)
<1>1. ASSUME NEW c \in Chunks, Run(c)
      PROVE  UNCHANGED procVars \/ (Executes(c) /\ c \notin prereq)
  BY <1>1 DEF Run, TestRun, Executes
<1>2. ASSUME NEW c \in Chunks,
             \/ NotFound(c) \/ Unmet(c) \/ Fail(c) \/ NoneDetected(c) \/ NotNeeded(c)
             \/ Called(c) \/ Again(c) \/ Test(c) \/ Ran(c) \/ Listen(c)
             \/ \E t \in (1 .. 6) \X Chunks : HasRun(c, t) \/ Descend(c, t) \/ Recursive(c, t)
      PROVE  UNCHANGED procVars
  BY <1>2
  DEF NotFound, Unmet, Fail, NoneDetected, NotNeeded, Called, Again, Test, Ran, Listen,
      HasRun, Descend, Recursive, TestRun
<1>3. ASSUME \/ CallChunk \/ SkipChunk \/ EndOfCall \/ FailHard \/ Finish \/ EndListen
             \/ AttributeError \/ RecursionError \/ UNCHANGED vars
      PROVE  UNCHANGED procVars
  BY <1>3
  DEF CallChunk, SkipChunk, EndOfCall, FailHard, Finish, EndListen, AttributeError,
      RecursionError, vars
<1>4. CASE Step
  BY <1>1, <1>2, <1>3, <1>4 DEF Step
<1> QED
  BY <1>3, <1>4 DEF Next, Ends, Ended

\* A requisite that has no result, and what a result counts for.
LEMMA StatsMember ==
    ASSUME NEW c, NEW run, NEW k \in KindsOf(c), k # "prereq", NEW d \in Req(k, c)
    PROVE  /\ d \in DOMAIN run => StatsOf(k, run[d]) \subseteq Stats(c, run)
           /\ d \notin DOMAIN run => "unmet" \in Stats(c, run)
BY DEF Stats

\* What a chunk has found when its requisites are met.
LEMMA MetStats ==
    ASSUME NEW c, NEW run, Present(c), Status(c, run) \in {"met", "change"}
    PROVE  /\ {"unmet", "fail"} \cap Stats(c, run) = {}
           /\ "pre" \in Stats(c, run) => "premet" \in Stats(c, run)
           /\ "pre" \notin Stats(c, run) =>
                /\ "onfail" \in Stats(c, run) => "met" \in Stats(c, run)
                /\ "onchanges" \in Stats(c, run) => "onchangesmet" \in Stats(c, run)
<1> DEFINE S == Stats(c, run)
<1>1. "unmet" \notin S
  BY DEF Status
<1>2. "fail" \notin S
  BY DEF Status
<1>3. "pre" \in S => "premet" \in S
  BY DEF Status
<1>4. "pre" \notin S => ("onfail" \in S => "met" \in S)
  BY DEF Status
<1>5. "pre" \notin S => ("onchanges" \in S => "onchangesmet" \in S)
  BY DEF Status
<1> QED
  BY <1>1, <1>2, <1>3, <1>4, <1>5

\* A chunk that really runs has its requisites.
LEMMA RunFinds ==
    ASSUME NEW c \in Chunks, Run(c), c \notin prereq, Present(c)
    PROVE  /\ ~Lost(c) /\ NoProcs /\ ~FAILHARD /\ Seen(c) = Reconciled
           /\ Status(c, Reconciled) \in {"met", "change"}
           /\ KindsOf(c) = Direct \cup {"prerequired"}
           /\ \A k \in Direct \cup {"prerequired"} : Missing \notin Req(k, c)
<1>1. /\ Checked(c)
      /\ (IF Lost(c) THEN "lost" ELSE Status(c, Seen(c))) \in {"met", "change"}
  BY DEF Run, Enter
<1>2. ~Lost(c)
  BY <1>1
<1>3. Seen(c) = Reconciled /\ NoProcs /\ ~FAILHARD
  BY <1>1, <1>2 DEF Seen, Checked
<1>4. KindsOf(c) = Direct \cup {"prerequired"}
  BY DEF KindsOf
<1> QED
  BY <1>1, <1>2, <1>3, <1>4 DEF Lost

\* What it has in its requisites but the prereqs has a result, and did not fail
\* but in onfail.
LEMMA FindsResults ==
    ASSUME NEW c \in Chunks, Run(c), c \notin prereq,
           NEW k \in {"require", "watch", "onfail", "onchanges", "prerequired"},
           NEW d \in Req(k, c)
    PROVE  /\ Present(c) /\ d \in Chunks /\ d \in DOMAIN running
           /\ k # "onfail" => Reconciled[d].result # "false"
<1>1. Present(c)
  BY DEF Present, Direct
<1>2. k \in KindsOf(c) /\ Missing \notin Req(k, c)
  BY <1>1, RunFinds DEF Direct
<1>3. {"unmet", "fail"} \cap Stats(c, Reconciled) = {}
  BY <1>1, RunFinds, MetStats
<1>4. d \in DOMAIN Reconciled /\ StatsOf(k, Reconciled[d]) \subseteq Stats(c, Reconciled)
  BY <1>2, <1>3, StatsMember
<1>5. k # "onfail" /\ Reconciled[d].result = "false" => "fail" \in StatsOf(k, Reconciled[d])
  BY DEF StatsOf
<1> QED
  BY <1>1, <1>2, <1>3, <1>4, <1>5 DEF Req, Reconciled

\* A chunk that is no prereq keeps its record when its processes, its cache and
\* its history stay, and its result stays or is collected.
LEMMA RecordStays ==
    ASSUME IInv, IInv', ActiveInv, [Next]_vars, NEW c \in Chunks, ~IsPrereq(c), Recorded(c),
           did'[c] = did[c],
           c \in alive' <=> c \in alive, c \in unread' <=> c \in unread,
           c \in forgotten' <=> c \in forgotten,
           c \in DOMAIN cache' <=> c \in DOMAIN cache,
           c \in DOMAIN cache => cache'[c] = cache[c]
    PROVE  Recorded(c)'
<1>o. \A x \in Outcomes : ~x.proc
  BY DEF Outcomes, NoChange, Changed, Failed, Result
<1>1. CASE c \in DOMAIN running
  <2>1. c \in DOMAIN running' /\ running'[c] \in {running[c], Reconciled[c]}
    BY <1>1, ResultKept, RunningGrows
  <2>2. CASE running'[c] = running[c]
    BY <1>1, <2>1, <2>2 DEF Recorded
  <2>3. CASE running'[c] # running[c]
    <3>1. running[c].proc /\ c \notin alive /\ running'[c] = Written(c)
      BY <1>1, <2>1, <2>3 DEF Reconciled
    <3>2. CASE c \in DOMAIN cache
      <4>1. running'[c] = cache[c] /\ ~cache[c].proc
        BY <1>o, <3>1, <3>2 DEF IInv, ResultsOK, Written
      <4> QED
        BY <1>1, <2>1, <3>1, <3>2, <4>1 DEF Recorded
    <3>3. CASE c \notin DOMAIN cache
      <4>1. running'[c] = Failed /\ ~Failed.proc /\ c \in unread
        BY <1>1, <3>1, <3>3 DEF Recorded, Written, Failed, Result
      <4> QED
        BY <1>1, <2>1, <3>1, <3>3, <4>1 DEF Recorded
    <3> QED
      BY <3>2, <3>3
  <2> QED
    BY <2>2, <2>3
<1>2. CASE c \notin DOMAIN running
  <2>1. did[c].how = "not" /\ c \notin Procs /\ c \notin forgotten
    BY <1>2 DEF Recorded
  <2>2. c \notin Procs'
    BY <2>1 DEF Procs
  <2>3. c \in DOMAIN running' => ~running'[c].proc
    BY <2>2 DEF IInv, ResultsOK, Sound
  <2>4. c \notin alive'
    BY <2>2 DEF Procs
  <2> QED
    BY <2>1, <2>2, <2>3, <2>4 DEF Recorded
<1> QED
  BY <1>1, <1>2

\* A chunk that is no prereq keeps its record.
LEMMA RecordKept ==
    ASSUME IInv, IInv', ActiveInv, [Next]_vars, NEW c \in Chunks, ~IsPrereq(c), Recorded(c)
    PROVE  Recorded(c)'
<1>t. did \in [Chunks -> [n : Nat, how : {"not", "running", "true", "false"}]]
  BY DEF IInv, ResultsOK
<1>o. \A x \in Outcomes : ~x.proc
  BY DEF Outcomes, NoChange, Changed, Failed, Result
<1>2. CASE UNCHANGED procVars
  BY <1>2, RecordStays DEF procVars
<1>3. ASSUME NEW d \in Chunks, Run(d), Executes(d), d \notin prereq
      PROVE  Recorded(c)'
  <2>0. /\ UNCHANGED cache
        /\ StartsProcess(d) \/ CannotCall(d) \/ \E r \in Outcomes : CallsFunction(d, r)
    BY <1>3, Executed
  <2>1. CASE d # c
    <3>1. did'[c] = did[c]
      BY <1>t, <2>0, <2>1 DEF StartsProcess, CannotCall, CallsFunction, Count, procVars
    <3>2. /\ c \in alive' <=> c \in alive
          /\ c \in unread' <=> c \in unread
          /\ c \in forgotten' <=> c \in forgotten
      <4>1. CASE StartsProcess(d)
        BY <2>1, <4>1 DEF StartsProcess
      <4>2. CASE CannotCall(d) \/ \E r \in Outcomes : CallsFunction(d, r)
        BY <4>2 DEF CannotCall, CallsFunction, procVars
      <4> QED
        BY <2>0, <4>1, <4>2
    <3> QED
      BY <2>0, <3>1, <3>2, RecordStays
  <2>2. CASE d = c
    <3>1. stack # <<>> /\ Top.stage = "enter" /\ Top.chunk = c
      BY <1>3, <2>2 DEF Run, Enter, At
    <3>2. c \notin DOMAIN running
      BY <3>1, EmptySeq DEF IInv, StackOK, ActiveInv, Fresh, Top
    <3>3. did[c].how = "not" /\ c \notin alive \cup unread \cup forgotten /\ c \notin DOMAIN cache
          /\ ~(did[c].n > 0)
      BY <3>2 DEF Recorded, Procs
    <3>4. CASE StartsProcess(d)
      <4>1. running' = Put(Seen(c), c, Started) /\ c \in alive' /\ did'[c].how = "running"
        BY <1>t, <2>2, <3>4 DEF StartsProcess, Count
      <4>2. c \in forgotten' => c \in unread'
        BY <2>2, <3>3, <3>4 DEF StartsProcess
      <4>3. c \in DOMAIN running' /\ running'[c] = Started /\ Started.proc
        BY <4>1 DEF Put, Started, Result
      <4>4. c \notin DOMAIN cache'
        BY <2>0, <3>3
      <4> QED
        BY <4>1, <4>2, <4>3, <4>4 DEF Recorded
    <3>5. ASSUME NEW r \in Outcomes, CallsFunction(d, r) PROVE Recorded(c)'
      <4>1. running' = Put(Seen(c), c, r) /\ did'[c].how = r.result
            /\ UNCHANGED <<alive, unread, forgotten>>
        BY <1>t, <2>2, <3>5 DEF CallsFunction, Count
      <4>2. c \in DOMAIN running' /\ running'[c] = r /\ r.result # "not"
        BY <4>1 DEF Put, Outcomes, NoChange, Changed, Failed, Result
      <4> QED
        BY <1>o, <3>3, <4>1, <4>2 DEF Recorded
    <3>6. CASE CannotCall(d)
      <4>1. running' = Put(Seen(c), c, Failed) /\ UNCHANGED <<alive, unread, forgotten, did>>
        BY <2>2, <3>6 DEF CannotCall, procVars
      <4>2. c \in DOMAIN running' /\ running'[c] = Failed /\ ~Failed.proc
        BY <4>1 DEF Put, Failed, Result
      <4> QED
        BY <3>3, <4>1, <4>2 DEF Recorded
    <3> QED
      BY <2>0, <3>4, <3>5, <3>6
  <2> QED
    BY <2>1, <2>2
<1>4. ASSUME NEW d \in Chunks, Ends(d)
      PROVE  Recorded(c)'
  <2>e. /\ running' = running /\ unread' = unread
        /\ alive' \subseteq alive /\ alive \ {d} \subseteq alive'
        /\ forgotten' \subseteq forgotten /\ forgotten \ {d} \subseteq forgotten'
    BY <1>4, ProcessEnded DEF resVars
  <2>3. CASE d # c
    <3>1. did'[c] = did[c] /\ (c \in DOMAIN cache' <=> c \in DOMAIN cache)
          /\ (c \in DOMAIN cache => cache'[c] = cache[c])
      BY <1>4, <2>3, EndTouches DEF IInv
    <3>2. (c \in alive' <=> c \in alive) /\ (c \in forgotten' <=> c \in forgotten)
          /\ (c \in unread' <=> c \in unread)
      BY <2>3, <2>e
    <3> QED
      BY <3>1, <3>2, RecordStays
  <2>4. CASE d = c
    <3>1. c \in DOMAIN running
      BY <1>4, <2>4 DEF Ends, ProcessEnds, ForgottenEnds, WatcherEnds, Recorded, Procs
    <3>n. did'[c].n = did[c].n
      BY <1>4, <2>4, EndTouches DEF IInv
    <3>2. CASE ProcessEnds(c)
      <4>1. c \in alive \ unread /\ running[c].proc /\ c \notin forgotten'
        BY <3>1, <3>2 DEF ProcessEnds, Recorded
      <4>2. PICK r \in Outcomes : cache' = Put(cache, c, r) /\ did' = [did EXCEPT ![c].how = r.result]
        BY <3>2 DEF ProcessEnds, Writes
      <4>3. c \in DOMAIN cache' /\ cache'[c].result = did'[c].how /\ did'[c].how # "not"
        BY <1>t, <4>2 DEF Put, Outcomes, NoChange, Changed, Failed, Result
      <4> QED
        BY <2>e, <3>1, <4>1, <4>3 DEF Recorded
    <3>3. CASE ForgottenEnds(c)
      <4>1. c \in forgotten /\ c \notin forgotten' /\ c \in unread /\ alive' = alive
        BY <3>3 DEF ForgottenEnds, Recorded
      <4>2. PICK r \in Outcomes : cache' = Put(cache, c, r) /\ did' = [did EXCEPT ![c].how = r.result]
        BY <3>3 DEF ForgottenEnds, Writes
      <4>3. c \in DOMAIN cache' /\ cache'[c].result = did'[c].how /\ did'[c].how # "not"
        BY <1>t, <4>2 DEF Put, Outcomes, NoChange, Changed, Failed, Result
      <4> QED
        BY <2>e, <3>1, <4>1, <4>3 DEF Recorded
    <3>4. CASE WatcherEnds(c)
      <4>1. c \in alive \cap unread /\ UNCHANGED <<forgotten, cache, did>>
        BY <3>4 DEF WatcherEnds
      <4>2. running[c].proc
        BY <3>1, <4>1 DEF Recorded
      <4> QED
        BY <2>e, <3>1, <4>1, <4>2 DEF Recorded
    <3> QED
      BY <1>4, <2>4, <3>2, <3>3, <3>4 DEF Ends
  <2> QED
    BY <2>3, <2>4
<1> QED
  BY <1>2, <1>3, <1>4, ProcsChange

\* A prereq runs after the chunks it is a prereq of.
LEMMA PrereqsLastKept ==
    ASSUME IInv, PrereqsLast, [Next]_vars
    PROVE  PrereqsLast'
<1>1. ASSUME NEW c \in Chunks, did'[c].n > 0, NEW d \in Req("prerequired", c)
      PROVE  d \in DOMAIN running'
  <2>1. CASE Starts(c)
    <3>1. Run(c)
      BY <2>1, OnlyRunStarts
    <3>2. c \notin prereq
      <4>1. did' # did
        BY <2>1 DEF Starts, IInv, ResultsOK
      <4> QED
        BY <3>1, <4>1 DEF Run, TestRun, procVars
    <3> QED
      BY <1>1, <3>1, <3>2, FindsResults, RunningGrows
  <2>2. CASE ~Starts(c)
    <3>1. did[c].n \in Nat /\ did'[c].n \in Nat
      BY NextIInv DEF IInv, ResultsOK
    <3>2. did[c].n > 0
      BY <1>1, <2>2, <3>1 DEF Starts
    <3> QED
      BY <1>1, <3>2, RunningGrows DEF PrereqsLast
  <2> QED
    BY <2>1, <2>2
<1>2. \A c \in Chunks : Req("prerequired", c)' = Req("prerequired", c)
  <2>1. UNCHANGED sls
    BY DEF Next, Step, NotFound, Unmet, Run, Fail, NoneDetected, NotNeeded, Enter, Called, Again,
           Test, Ran, Listen, HasRun, Descend, Recursive, CallChunk, SkipChunk, EndOfCall,
           FailHard, Finish, EndListen, AttributeError, RecursionError,
               Ends, ProcessEnds, ForgottenEnds, WatcherEnds, Writes, Ended,
           vars, loopVars
  <2> QED
    BY <2>1 DEF Req
<1> QED
  BY <1>1, <1>2 DEF PrereqsLast

\* Every step keeps the records.
LEMMA NextRecord == IInv /\ ActiveInv /\ RecordInv /\ [Next]_vars => RecordInv'
<1> SUFFICES ASSUME IInv, ActiveInv, RecordInv, [Next]_vars PROVE RecordInv'
  OBVIOUS
<1>1. IInv'
  BY NextIInv
<1>2. UNCHANGED sls
  BY DEF Next, Step, NotFound, Unmet, Run, Fail, NoneDetected, NotNeeded, Enter, Called, Again,
         Test, Ran, Listen, HasRun, Descend, Recursive, CallChunk, SkipChunk, EndOfCall,
         FailHard, Finish, EndListen, AttributeError, RecursionError,
             Ends, ProcessEnds, ForgottenEnds, WatcherEnds, Writes, Ended,
         vars, loopVars
<1>3. \A c : IsPrereq(c)' <=> IsPrereq(c)
  BY <1>2 DEF IsPrereq, Req
<1> QED
  BY <1>1, <1>3, RecordKept, PrereqsLastKept DEF RecordInv

\* The records hold in every state of a run.
LEMMA RecordInvariant == Spec => [](IInv /\ ActiveInv /\ RecordInv)
<1>1. Init => RecordInv
  BY DEF Init, RecordInv, Recorded, Procs, PrereqsLast
<1>2. IInv /\ ActiveInv /\ RecordInv /\ [Next]_vars => RecordInv'
  BY NextRecord
<1> QED
  BY <1>1, <1>2, ActiveInvariant, PTL DEF Spec

\* A chunk that runs, runs in order.
LEMMA RunsInOrder ==
    ASSUME IInv, ActiveInv, RecordInv, [Next]_vars, NEW c \in Chunks, Starts(c)
    PROVE  InOrder(c)
<1>1. Run(c)
  BY OnlyRunStarts
<1>2. c \notin prereq
  <2>1. did' # did
    BY DEF Starts, IInv, ResultsOK
  <2> QED
    BY <1>1, <2>1 DEF Run, TestRun, procVars
<1>3. ASSUME NEW k \in {"require", "watch", "onfail", "onchanges", "prerequired"},
             NEW d \in Req(k, c)
      PROVE  /\ Waited(d) /\ (d \in unread \/ Over(d))
             /\ k # "onfail" => Over(d) /\ (did[d].how = "false" => IsPrereq(d))
  <2>1. /\ Present(c) /\ d \in Chunks /\ d \in DOMAIN running
        /\ k # "onfail" => Reconciled[d].result # "false"
    BY <1>1, <1>2, FindsResults
  <2>2. NoProcs
    BY <1>1, <1>2, <2>1, RunFinds
  <2>3. CASE IsPrereq(d)
    BY <2>1, <2>3 DEF Over, Waited
  <2>4. CASE ~IsPrereq(d)
    <3>1. Recorded(d)
      BY <2>1, <2>4 DEF RecordInv
    <3>2. d \notin alive
      BY <2>1, <2>2, <3>1 DEF NoProcs, Recorded
    <3>3. k # "onfail" => d \notin forgotten /\ did[d].how # "false"
      <4>1. CASE running[d].proc
        <5>1. Reconciled[d] = Written(d)
          BY <2>1, <3>2, <4>1 DEF Reconciled
        <5>2. Failed.result = "false"
          BY DEF Failed, Result
        <5> QED
          BY <2>1, <3>1, <4>1, <5>1, <5>2 DEF Written, Recorded
      <4>2. CASE ~running[d].proc
        <5>1. Reconciled[d] = running[d]
          BY <2>1, <4>2 DEF Reconciled
        <5>2. Failed.result = "false"
          BY DEF Failed, Result
        <5> QED
          BY <2>1, <3>1, <4>2, <5>1, <5>2 DEF Recorded
      <4> QED
        BY <4>1, <4>2
    <3>4. d \notin forgotten \/ d \in unread
      BY <3>1 DEF Recorded
    <3> QED
      BY <2>1, <3>2, <3>3, <3>4 DEF Waited, Over
  <2> QED
    BY <2>3, <2>4
<1>4. \A d \in Needed(c) : Over(d) /\ (did[d].how = "false" => IsPrereq(d))
  BY <1>3 DEF Needed
<1>5. \A d \in Req("onfail", c) : Waited(d) /\ (d \in unread \/ Over(d))
  BY <1>3
<1>6. ASSUME Req("onfail", c) # {}, \A d \in Req("onfail", c) : Reconciled[d].result = "true",
             Needed(c) = {}, Req("prereq", c) = {}
      PROVE  FALSE
  <2>1. PICK e \in Req("onfail", c) : TRUE
    BY <1>6
  <2>2. Present(c) /\ e \in DOMAIN running
    BY <1>1, <1>2, FindsResults
  <2>3. /\ Status(c, Reconciled) \in {"met", "change"}
        /\ KindsOf(c) = Direct \cup {"prerequired"}
    BY <1>1, <1>2, <2>2, RunFinds
  <2>4. \A k \in KindsOf(c) : k # "onfail" => Req(k, c) = {}
    BY <1>6, <2>3 DEF Needed, Direct
  <2>5. \A d \in Req("onfail", c) : d \in DOMAIN Reconciled
    BY <1>1, <1>2, FindsResults DEF Reconciled
  <2>6. \A x : x.result = "true" => StatsOf("onfail", x) = {"onfail"}
    BY DEF StatsOf
  <2>7. Stats(c, Reconciled) \subseteq {"onfail"}
    BY <1>6, <2>4, <2>5, <2>6 DEF Stats
  <2>8. "onfail" \in Stats(c, Reconciled)
    <3>1. "onfail" \in KindsOf(c)
      BY <2>3 DEF Direct
    <3> QED
      BY <1>6, <2>1, <2>5, <2>6, <3>1, StatsMember
  <2> QED
    BY <2>2, <2>3, <2>7, <2>8, MetStats
<1>7. ASSUME Req("onchanges", c) # {}, \A d \in Req("onchanges", c) : ~Reconciled[d].changes
      PROVE  \E a, b \in Req("prereq", c) : pre[a].result = "none" /\ pre[b].result # "none"
  <2>1. PICK e \in Req("onchanges", c) : TRUE
    BY <1>7
  <2>2. Present(c) /\ \A d \in Req("onchanges", c) :
                         d \in DOMAIN Reconciled /\ Reconciled[d].result # "false"
    BY <1>1, <1>2, <2>1, FindsResults DEF Reconciled
  <2>3. /\ Status(c, Reconciled) \in {"met", "change"}
        /\ KindsOf(c) = Direct \cup {"prerequired"}
    BY <1>1, <1>2, <2>2, RunFinds
  <2> DEFINE S == Stats(c, Reconciled)
  <2>4. "onchanges" \in S
    <3>1. "onchanges" \in StatsOf("onchanges", Reconciled[e])
      BY <1>7, <2>1, <2>2 DEF StatsOf
    <3>2. "onchanges" \in KindsOf(c)
      BY <2>3 DEF Direct
    <3> QED
      BY <2>1, <2>2, <3>1, <3>2, StatsMember
  <2>5. "onchangesmet" \notin S
    <3>1. \A k, x : k # "onchanges" => "onchangesmet" \notin StatsOf(k, x)
      BY DEF StatsOf
    <3>2. \A x : ~x.changes => "onchangesmet" \notin StatsOf("onchanges", x)
      BY DEF StatsOf
    <3> QED
      BY <1>7, <3>1, <3>2 DEF Stats
  <2>6. "pre" \in S /\ "premet" \in S
    BY <2>2, <2>3, <2>4, <2>5, MetStats
  <2>7. \A k, x : "premet" \in StatsOf(k, x) => k = "prereq"
    BY DEF StatsOf
  <2>8. \A k, x : "pre" \in StatsOf(k, x) => k = "prereq" /\ x.result # "none"
    BY DEF StatsOf
  <2>9. \E a \in Req("prereq", c) : "premet" \in StatsOf("prereq", pre[a]) /\ a \in DOMAIN pre
    BY <2>6, <2>7 DEF Stats
  <2>10. \E b \in Req("prereq", c) : "pre" \in StatsOf("prereq", pre[b]) /\ b \in DOMAIN pre
    BY <2>6, <2>8 DEF Stats
  <2>11. \A x : "premet" \in StatsOf("prereq", x) => x.result = "none"
    BY DEF StatsOf
  <2> QED
    BY <2>8, <2>9, <2>10, <2>11
<1>8. ASSUME ~IsPrereq(c), NEW d \in Req("prereq", c) PROVE did[d].n = 0
  <2>1. Present(c)
    BY <1>8 DEF Present, Direct
  <2>2. d \in Chunks
    BY <1>1, <1>2, <2>1, RunFinds DEF Req, Direct
  <2>3. c \in Req("prerequired", d)
    BY <1>8 DEF Req
  <2>4. c \notin DOMAIN running
    BY <1>8, ResultStands
  <2>5. did[d].n \in Nat
    BY <2>2 DEF IInv, ResultsOK
  <2> QED
    BY <2>2, <2>3, <2>4, <2>5 DEF RecordInv, PrereqsLast
<1> QED
  BY <1>4, <1>5, <1>6, <1>7, <1>8 DEF InOrder

\* When a chunk runs, its requisites are met, in every low data
\* (State.check_requisite, State.call_chunk).
THEOREM RequisitesFirst == Spec => StartsInOrder
<1>1. IInv /\ ActiveInv /\ RecordInv /\ [Next]_vars =>
        [\A c \in Chunks : Starts(c) => InOrder(c)]_vars
  BY RunsInOrder
<1> QED
  BY <1>1, RecordInvariant, PTL DEF Spec, StartsInOrder
-----------------------------------------------------------------------------
(* Low data without prereq: call_chunk ends for every chunk, with a result  *)
(* unless failhard stops it, and no activation of call_chunk is called when *)
(* the requisites of its chunk have been called and it is called again.     *)

NoPrereqs == \A c \in Chunks : Req("prereq", c) = {}

\* activation f is still to call requisite d, or is calling it
Pending(f, k, d) ==
    \/ f.stage \in {"requisites", "called"} /\ <<Place[k], d>> \in f.todo
    \/ f.stage = "called" /\ d = f.last

\* an activation has found its requisites, and has not forgotten any
RequisitesCalled ==
    ~FAILHARD =>
        \A i \in 1 .. Len(stack) : stack[i].stage # "enter" =>
            \A k \in Direct : \A d \in Req(k, stack[i].chunk) :
                d \in Chunks /\ (d \in DOMAIN running \/ Pending(stack[i], k, d))

\* a chunk that is called again, after its requisites, calls nothing
AgainOnTop ==
    \A i \in 1 .. Len(stack) :
        stack[i].stage = "again" => i = 1 \/ (i = 2 /\ stack[1].stage = "enter")

\* who has been called has a result
Answered == ~FAILHARD => \A d \in Chunks : JustCalled(d) => d \in DOMAIN running

CallInv ==
    prerequired = {} /\ RequisitesCalled /\ AgainOnTop /\ Answered

\* a failure with failhard is among the results
Stopped == \E c \in Chunks : check_failhard(c, running)

LoopDone ==
    pc = "chunks" /\ ~FAILHARD => \A c \in Chunks : c < pos => c \in DOMAIN running

AllFinished ==
    pc \in {"listen", "done"} =>
        Stopped \/ \A c \in Chunks : c \in DOMAIN running /\ ~running[c].proc

\* the recursion does not go deeper than through all the chunks
NotEndless == StackLimit > N + 1 /\ pc = "crashed" => FAILHARD

PlainInv ==
    NoPrereqs => CallInv /\ LoopDone /\ (FAILHARD => Stopped) /\ AllFinished /\ NotEndless

\* The low data is read only, and so is what it requires.
LEMMA LowDataStays ==
    ASSUME [Next]_vars
    PROVE  sls' = sls
<1>1. ASSUME NEW c \in Chunks,
             \/ NotFound(c) \/ Unmet(c) \/ Run(c) \/ Fail(c) \/ NoneDetected(c) \/ NotNeeded(c)
             \/ Called(c) \/ Again(c) \/ Test(c) \/ Ran(c) \/ Listen(c) \/ Ends(c)
             \/ \E t \in (1 .. 6) \X Chunks : HasRun(c, t) \/ Descend(c, t) \/ Recursive(c, t)
      PROVE  sls' = sls
  BY <1>1
  DEF NotFound, Unmet, Run, Fail, NoneDetected, NotNeeded, Enter, Called, Again, Test, Ran,
      Listen,
          Ends, ProcessEnds, ForgottenEnds, WatcherEnds, Writes,
          HasRun, Descend, Recursive, loopVars
<1>2. ASSUME \/ CallChunk \/ SkipChunk \/ EndOfCall \/ FailHard \/ Finish \/ EndListen
             \/ AttributeError \/ RecursionError \/ UNCHANGED vars
      PROVE  sls' = sls
  BY <1>2
  DEF CallChunk, SkipChunk, EndOfCall, FailHard, Finish, EndListen, AttributeError,
      RecursionError, vars, loopVars
<1> QED
  BY <1>1, <1>2 DEF Next, Ends, Step, Ended

\* Without prereqs no chunk is one.
LEMMA NobodyIsPrereq ==
    ASSUME NoPrereqs
    PROVE  \A c \in Chunks : ~IsPrereq(c) /\ Req("prerequired", c) = {}
BY DEF NoPrereqs, IsPrereq, Req

\* An activation that returns has given its chunk a result.
LEMMA ReturnKeepsCalls ==
    ASSUME StackOK, CallInv, stack # <<>>, Return, UNCHANGED <<sls, pos, calling, prerequired>>,
           DOMAIN running \subseteq DOMAIN running',
           FAILHARD => FAILHARD',
           ~FAILHARD' => Top.chunk \in DOMAIN running'
    PROVE  CallInv'
<1>1. /\ Len(stack) \in Nat \ {0} /\ Len(stack') = Len(stack) - 1
      /\ \A i \in 1 .. Len(stack') : stack'[i] = stack[i + 1]
      /\ stack' \in Seq(FrameType)
  BY Returned
<1>2. \A k, c : Req(k, c)' = Req(k, c)
  BY DEF Req
<1>3. \A f, k, d : Pending(f, k, d)' <=> Pending(f, k, d)
  BY DEF Pending
<1>4. RequisitesCalled'
  <2> SUFFICES ASSUME ~FAILHARD', NEW i \in 1 .. Len(stack'), stack'[i].stage # "enter",
                      NEW k \in Direct, NEW d \in Req(k, stack'[i].chunk)
               PROVE  d \in Chunks /\ (d \in DOMAIN running' \/ Pending(stack'[i], k, d))
    BY <1>2, <1>3 DEF RequisitesCalled
  <2>1. i + 1 \in 1 .. Len(stack) /\ stack'[i] = stack[i + 1] /\ ~FAILHARD
    BY <1>1
  <2> QED
    BY <2>1 DEF CallInv, RequisitesCalled
<1>5. AgainOnTop'
  BY <1>1 DEF CallInv, AgainOnTop
<1>6. Answered'
  <2> SUFFICES ASSUME ~FAILHARD', NEW d \in Chunks, JustCalled(d)'
               PROVE  d = Top.chunk
    BY DEF Answered
  <2>1. CASE stack' = <<>>
    <3>1. Len(stack) = 1
      BY <1>1, <2>1, EmptySeq
    <3>2. pos = d
      BY <2>1 DEF JustCalled
    <3> QED
      BY <3>1, <3>2 DEF StackOK, Top
  <2>2. CASE stack' # <<>>
    <3>1. Len(stack') \in Nat \ {0}
      BY <1>1, <2>2, EmptySeq
    <3>2. Calls(stack[2], stack[1].chunk) /\ stack'[1] = stack[2]
      BY <1>1, <3>1 DEF StackOK
    <3>3. Calls(stack[2], d)
      BY <2>2, <3>2 DEF JustCalled, Top, Calls
    <3> QED
      BY <3>2, <3>3 DEF Calls, Top
  <2> QED
    BY <2>1, <2>2
<1> QED
  BY <1>4, <1>5, <1>6 DEF CallInv

\* The innermost activation goes on to its requisites.
LEMMA GoToKeepsCalls ==
    ASSUME StackOK, CallInv, stack # <<>>, UNCHANGED <<sls, pos, calling, prerequired, FAILHARD>>,
           NEW f \in FrameType, f.chunk = Top.chunk, f.stage = "requisites", GoTo(f),
           Top.stage # "again", Len(stack) > 1 => stack[2].stage # "again",
           DOMAIN running \subseteq DOMAIN running',
           ~FAILHARD => \A k \in Direct : \A d \in Req(k, f.chunk) :
                            d \in Chunks /\ (d \in DOMAIN running' \/ Pending(f, k, d))
    PROVE  CallInv'
<1>1. /\ Len(stack) \in Nat \ {0} /\ Len(stack') = Len(stack)
      /\ stack'[1] = f
      /\ \A i \in 2 .. Len(stack') : stack'[i] = stack[i]
      /\ stack' \in Seq(FrameType)
  BY GoneOn
<1>2. \A k, c : Req(k, c)' = Req(k, c)
  BY DEF Req
<1>3. \A g, k, d : Pending(g, k, d)' <=> Pending(g, k, d)
  BY DEF Pending
<1>4. RequisitesCalled'
  <2> SUFFICES ASSUME ~FAILHARD, NEW i \in 1 .. Len(stack'), stack'[i].stage # "enter",
                      NEW k \in Direct, NEW d \in Req(k, stack'[i].chunk)
               PROVE  d \in Chunks /\ (d \in DOMAIN running' \/ Pending(stack'[i], k, d))
    BY <1>2, <1>3 DEF RequisitesCalled
  <2>1. CASE i = 1
    BY <1>1, <2>1
  <2>2. CASE i # 1
    <3>1. i \in 1 .. Len(stack) /\ stack'[i] = stack[i]
      BY <1>1, <2>2
    <3> QED
      BY <3>1 DEF CallInv, RequisitesCalled
  <2> QED
    BY <2>1, <2>2
<1>5. AgainOnTop'
  BY <1>1 DEF CallInv, AgainOnTop
<1>6. stack' # <<>> /\ \A d : ~JustCalled(d)'
  BY <1>1, EmptySeq DEF JustCalled, Calls, Top
<1> QED
  BY <1>4, <1>5, <1>6 DEF CallInv, Answered

\* The innermost activation calls another one.
LEMMA CallOnKeepsCalls ==
    ASSUME StackOK, CallInv, stack # <<>>,
           UNCHANGED <<sls, pos, calling, prerequired, FAILHARD, running>>,
           NEW f \in FrameType, f.chunk = Top.chunk, f.stage \in {"called", "again"},
           Top.stage = "requisites", NEW e \in Chunks, CallOn(e, f),
           \A k \in Direct : \A d \in Req(k, f.chunk) :
               Pending(Top, k, d) => Pending(f, k, d)
    PROVE  CallInv'
<1>0. Frame(e).stage = "enter"
  BY DEF Frame
<1>1. /\ Len(stack) \in Nat \ {0} /\ Len(stack') = Len(stack) + 1
      /\ stack'[1] = Frame(e) /\ stack'[2] = f
      /\ \A i \in 3 .. Len(stack') : stack'[i] = stack[i - 1]
      /\ stack' \in Seq(FrameType)
  BY CalledAnother
<1>2. \A k, c : Req(k, c)' = Req(k, c)
  BY DEF Req
<1>3. \A g, k, d : Pending(g, k, d)' <=> Pending(g, k, d)
  BY DEF Pending
<1>4. RequisitesCalled'
  <2> SUFFICES ASSUME ~FAILHARD, NEW i \in 1 .. Len(stack'), stack'[i].stage # "enter",
                      NEW k \in Direct, NEW d \in Req(k, stack'[i].chunk)
               PROVE  d \in Chunks /\ (d \in DOMAIN running \/ Pending(stack'[i], k, d))
    BY <1>2, <1>3 DEF RequisitesCalled
  <2>1. CASE i = 2
    <3>1. stack[1] = Top /\ 1 \in 1 .. Len(stack)
      BY <1>1 DEF Top
    <3>2. d \in Chunks /\ (d \in DOMAIN running \/ Pending(Top, k, d))
      BY <1>1, <2>1, <3>1 DEF CallInv, RequisitesCalled
    <3> QED
      BY <1>1, <2>1, <3>2
  <2>2. CASE i > 2
    <3>1. i - 1 \in 1 .. Len(stack) /\ stack'[i] = stack[i - 1]
      BY <1>1, <2>2
    <3> QED
      BY <3>1 DEF CallInv, RequisitesCalled
  <2> QED
    BY <1>0, <1>1, <2>1, <2>2
<1>5. AgainOnTop'
  <2> SUFFICES ASSUME NEW i \in 1 .. Len(stack'), stack'[i].stage = "again"
               PROVE  i = 2
    BY <1>0, <1>1 DEF AgainOnTop
  <2>1. CASE i > 2
    <3>1. i - 1 \in 1 .. Len(stack) /\ stack[i - 1].stage = "again" /\ i - 1 > 1
      BY <1>1, <2>1
    <3> QED
      BY <3>1 DEF CallInv, AgainOnTop, Top
  <2> QED
    BY <1>0, <1>1, <2>1
<1>6. stack' # <<>> /\ \A d : ~JustCalled(d)'
  BY <1>0, <1>1, EmptySeq DEF JustCalled, Calls, Top
<1> QED
  BY <1>4, <1>5, <1>6 DEF CallInv, Answered
\* A chunk is unmet when one of its requisites has no result.
LEMMA UnmetRequisite ==
    ASSUME NoPrereqs, NEW c \in Chunks, Status(c, Seen(c)) = "unmet"
    PROVE  Present(c) /\ \E k \in Direct : \E d \in Req(k, c) : d \notin DOMAIN running
<1>1. Present(c) /\ "unmet" \in Stats(c, Seen(c))
  BY DEF Status
<1>2. \A k, r : "unmet" \notin StatsOf(k, r)
  BY DEF StatsOf
<1>3. PICK k \in KindsOf(c) : \E d \in Req(k, c) :
          "unmet" \in (LET dict == IF k = "prereq" THEN pre ELSE Seen(c)
                       IN  IF d \in DOMAIN dict THEN StatsOf(k, dict[d]) ELSE {"unmet"})
  BY <1>1 DEF Stats
<1>4. k \in Direct \ {"prereq"}
  BY <1>3, NobodyIsPrereq DEF KindsOf, NoPrereqs
<1>5. DOMAIN Seen(c) = DOMAIN running
  BY DEF Seen, Reconciled
<1>6. \E d \in Req(k, c) : d \notin DOMAIN running
  BY <1>2, <1>3, <1>4, <1>5
<1> QED
  BY <1>1, <1>4, <1>6

\* The steps of an activation that looks at its requisites.
LEMMA EnterCalls ==
    ASSUME IInv, ActiveInv, NoPrereqs, CallInv, NEW c \in Chunks,
           NotFound(c) \/ Unmet(c) \/ Run(c) \/ Fail(c) \/ NoneDetected(c) \/ NotNeeded(c)
    PROVE  CallInv'
<1>i. StackOK /\ prereq = {} /\ prerequired = {}
  BY NobodyIsPrereq DEF IInv, MarksOK, ActiveInv, OnlyPrereqsMarked, SomePrereq, CallInv
<1>n. Req("prereq", c) = {} /\ Req("prerequired", c) = {}
  BY NobodyIsPrereq DEF NoPrereqs
<1>1. PICK statuses : Enter(c, statuses)
  BY DEF NotFound, Unmet, Run, Fail, NoneDetected, NotNeeded
<1>2. /\ stack # <<>> /\ c = Top.chunk /\ Top.stage = "enter" /\ Checked(c)
      /\ UNCHANGED <<sls, pos, calling, FAILHARD>>
  BY <1>1 DEF Enter, At, loopVars
<1>3. DOMAIN Seen(c) = DOMAIN running
  BY DEF Seen, Reconciled
<1>4. \A r : DOMAIN Put(Seen(c), c, r) = DOMAIN running \cup {c}
  BY <1>3 DEF Put
<1>5. UNCHANGED prerequired
  BY <1>i, <1>n DEF NotFound, Unmet, Run, Fail, NoneDetected, NotNeeded, Mark
<1>6. CASE Unmet(c)
  <2> DEFINE f == [Top EXCEPT !.stage = "requisites",
                      !.todo = UNION {{<<Place[k], d>> : d \in Req(k, c)} : k \in KindsOf(c)}]
  <2>1. GoTo(f) /\ running' = Seen(c) /\ ~Lost(c) /\ Status(c, Seen(c)) = "unmet"
    <3>1. Enter(c, {"unmet"})
      BY <1>6 DEF Unmet
    <3>2. (IF Lost(c) THEN "lost" ELSE Status(c, Seen(c))) = "unmet"
      BY <3>1 DEF Enter
    <3> QED
      BY <1>6, <3>2 DEF Unmet
  <2>2. Top \in FrameType
    BY <1>i, <1>2, TopType
  <2>3. f \in FrameType /\ f.chunk = c /\ f.stage = "requisites"
    BY <1>2, <2>2, TodoType DEF FrameType, Stages
  <2>4. f.todo = UNION {{<<Place[k], d>> : d \in Req(k, c)} : k \in KindsOf(c)}
    BY <2>2 DEF FrameType
  <2> HIDE DEF f
  <2>5. \A k \in Direct : \A d \in Req(k, c) : d \in Chunks /\ <<Place[k], d>> \in f.todo
    <3>1. \A k \in Direct : \A d \in Req(k, c) : d \in Chunks
      BY <2>1 DEF Lost, KindsOf, Req
    <3>2. Direct \subseteq KindsOf(c)
      BY DEF KindsOf
    <3> QED
      BY <2>4, <3>1, <3>2
  <2>6. \A k \in Direct : \A d \in Req(k, f.chunk) :
            d \in Chunks /\ (d \in DOMAIN running' \/ Pending(f, k, d))
    BY <2>3, <2>5 DEF Pending
  <2>7. ASSUME Len(stack) > 1 PROVE stack[2].stage # "again"
    <3> SUFFICES ASSUME stack[2].stage = "again" PROVE FALSE
      OBVIOUS
    <3>1. Len(stack) \in Nat \ {0} /\ 2 \in 1 .. Len(stack) /\ 1 \in 1 .. Len(stack) - 1
      BY <1>i, <1>2, <2>7, EmptySeq DEF StackOK
    <3>2. stack[2].chunk = c
      BY <1>i, <1>2, <3>1 DEF StackOK, Calls, Top
    <3>3. ~FAILHARD
      BY <1>2, <2>1, UnmetRequisite DEF Checked
    <3>4. \A k, d : ~Pending(stack[2], k, d)
      BY DEF Pending
    <3>5. \A k \in Direct : \A d \in Req(k, c) : d \in DOMAIN running
      BY <3>1, <3>2, <3>3, <3>4 DEF CallInv, RequisitesCalled
    <3> QED
      BY <2>1, <3>5, UnmetRequisite
  <2>8. DOMAIN running \subseteq DOMAIN running'
    BY <1>3, <2>1
  <2> QED
    BY <1>i, <1>2, <1>5, <2>1, <2>3, <2>6, <2>7, <2>8, GoToKeepsCalls
<1>7. CASE ~Unmet(c)
  <2>1. Return
    BY <1>7 DEF NotFound, Unmet, Run, Fail, NoneDetected, NotNeeded
  <2>2. \E r : running' = Put(Seen(c), c, r)
    <3>1. CASE NotFound(c)
      BY <1>i, <1>n, <3>1 DEF NotFound, Mark
    <3>2. CASE Run(c)
      BY <1>i, <3>2 DEF Run, Execute
    <3> QED
      BY <1>7, <3>1, <3>2 DEF Fail, NoneDetected, NotNeeded
  <2>3. DOMAIN running \subseteq DOMAIN running' /\ c \in DOMAIN running'
    BY <1>4, <2>2
  <2> QED
    BY <1>i, <1>2, <1>5, <2>1, <2>3, ReturnKeepsCalls
<1> QED
  BY <1>6, <1>7

\* The steps of an activation that calls its requisites.
LEMMA RequisiteCalls ==
    ASSUME IInv, ActiveInv, NoPrereqs, CallInv, NEW c \in Chunks,
           \/ Again(c) \/ Test(c)
           \/ \E t \in (1 .. 6) \X Chunks : HasRun(c, t) \/ Descend(c, t) \/ Recursive(c, t)
    PROVE  CallInv'
<1>i. StackOK /\ prereq = {} /\ prerequired = {}
  BY NobodyIsPrereq DEF IInv, MarksOK, ActiveInv, OnlyPrereqsMarked, SomePrereq, CallInv
<1>a. /\ stack # <<>> /\ Top.stage = "requisites" /\ c = Top.chunk
      /\ UNCHANGED <<sls, pos, calling, prerequired>>
  BY DEF Again, Test, HasRun, Descend, Recursive, NextRequisite, At, loopVars, markVars
<1>b. Top \in FrameType /\ Len(stack) \in Nat \ {0} /\ Top = stack[1]
  BY <1>a, <1>i, TopType, EmptySeq DEF StackOK, Top
<1>c. Len(stack) > 1 => stack[2].stage # "again"
  BY <1>a, <1>b DEF CallInv, AgainOnTop
<1>d. ~FAILHARD => \A k \in Direct : \A d \in Req(k, c) :
                       d \in Chunks /\ (d \in DOMAIN running \/ <<Place[k], d>> \in Top.todo)
  BY <1>a, <1>b DEF CallInv, RequisitesCalled, Pending
<1>1. CASE Again(c)
  <2> DEFINE f == [Top EXCEPT !.stage = "again"]
  <2>1. CallOn(c, f) /\ UNCHANGED <<running, FAILHARD>> /\ Top.todo = {}
    BY <1>1 DEF Again, resVars
  <2>2. f \in FrameType /\ f.chunk = Top.chunk /\ f.stage = "again"
    BY <1>b DEF FrameType, Stages
  <2>3. \A k, d : ~Pending(Top, k, d)
    BY <1>a, <2>1 DEF Pending
  <2> HIDE DEF f
  <2> QED
    BY <1>a, <1>i, <2>1, <2>2, <2>3, CallOnKeepsCalls
<1>2. CASE Test(c)
  BY <1>i, <1>2 DEF Test
<1>3. ASSUME NEW t \in (1 .. 6) \X Chunks, HasRun(c, t) \/ Descend(c, t)
      PROVE  CallInv'
  <2>1. UNCHANGED <<running, FAILHARD>> /\ t[2] \in Chunks
    BY <1>3 DEF HasRun, Descend, resVars
  <2> DEFINE g == [Without(t) EXCEPT !.stage = "called"]
  <2>2. /\ Without(t) \in FrameType /\ Without(t).chunk = Top.chunk
        /\ Without(t).stage = Top.stage
        /\ Without(t).todo = Top.todo \ {t}
        /\ g \in FrameType /\ g.chunk = Top.chunk /\ g.stage = "called"
        /\ g.todo = Top.todo \ {t} /\ g.last = t[2]
    BY <1>b, <2>1 DEF Without, FrameType, Stages
  <2> HIDE DEF g
  <2>3. \A k, d : <<Place[k], d>> \in Top.todo => d = t[2] \/ <<Place[k], d>> \in Top.todo \ {t}
    OBVIOUS
  <2>4. CASE HasRun(c, t)
    <3>1. GoTo(Without(t)) /\ t[2] \in DOMAIN running
      BY <2>4 DEF HasRun
    <3>2. ~FAILHARD => \A k \in Direct : \A d \in Req(k, c) :
                           d \in Chunks /\ (d \in DOMAIN running \/ Pending(Without(t), k, d))
      BY <1>a, <1>d, <2>2, <2>3, <3>1 DEF Pending
    <3> QED
      BY <1>a, <1>c, <1>i, <2>1, <2>2, <3>1, <3>2, GoToKeepsCalls
  <2>5. CASE Descend(c, t)
    <3>1. CallOn(t[2], g)
      BY <2>5 DEF Descend, g
    <3>2. \A k \in Direct : \A d \in Req(k, c) : Pending(Top, k, d) => Pending(g, k, d)
      BY <1>a, <2>2, <2>3 DEF Pending
    <3> QED
      BY <1>a, <1>i, <2>1, <2>2, <3>1, <3>2, CallOnKeepsCalls
  <2> QED
    BY <1>3, <2>4, <2>5
<1>4. ASSUME NEW t \in (1 .. 6) \X Chunks, Recursive(c, t)
      PROVE  CallInv'
  <2>1. Return /\ running' = Put(running, c, Failed) /\ UNCHANGED FAILHARD
    BY <1>4, <1>i DEF Recursive
  <2>2. DOMAIN running' = DOMAIN running \cup {c}
    BY <2>1 DEF Put
  <2> QED
    BY <1>a, <1>i, <2>1, <2>2, ReturnKeepsCalls
<1> QED
  BY <1>1, <1>2, <1>3, <1>4

\* An activation that is back from a call.
LEMMA BackCalls ==
    ASSUME IInv, ActiveInv, NoPrereqs, CallInv, NEW c \in Chunks, Called(c) \/ Ran(c)
    PROVE  CallInv'
<1>i. StackOK
  BY DEF IInv
<1>a. /\ stack # <<>> /\ Top.stage \in {"called", "again"} /\ c = Top.chunk
      /\ UNCHANGED <<sls, pos, calling, prerequired, running>>
  BY DEF Called, Ran, At, loopVars, markVars
<1>b. Top \in FrameType /\ Len(stack) \in Nat \ {0} /\ Top = stack[1]
  BY <1>a, <1>i, TopType, EmptySeq DEF StackOK, Top
<1>1. CASE Ran(c)
  <2>1. Return /\ (FAILHARD => FAILHARD') /\ Top.stage = "again"
    BY <1>1 DEF Ran, At
  <2>2. JustCalled(c)
    BY <1>a, <2>1 DEF JustCalled, Calls
  <2>3. ~FAILHARD => c \in DOMAIN running
    BY <2>2 DEF CallInv, Answered
  <2> QED
    BY <1>a, <1>i, <2>1, <2>3, ReturnKeepsCalls
<1>2. CASE Called(c) /\ check_failhard(Top.last, running)
  <2>1. Return /\ FAILHARD' = TRUE
    BY <1>2 DEF Called
  <2> QED
    BY <1>a, <1>i, <2>1, ReturnKeepsCalls
<1>3. CASE Called(c) /\ ~check_failhard(Top.last, running)
  <2> DEFINE f == [Top EXCEPT !.stage = "requisites"]
  <2>1. GoTo(f) /\ UNCHANGED FAILHARD /\ Top.stage = "called"
    BY <1>3 DEF Called, At
  <2>2. f \in FrameType /\ f.chunk = Top.chunk /\ f.stage = "requisites" /\ f.todo = Top.todo
    BY <1>b DEF FrameType, Stages
  <2> HIDE DEF f
  <2>3. Top.last \in Chunks /\ JustCalled(Top.last)
    BY <1>a, <1>b, <2>1 DEF JustCalled, Calls, FrameType
  <2>4. ~FAILHARD => \A k \in Direct : \A d \in Req(k, c) :
                         d \in Chunks /\ (d \in DOMAIN running \/ Pending(f, k, d))
    <3>1. ~FAILHARD => Top.last \in DOMAIN running
      BY <2>3 DEF CallInv, Answered
    <3>2. ~FAILHARD => \A k \in Direct : \A d \in Req(k, c) :
                           d \in Chunks /\ (d \in DOMAIN running \/ Pending(Top, k, d))
      BY <1>a, <1>b DEF CallInv, RequisitesCalled
    <3> QED
      BY <2>1, <2>2, <3>1, <3>2 DEF Pending
  <2>5. Len(stack) > 1 => stack[2].stage # "again"
    BY <1>b, <2>1 DEF CallInv, AgainOnTop
  <2> QED
    BY <1>a, <1>i, <2>1, <2>2, <2>4, <2>5, GoToKeepsCalls
<1> QED
  BY <1>1, <1>2, <1>3

\* Every step keeps what holds of the calls.
LEMMA NextCalls ==
    ASSUME IInv, ActiveInv, NoPrereqs, CallInv, [Next]_vars
    PROVE  CallInv'
<1>i. StackOK
  BY DEF IInv
<1>l. Len(<<>>) = 0
  OBVIOUS
<1>1. CASE CallChunk
  <2>1. stack' = <<Frame(pos)>> /\ UNCHANGED <<sls, running, prerequired, FAILHARD>>
    BY <1>1 DEF CallChunk, resVars, markVars
  <2>2. Len(stack') = 1 /\ stack'[1].stage = "enter" /\ stack' # <<>>
    BY <2>1 DEF Frame
  <2>3. \A d : ~JustCalled(d)'
    BY <2>2 DEF JustCalled, Calls, Top
  <2> QED
    BY <2>1, <2>2, <2>3 DEF CallInv, RequisitesCalled, AgainOnTop, Answered
<1>2. CASE SkipChunk \/ EndOfCall \/ FailHard \/ Finish
  <2>1. stack' = <<>> /\ UNCHANGED prerequired
    BY <1>2 DEF SkipChunk, EndOfCall, FailHard, Finish, InLoop, markVars
  <2>2. ~calling'
    <3>1. CASE Finish
      <4>1. pos = N + 1 /\ calling' = calling
        BY <3>1 DEF Finish
      <4>2. pos \notin Chunks
        BY <4>1, StateRunAssumption DEF Chunks
      <4> QED
        BY <1>i, <4>1, <4>2 DEF StackOK
    <3> QED
      BY <1>2, <3>1 DEF SkipChunk, EndOfCall, FailHard, InLoop
  <2>3. \A d : ~JustCalled(d)'
    BY <2>1, <2>2 DEF JustCalled
  <2> QED
    BY <1>l, <2>1, <2>3 DEF CallInv, RequisitesCalled, AgainOnTop, Answered
<1>3. CASE (\E c \in Chunks : Listen(c) \/ Ends(c)) \/ EndListen \/ AttributeError
           \/ RecursionError \/ UNCHANGED vars
  <2>1. UNCHANGED <<sls, stack, running, prerequired, FAILHARD, pos, calling>>
    BY <1>3
    DEF Listen,
        Ends, ProcessEnds, ForgottenEnds, WatcherEnds, Writes,
        EndListen, AttributeError, RecursionError, vars, loopVars,
        markVars, resVars
  <2> QED
    BY <2>1
    DEF CallInv, RequisitesCalled, AgainOnTop, Answered, JustCalled, Calls, Top, Pending, Req
<1>4. CASE \E c \in Chunks :
             \/ NotFound(c) \/ Unmet(c) \/ Run(c) \/ Fail(c) \/ NoneDetected(c) \/ NotNeeded(c)
             \/ Called(c) \/ Again(c) \/ Test(c) \/ Ran(c)
             \/ \E t \in (1 .. 6) \X Chunks : HasRun(c, t) \/ Descend(c, t) \/ Recursive(c, t)
  BY <1>4, EnterCalls, RequisiteCalls, BackCalls
<1> QED
  BY <1>1, <1>2, <1>3, <1>4 DEF Next, Ends, Step, Ended
\* Two activations are for different chunks, except the second one when its
\* chunk is called again.
LEMMA NotDeep ==
    ASSUME StackOK, ActiveInv, NoPrereqs, AgainOnTop, stack # <<>>, Top.stage = "enter"
    PROVE  Len(stack) <= N + 1
<1> DEFINE at(j) == IF j = 1 THEN 1 ELSE j + 1
           g == [j \in 1 .. Len(stack) - 1 |-> stack[at(j)].chunk]
<1>1. Len(stack) \in Nat \ {0} /\ stack[1].stage = "enter"
  BY EmptySeq DEF StackOK, Top
<1>2. \A j \in 1 .. Len(stack) - 1 :
        at(j) \in 1 .. Len(stack) /\ stack[at(j)].stage # "again" /\ stack[at(j)].chunk \in Chunks
  <2> SUFFICES ASSUME NEW j \in 1 .. Len(stack) - 1
               PROVE  /\ at(j) \in 1 .. Len(stack) /\ stack[at(j)].stage # "again"
                      /\ stack[at(j)].chunk \in Chunks
    OBVIOUS
  <2>1. at(j) \in 1 .. Len(stack) /\ at(j) # 2
    BY <1>1
  <2>2. stack[at(j)].stage # "again"
    BY <1>1, <2>1 DEF AgainOnTop
  <2>3. stack[at(j)] \in FrameType
    BY <2>1 DEF StackOK
  <2> QED
    BY <2>1, <2>2, <2>3 DEF FrameType
<1>3. \A j, k \in 1 .. Len(stack) - 1 : j < k => stack[at(j)].chunk # stack[at(k)].chunk
  <2> SUFFICES ASSUME NEW j \in 1 .. Len(stack) - 1, NEW k \in 1 .. Len(stack) - 1, j < k
               PROVE  stack[at(j)].chunk # stack[at(k)].chunk
    OBVIOUS
  <2>1. at(j) < at(k)
    OBVIOUS
  <2>2. ~IsPrereq(stack[at(j)].chunk)
    BY <1>2, NobodyIsPrereq
  <2> HIDE DEF at
  <2> QED
    BY <1>2, <2>1, <2>2 DEF ActiveInv, Alone
<1>4. CASE Len(stack) - 1 > N
  <2>1. IsFiniteSet(1 .. Len(stack) - 1) /\ Cardinality(1 .. Len(stack) - 1) = Len(stack) - 1
        /\ IsFiniteSet(Chunks) /\ Cardinality(Chunks) = N
    <3>1. Len(stack) - 1 \in Int /\ N \in Int /\ 1 \in Int /\ N >= 1 /\ Len(stack) - 1 >= 1
      BY <1>1, <1>4, StateRunAssumption
    <3>2. \A n \in Int : n >= 1 => IsFiniteSet(1 .. n) /\ Cardinality(1 .. n) = n
      BY FS_Interval
    <3> QED
      BY <3>1, <3>2 DEF Chunks
  <2>2. g \in [1 .. Len(stack) - 1 -> Chunks]
    BY <1>2
  <2> HIDE DEF g
  <2>3. PICK j, k \in 1 .. Len(stack) - 1 : j # k /\ g[j] = g[k]
    BY <1>4, <2>1, <2>2, FS_PigeonHole
  <2>4. stack[at(j)].chunk = stack[at(k)].chunk
    BY <2>3 DEF g
  <2>5. j < k \/ k < j
    BY <2>3
  <2> HIDE DEF at
  <2> QED
    BY <1>3, <2>4, <2>5
<1> QED
  BY <1>1, <1>4, StateRunAssumption

\* A failure with failhard stays among the results.
LEMMA StoppedStays ==
    ASSUME IInv, ActiveInv, NoPrereqs, [Next]_vars, Stopped
    PROVE  Stopped'
<1>1. PICK c \in Chunks : check_failhard(c, running)
  BY DEF Stopped
<1>2. c \in sls.failhard /\ c \in DOMAIN running /\ running[c].result = "false"
  BY <1>1 DEF check_failhard
<1>3. running'[c] \in {running[c], Reconciled[c]} /\ c \in DOMAIN running'
  BY <1>2, ResultKept, RunningGrows, NobodyIsPrereq
<1>4. ~running[c].proc
  <2>1. \A r \in Results : r.proc => r.result = "none"
    BY DEF Results, Outcomes, Tests, NoChange, Changed, Failed, NotRun, Would, Started, Result
  <2> QED
    BY <1>2, <2>1 DEF IInv, ResultsOK, Sound
<1>5. Reconciled[c] = running[c]
  BY <1>2, <1>4 DEF Reconciled
<1>6. check_failhard(c, running)'
  BY <1>2, <1>3, <1>5, LowDataStays DEF check_failhard
<1> QED
  BY <1>6 DEF Stopped
\* Every step keeps what holds of the loop over the chunks, and of its end.
LEMMA NextPlain == IInv /\ ActiveInv /\ PlainInv /\ [Next]_vars => PlainInv'
<1> SUFFICES ASSUME IInv, ActiveInv, PlainInv, [Next]_vars, NoPrereqs'
             PROVE  /\ CallInv' /\ LoopDone' /\ (FAILHARD => Stopped)' /\ AllFinished'
                    /\ NotEndless'
  BY DEF PlainInv
<1>s. sls' = sls /\ NoPrereqs
  BY LowDataStays DEF NoPrereqs, Req
<1>i. /\ CallInv /\ LoopDone /\ (FAILHARD => Stopped) /\ AllFinished /\ NotEndless
      /\ StackOK
  BY <1>s DEF PlainInv, IInv
<1>c. CallInv'
  BY <1>i, <1>s, NextCalls
<1>g. DOMAIN running \subseteq DOMAIN running' /\ (Stopped => Stopped')
  BY <1>s, RunningGrows, StoppedStays
<1>1. CASE \E c \in Chunks :
             \/ NotFound(c) \/ Unmet(c) \/ Run(c) \/ Fail(c) \/ NoneDetected(c) \/ NotNeeded(c)
             \/ Again(c)
             \/ \E t \in (1 .. 6) \X Chunks : HasRun(c, t) \/ Descend(c, t) \/ Recursive(c, t)
  <2>1. pc = "chunks" /\ UNCHANGED <<pc, pos, FAILHARD>>
    BY <1>1
    DEF NotFound, Unmet, Run, Fail, NoneDetected, NotNeeded, Enter, Again, HasRun, Descend,
        Recursive, NextRequisite, At, loopVars, resVars
  <2> QED
    BY <1>c, <1>g, <1>i, <2>1 DEF LoopDone, AllFinished, NotEndless
<1>2. CASE \E c \in Chunks : Called(c) \/ Ran(c)
  <2>1. PICK c \in Chunks : Called(c) \/ Ran(c)
    BY <1>2
  <2>2. pc = "chunks" /\ UNCHANGED <<pc, pos, running, sls>> /\ (FAILHARD => FAILHARD')
        /\ stack # <<>> /\ c = Top.chunk
    BY <2>1 DEF Called, Ran, At, loopVars
  <2>3. Top.last \in Chunks
    BY <1>i, <2>2, TopType DEF FrameType
  <2>4. FAILHARD' => Stopped
    BY <1>i, <2>1, <2>3 DEF Called, Ran, Stopped
  <2> QED
    BY <1>c, <1>g, <1>i, <2>2, <2>4 DEF LoopDone, AllFinished, NotEndless
<1>3. CASE \E c \in Chunks : Test(c)
  <2>1. prereq = {}
    BY <1>s, NobodyIsPrereq DEF IInv, MarksOK, ActiveInv, OnlyPrereqsMarked, SomePrereq
  <2> QED
    BY <1>3, <2>1 DEF Test
<1>4. CASE CallChunk
  <2>1. pc = "chunks" /\ UNCHANGED <<pc, pos, FAILHARD>>
    BY <1>4 DEF CallChunk, InLoop, resVars
  <2> QED
    BY <1>c, <1>g, <1>i, <2>1 DEF LoopDone, AllFinished, NotEndless
<1>5. CASE SkipChunk
  <2>1. /\ pc = "chunks" /\ UNCHANGED <<pc, FAILHARD, running>> /\ pos \in DOMAIN running
        /\ pos' = pos + 1 /\ pos \in 1 .. N
    BY <1>5 DEF SkipChunk, InLoop, resVars, Chunks
  <2>2. LoopDone'
    BY <1>i, <2>1, StateRunAssumption DEF LoopDone, Chunks
  <2> QED
    BY <1>c, <1>g, <1>i, <2>1, <2>2 DEF AllFinished, NotEndless
<1>6. CASE EndOfCall
  <2>1. pc = "chunks" /\ UNCHANGED <<FAILHARD, running>> /\ calling /\ stack = <<>>
        /\ pos \in Chunks
    BY <1>6, <1>i DEF EndOfCall, StackOK, resVars
  <2>2. JustCalled(pos)
    BY <2>1 DEF JustCalled
  <2>3. ~FAILHARD => pos \in DOMAIN running
    BY <1>i, <2>1, <2>2 DEF CallInv, Answered
  <2>4. CASE check_failhard(pos, running)
    <3>1. pc' = "listen" /\ Stopped
      BY <1>6, <2>1, <2>4 DEF EndOfCall, Stopped
    <3> QED
      BY <1>c, <1>g, <3>1 DEF LoopDone, AllFinished, NotEndless
  <2>5. CASE ~check_failhard(pos, running)
    <3>1. pc' = pc /\ pos' = pos + 1
      BY <1>6, <2>5 DEF EndOfCall
    <3>2. LoopDone'
      BY <1>i, <2>1, <2>3, <3>1, StateRunAssumption DEF LoopDone, Chunks
    <3> QED
      BY <1>c, <1>g, <1>i, <2>1, <3>1, <3>2 DEF AllFinished, NotEndless
  <2> QED
    BY <2>4, <2>5
<1>7. CASE FailHard
  <2>1. FAILHARD /\ ~FAILHARD' /\ pc' = "listen"
    BY <1>7 DEF FailHard
  <2> QED
    BY <1>c, <1>g, <1>i, <2>1 DEF LoopDone, AllFinished, NotEndless
<1>8. CASE Finish
  <2>1. /\ pc = "chunks" /\ pc' = "listen" /\ pos = N + 1 /\ ~FAILHARD /\ NoProcs
        /\ running' = Reconciled /\ FAILHARD' = FAILHARD
    BY <1>8 DEF Finish
  <2>2. \A c \in Chunks : c \in DOMAIN running
    BY <1>i, <2>1, StateRunAssumption DEF LoopDone, Chunks
  <2>3. ASSUME NEW c \in Chunks PROVE c \in DOMAIN Reconciled /\ ~Reconciled[c].proc
    <3>1. \A x \in Outcomes : ~x.proc
      BY DEF Outcomes, NoChange, Changed, Failed, Result
    <3>2. Written(c) \in Outcomes /\ (running[c].proc => c \notin alive)
      BY <2>1, <2>2 DEF IInv, ResultsOK, Written, Outcomes, NoProcs
    <3> QED
      BY <2>2, <3>1, <3>2 DEF Reconciled
  <2>4. AllFinished'
    BY <2>1, <2>3 DEF AllFinished
  <2> QED
    BY <1>c, <2>1, <2>4 DEF LoopDone, NotEndless
<1>9. CASE EndListen \/ \E c \in Chunks : Listen(c)
  <2>1. pc = "listen" /\ pc' \in {"listen", "done"} /\ UNCHANGED <<FAILHARD, running>>
    BY <1>9 DEF EndListen, Listen, resVars
  <2> QED
    BY <1>c, <1>g, <1>i, <2>1 DEF LoopDone, AllFinished, NotEndless
<1>10. CASE AttributeError
  <2>1. pc' = "crashed" /\ FAILHARD' /\ FAILHARD
    BY <1>10 DEF AttributeError, resVars
  <2> QED
    BY <1>c, <1>g, <1>i, <2>1 DEF LoopDone, AllFinished, NotEndless
<1>11. CASE RecursionError
  <2>1. pc' = "crashed" /\ UNCHANGED FAILHARD /\ stack # <<>> /\ Top.stage = "enter"
        /\ Len(stack) >= StackLimit
    BY <1>11 DEF RecursionError, At, resVars
  <2>2. Len(stack) <= N + 1 /\ Len(stack) \in Nat
    BY <1>i, <1>s, <2>1, NotDeep DEF CallInv, StackOK
  <2>3. ~(StackLimit > N + 1)
    BY <2>1, <2>2, StateRunAssumption
  <2> QED
    BY <1>c, <1>g, <1>i, <2>1, <2>3 DEF LoopDone, AllFinished, NotEndless
<1>12. CASE UNCHANGED vars \/ \E c \in Chunks : Ends(c)
  <2>1. UNCHANGED <<pc, pos, FAILHARD, running>>
    BY <1>12 DEF
        Ends, ProcessEnds, ForgottenEnds, WatcherEnds, Writes, vars, loopVars, resVars
  <2> QED
    BY <1>c, <1>g, <1>i, <2>1 DEF LoopDone, AllFinished, NotEndless
<1> QED
  BY <1>1, <1>2, <1>3, <1>4, <1>5, <1>6, <1>7, <1>8, <1>9, <1>10, <1>11, <1>12
  DEF Next, Ends, Step, Ended

\* At the beginning nothing is called, and no chunk is behind.
LEMMA InitPlain == Init => PlainInv
<1> SUFFICES ASSUME Init PROVE PlainInv
  OBVIOUS
<1>1. /\ stack = <<>> /\ prerequired = {} /\ Len(<<>>) = 0 /\ ~calling /\ pos = 1
      /\ pc = "chunks" /\ FAILHARD = FALSE
  BY DEF Init
<1>2. \A c \in Chunks : ~(c < 1)
  BY DEF Chunks
<1>3. \A d : ~JustCalled(d)
  BY <1>1 DEF JustCalled
<1> QED
  BY <1>1, <1>2, <1>3
  DEF PlainInv, CallInv, RequisitesCalled, AgainOnTop, Answered, LoopDone, AllFinished,
      NotEndless

-----------------------------------------------------------------------------
(* call_listen, which goes through the chunks that listen to a change in    *)
(* their order.                                                            *)

\* those that listen to a change and get a real run
Listeners == Due \ prereq

ListenInv ==
    /\ pc = "chunks" => DOMAIN heard = {}
    /\ pc \in {"listen", "done"} =>
         /\ DOMAIN heard \subseteq Listeners
         /\ \A c \in Listeners, d \in DOMAIN heard : c < d => c \in DOMAIN heard
         /\ \A c, d \in DOMAIN heard : Stops(d, heard[d]) => c <= d
    /\ pc = "done" =>
         Listeners \subseteq DOMAIN heard \/ \E d \in DOMAIN heard : Stops(d, heard[d])

\* a chunk that is no prereq has run once, if it has a result, or not at all
OnceEach == \A c \in Chunks : ~IsPrereq(c) => did[c].n <= (IF c \in DOMAIN running THEN 1 ELSE 0)

\* Every step keeps the order of call_listen.
LEMMA NextListen == IInv /\ ListenInv /\ [Next]_vars => ListenInv'
<1> SUFFICES ASSUME IInv, ListenInv, [Next]_vars PROVE ListenInv'
  OBVIOUS
<1>1. ASSUME NEW c \in Chunks, Listen(c) PROVE ListenInv'
  <2>1. /\ pc = "listen" /\ pc' = "listen"
        /\ c \in Listeners \ DOMAIN heard
        /\ \A d \in Listeners \ DOMAIN heard : c <= d
        /\ \A d \in DOMAIN heard : ~Stops(d, heard[d])
        /\ UNCHANGED <<sls, running, prereq>>
    BY <1>1 DEF Listen, Listeners, resVars, markVars
  <2>2. PICK r \in Outcomes : heard' = Put(heard, c, r)
    BY <1>1 DEF Listen
  <2>3. /\ DOMAIN heard' = DOMAIN heard \cup {c}
        /\ \A d \in DOMAIN heard : heard'[d] = heard[d]
    BY <2>1, <2>2 DEF Put
  <2>4. Listeners' = Listeners /\ \A d, x : Stops(d, x)' <=> Stops(d, x)
    BY <2>1 DEF Listeners, Due, Req, Stops
  <2>5. Listeners \subseteq 1 .. N
    BY DEF Listeners, Due, Chunks
  <2>6. \A d \in DOMAIN heard : d <= c
    <3>1. \A d \in DOMAIN heard : d \in Listeners /\ ~(c < d)
      BY <2>1 DEF ListenInv
    <3>2. c \in 1 .. N /\ \A d \in DOMAIN heard : d \in 1 .. N
      BY <2>1, <2>5, <3>1
    <3> QED
      BY <3>1, <3>2
  <2>7. \A e \in Listeners, d \in DOMAIN heard' : e < d => e \in DOMAIN heard'
    BY <2>1, <2>3, <2>5, StateRunAssumption DEF ListenInv
  <2>8. \A e, d \in DOMAIN heard' : Stops(d, heard'[d]) => e <= d
    BY <2>1, <2>3, <2>5, <2>6
  <2> QED
    BY <2>1, <2>3, <2>4, <2>7, <2>8 DEF ListenInv
<1>2. CASE EndListen
  <2>1. /\ pc = "listen" /\ pc' = "done" /\ UNCHANGED <<sls, running, prereq, heard>>
        /\ Listeners \subseteq DOMAIN heard \/ \E d \in DOMAIN heard : Stops(d, heard[d])
    BY <1>2 DEF EndListen, Listeners, resVars, markVars
  <2>2. Listeners' = Listeners /\ \A d, x : Stops(d, x)' <=> Stops(d, x)
    BY <2>1 DEF Listeners, Due, Req, Stops
  <2> QED
    BY <2>1, <2>2 DEF ListenInv
<1>3. CASE UNCHANGED vars \/ \E c \in Chunks : Ends(c)
  <2>1. UNCHANGED <<pc, heard, sls, running, prereq>>
    BY <1>3 DEF
        Ends, ProcessEnds, ForgottenEnds, WatcherEnds, Writes,
        vars, loopVars, resVars, markVars
  <2>2. Listeners' = Listeners /\ \A d, x : Stops(d, x)' <=> Stops(d, x)
    BY <2>1 DEF Listeners, Due, Req, Stops
  <2> QED
    BY <2>1, <2>2 DEF ListenInv
<1>4. CASE \/ \E c \in Chunks :
               \/ NotFound(c) \/ Unmet(c) \/ Run(c) \/ Fail(c) \/ NoneDetected(c)
               \/ NotNeeded(c) \/ Called(c) \/ Again(c) \/ Test(c) \/ Ran(c)
               \/ \E t \in (1 .. 6) \X Chunks : HasRun(c, t) \/ Descend(c, t) \/ Recursive(c, t)
           \/ CallChunk \/ SkipChunk \/ EndOfCall \/ FailHard \/ Finish \/ AttributeError
           \/ RecursionError
  <2>1. pc = "chunks" /\ UNCHANGED heard /\ pc' \in {"chunks", "listen", "crashed"}
    <3>1. CASE \E c \in Chunks :
               \/ NotFound(c) \/ Unmet(c) \/ Run(c) \/ Fail(c) \/ NoneDetected(c)
               \/ NotNeeded(c) \/ Called(c) \/ Again(c) \/ Test(c) \/ Ran(c)
               \/ \E t \in (1 .. 6) \X Chunks : HasRun(c, t) \/ Descend(c, t) \/ Recursive(c, t)
      BY <3>1
      DEF NotFound, Unmet, Run, Fail, NoneDetected, NotNeeded, Enter, Called, Again, Test,
          Ran, HasRun, Descend, Recursive, NextRequisite, At, loopVars
    <3>2. CASE \/ CallChunk \/ SkipChunk \/ EndOfCall \/ FailHard \/ Finish \/ AttributeError
               \/ RecursionError
      BY <3>2
      DEF CallChunk, SkipChunk, EndOfCall, FailHard, Finish, AttributeError, RecursionError,
          InLoop, At
    <3> QED
      BY <1>4, <3>1, <3>2
  <2>2. DOMAIN heard' = {}
    BY <2>1 DEF ListenInv
  <2> QED
    BY <2>1, <2>2 DEF ListenInv
<1> QED
  BY <1>1, <1>2, <1>3, <1>4 DEF Next, Ends, Step, Ended

\* A chunk runs when it has no result, and gets one.
LEMMA NextOnce == IInv /\ ActiveInv /\ OnceEach /\ [Next]_vars => OnceEach'
<1> SUFFICES ASSUME IInv, ActiveInv, OnceEach, [Next]_vars, NEW c \in Chunks, ~IsPrereq(c)'
             PROVE  did'[c].n <= (IF c \in DOMAIN running' THEN 1 ELSE 0)
  BY DEF OnceEach
<1>p. ~IsPrereq(c)
  BY LowDataStays DEF IsPrereq, Req
<1>g. DOMAIN running \subseteq DOMAIN running'
  BY RunningGrows
<1>n. did[c].n \in Nat /\ DOMAIN did = Chunks
  BY DEF IInv, ResultsOK
<1>1. CASE did'[c].n = did[c].n
  BY <1>1, <1>g, <1>n, <1>p DEF OnceEach
<1>2. CASE did'[c].n # did[c].n
  <2>1. Executes(c) /\ did'[c].n = did[c].n + 1
    <3>1. ASSUME NEW d \in Chunks, Ends(d) PROVE FALSE
      BY <1>2, <3>1, EndTouches DEF IInv
    <3>2. PICK d \in Chunks : Executes(d)
      BY <1>2, <3>1, ProcsChange DEF procVars
    <3>3. Count(d, "running") \/ did' = did \/ \E r : Count(d, r)
      BY <3>2, Executed DEF StartsProcess, CannotCall, CallsFunction, procVars
    <3>4. \E r : Count(d, r)
      BY <1>2, <3>3
    <3>5. d = c
      BY <1>2, <1>n, <3>4 DEF Count
    <3> QED
      BY <1>n, <3>2, <3>4, <3>5 DEF Count
  <2>2. did'[c].n = did[c].n + 1 /\ c \in DOMAIN running'
    <3>1. \A r : c \in DOMAIN Put(Seen(c), c, r)
      BY DEF Put
    <3>2. \E r : running' = Put(Seen(c), c, r)
      BY <2>1, Executed DEF StartsProcess, CannotCall, CallsFunction
    <3> QED
      BY <2>1, <3>1, <3>2
  <2>3. c \notin DOMAIN running
    BY <1>n, <1>p, <2>2, ResultStands DEF Starts
  <2> QED
    BY <1>n, <1>p, <2>2, <2>3 DEF OnceEach
<1> QED
  BY <1>1, <1>2

\* All these are invariants.
LEMMA PlainInvariant ==
    Spec => [](IInv /\ ActiveInv /\ PlainInv /\ ListenInv /\ OnceEach)
<1>1. Init => IInv /\ ActiveInv /\ PlainInv /\ ListenInv /\ OnceEach
  <2>1. Init => ListenInv /\ OnceEach
    BY DEF Init, ListenInv, OnceEach
  <2> QED
    BY <2>1, InitIInv, InitActive, InitPlain
<1>2. IInv /\ ActiveInv /\ PlainInv /\ ListenInv /\ OnceEach /\ [Next]_vars =>
        (IInv /\ ActiveInv /\ PlainInv /\ ListenInv /\ OnceEach)'
  BY NextIInv, NextActive, NextPlain, NextListen, NextOnce
<1> QED
  BY <1>1, <1>2, PTL DEF Spec

\* In a run without prereqs that is not stopped by failhard every chunk has
\* run once at most, and has its final result, whatever requires what; and
\* mod_watch was called for exactly the chunks that listen to a change
\* (State.call_chunks, call_chunk, call_listen).
THEOREM PlainRunIsReported == Spec => [](NoPrereqs => EveryChunkReported)
<1>1. IInv /\ ActiveInv /\ RecordInv /\ PlainInv /\ ListenInv /\ OnceEach =>
        (NoPrereqs => EveryChunkReported)
  <2> SUFFICES ASSUME IInv, ActiveInv, RecordInv, PlainInv, ListenInv, OnceEach, NoPrereqs,
                      pc = "done"
               PROVE  EveryChunkReported
    BY DEF EveryChunkReported
  <2>1. \A c \in Chunks : did[c].n <= 1
    <3>1. \A c \in Chunks : did[c].n \in Nat
      BY DEF IInv, ResultsOK
    <3> QED
      BY <3>1, NobodyIsPrereq DEF OnceEach
  <2>2. ASSUME \A c \in Chunks : ~check_failhard(c, running)
        PROVE  \A c \in Chunks : c \in DOMAIN running /\ ~running[c].proc
    BY <2>2 DEF PlainInv, AllFinished, Stopped
  <2>f. ASSUME NEW c \in Chunks, c \in DOMAIN running, ~running[c].proc
        PROVE  Faithful(c)
    BY <2>f DEF RecordInv, Recorded, Faithful
  <2>3. ASSUME \A c \in Chunks : ~check_failhard(c, running), NEW c \in Chunks \ prereq
        PROVE  c \in DOMAIN heard <=>
                 /\ \E d \in Req("listen", c) \cap DOMAIN running : Reconciled[d].changes
                 /\ \A d \in DOMAIN heard : Stops(d, heard[d]) => c <= d
    <3>1. DOMAIN running \subseteq Chunks
      BY DEF IInv, ResultsOK, Sound
    <3>2. \A d \in DOMAIN running : Reconciled[d] = running[d]
      BY <2>2, <2>3, <3>1 DEF Reconciled
    <3>3. c \in Listeners <=>
            \E d \in Req("listen", c) \cap DOMAIN running : Reconciled[d].changes
      BY <2>3, <3>2 DEF Listeners, Due
    <3>4. DOMAIN heard \subseteq 1 .. N /\ c \in 1 .. N
      BY DEF IInv, MarksOK, Chunks
    <3>5. ASSUME c \in Listeners, \A d \in DOMAIN heard : Stops(d, heard[d]) => c <= d
          PROVE  c \in DOMAIN heard
      <4>1. CASE Listeners \subseteq DOMAIN heard
        BY <3>5, <4>1
      <4>2. CASE \E d \in DOMAIN heard : Stops(d, heard[d])
        BY <3>4, <3>5, <4>2, StateRunAssumption DEF ListenInv
      <4> QED
        BY <4>1, <4>2 DEF ListenInv
    <3>6. c \in DOMAIN heard =>
            c \in Listeners /\ \A d \in DOMAIN heard : Stops(d, heard[d]) => c <= d
      BY DEF ListenInv
    <3> QED
      BY <3>3, <3>5, <3>6
  <2> QED
    BY <2>1, <2>2, <2>f, <2>3 DEF EveryChunkReported
<1> QED
  BY <1>1, PlainInvariant, RecordInvariant, PTL

\* Without prereqs the recursion of call_chunk ends, whatever cycles the
\* requisites have: no more than N + 1 activations are ever called, so that
\* Python's limit is only met by low data with more chunks than that.
THEOREM PlainRunEnds ==
    StackLimit > N + 1 => (Spec => [](NoPrereqs => EndlessOnlyByPrereq))
<1>1. StackLimit > N + 1 /\ IInv /\ ActiveInv /\ PlainInv /\ ListenInv /\ OnceEach =>
        (NoPrereqs => EndlessOnlyByPrereq)
  BY DEF PlainInv, NotEndless, EndlessOnlyByPrereq
<1>2. CASE StackLimit > N + 1
  <2>1. IInv /\ ActiveInv /\ PlainInv /\ ListenInv /\ OnceEach =>
        (NoPrereqs => EndlessOnlyByPrereq)
    BY <1>1, <1>2
  <2>2. Spec => [](NoPrereqs => EndlessOnlyByPrereq)
    BY <2>1, PlainInvariant, PTL
  <2> QED
    BY <2>2
<1> QED
  BY <1>2
=============================================================================
