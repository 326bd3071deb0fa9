# saltx: the fan-out over Redis and what runs below it, specified in TLA+

saltx is a fork of Salt (2017.7-era code) that adds one more level above the
masters.  A *super master* knows a number of *sub masters*, each with minions
of its own.  On every sub master a daemon, the *maid*, listens to a Redis
topic; the command line (`saltx`, `salt-cp`) and the REST service publish a
command there and gather what the maids answer on a private topic of that
command.  Nothing is persisted, Redis delivers at most once, and every client
decides for itself when it has heard enough.  That protocol is what is new in
this code base and what its tests do not reach; most of the specifications are
about it.  Two modules go below it: the client with which a maid reaches its
own minions, which the fork has changed, and the state runtime of a minion,
upstream code whose recursion over requisites its tests leave open.

Paths are relative to `src/`.

## 1. Inventory

| component | state | operations | interacts with |
|---|---|---|---|
| Redis bus (`salt/newrun/__init__.py`, `MasterPub`; redis-py) | who is subscribed, one message queue for each subscription | PUBLISH, SUBSCRIBE, UNSUBSCRIBE, loss of a connection | every client and maid |
| maid (`salt/newrun/__init__.py`, `SyndicSubcribe`; `salt/cli/daemons.py`, `SaltMaid`) | subscription, bounded greenlet pool, the greenlets of running commands | `startListen` (PING, spawn), `run` (refuse, run, publish results, WORK), start, death | bus; LocalClient |
| synchronous command line (`salt/cli/salt.py`, `new_run`, `executeCallback`) | counts of PINGs and results, the sets behind them, the report, a timer | subscribe, publish, handle a message, stop tests | bus |
| batch mode (`salt/cli/salt.py`, `batchExecuteCallback`, `batchRun`) | targets left, targets of this round, counts shared by all rounds | FIND_ACCEPT, fill a round, handle a message, repeat a round | bus |
| `salt-cp` (`salt/cli/cp.py`, `run_oldstyle_v1`) | two counts | subscribe, publish, handle a message | bus |
| REST service (`salt/netapi/__init__.py`, `apiv2_sync`; `salt/redis/RedisWrapper.py`; called by `salt/apiv2/handler.py`) | per request: as above; per endpoint: `retReturns`; per process: the Redis singleton and its pool | a request in many steps, several requests at once | bus; the other requests |
| asynchronous jobs (`salt/netapi/__init__.py`, `apiv2_async`, `apiv2_jobs`) | per request: counts of PINGs and WORKs, the jobs gathered; per maid: its job cache | post a command and get a job id at once; look a job up; list all jobs | bus; the maids' job caches |
| LocalClient (`salt/client/__init__.py`, `cmd_cli`, `cmd`, `get_iter_returns`) | who is expected, who has returned, a timeout per minion, one for `find_job`, the fork's limit | publish a job, read returns, probe with `find_job`, give up | the master's event bus; the minions |
| state runtime (`salt/state.py`, `State.call_chunks` and below) | results by chunk, results of test runs, flags in the chunks, a call stack, processes | call a chunk after its requisites, test run, fail hard, wait for processes, listeners | the state modules |
| rest of Salt (minion, master, transport, keys, event, reactor, scheduler, compiler, modules) | - | - | below a maid |

Behaviours that are hard here: messages of several maids interleave in any
order; a maid is down, dies or restarts in the middle of a command; a greenlet
dies; a result is lost inside the loop that sends it; a connection is lost with
all that is queued on it; a pool is full; a timeout that is looked at only when
a message arrives; rounds of a batch that share a topic; threads that share an
attribute, a singleton and a connection pool; four clocks that race with late
returns; a recursion that is entered twice for one chunk and steered by flags.

What makes each component correct:

- *maid*: it runs a command at most once, and its WORK is the last thing it
  sends for it.
- *synchronous client*: it ends; it takes an end for complete only when every
  minion is accounted for, or its result was lost; it never leaves behind a maid
  that is known to be running; its counters mean what their names say.
- *batch*: the same, and every target is run, in some round, once, with no more
  than the batch size waited for.
- *REST service*: the same for each request, and requests do not disturb
  each other.
- *asynchronous jobs*: a list shows what had started when it was asked for, a
  request for jobs ends, a job that was started is found (it is not, see below).
- *salt-cp*: it ends, and only when all maids are through.
- *LocalClient*: it ends although a minion hangs, reports everybody, and calls
  nobody missing before a timeout has passed.
- *state runtime*: every chunk is reported, with one result that stands; it
  starts after what it requires; failhard stops the run; the recursion ends.

## 2. Modules

| module | models | source |
|---|---|---|
| `FanOut` | what any fan-out client promises (abstract) | - |
| `Maid` | the bus and the maids; every client of the bus extends it | `newrun/__init__.py` 45-60, 112-140, 193-428 |
| `SaltxSync` | the synchronous command line | `cli/salt.py` 424-605 |
| `SaltxBatch` | the batch mode | `cli/salt.py` 230-422, 615-698 |
| `SaltxApi` | concurrent synchronous requests to the REST service | `netapi/__init__.py` 517-720, `redis/RedisWrapper.py` |
| `SaltxJobs` | an asynchronous command and a request for its job | `netapi/__init__.py` 191-394, 439-515 |
| `SaltCp` | salt-cp | `cli/cp.py` 179-267 |
| `LocalClient` | the client a greenlet of a maid runs | `client/__init__.py` 223-243, 791-814, 1110-1347, 1608-1645 |
| `StateRun` | the state runtime | `state.py` 1706-1990, 2027-2574 |
| `MaidProofs` | theorems about one command on the bus, for the proofs about its clients | |
| `SaltxSyncProofs`, `SaltxBatchProofs`, `SaltxApiProofs`, `SaltxJobsProofs`, `SaltCpProofs`, `LocalClientProofs`, `StateRunProofs` | theorems about these modules | |
| `MCFaults` | the plans of faults that the instances use | |
| `MCSync`, `MCBatch`, `MCApi`, `MCJobs`, `MCCp`, `MCClient`, `MCStates` | constants for TLC | |

**`Maid`.**  `up[m]`, `cmdq[m]` and `tasks[m]` are a maid's process, the
messages on its subscription and the greenlets of its pool; `inbox[t]` is the
queue of the one subscriber to private topic `t`.  `MaidReceive` is one turn of
the loop in `startListen`; when the pool of `PoolSize` places is full, `spawn`
blocks the listener until `MaidSpawn`.  `TaskRefuse`, `TaskStart`, `TaskEmit` and
`TaskFinish` cut `run` where it gives up control: at its calls to Redis and to
LocalClient.  `MaidCrash`, `MaidRestart`, `TaskAbort`, `TaskDrop` and `TaskRepeat` are the
failures.  LocalClient is modelled by what `run` gets from it: for each minion
that the target matches a return that is fine (`"ok"`) or not (`"bad"`), or at
the end that there was none (`"no_return"`); a return may come again
(`TaskRepeat`), and a minion may be missing altogether (`TaskDrop`).  Module
`LocalClient` shows that this is what its client does: every minion is reported,
but for those on which `find_job` failed, and then it ends; `get_iter_returns`
yields a return each time that its event comes.  A minion that is reported with
`no_return` may still run the command.  A message carries who it is about and
which of these it is; its text is left out.  `sent[k]` counts the commands that reach minion
`k`; it is a history variable, and what a maid's job cache holds is read off it
(`JobCache`): Salt's job cache keeps every job of the last day.  `lost` is one
too: the results that were published when nobody was subscribed, were queued on
a connection that closed, or could not be formatted.

**Clients of the bus.**  Each keeps the variables of the function it models under their
names (`pingCount`, `resultCount`, `batch_running`, `retReturns`, ...).  A
message is handled in one action, from `listen()` to the end of the loop's
body, because the code between two calls to Redis runs in one thread and
touches nothing shared; `EndOfBody` is the part that follows every message: the
stop tests and, on a stop, `unsubscribe`.  In `SaltxApi` it is not one action,
because there `self.retReturns` is shared: a request reads it (`OnReturn`,
`MergeLoad`) and stores it (`StoreReturn`, `MergeStore`) in two.  `Expire` is
the passing of `sub_timeout` seconds since the last return; a return resets it.
`SaltxJobs` posts an `ASYNC_RUN`, then asks for jobs at any time
after that; `before` is a history variable, the minions with a job at the moment
of the request, and so is `cut` in `SaltxApi`: the requests whose subscription
another one has closed, or whose connection was lost.  All clients may lose
their connection while they listen (fault `"redis"`): redis-py connects and
subscribes again and says nothing (`LoseConnection`), and what was queued is in
`lost`; or `listen()` raises, which each client handles in its own way.
`display_output` may raise in `SaltxSync` and `SaltCp` (fault `"display"`).  The
counters of WORK count messages of unknown maids
too, those of PING do not, as in the code.

**`LocalClient`.**  One action is one step of the loop in `get_iter_returns`
that other processes can come between: `ReadReturn` and `ReadAnswer` take one
event each from the two queues, `CheckReturns` is everything from the drained
queue to the `find_job` it may send, `TestTimeouts` the end of a pass.  The
times the code computes (`timeout_at`, `timeout_loop`, `minion_timeouts`) are
countdowns that `Tick` lowers; `quiet`, `unheard` and `unasked` are clocks for
the properties only.  The minions are nondeterministic: they receive, run,
return, answer `find_job`, die, lose a return, repeat it, or fail in
`find_job`.  `caller` tells `cmd_cli` from `cmd`, which report those who are
missing in different ways.

**`StateRun`.**  The recursion of `call_chunk` is a stack of frames with a
program counter; a frame's `todo` are the requisites it has still to call, kind
by kind.  `running`, `pre`, `active` and the flags `__prereq__`,
`__prerequired__` and `__FAILHARD__` are the code's own.  What a state function
returns is chosen freely when it is called, in a test run as well.  `did` is a
history variable: how often a chunk was executed, and how it ended.  Chunks with
`parallel: True` run beside the loop (`ProcessEnds`), and `reconcile_procs`
looks at them where the code does.  When such a chunk watches one that changed,
the call of its function shows no change yet, so that the code starts a second
process, for `mod_watch`, and puts it in `running` in place of the first
(`state.py:2459-2466`): `forgotten` is the first (`ForgottenEnds`), `unread`
tells that the one in `alive` is of `mod_watch`, whose result is written under a
tag of its own that nobody reads (`WatcherEnds`), and `cache` is what has been
written under the tag of the chunk.  The order in which the chunks of one kind
are called is left open, since it depends on the order of an sls file.  The
definitions were also compared with the Python functions themselves, run on
generated low data with the same outcomes of the state functions: on 8036
instances with two requisites and 1740 with three the final results agreed.
That was before the second process of a parallel chunk that watches a change
was added, which is read from the code alone.

**`FanOut`** has three variables, how far the client is, whom its report
names, and whose results got lost.  `SaltxSync`, `SaltxBatch` and `LocalClient`
map themselves to it (`Abstract`): their normal ends are `complete`, the ends by
a timeout or an exception are `partial`.  The point of the mapping is that
`complete` is only allowed when everybody is accounted for or lost.  For
`LocalClient` the end by a timeout is `complete`, because it reports those who
did not return; lost are those that it has struck off its list because
`find_job` failed on them; when the job could not be published the client ends
at once, which is `partial`.

Names that start with that of a mapped definition and go on with a fault
(`StopTestEarly`, `TaskFinishEarly`, `FillBatchOneMore`, ...) are mutants:
plausible slips in the code, each of which makes TLC refute the property that
PROJECT.json lists it for.  They are used by nothing else.

## 3. Runs

| run | instance | checks |
|---|---|---|
| `sync_good` | 3 maids, one of them without a minion, 2 minions, `'*'`, no fault | types; the command ends; it implements `FanOut` with its liveness |
| `sync_faults` | 3 maids (one without a matching minion, one that may be down), a list, two dead greenlets, or one and a crash, or two among a lost connection, an error while displaying and a lost result, or a repeated return | results arrive before WORK or are lost; the normal end is complete; nobody is left running; no minion is commanded twice; the counters equal the sets they count, up to the display errors; the printed sizes add up unless a minion is listed as repeated; the inductive invariant; `FanOut` without liveness |
| `sync_hang` | one maid may be down | *violated*: the command ends |
| `batch_good` | 2 maids, a list of 3 targets, batch size 2 or a percentage, no fault | every target is run if the size is a number, none if it is a percentage; `FanOut` with its liveness, so that the command ends |
| `batch_faults` | `'*'`, one maid that may be down, with the same 3 minions, two different faults of the maid, its greenlets, its results or the connection | types; the batch size bounds who is waited for; no target is lost; a minion is commanded again only for a lost connection; `FanOut` |
| `api_two` | 2 requests to two endpoints, 1 maid with a pool of one place, one crash or one lost connection, with and without the singleton | responses are not mixed and are complete; nobody is left running; every request ends unless its subscription is closed by the other or lost, or a maid dies |
| `api_shared` | 2 requests to one endpoint | *violated*: responses are not mixed |
| `jobs` | 2 maids with a pool of one place, 3 minions, one maid may be down, 2 deaths of maids or greenlets, or a crash and a lost connection, `LOOKUP_JID` and `LIST_JOBS` | types; a list shows what was started, but for what the connection lost; nobody is left running; the request ends unless a maid is down or dies or the connection is lost |
| `cp_faults` | 3 maids, one may be down, two deaths, or two among a crash, an error while displaying and a lost connection | types; done means that all are done, and that every minion has a line or a traceback, or its result was lost; the copy ends unless a maid is down or dies or the connection is lost |
| `client` | 2 minions, `cmd` and `cmd_cli`, `timeout` 2, `gather_job_timeout` 4, limit of 2 passes, 2 faults | types; nobody is given up too early; everybody is reported and the client ends (`FanOut` with its liveness) |
| `states` | 3 chunks; any two requisites with no option, one parallel or uncallable chunk, or one that is both, or failhard, or a parallel chunk and failhard; any three requisites without a cycle; 12 activations | types; every chunk is reported; only a prereq recurses without end; results stand; chunks start in order; failhard stops |
| `states_prereq` | the same | *violated*: "`require` demands that the required state executes before" |

**Bounds.**  Three maids are enough for the stop tests to have a maid that has
ended, one that runs and one that has not answered; three minions give a maid
with two results, a maid with one and a maid that refuses or has nothing to
do.  `FaultPlans` is the only bound on behaviours of the protocol, which is
finite without faults, since a client publishes each command once: a plan says
how many faults of each kind may happen, and a run allows what is within one of
its plans.  Two faults are enough for a failure during the recovery from another
(a crash after a restart, a second lost result).  `PoolSize` is 20000 in the
code; what matters is a command that waits for the one before it, which a pool
of one place gives when two commands are under way, and a pool of two never
fills in the other runs.  Three targets and a batch size of two give a full
round and a partial one, which the code runs by different paths.  The gathering of
`FIND_ACCEPT` is run with one maid only, and with faults, so without liveness:
with two maids and percentages the instance is too large for TLC beside the
rounds.  That it waits for all maids is in the theorem `TargetsKept`.

In `client` the times have the ratio of the defaults, 5 seconds for `timeout`
and 10 for `gather_job_timeout`; two units for the first are the least at which
a return can come within it and after some of it has passed.  `CheckLimit` is 5
in the code; the counter of passes without a new return is cut off at it, as
`CountReturns` explains, and two passes tell the last one from one before.  Two minions
allow one that returns while the other hangs, dies or is struck off.

In `states` three chunks are the least with a requisite of a requisite.
`StackLimit` stands for Python's recursion limit; without prereqs the recursion
of three chunks is at most 4 deep (section 4); 12 leaves room for the detours of a
prereq, and a recursion that does not end passes any bound.
Cycles are covered with two requisites, and longer chains of requisites by the
three without a cycle.

**Deadlock** is checked where a client must end (`sync_good`, `batch_good`,
`client`, `states`); in the other runs the client can really stop for good, waiting for
a message that does not come, and their cfg says `CHECK_DEADLOCK FALSE`.

**Fairness.**  The client's thread reads what has arrived (`WF` of `Listen`, of
the steps before it), time passes (`WF` of `Expire` or `Tick`), and the gevent scheduler
of a maid runs its listener and its greenlets (`WF` of `MaidWork(m)`).  Nothing
is assumed about faults and restarts, nor about the order in which maids run.
`WF` of a disjunction suffices everywhere: each client is one thread.  For
`TaskEmit` it means that LocalClient comes back, which run `client` shows with
no fairness for the minions at all: its loop polls (`WF` of `Loop`) and the
clock goes on.

### Disagreements between code and documentation

Three are runs of their own:

- `sync_hang`: "check sub timeout, if no node running again" (`cli/salt.py:544`),
  but the tests are only reached when a message has been read.  With a maid
  down, the last message of the others can come before the timeout, and the
  client waits forever.
- `api_shared`: threads of one endpoint "execute Salt commands concurrently"
  (`apiv2/handler.py:1074`), and share `retReturns`.
- `states_prereq`: A has prereq B, C requires B.  B is test run, expects
  changes, A runs and fails.  B is then recorded with the result of its test
  run, `None` with changes (`state.py:2418-2421`); `None` is no failure to
  `check_requisite`, and C runs although B never did
  (`doc/ref/states/requisites.rst:220`).

Others appear when a constant of a run is changed, or a definition is read
closely; they are kept here as experiments:

- `sync_good` with `SelfIp = m1`: `NoneLeftRunning` fails.  A maid on the super
  master itself is not in `comeSubList`, so that its PING does not count
  (`cli/salt.py:437`, 484), but its WORK does (487): the loop ends one maid
  early.
- `sync_faults` without the conjunct on `"display"` in `NoneLeftRunning`: it
  fails.  The handler at `cli/salt.py:539-542` counts a message that could not
  be displayed as a result of a maid.
- `batch_good` with `sent[k] > 0` instead of the equivalence in
  `RunsEveryTarget`: it fails.  For `--batch-size 10%` `batch_hold` is a float
  (`cli/salt.py:695`), `range()` raises TypeError, and the bare `except` (262)
  leaves the loop as if there were nothing to do, although
  `utils/parsers.py:1946` offers percentages.  The property states both sides.
- `batch_good` with a list that names a minion no maid has accepted:
  `ImplementsFairFanOut` fails, the command does not end.  INTERRUPT is counted
  but takes nothing out of `batch_running` (`cli/salt.py:349`, 413), and the
  counts at 416 are equal.
- `batch_good` with `Unreturned` instead of `Unreturned \ notReturned` in
  `BatchBound`: it fails.  A minion that a maid reports with `no_return` may
  still be running (`client/__init__.py:1224-1226`), but it is taken out of
  `batch_running` (`cli/salt.py:360-362`) and the next round starts beside it,
  although the option is "the number of minions to batch at a time"
  (`utils/parsers.py:1946`).
- `--batch-size 0` with a list of targets: `range(0)` fills nothing, every round
  is empty and over with its first message (`cli/salt.py:252`, 413), and the
  next one is published without end.
- `api_two` with a second maid and the target `'*'` for both requests:
  `NoneLeftRunning` fails.  `minionLogList` is empty from the start, so that the last test
  (`netapi/__init__.py:689`) ends the loop at the first message for which no
  earlier test holds.
- `api_two`: a request that finds the singleton before it is filled in
  (`redis/RedisWrapper.py:19-25`) is answered without having been published
  (`UsePartialInstance`); when filling it in fails, which is only logged
  (41-43), every later request is.
- `api_two` without `r \notin cut` in `EveryRequestEnds`: it
  fails.  A request that ends disconnects the pool of all
  (`netapi/__init__.py:696`); another one then misses its messages and waits
  forever, although requests run "concurrently" (`apiv2/handler.py:1074`).
- `jobs` with `fun = LOOKUP_JID` instead of `LIST_JOBS` in
  `ListsWhatWasStarted`: it fails in the first complete lookup.  "List jobs or
  show a single job from the job cache" (`apiv2/handler.py:1457`), but the key
  `jobs_subcache_<jid>_<node>` that a maid looks up (`newrun/__init__.py:341`)
  is written by nothing: its `set` is commented out (330-333).
- `cp_faults` with a maid whose key is not accepted: the copy does not end.  Its
  WORK moves `work1stcount` past the equality that `cli/cp.py:246` waits for.
- `client` with `GivesUpInTime` without `quiet = Timeout`: it fails.  The limit
  of this fork (`client/__init__.py:1224-1226`) ends the wait while minions have
  just answered that they run the job, although `cmd_cli` "attempts to block
  until all minions return" (770).  A job that runs longer than `timeout` without
  a return of anybody is reported with `no_return`.
- `SaltxBatch`, repeated rounds: the minions of a round are sent the command twice when
  `listen()` raises inside the `try` (`cli/salt.py:262`), which exists for the
  last, partial round; `ResentOnlyAfterFailure` bounds it by the number of lost
  connections.
- `client`: a return that comes after the queue was drained (1187) and before
  the test of the timeouts (1324) is not looked at when that test ends the loop.
- `states`, failhard two requisites deep: the key `__FAILHARD__` is still in
  `running` when the caller goes on (`state.py:2397-2398`, 2405-2406), and
  `reconcile_procs` takes its value `True` for a result: AttributeError ends the
  run.  A chunk without requisites runs before that, although "all state
  execution will immediately stop" (`doc/ref/states/failhard.rst`); `FailhardStops` states
  exactly this exception.
- `states`, endless recursion: A has prereq B, and B has a result but no test
  run, for example because its onchanges did not change when C required it
  first.  `EndlessOnlyByPrereq` lists all the ways; tests of such cases are
  commented out (`tests/integration/modules/test_state.py:577-598`, 936-941).
- `states` with `StartsInOrder` without `d \in unread`, or `Faithful` without
  its second part: they fail.  For a parallel chunk that watches a change the
  "return data that is returned" should be that of `mod_watch`
  (`doc/ref/states/requisites.rst:306-308`), and the runtime should wait for a
  parallel state that something depends on (`doc/ref/states/parallel.rst:21-23`).
  But the first process is forgotten (`state.py:2459-2466`), the result of
  `mod_watch` is under another tag, and if the second process ends first the chunk
  is "Parallel cache failure" (2103-2107) while its function still runs, and a
  chunk that has it in `onfail` starts.
- `states`: a chunk with a misspelt function that is test run for a prereq keeps
  its flag `__prereq__` (`state.py:1782-1796` returns before 1928) and is never
  reported.  A failure of a parallel chunk with failhard is seen only after the
  run (`check_failhard` skips `None`), and a failhard stop leaves processes
  unreconciled.  With a met `require` beside it a chunk runs whose `onfail` did
  not fail (2241), although `onfail` is "strictly as a response to the failure"
  (`doc/ref/states/requisites.rst:395`).

## 4. Proofs

The theorems hold for any finite sets of maids and minions, any size of the
pool, any plans of faults, any number of requests, any batch size, any low data,
and, for the client of a greenlet, any timeouts:

| module | theorem | statement | assumes |
|---|---|---|---|
| `SaltxSyncProofs` | `TypeCorrect` | `Spec => []TypeOK` | - |
| | `Inductive` | `Spec => []IInv` | - |
| | `WorkIsLast` | `Spec => []ReturnsBeforeWork` | - |
| | `NormalEndIsComplete` | `Spec => []CompleteStop` | known maids |
| | `SyncImplementsFanOut` | `Spec => ImplementsFanOut` | known maids |
| | `CountersAreExact` | `Spec => []CountsAreExact` | - |
| | `StopLeavesNobody` | `Spec => []NoneLeftRunning` | known maids |
| | `CommandedOnce` | `Spec => []SentAtMostOnce` | - |
| | `SizesAreRight` | `Spec => []SizesAddUp` | one maid each |
| `SaltxBatchProofs` | `TypeCorrect` | `Spec => []TypeOK` | - |
| | `RunsAll` | `Spec => []RunsEveryTarget` | known maids, for `'*'` |
| | `TargetsKept` | `Spec => []NoTargetLost` | known maids, for `'*'` |
| | `BatchImplementsFanOut` | `Spec => ImplementsFanOut` | known maids, for `'*'` |
| | `ResentForFailures` | `Spec => []ResentOnlyAfterFailure` | one maid each |
| | `BatchHolds` | `Spec => []BatchBound` | - |
| `SaltxApiProofs` | `TypeCorrect` | `Spec => []TypeOK` | - |
| | `ResponsesApart` | `Spec => []ResponseIsOwn` | a client each |
| | `StopsWhenDone` | `Spec => []NoneLeftRunning` | known maids, no `'*'` |
| | `ResponsesWhole` | `Spec => []ResponseIsComplete` | known maids, a client each |
| `SaltxJobsProofs` | `TypeCorrect` | `Spec => []TypeOK` | - |
| | `StopsWhenDone` | `Spec => []NoneLeftRunning` | known maids |
| | `ListIsWhole` | `Spec => []ListsWhatWasStarted` | known maids |
| `SaltCpProofs` | `TypeCorrect` | `Spec => []TypeOK` | - |
| | `CopyIsOver` | `Spec => []DoneMeansDone` | known maids |
| | `CopyIsWhole` | `Spec => []NobodyMissing` | known maids |
| `LocalClientProofs` | `ClientTypeCorrect` | `Spec => []TypeOK` | - |
| | `GivesUpOnlyInTime` | `Spec => []GivesUpInTime` | - |
| | `ClientImplementsFanOut` | `Spec => Abstract!Spec` | - |
| `StateRunProofs` | `TypesOfRun` | `Spec => []TypeOK` | - |
| | `FailhardIsObeyed` | `Spec => FailhardStops` | - |
| | `ResultsAreFinal` | `Spec => ResultsStand` | - |
| | `RequisitesFirst` | `Spec => StartsInOrder` | - |
| | `PlainRunIsReported` | `Spec => [](NoPrereqs => EveryChunkReported)` | - |
| | `PlainRunEnds` | `Spec => [](NoPrereqs => EndlessOnlyByPrereq)` | `StackLimit > N + 1` |

Every theorem rests on the assumptions on the constants that the modules name
(`MaidAssumption`, `SyncAssumption`, `BatchAssumption`, `ApiAssumption`,
`JobsAssumption`, `CpAssumption`, `ClientAssumption`, `StateRunAssumption`),
which TLC evaluates in the runs.  The hypotheses of the last column are
conditions under which the code keeps the promise, and without which it does
not:

- *Known maids*: `Maids \subseteq Keys` (or `comeSubList`, which is made of
  them), every maid that listens is one whose key the super master has accepted.
  The code counts the WORK of any maid, but only the PING of a known one, so a
  foreign maid ends a loop early.  For batch mode with a list of targets the
  list is known beforehand, and no hypothesis is needed.
- *One maid each* (`OneMaidEach`): no minion's key is accepted by two maids, as
  when each minion has one sub master.  With two, a minion is sent the command
  twice, and returns and is counted twice.
- *A client each* (`OwnClients`): requests that are under way together do not
  share a `NetapiClient`; run `api_shared` shows what happens if they do.
- *No `'*'`* (`NamedTargets`): for `'*'` `minionLogList` is empty from the start
  (see the experiments).

**The synchronous client.**  `ReturnsBeforeWork` speaks of what the client has
read; to be inductive it needs what is still on its way.  `IInv` adds:

- `TopicFollowsPhase`: the subscription exists exactly while the client
  listens, so that what a maid sends before the stop is queued.
- `OneCommandEach`: a maid has the command once, in its queue or in one
  greenlet, and in none before it is published.
- `EndsOnce`: a WORK or INTERRUPT on its way, or read, means that its maid is
  not busy and sends no other one.  So `resultCount` is the size of
  `resultExeSet`, plus the display errors.
- `ReturnsUnderway`: while a greenlet runs, each of its minions is among the
  results to come, in the queue, in the report, or lost; and before a WORK in
  the queue, counted by position, all the minions of its maid are in the queue,
  in the report, or lost.  This is where the order of the queue is used: reading
  the head shifts every position by one.
- `StopMeansAllEnded`: at the normal end `resultCount` equals the number of
  known maids, and so, by cardinality, `resultExeSet` is all of them.

A result that cannot be formatted and a connection that is lost move minions
from "underway" to `lost`, which keeps all of these; that is why no theorem
restricts the faults.  `NormalEndIsComplete` combines the last part with
`ReturnsBeforeWork`.  The refinement maps `SubscribeTopic` and `Expire` to
stuttering, what the maids do to `Stray`, `PublishCommand` to `Ask`, a message
to `Gather`, or with a stop test to `Complete` or `GiveUp`.

**Its counters.**  `CountInv` adds to `IInv` what a PING is before it is
counted.  `PingsOnce`: a maid that has the command in its queue has not
answered, and afterwards its one PING is in the client's queue or counted, so
that `pingCount` is the size of `resultPingSet`; with `EndsOnce` this is
`CountsAreExact`.  `PingsFirst`: as long as no connection is lost the PING of a
known maid precedes its WORK, so that `resultExeSet` is part of
`resultPingSet`.  The stop tests T0 and T2 only compare counts, but T0 implies
`resultCount >= pingCount`, and two finite sets one of which contains the other
and is no larger are equal: nobody is left running.  `CommandedOnce` needs
`SentInv`: a minion has been sent no more commands than it has maids that hold
none, where a maid still holds it while the command is in its queue or in a
greenlet that has not started.  A crash or a refusal makes the right side grow,
a start both sides.  `SizesAreRight` follows a minion with one maid: it is
still in the results its greenlet has to send (`TodoSingle`) and then named by
no message (`PendingUnseen`), or named by messages.  A return may come
again, as long as the greenlet runs, and each is counted in `normalsize` or
`emptyRet`; a `no_return` comes once, and from a minion that has not returned
(`MissedOnce`, `ReturnedKnown`).  So a message that is read adds one to the sizes
and one to the sets, or one to the sizes and a minion to `repeatet`
(`SizesExact`).

**One command of any client.**  The other clients of the bus publish other
commands and read them in other ways, but the maids treat each alike.
`MaidProofs` therefore proves, beside types, what holds for *a command `c`*
while a client reads its topic, in terms of the sets `pinged`, `got` and `ended`
of maids and minions of which it has read a PING, a result, or a WORK or
INTERRUPT (history that the clients do not keep, quantified where it is
needed):

- `Single`, `Own`: no maid holds the command twice, nor another one of the same
  topic.
- `ClosesOnce`: a maid ends the command once, and then has nothing left to do.
- `PingsAhead`: the first thing a maid sends is its one PING.
- `ReturnsAhead`: a result is ahead of the end of its maid.
- `Owes`, `Paid`: what a maid has to report is still to be sent, or came before
  the maid's end; what a maid had to report whose end has been read, was read.

`InOrder` is their conjunction.  Every action of a maid is one of a few steps
seen from the command (`TakesUp`, `GetsReady`, `BeginsRun`, `Delivers`,
`Forgets`, `Closes`, `Fails`, or nothing), and these, a step of the client that
reads the head of the queue, and the publish are shown to keep each conjunct.
A client's proof then has to relate its own counters to the sizes of these sets.

**salt-cp.**  The client counts the ends and stops when there are as many as
known maids.  `Read` says that its count is the size of a set `ended` for which
`InOrder` holds.  When it is done this set, being finite, has all maids;
`ClosesOnce` says that nobody is at work, and `Paid` that everything was read, or
lost with the connection; what was read is `told`, printed or shown as a
traceback.

**Batch mode.**  `TargetsKept` has two parts: while the answers to
`FIND_ACCEPT` are gathered (`Gathered`, an instance of `InOrder`), `batch_init`
has what the ended maids have reported, and so all the targets when all known
maids have ended; from then on `NoTargetLost` is inductive.  `BatchImplementsFanOut`
maps the way into the rounds to `Ask`, a result to `Gather`, what happens between
two rounds to `Stray`, and the end to `Complete` if no target is left, which
needs `NoTargetLost`, and else to `GiveUp`.  The others are about
sending.  `HeldOK` and `PhaseOK`: a command on its way is
the `FIND_ACCEPT` or that of a round, and there is one for each round.
`Tally` counts, for a minion, the rounds in which it was `asked` and those of
them that are `done`, in which a maid has sent it the command: what is still
to be sent to it is of a round that is not done, and only a lost connection
lets it be asked once more.  `BoundInv` for `BatchBound`: `batch_running`
has at most `Hold` elements, and whom the command was sent to, or will be by a
command that a maid still holds, is in it or has been reported.  A round that is
repeated is for what is left of `batch_running`, so that it does not break the
bound; nor does a minion that is reported with `no_return` and works on, because
`BatchBound` does not count it.  For `RunsAll`, `EndInv` says that an end without
a round that is given up leaves no target in `batch_init`, and that with a
percentage no round is published; `AnswersInv` that who is reported has been
sent the command, since what a greenlet reports is what it was started for.  With
`NoTargetLost` every target is reported then, and so has been reached.

**The REST service.**  `ResponsesApart` needs `OwnInv`: the attribute
`retReturns` of a request's client, the copy a merge has loaded and the
response hold results of this request only, for which one step of one request
must leave those of the others alone.  `StopsWhenDone` uses the theory of one
command once for each request, and that the topics differ; a request whose
subscription another one has closed, or whose connection was lost (`cut`), may
have missed a PING and is excepted.
`ResponsesWhole` (`AnswerInv`) has to follow a result through the merge, which
loads, adds and stores in several steps: `Got` is what is in the attribute, in
the loaded copy, or still to be merged; `Gathers` is `Owes` and `Paid` for it, which a lost connection keeps,
and that a minion which is crossed off `minionLogList` is in it; `Promised` is
what follows at the stop, and that the response has all of it.

**Asynchronous commands and job requests.**  Two commands are on their way; on
each maid they may overtake each other, since both are greenlets.  `before` are
the minions that had a job when the request was published; `JobsInv` is the
theory of one command for the request, with what of `before` a maid has accepted
as what it has to list.  A lost connection keeps `ClosesOnce`, `Owes` and `Paid`,
since what was queued is in `lost`; the account of the PINGs (`PingsAhead`, and
`pingCount` as the size of its set) is kept only while none was lost
(`Connected`).

**LocalClient.**  `GivesUpInTime` is about the end; its invariant is about the
loop.  Each countdown of the code and the clock beside it that counts up keep a
sum of at least the timeout (`ClocksInStep`), from when the one is set and the
other reset, which happens in one action.  For the fork's limit this is not so:
`timeout_loop` is set when a check finds the number of the missing changed, and
`quiet` is reset earlier, when the return is read.  `LimitInStep` bridges
that: `calCount` is never below the number of the missing once a check has been
made, so that a return, which lowers the number, makes the two differ until the
next check, and the sum is only claimed while they are equal.  At the end by the
limit they are equal; at the end by the timeouts every countdown is 0.  In both
cases the clock must have reached its timeout.  With the first check, when
`calCount` is still 0, the number of the missing is either 0 as well, or
different.

**The state runtime.**  The low data is a constant, and may have any requisites,
cycles and processes.  The invariants are about the call stack:

- `StackOK`: each activation is called by the one below it, for the chunk that
  this one names, and the outermost by the loop over the chunks.
- `FailureNoticed`: a failure of a chunk with failhard is in `running` for the
  activation to which call_chunk has just returned, or `__FAILHARD__` is set, or
  the loop is over.  With it, what starts after the failure can only be a chunk
  that does not look into `running` (`FailhardIsObeyed`).
- `Noted`, `Alone`, `Fresh`: an activation that has looked at its requisites has
  put its chunk into `active`; so of two activations for one chunk the outer
  one is calling its chunk again; and the others have no result yet.  This holds
  for chunks that are no prereq, for which call_chunk keeps `active`, and gives
  `ResultsAreFinal`.
- `Recorded`, `PrereqsLast`: how a chunk was executed is what its result says,
  or that of its process will say; and a prereq has not run before the chunk it
  is a prereq of.  `RequisitesFirst` combines them with what `check_requisite`
  has found when a chunk runs (`MetStats`).  A parallel chunk that watches a
change has two processes: as long as the first runs, nobody has written under the
tag of the chunk, so that its result can only be a failure to read one; whoever
requires the chunk does not start then, which leaves `onfail` as the exception.

Two theorems are for runs whose low data has no prereq.  `RequisitesCalled`: an
activation calls each of its requisites or finds its result; `Answered`: a chunk
that has been called has a result, unless failhard intervenes.  So a chunk that
is called again after its requisites finds all of them, and calls nothing
(`AgainOnTop`); all other activations are for different chunks, and by the
pigeonhole principle there are at most N + 1 (`NotDeep`).  `LoopDone` and
`AllFinished` carry the results to the end of the loop, and `ListenInv` is the
order of call_listen.

While these were proved two properties of the runs turned out to hold for three
chunks only.  A chunk with several prereqs, or prereqs of prereqs, may get a
second result, or none; and a chunk whose onchanges did not change runs all the
same, if one of its prereqs expects changes and another one does not
(`state.py:2236-2240`).  `ResultsStand` is now about chunks that are no prereq,
`StartsInOrder` names the exception, and `Tangled` includes several prereqs.

**Only model-checked.**  Liveness (`ImplementsFairFanOut`, `EveryRequestEnds`,
`EndsUnlessDown`, `Terminates`), which is out of the prover's reach; and, for
`StateRun`, what becomes of low data with a prereq, that is the rest of
`EveryChunkReported` and `EndlessOnlyByPrereq`.  There the recursion goes round
the sets that the proofs use, and an argument would have to follow the paths of
requisites along the call stack.

## 5. What is left out

In the modules that exist:

- Content and layout of returns, JSON, logging, colours; the check of targets
  against `getReadyBackupMaid`, and the backup maids.
- `cli/salt.py` 215-225, the `--async` branch of the command line: one publish
  and no listening, the first half of `SaltxJobs`.
- `cli/salt.py` 188-211, the filter of a list of targets by "passed" addresses,
  which runs before anything is sent.
- That all greenlets of a maid share `self.local_client`
  (`newrun/__init__.py:195`): the clients are made from one configuration and
  are interchangeable, until one of them is closed under another, in C code.
- Several commands of the command line at once: they use different topics and
  share only the maids' pools.  `SaltxApi` and `SaltxJobs` have several commands.
- A batch size of 0 (see the experiments): its rounds never end.
- `netapi/__init__.py` 669-672, where an exception for one message is counted as a
  result: the body of that loop only looks at fields that every message of a maid
  has, and nothing is displayed there.
- `client/__init__.py` 1149-1157, where a job without a load in the job cache
  should end `get_iter_returns`: the `StopIteration` is raised inside a `try` whose
  `except Exception` catches it (in the Python 2 of this code it is an ordinary
  exception), so that the loop is entered all the same; what is yielded before is
  an empty dict.
- In `LocalClient`: `order_masters` and the check of a syndic's minions, a second
  answer of one minion to the same `find_job`, the batch and subset commands.
- In `StateRun`: the compiler that makes the low data, `mod_aggregate`,
  `mod_init`, `retry`, `unless` and `onlyif`, `test=True` for the whole run,
  disabled states.  The instances of TLC have no chunk that names itself in a
  requisite (`Edge` in `MCStates`), which `verify_high` refuses for the common
  form of it (`state.py` 1231-1246); the theorems do not exclude such chunks.

Components that are not modelled:

- *Upstream batch* (`cli/batch.py`): not used by saltx, whose own batch is
  `SaltxBatch`.
- *Keys* of a master: files moved between directories by one process at a time;
  the maids' accepted keys are the constant `Accepted`.
- *Minion, transport, master daemon, event bus*: what a client sees of them
  (returns that come, come again, or do not come) is in `LocalClient`, and their
  own concurrency lies in zeromq and tornado.
- *Reactor, scheduler, process manager*: they play no part in the fan-out.
- *Execution, state, returner, runner, cloud modules*, most of the lines of the
  repository: each wraps a program or a service of the machine it runs on and
  has no state of its own; for `StateRun` a state function is a free choice of
  result.

## 6. Plan

Done: all modules of the table in section 2, each with a module of proofs; the
bounded pool, plans of faults, lost results.  Every safety property of the runs
is stated by a theorem, those of `StateRun` about reports and the depth of the
recursion for low data without prereq.

To prove next:

1. `StateRun` with one prereq that is on no cycle: a prereq is test run before
   the chunk it belongs to and run after it, so that it is reported
   (`EveryChunkReported`), and the recursion ends unless the exceptions of
   `EndlessOnlyByPrereq` apply.
2. Maids that the super master does not know: by how many their WORKs can shorten
   a command, in place of the premise of known maids.

To model later: key management (`daemons/masterapi.py`,
`transport/mixins/auth.py`), with accepted, pending, rejected and denied keys,
and the upstream batch against `BatchBound`.
