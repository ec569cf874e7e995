# A TLA+ model of the Cadence backend

The repository is the backend of a QA service for voice agents: users create
*runs* (a simulated caller, a discovery crawl, a red-team attack, a replay),
worker processes claim and execute them, every run writes an append-only event
log, and browsers follow the log as server-sent events.  The API and the
workers share nothing but PostgreSQL.  What is hard about this program is what
happens *between* transactions: a cancel, a reaper tick, a crash, a second
claimer, a sibling call, a reconnecting browser, a repeated request, an
overlapping PATCH; and, inside one call, between the awaits of the tasks that
hold the conversation.  That is what the modules here model, check with TLC, and
prove with TLAPS.

Paths without a prefix are under `src/app/`.  Line numbers of every definition
are in `PROJECT.json` ("map").

## 1. Inventory

| Part | State it keeps | Operations | Interacts by | Hard behaviour | Correct means |
|---|---|---|---|---|---|
| Run table and request API (`api/runs.py`, `api/suites.py`, `api/redteam.py`, `models/runs.py`) | rows `runs`: status, parent, claimed_by, heartbeat, metrics | create, run a suite, rerun, launch an attack batch, cancel | rows, transactions | requests race with workers; advisory pre-checks without locks | a batch is closed exactly when its calls have ended; terminal statuses mean what they say |
| Claim (`workers/claim.py`) | `status`, `claimed_by`; advisory lock per agent | scan, try-lock, count, pick, commit | rows, advisory locks, SKIP LOCKED | several claimers inside the claim at once, stale candidate scan | cap per agent, each run at most once, oldest first, nobody starves |
| Worker process (`workers/main.py`, `workers/executors.py`) | the run in hand, its tasks | poll, dispatch, die, restart | calls executors | process loss between any two transactions; a stalled event loop | claimed work ends |
| Executors (`engine/executor/*.py`, `workers/fake_runner.py`) | in memory: cancel_event, judge task, turns | start, turns, watch for cancel, score, finish, fail | row + log transactions | the row changes during the call; tasks outlive the call; last transaction may overwrite a cancel | one outcome, explained by the log; no finding without a completed attack |
| Heartbeat and reaper (`workers/heartbeat.py`, `workers/reaper.py`) | `heartbeat_at` | beat, reap stale rows, reconcile parents | rows | a live worker may miss its beats | dead workers' runs fail, and only once |
| Parent rollup (`workers/rollup.py`) | the parent's status | roll up at the end of a child, close now | `FOR UPDATE` on the parent inside the child's transaction | two siblings end in overlapping transactions; lock order against a batch cancel | atomic close, no deadlock the code's own lock order causes |
| Event log (`events.py`) | rows `run_events(run_id, seq)` | emit | advisory lock per run, NOTIFY | two writers; commits out of order | gapless, duplicate-free, readable by cursor |
| Event stream (`api/runs.py`) | per connection: last_seq, asyncio.Event | replay, follow, poll, end | LISTEN/NOTIFY, Last-Event-ID | notifications lost between awaits; connections lost with data in flight | every client sees the log in order, once, up to the terminal event |
| Caller runtime (`engine/caller/*.py`) | transcript, the advance and the silence task, nudges, end reason | hear a frame, advance, silence check, ask the planner, record, push, hang up | Pipecat frames, asyncio tasks, the executor's `on_turn` | a new line cancels a pending task in mid-planner or mid-transaction; two planner calls at once | bounded turns, an end without the outer timeout, a record that is the call |
| Discovery explorer, flow graph (`engine/discovery/*.py`) | nodes, edges, topics reached, abandoned, stalled | observe, attribute, absorb, stop, finalize | planner of a call; `on_observation` writes to the log | frames lost with a cancelled task; outcomes that come a turn later | the live map is the explorer's graph |
| Red-team attacker, packs, judge (`engine/redteam/*.py`) | phase, attack lines, exchanges | next line, record an exchange, grade, locate evidence | planner of a call; the executor grades afterwards | repeated and overlapping planner calls; quotes that span turns | a verdict is kept with the line and the reply it is about, evidence verbatim |
| Verdicts, rubrics (`verdict.py`, `engine/rubric.py`) | – | the badge of a call, the verdict of a run, the aggregate of a batch | pure | a gate without an answer | no pass without its gates |
| Metrics (`engine/metrics/*.py`, `api/metrics.py`) | definitions with status and version, backtests, gates | create, PATCH, backtest, delete, attach, resolve, compile, evaluate | the catalogue is edited while calls are scored | read-then-write PATCHes; backtests recorded late; scripts cut off by limits and clocks | a version names one spec; gates count |
| Materialization (`workers/materialize.py`) | `turns`, `assertion_results`, `discovery_*` | fold the log into tables | inside the last transaction | several writers of the log, some of them late | the rows have the last word on everything |
| Run reads, delta polling (`api/runs.py`) | ETag, `since` cursor | list, detail, delta | rows | rows that commit behind the cursor | a client that keeps polling misses nothing |
| Suites, scenarios, approvals, agents, projects, personas, test profiles (`api/*.py`) | their tables and foreign keys | create, update, delete, move, copy across projects, accept a draft | rows | draft accepted twice at once; rows deleted in between; an identity stored in a transaction of its own; repeated keys | projects kept apart, one scenario per draft, one run per key, no stray identity |
| Findings, dashboard (`api/findings.py`, `api/dashboard.py`) | a finding's status | read, set one status | rows | – | – |
| Judge (`engine/judge/*.py`) | – | incremental verdicts, final verdict | a task of the executor, and its last step | outlives its 30 s, fails outside every handler | the final verdict wins |
| Generation, reference agent, probe, credentials, shell | – | model calls, I/O, library cryptography, wiring | – | – | out of scope (inputs of the models) |

The hazards this table only hints at are listed one by one in `PROJECT.json`
("hazards"), each at its line, with the properties that would catch it.

## 2. The modules

### 2.1 The run table and everybody who writes it

    RunTable  <-  ScriptedExecutor ------------------------\
       ^                                                     RunLifecycle <- MCRunLifecycle
       |---  CallExecutor <- SimulationExecutor ------------/       ^
                          <- DiscoveryExecutor -------------/       |
                          <- RedteamExecutor ---------------/  RunLifecycle_proofs

One step is one committed transaction (or one step of a process's memory that
decides what its next transaction is).

* `RunTable`: the variables (`status`, `owner` = `claimed_by`, `log` = the
  kinds of a row's events in seq order, `findings`; per worker `pc`, `job`,
  `noticed` = the `cancel_event`, `fruitful` = an attack line has been said or a
  node observed; `judging` = incremental judge tasks in flight; `crashes`) and the transactions of the API (`CreateRun`,
  `LaunchBatch`, `CancelRun`, `CancelBatch`), the claim as one step, crash and
  restart, the reaper, and the helpers the executors' transactions are made of.
  `Flip` is "set a terminal status, append these frames, call
  `maybe_close_parent`": the rollup is part of every transaction that ends a
  call, as in the code.
* `ScriptedExecutor`: `run_fake_script` and `replay_discovery`, one transaction
  per event, each of which looks at the row under its lock.
* `CallExecutor`: what the three real executors share: prepare, the
  *unconditional* `UPDATE ... SET status = 'running'`, turns that are emitted
  without a look at the row, the cancellation watcher that only runs during the
  call, the failure path.
* `SimulationExecutor`, `DiscoveryExecutor`, `RedteamExecutor`: what follows the
  call, with each executor's own guard (they differ, and the differences are
  kept: simulation accepts a live row only, the other two also a cancelled one;
  an attack without an attack line and a discovery without a node fail instead).
* `RunLifecycle`: the composition, its fairness, and the properties.

### 2.2 The claim, statement by statement

* `ClaimProtocol`: `claim_run` under READ COMMITTED: `Scan` (the candidate
  query), `TryLock` / `LockTaken` (`pg_try_advisory_xact_lock`), `HasRoom` /
  `AtCap` (the count), `Pick` / `NothingToPick` (`FOR UPDATE SKIP LOCKED` and
  the UPDATE), `Commit`, `Abort`; against `Insert`, and `LockRow` / `EndRow` for
  the transactions that cancel, finish or reap a row.
* `RunQueue`: what it promises, in one step per operation.  `ClaimProtocol`
  implements it: `state <- status`, `taker <- owner`.
  `RunTable!Claim` is the step this justifies using in `RunLifecycle`.

### 2.3 The rollup, lock by lock

* `RollupLocks`: the transactions that end the calls of one batch, as sequences
  of lock requests with PostgreSQL's conflicts as the code uses them
  (`FOR UPDATE`, UPDATE, the foreign key's key share, the advisory lock of
  `emit`), deadlock victims and crashes.
* `BatchRollup`: the atomic rollup it implements: `calls <- status`,
  `batch <- parent`.  This is `RunTable!Flip` seen from one batch.

### 2.4 The event log and its readers

* `EventLog`: `emit` by concurrent transactions: lock, `MAX(seq) + 1`, insert,
  commit, rollback.
* `EventStream` (extends it): `event_stream` between its awaits, NOTIFY, lost
  connections, the client's `Last-Event-ID`.
* `EventFeed`: what a stream promises: a client is shown a prefix of the log,
  ending with the first terminal event.  `log <- rows`, `seen <- got`.

### 2.5 One call, await by await

    PersonaCall  <-  AttackerCall  <--- AttackerCall_proofs --->  AttackJudge
         ^       <-  ExplorerCall  <-\  (with FlowGraph)              |
         |       <-  JudgedCall    <--- Calls_proofs                  |
    PersonaCall_proofs          \------------- MCCalls --------------/

What section 2.1 calls "turns" is here a conversation.  One step runs from one
await to the next.

* `PersonaCall`: `PersonaRunner`.  The handling of an agent's line (`Hear`,
  which cancels a pending task, `HeardRecorded`), the tasks `_advance_after` and
  `_check_silence` (`WakeAdvance`, `WakeSilence`), both of which end in
  `_speak_next` (`SpeakNext`, `Answer`, `LineRecorded`), the executor's
  `on_turn` in mid-transaction when its task is cancelled, failures of planner
  and recording, the cancel, the drain and the outer timeout of
  `run_persona_call`.  What a line says is left out; a line is its place in the
  transcript.
* `AttackerCall`: the same call with `AttackerCaller` as planner: the scripted
  lines, the adaptive and the verification turns, `_record_exchange` and the
  transaction in the middle of it.  The model's plan is any of its schema, one
  without a verdict included; of each exchange it is kept which line and which
  turns of the agent the code stores with the verdict, and how much of the
  transcript the model was shown.
* `ExplorerCall`: with `ExplorerCaller`: attribution of topics, absorb, stop,
  the transaction of `on_observation` and what of it survives a cancellation;
  `Finalize` is what the executor emits at the end.  `FlowGraph` is the pure
  graph: `observe`, gates resolved by a later turn, `finalize`, `intents`.
  `StoredEdges` is what `materialize_discovery` keeps.
* `JudgedCall`: a simulated call and everything that is kept of it: `on_turn`'s
  transactions in the order they commit, the incremental judge's task, the
  30-second wait, a row that is cancelled or reaped late, the final judge, the
  last transaction with `materialize_run`, and the page's own reduction of the
  log (`LastWords`).
* `AttackJudge`: the grading of a finished attack: retries, the fallback on an
  invalid answer, `locate_evidence` as a search over joined agent turns.

### 2.6 The API's own state

* `MetricCatalog`: metrics as the API edits them (a PATCH is a read, a decision
  and a write at READ COMMITTED; a backtest reads in one transaction and records
  in another), the metrics a call resolves when it starts, their outcomes, and
  the badge its gates give it when it ends.
* `Authoring`: projects, agents, suites, personas, profiles, scenarios, drafts
  and runs with their foreign keys, one action per request.  A draft's
  acceptance is two steps (`AcceptDraft`, `AcceptCommits`), as its reads and its
  writes are apart.  The PATCHes that change data only appear as whose rows they
  change (`Edit`).
* `RunRequests`: the five endpoints that create runs, transaction by
  transaction: the identity that is stored first, the insert that may find its
  key taken, the clean-up; crashes, lost answers, requests repeated with their
  key, reruns.
* `DeltaPolling`: the three statements of a poll, against transactions whose
  `updated_at` is the time they began.
* `MetricSandbox`: the scripts of a call's Python metrics: the process with its
  soft and hard CPU limit, its memory limit and what it has written, the
  worker's clock, kill and parsing, the gather that scores the call.

`MCCalls` and `MCApi` compose modules that share no state: a variable chosen in
the initial state says which of them a behaviour is about.  They are one run each
because the questions are of one kind and the instances small.

Definitions introduced by a comment "Mutant of X" are not part of any
specification: they are X with a plausible mistake, and `PROJECT.json`
("mutants") says which property of which run fails when X is replaced by one.

## 3. What the runs check

| Run | Instance | Shows |
|---|---|---|
| `lifecycle_batch` | a suite batch of a scripted and a simulated call, 2 workers, 1 crash, stalls | `TypeOK`; `NoOrphanedParent` (the reaper's soak assertion: no open parent without a live call); `OneWorkerPerRun`; `ParentClosesOnce`; `ClaimedAtMostOnce` |
| `lifecycle_singles` | a red-team batch of one attack, a discovery run, a demo replay; 1 worker, 1 crash, stalls | `OutcomeIsInTheLog` (a completed run says `done`, a failed one says why); `DoneSettlesTheRun` (after `done` no process has the run, its status is settled, no second `done` and no fatal error follows; `done` follows a fatal error only across another start); `FindingBelongsToDoneRun` |
| `lifecycle_liveness` | the suite batch, fair, 1 crash, no stalls | `OneTerminalFrame`; `ClaimedRunsEnd`, `QueuedRunsLeave`, `BatchesClose` |
| `claim` | 3 runs of 2 agents with room for one, 2 workers, 1 lost transaction | `CapHolds`, and of what it rests on `PickIsExclusive` (`UnderLock` and `RoomKept` are proved), `ClaimsInOrder`, and the refinement `ImplementsQueue` |
| `claim_liveness` | the same with a scan of one agent, fair | `NobodyStarves` |
| `rollup` | both executors of a batch of two, a judge, a cancel of one call and of the batch, the reaper | `ImplementsRollup` for every interleaving, rollbacks included; `RowFirstNeverDeadlocks` (a deadlock takes a batch cancel, or a log locked before its row) |
| `stream` | 2 racing writers, 4 events, 1 client that loses 2 connections, fair | `SeqIsPosition`, `EmitsNeverCollide`, `ImplementsFeed`, `EveryEventArrives`, `StreamsEnd` |
| `calls` | one call per behaviour: `MaxTurns` 3 (2 for a simulated call), 2 lines of the agent, 1 fault, a cancel; 2 attack lines with and without verification; a menu, a gate that rejects and a topic; an incremental judge that the final one contradicts; transcripts to grade of up to 3 words | `TurnsBounded` (one turn too many at most), `RepliesGradeTheirLine` (a verdict is stored with the latest attack line and what the agent said to it, unless a line was said out of order), `ShownMapIsTheGraph` (the map built from frames is the graph, edges included), `EvidenceIsVerbatim`, `RecordIsTheCall` (the rows have the final judge's word and the call's turns, the page agrees), `TimedCallsEnd` (red-team and discovery calls that the agent joined end by themselves) |
| `api` | one area per behaviour: a built-in metric and one that overrides it, 2 editors, 2 scored calls; 2 projects with 4 requests on scenarios, drafts, personas, profiles; 2 requests with one key, 2 faults; 2 polled calls, 2 transactions, a row cap of 1; 4 scripts, one of each temper | `VersionNamesSpec`, `GatesAnswered`; `TenantsKeptApart`, `DraftAcceptedOnce`; `RetriesAreSafe` (one run per key, no identity without a run, nor the reverse); `PageSettles` (an answered poll with nothing new shows what is there); `ScriptsAreSettled` (a script cut off at any point is an error and leaves no process) |
| `finding_*` | smallest instance | see section 5 |

`TypeOK` is checked once per component.  Deadlock checking is off for the
lifecycle, rollup, stream, calls and api runs: those systems may really stop
(every run has ended, every transaction is over, the log is full and read, the
call is closed, the requests are answered).

Several properties name their exceptions (`late`, `cut`, `raced`, `lost`,
`disturbed`, `doubt`): these are behaviours of the code that a reader should
know of, and the property says that nothing else goes wrong.  Section 5 lists
them.

### Bounds, and why they are enough

* Two calls in a batch: the rollup's question is whether the *other* sibling's
  end is seen; a third sibling adds no new kind of pair.  Three runs of two
  agents in the claim: two compete for one place, the third makes an agent that
  must not be starved.
* Two workers: one that has the run and one that must not get it.  The
  singles run has one: its runs do not interact beyond the worker, and a stall
  lets the reaper and the executor overlap on the same run.
* `MaxTurns` 1: frames before the last one are all alike to the properties; one
  is enough for an event between the start and the end.
* `MaxCrashes` 1, `MaxAborts` 1, `MaxDrops` 2: a second loss starts from a state
  the first one can leave too; two drops let a resumed stream be lost again.
* `MaxEvents` 4 with two writers: each transaction may hold two uncommitted rows
  while the other waits, and a terminal event may have successors.
* `CandidateLimit` 2 and 1 stand for the code's limit of candidates: with 1 the
  limit bites.
* A call of three turns (two for a simulated one, whose log is followed as well) has an opening, a turn that overlaps another one and the
  bound itself, and with `TurnBudget` 3 the explorer's own limit is met as well;
  two lines of the agent are enough to cancel a task and its successor; one
  fault (`MaxFaults`) separates the calls that end by themselves from those that
  fail; `MaxFlips` 1 is one flip of the incremental judge, before `done` or after
  it, which the final judge's word on the same assertion contradicts or not.
* Two metrics of one name and different levels, two PATCHes, two scored calls:
  one to be compared with the other.  Four requests (`MaxRequests`) are a draft,
  two acceptances and a deletion, or a scenario, a copy to the other project, an
  edit of what it refers to and a launch.  Two requests race or repeat one
  another, two faults make a crash and a deleted profile.  With a row cap of one
  and two calls the cap bites; `MaxTime` 4 gives each of two transactions a
  second change.
* The proofs (section 4) have no bounds except the ones named as constants.

### Fairness, and why the code justifies it

* A worker that is up polls for work every second and its executor always gets
  to its next step (`_claim_loop`; every wait in an executor ends: calls have a
  duration cap, judges raise or answer): `WF` on its claim and its work.
* `railway.worker.json` restarts a process that failed (ON_FAILURE, up to 10
  times): `WF` on `Restart`; `MaxCrashes` stays below.
* Every worker runs a reaper tick every 15 s: `WF` on `ReapStaleRuns`.
* A claim transaction, a locked row and a returning worker go on (`WF`): nothing
  in them waits but for locks of transactions that go on themselves.
* A stream's generator is run and wakes at least every 2 s (`POLL_INTERVAL`), a
  client that is not connected reconnects, what is sent and not lost arrives.
* In a red-team or discovery call the transaction of a frame or a line ends, a
  sleeping task wakes (both timers are `asyncio.sleep`) and a planner answers:
  the attacker and the explorer put `PLAN_TIMEOUT_SECS` on their model
  (`attacker.py:125`, `explorer.py:232`).  One `WF`: while one of these steps is
  due, one of them is taken.  Only these two executors ask for silence checks
  (`redteam.py:245`, `discovery.py:315`).  A simulated call has none, and the
  persona's model no timeout (`persona.py:97-114`): it is owed nothing, and
  nothing is claimed of its end but the outer timeout.
* The tested agent owes nothing: not an answer, nor that it joins.
  `TimedCallsEnd` begins with its joining (`started`), and that it falls silent
  at some point is the bound `MaxHeard`: an agent that speaks on and on keeps
  cancelling the advance task, and only the outer timeout ends such a call.
* Users, callers, judges and writers owe nothing.

The liveness run of the lifecycle excludes stalls (`MayStall = FALSE`): with
them a run can be reaped and restarted by its executor, and then ended, so the
status is not monotone; safety is checked with them.

## 4. What is proved

Every safety property that a passing run checks is a theorem, for every value
of the constants, and so are the three refinements.  `tlapm` checks every leaf
of eight modules; `Api_proofs` is about the five modules of section 2.6,
`Calls_proofs` about `JudgedCall` and `ExplorerCall`, `AttackerCall_proofs` about
`AttackerCall` and `AttackJudge`, the others about the module they are named for.

What is assumed of constants is named in the module that declares them, and TLC
evaluates it on every run.  Most of it says which sets are finite, which null
values are not members and what type a constant has.  The rest, and where the
code has it from:

* `LocksAssumption`: an executor, a canceller and a judge work on a call, a batch
  cancel and a reaper on any row.
* `RequestAssumption`: a suite run or an attack launch has at least one item
  (`suites.py:542-545`, `redteam.py:75-79`).
* `MetricAssumption`: exactly the built-in metrics belong to no project, agent or
  suite, a PATCH changes a spec, a status or nothing, and there are three kinds
  of metric (`models/metrics.py`).
* `ExplorerAssumption`: the plan is a list of topics in which handoffs come last
  (`order_candidates`).
* `JudgedAssumption`: a judge's answer says one thing about an assertion, as it
  is a dictionary by assertion.
* `JudgeAssumption`: `_normalize` leaves no blank at the ends of a quote, and no
  turn is empty (the transcriber pushes no empty line).

**`ClaimProtocol_proofs`** (any number of workers, agents, runs, candidates):
`TypeCorrect`, `ClaimersKeepTheCap` (`CapHolds`), `CountsAreLocked`
(`UnderLock`), `CountsStayTrue` (`RoomKept`), `PicksAreExclusive`
(`PickIsExclusive`), `ClaimsImplementTheQueue`, `OldestGoFirst` (`ClaimsInOrder`).
The cap alone is not inductive: a claimer about to commit must still have the
room it counted.  `IInv` therefore adds `UnderLock` (past its try-lock a claimer
holds the agent's lock), `RoomKept` (and since nobody else can commit a claim
for that agent, the room stays) and `PickIsExclusive` (its row is still queued,
belongs to the agent it counted, and is nobody else's).  The refinement is a
step simulation: `Commit` is `Take`, `Insert` is `Enqueue`, `EndRow` is `Leave`,
everything else stutters.  The order of claims needs two more facts: rows that
are inserted are younger than all there were (`AgesBounded`: no age exceeds the
number of rows), and a row that was the oldest when it was picked still is
when the claim commits, but for rows that somebody else has locked (`OrderKept`).

**`RollupLocks_proofs`** (any number of calls of a batch and of transactions on
them): `TypeCorrect`, `RollupIsAtomic` (`ImplementsRollup`), `RowFirstIsSafe`
(`RowFirstNeverDeadlocks`).  The invariant has a part for what a transaction may
still have to do (`PlanOK`: what is left of each plan), three for what it
has locked at that point (`HoldsRows`, `HoldsLogs`, `HoldsShares`), and one for
what it is about to commit (`Settles`): once its plan is done it has the parent
locked and, if the parent is open, has closed it as the committed statuses
together with its own writes say.  This last part is why READ COMMITTED is
enough: the statement that counts runs after the lock on the parent has been
got, and nobody who ends another call can commit before the lock is released.
Of a deadlock without a batch cancel, a failing executor or an emit it is shown
that its members cannot wait for a log (`NoLogInCycle`), nor for the parent
(`NoRollInCycle`: who has it does not wait, but for a reaper, which then waits
for a log), so all would wait for rows of calls, which those who have them do not.

**`RunLifecycle_proofs`** (any rows, batches, kinds, agents, workers, crashes,
turns): `TypeCorrect`, `RunsHaveOneWorker`, `NoOrphans`, `DoneIsFinal`,
`FindingsAreSettled`, `OutcomesAreLogged`, `OneOutcomeWithoutStalls` (assumes
`~MayStall`), and the action properties `BatchesCloseOnce`,
`NoRunIsClaimedTwice`.  The inductive invariant conjoins who has what
(`Occupied`: a worker that executes has a run and the other way round; `Owned`:
the row names it; a queued run has no owner), which parents exist with their
children (`FamilyBorn`), and the log's relation to the table (a run with `done`
is settled and in nobody's hands, so none of the unconditional writes can reach
it: the start and the failure path both need a worker that has the run).
What may follow a fatal error rests on `ReapedIsFailed`: as long as no start has
followed it the row stays failed, and every transaction that says `done` looks
at the row first (`OrderSteps`).  Every action is one lemma's case; the rollup
is treated once, in lemmas about `Flip`.

**`EventStream_proofs`** (any writers, clients, log length and drops):
`TypeCorrect`, `LogIsInOrder` (`SeqIsPosition`), `EmitsDoNotCollide`,
`StreamImplementsTheFeed`.  The log's part of the invariant says that only the
lock's holder has uncommitted rows and that they continue the committed ones
(`WritersInTurn`); the client's part says that what was received, then what is
on the wire, is a prefix of the log (`ShownPrefix`) of length `last_seq`, that a
terminal event can only be its end (`EndsAtTerminal`), and that the fetched
batch is what comes next (`BatchIsNext`).

**`PersonaCall_proofs`** (any bounds, any number of lines and faults, any
planner): `CallTypeCorrect` and `TurnsAreBounded`.  The bound is not inductive:
`TurnBudget` counts the turns taken together with the tasks that have passed the
check and still wait for the planner.  There are two tasks, and the check lets
the second one pass only below the limit: hence one turn too many, never two.

**`AttackerCall_proofs`** (any script, any answers of the model):
`AttackTurnsAreBounded`: every step of an attack is shown to be a step of a
call or to leave it unchanged, and the same invariant carries over.
`RepliesAreGraded` (`RepliesGradeTheirLine`): which line a reply is about is a
question of counting, so the invariant counts.  A task that waits for a plan was
shown a transcript that ended with the agent (`AsksAboutReplies`), and only a
waiting task has an exchange being stored (`GradingWaits`); attack lines are lines
of the caller in the order of the transcript (`LinesSaid`).  As long as every
line was said in order there is at most one more line than exchanges, and none
more once a verdict about the present transcript is being stored (`UpToDate`):
so the line that `_record_exchange` takes, the first without an exchange, is the
last one said, and what the agent said after it is the reply (`Graded`).
`EvidenceIsWhatWasSaid` (`EvidenceIsVerbatim`; transcripts, texts and quotes of
any length): the joined turns are a recursive function, and what its definition
says of it is itself proved, by the least argument at which it could fail.
Turn i is then a stretch of the joined text, the stretches follow each other
with one blank between them (`BlankBetween`, `JoinedGrows`), and a quote, which
neither begins nor ends with a blank, begins in one of them and ends in one
(`QuoteEnds`): those are the first and the last turn that `locate_evidence`
finds touched (`WhatIsTouched`).  `JudgeInv` carries this over the retries and the
fallback.

**`Calls_proofs`**: `RowsAreTheCall` (`RecordIsTheCall`; any length, any number of
flips, any words of the two judges): `LinesInOrder` relates the turn frames of the
log to the transcript (a line that nothing disturbed is its own position in the
log, or is the last one and being recorded), `Kept` the rows to the stage of
the executor, `WordsKept` the assertions in the rows to the log as it was at
`done`.  A final judge's words come last in that log and say one thing each, so
they are the last words.  `MapIsShown` (`ShownMapIsTheGraph`; any plan, budget and
observations): `ExploreInv` says that the log knows only nodes and edges of
the graph (`ShownFromGraph`), that a node whose frames are neither in flight nor
lost is shown as it is (`SettledIsShown`), and that a topic told to be behind a
gate is behind it (`BlockedIsBlocked`; before the end there is none,
`NoneBlocked`).  It rests on what `Observed` changes being among what it reports
as changed.

**`Api_proofs`**, per area:

* `RequestsCanBeRepeated` (`RetriesAreSafe`; any requests, keys, runs, faults).
  `RequestInv` says of a row that it has all its calls and its identity is
  accounted for (`RowOK`), of two rows that they have different keys (`KeysOK`),
  and of a request what it asks for (`AskOK`), is answered with (`AnswerOK`) and
  does with its identity (`IdentityOK`) at each point of its way.
* `SettledWhateverEndsThem` (`ScriptsAreSettled`; any scripts): a pipe that is
  whole holds what a process answered before it ended.
* `VersionsCanBeCompared` (`VersionNamesSpec`) and `GatesDecideTheBadge`
  (`GatesAnswered`; any metrics, editors, calls): the row a call was scored with is
  the row in force or has a lower version (`SnapshotOK`), so a version met
  twice is the same row (`SameSpec`).
* `ProjectsAreApart` (`TenantsKeptApart`) and `OneAcceptance` (`DraftAcceptedOnce`;
  any projects, users, requests): what rows refer to fits their suite's project
  (`SuitesOK`, `ScenariosOK`, `DraftsOK`, `LaunchesOK`), what an acceptance under way
  has read fits if it is still there (`PendingOK`), and drafts and scenarios name
  each other (`DraftsLinked`, `OneScenario`).  That no id is used again is
  what keeps an acceptance from finding another row under the id it read.
* `PollsCatchUp` (`PageSettles`; any calls, transactions, times): the page shows
  what the cursor has passed (`CursorOK`), a transaction that began before the
  cursor is known as late (`LateOK`), and an aggregate that is not the present one is
  excused by one of the two (`AggregateOK`).

Only model-checked: the liveness properties (`ClaimedRunsEnd`, `QueuedRunsLeave`,
`BatchesClose`, `NobodyStarves`, `EveryEventArrives`, `StreamsEnd`, `TimedCallsEnd`), as
fairness and ENABLED are beyond the prover, and the violations of section 5.

Proving changed the models in two places.  `EvidenceIsVerbatim` used to say that
the quote is in no fewer turns than those referred to.  That was wrong, and no
run had a text to show it: with the turns "b" and "ab a" the first place of the
quote "b a" runs across both, although the second turn has it too.  It now
says what `locate_evidence` does, the text is in the instance of `calls`, and the
evidence is no less verbatim.  The constants were given the assumptions above,
which the proofs showed the models to rest on.

## 5. Where code and documentation part

Runs that TLC must find violated, one per finding in `PROJECT.json`:

* `finding_cap_exceeded`: a run cancelled between its claim and its executor's
  start is started anyway, by an UPDATE that does not look at the status.  By
  then its place may have been given to another run: two live runs of an agent
  with `max_concurrency` 1.
* `finding_cancelled_attack`: an attack cancelled after the cancellation watcher's
  last look at the row is graded, recorded as a finding and completed.  The
  watcher looks every 3 s and is cancelled when the call ends, so the cancel may
  still come during the call (as in TLC's trace: the cancel, an attack line, the end
  of the call) or while the attack is being graded.
* `finding_stream_never_ends`: a stream resumed with the terminal event's own id
  finds no terminal event after it and polls for ever.

More behaviours the models contain and no property denies; a reader should
know of them, some because comments suggest otherwise.

Runs and their records:

* A simulation cancelled after its watcher's last look gets no `done` frame at
  all: the executor returns at `status not in ("claimed", "running")`
  (`SimulationExecutor!FinishSimulation`, second branch).
* A run reaped before its start is brought back by the start and may say `done`
  after `worker_lost` (with `MayStall`; `OneTerminalFrame` is stated without, and
  `DoneSettlesTheRun` admits it across such a start only).
* A discovery run cancelled after its watcher's last look is completed, like an
  attack (`DiscoveryExecutor!FinishDiscovery`).
* The incremental judge may write after `done`: it is waited for 30 s and not
  cancelled.  The rows keep the final judge's word, but the run's page reduces
  the log and shows the late flip, against "final wins on conflict either way"
  (`simulation.py:598-601`); `JudgedCall!IsLate`.
* A write of the incremental judge that fails during that wait raises past every
  handler of the executor: the run is left running until it is reaped
  (`LiveWriteFails`).
* `on_turn` appends to the transcript before it writes: after an overlapping,
  cancelled or failed one the judges' turn numbers no longer name the rows
  (`disturbed`).

Calls:

* `MAX_TURNS` can be exceeded by one: the silence task and the advance task may
  both have passed the check.  `PLAN_TIMEOUT` (45 s) is longer than the silence
  timeout (30 s), which is what makes two planner calls overlap.
* A planner that answers after the call has ended still has its line recorded
  and sent to the TTS, and may overwrite the end reason.
* Without a silence timeout (simulations) a cancel is noticed only when
  something wakes the call.
* An attack line may be appended and recorded but never spoken.
* A cancelled `on_observation` loses its nodes' frames (`lost`); a cancelled
  discovery run leaves an unresolved gate shown as mapped.

What an attack's exchanges are about (`RepliesGradeTheirLine` excepts these; the
docstring at `attacker.py:158-159` says "Grade the agent's reply to our latest
attack line"):

* A plan without `interim_verdict` leaves its line without an exchange and lets
  the next attack line be said: from then on every verdict is stored with the
  line before the one it is about, since lines are counted by exchanges.
* Two tasks that ask at once: the first plan says another attack line, the second,
  made for the same reply, is stored with that line and an empty reply, as the
  transcript now ends with the caller.
* A line of the agent's heard while the model thinks is part of the stored reply,
  although the model has not seen it.

The API:

* Overlapping PATCHes of a metric give one version to two specs, or make a
  version go backwards (`raced`), against `models/metrics.py:99-102`.  A PATCH of
  the spec of an active metric needs no backtest.
* A gate that is archived, overridden or a draft when the call begins silently
  gates nothing.  A metric deleted in mid-call fails the call's last transaction
  on the foreign key.
* A script that catches `Exception` also catches the exception of its soft CPU
  limit and may go on to set a result (`SoftLimit`), although "there is no path
  that returns `"ok": true` for code that didn't finish executing cleanly inside
  every limit below" (`sandbox_worker.py:14-16`).  When no process can be had for one
  script the gather raises, the run fails, and the other scripts go on to their
  own ends.
* A test profile named by a scenario is not looked up: it may be another
  project's.  The look-up of an earlier acceptance by `fromDraftId` is not
  restricted to the project.  The second of two concurrent acceptances is
  answered with an error instead of the scenario.
* A repeated discovery request leaves the identity it stored without a run; a
  repeated red-team request deletes it.  When the answer to the run's commit is
  lost the identity of an existing run may be deleted (`doubt`).  A key used
  again at another endpoint is answered with that other run.  A repetition is
  refused with 409 while the agent is full.  A rerun carries no key, and the
  rerun of an attack batch becomes simulations without scenario.
* A change whose transaction began before the newest committed one can leave the
  ETag as it was and fall before the client's cursor (`late`), against "changes
  iff anything about the batch changed" (`runs.py:314-318`).  The row cap (200)
  is below the batch cap (500): calls beyond it are cut off (`cut`).

## 6. What is not modelled, and the plan

Left out on purpose: what events, lines and prompts say, scores, costs,
latencies and recordings; `reconcile_orphaned_parents` (never finds a row:
`NoOrphanedParent`); heartbeats as data (a row is stale when no process beats
for it, or, with `MayStall`, at any time); model calls and audio I/O (inputs).

Components without a model:

* Findings and dashboard: read-only queries and one UPDATE of a status.
* Scenario generation, reference agent, agent probe: model calls and I/O.
* Credentials: library cryptography over single values.  Two PATCHes of one
  agent that overlap merge the secrets each has read, and one is lost
  (`agents.py:344-398`); `Authoring` has no secrets.
* Application shell, schemas, migrations, seed, scripts, generated contract,
  evals and tests: declarations and wiring.  (The migrations' foreign keys, the
  uniqueness of keys and the `updated_at` trigger are modelled where a property
  rests on them.)

Partly modelled: of the caller runtime the audio pipeline, the latency clock and
the recording are left out; of the API the listings, folders, voices, agent
health and the check of a project before a request (the models take it as part
of the request, so a row written for a project deleted meanwhile is not seen).

What would come next:

1. **Composition** of `JudgedCall` with `RunLifecycle`, so that a stalled
   worker's late record meets the reaper, and its refinement: the executor's
   transactions of section 2.1 as what a call of section 2.5 commits.
2. **Lemmas of their own** for the operators other modules would use: what
   `Observed` and `Finalized` keep of a graph, what `LastWords` is of a
   concatenation, which the proofs have and now state for their own use.
3. **Action properties** of the API's modules (versions never go back unless
   PATCHes overlap; a cursor never does), proved from the same invariants.
