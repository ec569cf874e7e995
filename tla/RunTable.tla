------------------------------ MODULE RunTable ------------------------------
(***************************************************************************)
(* The run rows every process of the backend shares, and the database      *)
(* transactions that write them, one TLA+ step per committed transaction:  *)
(* the API (create, batch launch, cancel), the claim and the crash of a    *)
(* worker, and the reaper.  The executors a worker hands a claimed run to  *)
(* are in ScriptedExecutor, SimulationExecutor, DiscoveryExecutor and      *)
(* RedteamExecutor; RunLifecycle composes them all.                        *)
(*                                                                         *)
(* A row is a Call (a member of Runs) or a batch parent (a member of       *)
(* Batches).  Data a property does not look at is left out: transcripts,   *)
(* metrics, costs, time stamps.  An event frame is its kind.               *)
(***************************************************************************)
EXTENDS Integers, FiniteSets, Sequences

CONSTANTS
    Runs,         \* the rows that can be claimed (Calls and single runs)
    Batches,      \* the parent rows of suite, rerun and red-team batches
    NoBatch,      \* parent_run_id IS NULL
    ParentOf,     \* parent_run_id of each run
    Kind,         \* which executor a run is dispatched to
    Agents,
    AgentOf,      \* agent_id of each run
    Cap,          \* agents.max_concurrency
    Workers,
    NoWorker,     \* claimed_by IS NULL
    NoRun,        \* a worker that executes nothing
    MaxTurns,     \* bound: turn frames one call emits
    MaxCrashes,   \* bound: worker processes lost (the platform restarts 10)
    MayStall      \* can a live worker miss its heartbeats for 60 seconds?

Kinds == {"scripted", "replay", "simulation", "discovery", "redteam"}

ASSUME RowsAssumption ==
    /\ IsFiniteSet(Runs)
    /\ Runs \cap Batches = {}
    /\ NoRun \notin Runs
    /\ NoBatch \notin Batches
    /\ ParentOf \in [Runs -> Batches \cup {NoBatch}]
    /\ Kind \in [Runs -> Kinds]
    /\ AgentOf \in [Runs -> Agents]

ASSUME WorkersAssumption ==
    /\ NoWorker \notin Workers
    /\ Cap \in [Agents -> Nat \ {0}]
    /\ MaxTurns \in Nat
    /\ MaxCrashes \in Nat
    /\ MayStall \in BOOLEAN

VARIABLES
    status,    \* runs.status of every row ("absent": not inserted yet)
    owner,     \* runs.claimed_by
    log,       \* run_events of every row, in seq order
    findings,  \* runs with a row in the findings table
    pc,        \* what each worker process is doing
    job,       \* the run it is executing
    noticed,   \* the cancel_event of the call it is executing
    fruitful,  \* workers whose call got somewhere: an attack line said, a node observed
    judging,   \* runs with an incremental judge task still in flight
    crashes    \* worker processes lost so far

vars == <<status, owner, log, findings, pc, job, noticed, fruitful, judging, crashes>>

Rows == Runs \cup Batches

Terminal == {"completed", "cancelled", "failed"}
Cancellable == {"queued", "claimed", "running"}
Live == {"claimed", "running"}

Frames == {"status", "progress", "turn", "detail", "done", "fatal"}

PC == {"idle", "claimed", "script", "calling", "ended", "down"}

TypeOK ==
    /\ status \in [Rows -> Terminal \cup Cancellable \cup {"absent"}]
    /\ owner \in [Runs -> Workers \cup {NoWorker}]
    /\ log \in [Rows -> Seq(Frames)]
    /\ findings \in SUBSET Runs
    /\ pc \in [Workers -> PC]
    /\ job \in [Workers -> Runs \cup {NoRun}]
    /\ noticed \in [Workers -> BOOLEAN]
    /\ fruitful \in SUBSET Workers
    /\ judging \in SUBSET Runs
    /\ crashes \in Nat

Init ==
    /\ status = [x \in Rows |-> "absent"]
    /\ owner = [r \in Runs |-> NoWorker]
    /\ log = [x \in Rows |-> << >>]
    /\ findings = {}
    /\ pc = [w \in Workers |-> "idle"]
    /\ job = [w \in Workers |-> NoRun]
    /\ noticed = [w \in Workers |-> FALSE]
    /\ fruitful = {}
    /\ judging = {}
    /\ crashes = 0

-----------------------------------------------------------------------------
(* The rollup: the part of a child's transaction that may close its parent. *)

Children(p) == {c \in Runs : ParentOf[c] = p}

\* Every child of p is in a terminal state of the table st (tally.live = 0).
AllDone(st, p) == \A c \in Children(p) : st[c] \in Terminal

\* The status a batch closes with: cancelled as soon as one child is.
ClosedAs(st, p) ==
    IF \E c \in Children(p) : st[c] = "cancelled" THEN "cancelled" ELSE "completed"

\* Mutant of Closes: the check for a parent that is closed already is dropped.
ClosesAgain(st, p) == AllDone(st, p)

\* _close_if_done, for every parent in P, over a table st in which the
\* children have already flipped: a closed parent is left alone.
Closes(st, p) == st[p] \notin Terminal /\ AllDone(st, p)

RollUp(st, P) ==
    [x \in Rows |-> IF x \in P /\ Closes(st, x) THEN ClosedAs(st, x) ELSE st[x]]

\* Its frames on the parent's log after n children flipped one after the
\* other: a progress frame each, then the closing status frame.
RollUpFrames(st, p, n) ==
    IF st[p] \in Terminal THEN << >>
    ELSE [i \in 1..n |-> "progress"] \o (IF Closes(st, p) THEN <<"status">> ELSE << >>)

\* Mutant of ParentsOf: the call of maybe_close_parent is forgotten.
NoParents(S) == {}

ParentsOf(S) == {ParentOf[r] : r \in S} \cap Batches

\* The transaction that flips every run of S to the terminal status s after
\* appending frames to its log, and calls maybe_close_parent for each.
Flip(S, s, frames) ==
    LET st == [x \in Rows |-> IF x \in S THEN s ELSE status[x]]
        P  == ParentsOf(S)
    IN  /\ status' = RollUp(st, P)
        /\ log' = [x \in Rows |->
                     IF x \in S THEN log[x] \o frames
                     ELSE IF x \in P
                     THEN log[x] \o RollUpFrames(st, x, Cardinality(Children(x) \cap S))
                     ELSE log[x]]

-----------------------------------------------------------------------------
(* The API. *)

\* _create_run.  Its live-run count is read without a lock and is advisory:
\* concurrent requests that all read it before any of them commits all
\* insert, so it bounds nothing and is not a guard here.
CreateRun(r) ==
    /\ ParentOf[r] = NoBatch
    /\ status[r] = "absent"
    /\ status' = [status EXCEPT ![r] = "queued"]
    /\ UNCHANGED <<owner, log, findings, pc, job, noticed, fruitful, judging, crashes>>

\* run_suite, create_redteam_run and the batch branch of rerun_run: the
\* parent and all its children in one transaction.
LaunchBatch(p) ==
    /\ status[p] = "absent"
    /\ Children(p) # {}
    /\ status' = [x \in Rows |-> IF x = p \/ x \in Children(p) THEN "queued" ELSE status[x]]
    /\ UNCHANGED <<owner, log, findings, pc, job, noticed, fruitful, judging, crashes>>

\* cancel_run on a row without children: only the flag.  The done frame is
\* left to the executor that has the run, if there is one.
CancelRun(r) ==
    /\ status[r] \in Cancellable
    /\ Flip({r}, "cancelled", << >>)
    /\ UNCHANGED <<owner, findings, pc, job, noticed, fruitful, judging, crashes>>

\* cancel_run on a batch parent: every live child in one UPDATE, then
\* close_parent_now, which counts once (one progress frame).
CancelBatch(p) ==
    /\ status[p] \in Cancellable
    /\ LET st == [x \in Rows |-> IF x \in Children(p) /\ status[x] \in Cancellable
                                 THEN "cancelled" ELSE status[x]]
       IN  /\ status' = RollUp(st, {p})
           /\ log' = [log EXCEPT ![p] = @ \o RollUpFrames(st, p, 1)]
    /\ UNCHANGED <<owner, findings, pc, job, noticed, fruitful, judging, crashes>>

-----------------------------------------------------------------------------
(* Worker processes and the reaper. *)

\* Mutant of LiveOf: the count takes queued runs for live ones.
LiveOrQueued(a) == {r \in Runs : AgentOf[r] = a /\ status[r] \in Cancellable}

LiveOf(a) == {r \in Runs : AgentOf[r] = a /\ status[r] \in Live}

\* Mutant of Claim: a row that is claimed already is taken over.
ClaimAgain(w, r) ==
    /\ pc[w] = "idle"
    /\ status[r] \in {"queued", "claimed"}
    /\ status' = [status EXCEPT ![r] = "claimed"]
    /\ owner' = [owner EXCEPT ![r] = w]
    /\ pc' = [pc EXCEPT ![w] = "claimed"]
    /\ job' = [job EXCEPT ![w] = r]
    /\ noticed' = [noticed EXCEPT ![w] = FALSE]
    /\ fruitful' = fruitful \ {w}
    /\ UNCHANGED <<log, findings, judging, crashes>>

\* claim_run as one step (ClaimProtocol has its statements).  Rows locked by
\* another transaction are skipped, so any queued run of the agent may be the
\* one returned.
Claim(w, r) ==
    /\ pc[w] = "idle"
    /\ status[r] = "queued"
    /\ Cardinality(LiveOf(AgentOf[r])) < Cap[AgentOf[r]]
    /\ status' = [status EXCEPT ![r] = "claimed"]
    /\ owner' = [owner EXCEPT ![r] = w]
    /\ pc' = [pc EXCEPT ![w] = "claimed"]
    /\ job' = [job EXCEPT ![w] = r]
    /\ noticed' = [noticed EXCEPT ![w] = FALSE]
    /\ fruitful' = fruitful \ {w}
    /\ UNCHANGED <<log, findings, judging, crashes>>

\* The executor returns to _claim_loop.
Release(w) ==
    /\ pc' = [pc EXCEPT ![w] = "idle"]
    /\ job' = [job EXCEPT ![w] = NoRun]

\* The process dies with everything it had in memory.
Crash(w) ==
    /\ pc[w] # "down"
    /\ crashes < MaxCrashes
    /\ crashes' = crashes + 1
    /\ pc' = [pc EXCEPT ![w] = "down"]
    /\ job' = [job EXCEPT ![w] = NoRun]
    /\ judging' = {r \in judging : owner[r] # w}
    /\ UNCHANGED <<status, owner, log, findings, noticed, fruitful>>

Restart(w) ==
    /\ pc[w] = "down"
    /\ pc' = [pc EXCEPT ![w] = "idle"]
    /\ UNCHANGED <<status, owner, log, findings, job, noticed, fruitful, judging, crashes>>

\* Mutants of Stale: claimed runs are not looked at; heartbeats only begin
\* with the call.
StaleIfRunning(r) == status[r] = "running" /\ \A w \in Workers : job[w] # r

StaleUntilCalling(r) ==
    /\ status[r] \in Live
    /\ \A w \in Workers : job[w] = r => pc[w] \in {"claimed", "ended"}

\* heartbeat_at is older than the threshold: no process beats for the run, or
\* (MayStall) its process lives but did not get to beat for that long.
Stale(r) ==
    /\ status[r] \in Live
    /\ MayStall \/ \A w \in Workers : job[w] # r

\* Mutant of ReapStaleRuns: the worker_lost event is left out.
ReapSilently(S) ==
    /\ S # {}
    /\ \A r \in S : Stale(r)
    /\ Flip(S, "failed", << >>)
    /\ UNCHANGED <<owner, findings, pc, job, noticed, fruitful, judging, crashes>>

\* reap_stale_runs: one transaction for all the stale rows it could lock.
ReapStaleRuns(S) ==
    /\ S # {}
    /\ \A r \in S : Stale(r)
    /\ Flip(S, "failed", <<"fatal">>)
    /\ UNCHANGED <<owner, findings, pc, job, noticed, fruitful, judging, crashes>>

-----------------------------------------------------------------------------
(* What every executor's transactions are made of. *)

\* EXECUTORS: the executor of the run's type has the run.
Executes(w, kind) == job[w] # NoRun /\ Kind[job[w]] = kind

\* Mutant of MarkRunning: a status the table does not have.
MarkStarted(r) ==
    /\ status' = [status EXCEPT ![r] = "started"]
    /\ log' = [log EXCEPT ![r] = Append(@, "status")]

\* UPDATE runs SET status = 'running' WHERE id = :id, with its status frame.
\* The WHERE clause does not look at the status the row has by now.
MarkRunning(r) ==
    /\ status' = [status EXCEPT ![r] = "running"]
    /\ log' = [log EXCEPT ![r] = Append(@, "status")]

\* The transaction every failure path ends with: a fatal error frame and
\* status failed, whatever the status was.
FailRun(w) ==
    /\ Flip({job[w]}, "failed", <<"fatal">>)
    /\ Release(w)
    /\ UNCHANGED <<owner, findings, noticed, fruitful, judging, crashes>>

\* The executor gives up without writing anything.
Abandon(w) ==
    /\ Release(w)
    /\ UNCHANGED <<status, owner, log, findings, noticed, fruitful, judging, crashes>>

Emit(r, frame) ==
    /\ log' = [log EXCEPT ![r] = Append(@, frame)]
    /\ UNCHANGED <<status, owner, findings, job, crashes>>

\* How many frames of a kind the log of x holds, and whether it holds any.
Count(x, frame) == Cardinality({i \in DOMAIN log[x] : log[x][i] = frame})

Has(x, frame) == \E i \in DOMAIN log[x] : log[x][i] = frame

Turns(r) == Count(r, "turn")

Details(r) == Count(r, "detail")

=============================================================================
