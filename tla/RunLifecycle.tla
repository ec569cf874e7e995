---------------------------- MODULE RunLifecycle ----------------------------
(***************************************************************************)
(* The whole execution plane: the API, the worker processes with their     *)
(* executors and the reaper, interleaved transaction by transaction over   *)
(* the shared run rows, and what must hold of them.                        *)
(***************************************************************************)
EXTENDS ScriptedExecutor, SimulationExecutor, DiscoveryExecutor, RedteamExecutor

Request ==
    \/ \E r \in Runs : CreateRun(r) \/ CancelRun(r)
    \/ \E p \in Batches : LaunchBatch(p) \/ CancelBatch(p)

\* The steps a worker takes towards the end of the run it has.
Work(w) ==
    \/ ScriptedStep(w)
    \/ CallStep(w)
    \/ SimulationStep(w)
    \/ DiscoveryStep(w)
    \/ RedteamStep(w)

\* What the other party of a call may or may not say.
Talk(w) ==
    \/ CallerTurn(w) \/ AgentTurn(w)
    \/ FirstNode(w) \/ Observe(w)
    \/ FirstAttackLine(w) \/ Exchange(w)

LiveJudge == \E r \in Runs : JudgeEmits(r) \/ JudgeGivesUp(r)

Next ==
    \/ Request
    \/ \E w \in Workers : \E r \in Runs : Claim(w, r)
    \/ \E w \in Workers : Work(w) \/ Talk(w) \/ Crash(w) \/ Restart(w)
    \/ LiveJudge
    \/ \E S \in SUBSET Runs : ReapStaleRuns(S)

Spec == Init /\ [][Next]_vars

\* A worker polls for work every second and its executor always gets to its
\* next step; every worker runs a reaper tick every 15 seconds; the platform
\* restarts a process that died.  Users, callers and judges owe nothing.
Fairness ==
    /\ \A w \in Workers :
          /\ WF_vars(\E r \in Runs : Claim(w, r))
          /\ WF_vars(Work(w))
          /\ WF_vars(Restart(w))
    /\ WF_vars(\E S \in SUBSET Runs : ReapStaleRuns(S))

FairSpec == Spec /\ Fairness

-----------------------------------------------------------------------------
(* Safety: what holds whatever is interleaved, cancelled, lost or stalled. *)

\* The reaper's soak assertion, "no parent ever running with zero live
\* children": a batch all of whose calls have ended is itself closed, because
\* every transaction that ends a call rolls its parent up.  The reaper's
\* reconcile_orphaned_parents therefore never finds a row.
NoOrphanedParent ==
    \A p \in Batches : status[p] = "queued" => ~AllDone(status, p)

\* done is the last word on a run: its status is settled, no process has it
\* any more, and no second done and no fatal error follows.  Nor does it follow
\* a fatal error: a worker that was taken for dead never ends what the reaper
\* has failed.  Only one that was so before its executor's start comes back,
\* and then the start is in the log between the two.
DoneSettlesTheRun ==
    \A r \in Runs : Has(r, "done") =>
        /\ status[r] \in {"completed", "cancelled"}
        /\ \A w \in Workers : job[w] # r
        /\ Count(r, "done") = 1
        /\ \A i, j \in DOMAIN log[r] : log[r][i] = "fatal" /\ log[r][j] = "done" =>
              i < j /\ \E k \in i..j : log[r][k] = "status"

\* The status a client polls is backed by the log a client streams: a run
\* that completed says done, one that failed says why.
OutcomeIsInTheLog ==
    \A r \in Runs :
        /\ status[r] = "completed" => Has(r, "done")
        /\ status[r] = "failed" => Has(r, "fatal")

\* A finding is only ever recorded together with a completed, settled attack.
FindingBelongsToDoneRun ==
    \A r \in findings : Has(r, "done") /\ status[r] = "completed"

\* Two workers never have the same run, and the row names the one that does.
OneWorkerPerRun ==
    /\ \A w \in Workers : job[w] # NoRun => owner[job[w]] = w
    /\ \A w \in Workers : pc[w] \in {"idle", "down"} <=> job[w] = NoRun

\* A batch parent is written once: when it closes, all its calls have ended,
\* it is cancelled exactly if one of them is, and it never changes again.
ParentClosesOnce ==
    [][\A p \in Batches : status'[p] # status[p] =>
          \/ status[p] = "absent" /\ status'[p] = "queued"
          \/ /\ status[p] = "queued"
             /\ \A c \in Children(p) : status'[c] \in Terminal
             /\ status'[p] = "cancelled" <=> \E c \in Children(p) : status'[c] = "cancelled"
             /\ status'[p] \in {"cancelled", "completed"}]_vars

\* A run is given to a worker at most once, and never after it left the
\* queue by being cancelled: retries, restarts and the reaper do not requeue.
ClaimedAtMostOnce ==
    [][\A r \in Runs : owner'[r] # owner[r] =>
          owner[r] = NoWorker /\ status[r] = "queued"]_vars

\* Without stalls, a run's log has one terminal frame and the run stays
\* ended: a process that is not taken for dead never contradicts the reaper.
OneTerminalFrame ==
    \A r \in Runs :
        /\ Count(r, "done") + Count(r, "fatal") <= 1
        /\ Has(r, "fatal") => status[r] = "failed"

-----------------------------------------------------------------------------
(* Liveness. *)

\* No zombie runs: what a worker claims ends, crash or not.
ClaimedRunsEnd ==
    \A r \in Runs : (status[r] \in Live) ~> (status[r] \in Terminal)

\* Queued work is picked up or cancelled, however often workers crash.
QueuedRunsLeave ==
    \A r \in Runs : (status[r] = "queued") ~> (status[r] # "queued")

\* Every batch that was launched closes.
BatchesClose ==
    \A p \in Batches : (status[p] = "queued") ~> (status[p] \in Terminal)

-----------------------------------------------------------------------------
(* What the documents and comments say, and the code does not do. *)

\* "Enforced at claim time against agents.max_concurrency (count of live runs
\* per agent)": never more claimed and running runs than the cap.  The start
\* of a run that was cancelled after its claim makes it live once more.
CapHolds == \A a \in Agents : Cardinality(LiveOf(a)) <= Cap[a]

\* "A cancelled call gets a partial done with no verdict and no finding".
CancelledCallHasNoFinding ==
    [][\A r \in Runs : status[r] = "cancelled" => r \notin findings' \ findings]_vars

=============================================================================
