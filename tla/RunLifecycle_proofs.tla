------------------------ MODULE RunLifecycle_proofs -------------------------
(***************************************************************************)
(* The safety of the execution plane for any number of runs, batches,      *)
(* agents and workers, any caps, any number of crashes, stalled or not:    *)
(* the types, who owns a run, what a done frame means and how batches      *)
(* close.  The steps fall into eleven kinds (StepKinds); each part of the  *)
(* invariant is then proved kind by kind.                                  *)
(***************************************************************************)
EXTENDS RunLifecycle, FiniteSetTheorems, TLAPS

-----------------------------------------------------------------------------
(* Flip, on runs and on batches. *)

\* What a flip does to the runs: those of S and no others.
LEMMA FlipRuns ==
    ASSUME TypeOK, NEW S \in SUBSET Runs, NEW s, NEW frames, Flip(S, s, frames)
    PROVE  \A r \in Runs : /\ status'[r] = IF r \in S THEN s ELSE status[r]
                           /\ log'[r] = IF r \in S THEN log[r] \o frames ELSE log[r]
<1>1. \A r \in Runs : r \in Rows /\ r \notin ParentsOf(S)
  BY RowsAssumption DEF Rows, ParentsOf
<1> QED BY <1>1 DEF Flip, RollUp

\* What it does to a batch: nothing, unless it is open, a child of it is in S
\* and all its children have ended.
LEMMA FlipBatches ==
    ASSUME TypeOK, NEW S \in SUBSET Runs, NEW s, NEW frames, Flip(S, s, frames),
           NEW p \in Batches
    PROVE  status'[p] =
             IF p \in ParentsOf(S) /\ status[p] \notin Terminal /\ AllDone(status', p)
             THEN ClosedAs(status', p) ELSE status[p]
<1> DEFINE st == [x \in Rows |-> IF x \in S THEN s ELSE status[x]]
<1>1. p \in Rows /\ p \notin S
  BY RowsAssumption DEF Rows
<1>2. \A c \in Children(p) : c \in Runs /\ st[c] = status'[c]
  BY FlipRuns DEF Children, Rows
<1>3. AllDone(st, p) <=> AllDone(status', p)
  BY <1>2 DEF AllDone
<1>4. ClosedAs(st, p) = ClosedAs(status', p)
  BY <1>2 DEF ClosedAs
<1>5. st[p] = status[p]
  BY <1>1
<1>6. status' = RollUp(st, ParentsOf(S))
  BY DEF Flip
<1> HIDE DEF st
<1> QED BY <1>1, <1>3, <1>4, <1>5, <1>6 DEF RollUp, Closes

\* A rollup's frames are frames.
LEMMA RollUpFramesType ==
    ASSUME NEW st, NEW p, NEW n \in Nat
    PROVE  RollUpFrames(st, p, n) \in Seq(Frames)
<1>1. [i \in 1..n |-> "progress"] \in Seq(Frames)
  BY DEF Frames
<1>2. << >> \in Seq(Frames) /\ <<"status">> \in Seq(Frames)
  BY DEF Frames
<1> QED BY <1>1, <1>2 DEF RollUpFrames

\* The statuses of a rolled-up table are statuses.
LEMMA RollUpType ==
    ASSUME NEW st \in [Rows -> Terminal \cup Cancellable \cup {"absent"}], NEW P
    PROVE  RollUp(st, P) \in [Rows -> Terminal \cup Cancellable \cup {"absent"}]
BY DEF RollUp, ClosedAs, Terminal

\* A flip keeps the types of the table and of the logs.
LEMMA FlipType ==
    ASSUME TypeOK, NEW S \in SUBSET Runs, NEW s \in Terminal,
           NEW frames \in Seq(Frames), Flip(S, s, frames)
    PROVE  /\ status' \in [Rows -> Terminal \cup Cancellable \cup {"absent"}]
           /\ log' \in [Rows -> Seq(Frames)]
<1> DEFINE st == [x \in Rows |-> IF x \in S THEN s ELSE status[x]]
           P == ParentsOf(S)
           n(x) == Cardinality(Children(x) \cap S)
<1>1. st \in [Rows -> Terminal \cup Cancellable \cup {"absent"}]
  BY DEF TypeOK
<1>2. \A x : n(x) \in Nat
  <2>1. \A x : Children(x) \cap S \in SUBSET Runs
    BY DEF Children
  <2> QED BY <2>1, RowsAssumption, FS_Subset, FS_CardinalityType
<1>3. status' = RollUp(st, P)
  BY DEF Flip
<1>4. log' = [x \in Rows |->
                IF x \in S THEN log[x] \o frames
                ELSE IF x \in P THEN log[x] \o RollUpFrames(st, x, n(x))
                ELSE log[x]]
  BY DEF Flip
<1> HIDE DEF st, P, n
<1>5. \A x \in Rows : RollUpFrames(st, x, n(x)) \in Seq(Frames)
  BY <1>2, RollUpFramesType
<1>6. \A x \in Rows : log[x] \in Seq(Frames)
  BY DEF TypeOK
<1>7. \A x \in Rows : log[x] \o frames \in Seq(Frames)
  BY <1>6
<1>8. \A x \in Rows : log[x] \o RollUpFrames(st, x, n(x)) \in Seq(Frames)
  BY <1>5, <1>6
<1> QED BY <1>1, <1>3, <1>4, <1>6, <1>7, <1>8, RollUpType

-----------------------------------------------------------------------------
(* The kinds of steps. *)

\* How an executor ends the run it has: the frames it appends with the status.
Outcome(s, frames) ==
    \/ s = "failed" /\ frames = <<"fatal">>
    \/ s = "completed" /\ frames \in {<<"done">>, <<"detail", "done">>}
    \/ s = "cancelled" /\ frames = <<"done">>

\* It writes that outcome, with a finding perhaps, and returns.  Only a failure
\* is written whatever the status is.
Ends(w, s, frames) ==
    /\ Outcome(s, frames)
    /\ s # "failed" => status[job[w]] \in Live \cup {"cancelled"}
    /\ Flip({job[w]}, s, frames)
    /\ job' = [job EXCEPT ![w] = NoRun]
    /\ owner' = owner
    /\ findings' = findings \/ (s = "completed" /\ findings' = findings \cup {job[w]})

\* It marks its run as running.
Starts(w) ==
    /\ MarkRunning(job[w])
    /\ UNCHANGED <<owner, findings, job>>

\* A frame that ends nothing is appended to the log of r.
Says(r, f) ==
    /\ f \in {"turn", "detail"}
    /\ log' = [log EXCEPT ![r] = Append(@, f)]
    /\ UNCHANGED <<status, owner, findings, job>>

\* Nothing is written; w may let its run go.
Quiet(w) ==
    /\ UNCHANGED <<status, owner, log, findings>>
    /\ job' \in {job, [job EXCEPT ![w] = NoRun]}

\* What w does with the run it has.
Handles(w) ==
    \/ \E s \in Terminal, frames \in Seq(Frames) : Ends(w, s, frames)
    \/ Starts(w)
    \/ \E f \in Frames : Says(job[w], f)
    \/ StopCancelled(w)
    \/ Quiet(w)

\* The way an executor writes an outcome is an end.
LEMMA EndKind ==
    ASSUME NEW w \in Workers, NEW s, NEW frames, Outcome(s, frames),
           s # "failed" => status[job[w]] \in Live \cup {"cancelled"},
           Flip({job[w]}, s, frames), Release(w), owner' = owner,
           findings' = findings \/ (s = "completed" /\ findings' = findings \cup {job[w]})
    PROVE  Handles(w)
<1>1. s \in Terminal
  BY DEF Outcome, Terminal
<1>2. frames \in Seq(Frames)
  <2>1. <<"fatal">> \in Seq(Frames) /\ <<"done">> \in Seq(Frames)
    BY DEF Frames
  <2>2. <<"detail", "done">> \in Seq(Frames)
    BY DEF Frames
  <2> QED BY <2>1, <2>2 DEF Outcome
<1>3. Ends(w, s, frames)
  BY DEF Ends, Release
<1> QED BY <1>1, <1>2, <1>3 DEF Handles

\* A failure path of any executor is a worker ending its own run with fatal.
LEMMA FailKind ==
    ASSUME NEW w \in Workers, FailRun(w)
    PROVE  Handles(w)
<1>1. Outcome("failed", <<"fatal">>)
  BY DEF Outcome
<1> QED BY <1>1, EndKind DEF FailRun

\* Giving up writes nothing: the worker only lets go of its run.
LEMMA AbandonKind ==
    ASSUME NEW w \in Workers, Abandon(w)
    PROVE  Handles(w)
BY DEF Abandon, Release, Handles, Quiet

\* The start of any executor is a claimed run being marked as running.
LEMMA StartKind ==
    ASSUME NEW w \in Workers, StartScript(w) \/ StartReplay(w) \/ StartCall(w)
    PROVE  Handles(w) /\ pc[w] = "claimed"
BY DEF StartScript, StartReplay, StartCall, Started, Handles, Starts

\* A frame emitted during the run adds a turn or a detail to its log; the first
\* node or attack line is remembered, and its frames are emitted apart.
LEMMA SayKind ==
    ASSUME NEW w \in Workers, PlayEntry(w) \/ Talk(w)
    PROVE  Handles(w)
<1>1. CASE FirstNode(w) \/ FirstAttackLine(w)
  BY <1>1 DEF FirstNode, FirstAttackLine, Handles, Quiet
<1>2. CASE ~(FirstNode(w) \/ FirstAttackLine(w))
  <2>1. \E f \in {"turn", "detail"} : Emit(job[w], f)
    BY <1>2 DEF PlayEntry, Talk, CallerTurn, AgentTurn, Observe, Exchange
  <2> QED BY <2>1 DEF Emit, Says, Handles, Frames
<1> QED BY <1>1, <1>2

\* Whatever an executor does is one of the five.
LEMMA ExecutorKinds ==
    ASSUME NEW w \in Workers, Work(w) \/ Talk(w)
    PROVE  Handles(w)
<1> USE EndKind, FailKind, AbandonKind DEF Outcome
<1>1. CASE ScriptedStep(w)
  <2>1. CASE PlayLast(w)
    BY <2>1 DEF PlayLast
  <2>2. CASE StopCancelled(w)
    BY <2>2 DEF Handles
  <2>3. CASE StopReaped(w)
    BY <2>3 DEF StopReaped
  <2> QED BY <1>1, <2>1, <2>2, <2>3, StartKind, SayKind
          DEF ScriptedStep, PlayScript, PlayReplay, PlayEvent
<1>2. CASE CallStep(w)
  <2>1. CASE NoticeCancel(w) \/ CallEnds(w)
    BY <2>1 DEF NoticeCancel, CallEnds, Handles, Quiet
  <2> QED BY <1>2, <2>1, StartKind DEF CallStep, PrepareFails, CallFails
<1>3. CASE SimulationStep(w)
  <2>1. CASE FinishCancelledCall(w)
    BY <2>1 DEF FinishCancelledCall
  <2>2. CASE FinishSimulation(w)
    BY <2>2 DEF FinishSimulation
  <2> QED BY <1>3, <2>1, <2>2 DEF SimulationStep, ScoringFails
<1>4. CASE DiscoveryStep(w)
  <2>1. CASE FinishDiscovery(w)
    BY <2>1 DEF FinishDiscovery
  <2> QED BY <1>4, <2>1 DEF DiscoveryStep, NothingObserved, DiscoveryFails
<1>5. CASE RedteamStep(w)
  <2>1. CASE FinishAttack(w)
    BY <2>1 DEF FinishAttack
  <2>2. CASE FinishCancelledAttack(w)
    BY <2>2 DEF FinishCancelledAttack
  <2> QED BY <1>5, <2>1, <2>2 DEF RedteamStep, AttackNotDelivered, GradingFails
<1> QED BY <1>1, <1>2, <1>3, <1>4, <1>5, SayKind DEF Work

-----------------------------------------------------------------------------
(* Types, and who executes what. *)

\* A worker that is neither idle nor down has a run.
Occupied == \A w \in Workers : pc[w] \in {"idle", "down"} <=> job[w] = NoRun

\* The processes' own variables keep their types, whatever the tables do.
LEMMA ProcessTyping ==
    ASSUME TypeOK, Occupied, [Next]_vars
    PROVE  /\ pc' \in [Workers -> PC]
           /\ noticed' \in [Workers -> BOOLEAN]
           /\ fruitful' \in SUBSET Workers
           /\ judging' \in SUBSET Runs
           /\ crashes' \in Nat
           /\ Occupied'
<1> USE RowsAssumption DEF TypeOK, PC, Occupied
<1> DEFINE Goal == /\ pc' \in [Workers -> PC]
                   /\ noticed' \in [Workers -> BOOLEAN]
                   /\ fruitful' \in SUBSET Workers
                   /\ judging' \in SUBSET Runs
                   /\ crashes' \in Nat
                   /\ Occupied'
<1>1. CASE Request \/ \E S \in SUBSET Runs : ReapStaleRuns(S)
  BY <1>1 DEF Request, CreateRun, CancelRun, LaunchBatch, CancelBatch, ReapStaleRuns
<1>2. ASSUME NEW w \in Workers, NEW r \in Runs, Claim(w, r) PROVE Goal
  BY <1>2 DEF Claim
<1>3. ASSUME NEW w \in Workers, Crash(w) \/ Restart(w) PROVE Goal
  <2>1. CASE Crash(w)
    <3>1. pc' \in [Workers -> PC] /\ Occupied'
      BY <2>1 DEF Crash
    <3>2. judging' \in SUBSET Runs /\ crashes' \in Nat
      BY <2>1 DEF Crash
    <3> QED BY <2>1, <3>1, <3>2 DEF Crash
  <2>2. CASE Restart(w)
    BY <2>2 DEF Restart
  <2> QED BY <1>3, <2>1, <2>2
<1>4. CASE LiveJudge
  BY <1>4 DEF LiveJudge, JudgeEmits, JudgeGivesUp, Emit
<1>5. ASSUME NEW w \in Workers, Talk(w) PROVE Goal
  BY <1>5 DEF Talk, CallerTurn, AgentTurn, FirstNode, Observe, FirstAttackLine, Exchange,
     Emit, Executes
<1>6. ASSUME NEW w \in Workers, Work(w) PROVE Goal
  <2>1. ASSUME Release(w), UNCHANGED <<noticed, fruitful, judging, crashes>> PROVE Goal
    BY <2>1 DEF Release
  <2>2. CASE ScriptedStep(w)
    BY <2>2, <2>1 DEF ScriptedStep, StartScript, StartReplay, Started, PlayScript, PlayReplay,
       PlayEvent, PlayEntry, PlayLast, StopCancelled, StopReaped, Abandon, Emit
  <2>3. CASE CallStep(w)
    BY <2>3, <2>1, ZenonT(30) DEF CallStep, PrepareFails, StartCall, NoticeCancel, CallEnds, CallFails,
       FailRun
  <2>4. CASE SimulationStep(w)
    BY <2>4, <2>1 DEF SimulationStep, FinishCancelledCall, FinishSimulation, ScoringFails,
       FailRun, Abandon
  <2>5. CASE DiscoveryStep(w)
    BY <2>5, <2>1 DEF DiscoveryStep, NothingObserved, FinishDiscovery, DiscoveryFails,
       FailRun, Abandon
  <2>6. CASE RedteamStep(w)
    BY <2>6, <2>1 DEF RedteamStep, AttackNotDelivered, FinishAttack, FinishCancelledAttack,
       GradingFails, FailRun, Abandon
  <2> QED BY <1>6, <2>2, <2>3, <2>4, <2>5, <2>6 DEF Work
<1>7. CASE UNCHANGED vars
  BY <1>7 DEF vars
<1> QED BY <1>1, <1>2, <1>3, <1>4, <1>5, <1>6, <1>7 DEF Next

\* Work and talk are for a worker that has a run.
LEMMA WorkNeedsARun ==
    ASSUME TypeOK, Occupied, NEW w \in Workers, Work(w) \/ Talk(w)
    PROVE  job[w] \in Runs
<1>1. pc[w] \notin {"idle", "down"}
  BY DEF Work, Talk, ScriptedStep, StartScript, StartReplay, Started, PlayScript, PlayReplay,
     CallStep, PrepareFails, StartCall, NoticeCancel, CallEnds, CallFails,
     SimulationStep, FinishCancelledCall, FinishSimulation, ScoringFails,
     DiscoveryStep, NothingObserved, FinishDiscovery, DiscoveryFails,
     RedteamStep, AttackNotDelivered, FinishAttack, FinishCancelledAttack, GradingFails,
     CallerTurn, AgentTurn, FirstNode, Observe, FirstAttackLine, Exchange
<1> QED BY <1>1 DEF Occupied, TypeOK

\* Every step is of one of these kinds.
LEMMA StepKinds ==
    ASSUME TypeOK, Occupied, [Next]_vars
    PROVE  \/ \E r \in Runs : CreateRun(r)
           \/ \E r \in Runs : CancelRun(r)
           \/ \E p \in Batches : LaunchBatch(p)
           \/ \E p \in Batches : CancelBatch(p)
           \/ \E S \in SUBSET Runs : ReapStaleRuns(S)
           \/ \E w \in Workers : \E r \in Runs : Claim(w, r)
           \/ \E w \in Workers : job[w] \in Runs /\ Starts(w)
           \/ \E w \in Workers : job[w] \in Runs /\ StopCancelled(w)
           \/ \E w \in Workers, s \in Terminal, frames \in Seq(Frames) :
                 job[w] \in Runs /\ Ends(w, s, frames)
           \/ \E r \in Runs, f \in Frames : Says(r, f)
           \/ \E w \in Workers : Quiet(w)
           \/ UNCHANGED <<status, owner, log, findings, job>>
<1>1. ASSUME NEW w \in Workers, Crash(w) \/ Restart(w) PROVE Quiet(w)
  BY <1>1 DEF Crash, Restart, Quiet
<1>2. ASSUME NEW r \in Runs, JudgeEmits(r) PROVE Says(r, "detail") /\ "detail" \in Frames
  BY <1>2 DEF JudgeEmits, Emit, Says, Frames
<1>3. ASSUME NEW r \in Runs, JudgeGivesUp(r)
      PROVE  UNCHANGED <<status, owner, log, findings, job>>
  BY <1>3 DEF JudgeGivesUp
<1>4. ASSUME NEW w \in Workers, Work(w) \/ Talk(w) PROVE job[w] \in Runs /\ Handles(w)
  BY <1>4, WorkNeedsARun, ExecutorKinds
<1> QED BY <1>1, <1>2, <1>3, <1>4 DEF Next, Request, LiveJudge, Handles, vars

\* What the cancellation of a batch does to the runs and to the batches.
LEMMA CancelBatchRows ==
    ASSUME TypeOK, NEW p \in Batches, CancelBatch(p)
    PROVE  /\ \A r \in Runs :
                 /\ status'[r] = IF r \in Children(p) /\ status[r] \in Cancellable
                                 THEN "cancelled" ELSE status[r]
                 /\ log'[r] = log[r]
           /\ \A q \in Batches :
                 status'[q] = IF q = p /\ status[q] \notin Terminal /\ AllDone(status', q)
                              THEN ClosedAs(status', q) ELSE status[q]
<1> DEFINE st == [x \in Rows |-> IF x \in Children(p) /\ status[x] \in Cancellable
                                 THEN "cancelled" ELSE status[x]]
<1>1. status' = RollUp(st, {p}) /\ log' = [log EXCEPT ![p] = @ \o RollUpFrames(st, p, 1)]
  BY DEF CancelBatch
<1>2. \A r \in Runs : r \in Rows /\ r # p
  BY RowsAssumption DEF Rows
<1>3. \A r \in Runs : status'[r] = st[r] /\ log'[r] = log[r]
  <2> HIDE DEF st
  <2> QED BY <1>1, <1>2 DEF RollUp, TypeOK
<1>4. ASSUME NEW q \in Batches
      PROVE  status'[q] = IF q = p /\ status[q] \notin Terminal /\ AllDone(status', q)
                          THEN ClosedAs(status', q) ELSE status[q]
  <2>1. q \in Rows /\ q \notin Children(p)
    BY RowsAssumption DEF Rows, Children
  <2>2. AllDone(st, q) <=> AllDone(status', q)
    <3> HIDE DEF st
    <3> QED BY <1>3 DEF AllDone, Children
  <2>3. ClosedAs(st, q) = ClosedAs(status', q)
    <3> HIDE DEF st
    <3> QED BY <1>3 DEF ClosedAs, Children
  <2>4. st[q] = status[q]
    BY <2>1
  <2> HIDE DEF st
  <2> QED BY <1>1, <2>1, <2>2, <2>3, <2>4 DEF RollUp, Closes
<1>5. \A r \in Runs : st[r] = IF r \in Children(p) /\ status[r] \in Cancellable
                              THEN "cancelled" ELSE status[r]
  BY DEF Rows
<1> HIDE DEF st
<1> QED BY <1>3, <1>4, <1>5

\* The tables and the workers' runs keep their types.
LEMMA TableTyping ==
    ASSUME TypeOK, Occupied, [Next]_vars
    PROVE  /\ status' \in [Rows -> Terminal \cup Cancellable \cup {"absent"}]
           /\ owner' \in [Runs -> Workers \cup {NoWorker}]
           /\ log' \in [Rows -> Seq(Frames)]
           /\ findings' \in SUBSET Runs
           /\ job' \in [Workers -> Runs \cup {NoRun}]
<1> DEFINE Goal == /\ status' \in [Rows -> Terminal \cup Cancellable \cup {"absent"}]
                   /\ owner' \in [Runs -> Workers \cup {NoWorker}]
                   /\ log' \in [Rows -> Seq(Frames)]
                   /\ findings' \in SUBSET Runs
                   /\ job' \in [Workers -> Runs \cup {NoRun}]
<1>0. Runs \subseteq Rows /\ Batches \subseteq Rows
  BY DEF Rows
<1> USE DEF TypeOK, Cancellable
<1>1. ASSUME NEW r \in Runs, CreateRun(r) PROVE Goal
  BY <1>1 DEF CreateRun
<1>2. ASSUME NEW r \in Runs, CancelRun(r) PROVE Goal
  <2>1. "cancelled" \in Terminal /\ << >> \in Seq(Frames) /\ {r} \in SUBSET Runs
    BY DEF Terminal
  <2> QED BY <1>2, <2>1, FlipType DEF CancelRun
<1>3. ASSUME NEW p \in Batches, LaunchBatch(p) PROVE Goal
  BY <1>3 DEF LaunchBatch
<1>4. ASSUME NEW p \in Batches, CancelBatch(p) PROVE Goal
  <2> DEFINE st == [x \in Rows |-> IF x \in Children(p) /\ status[x] \in Cancellable
                                   THEN "cancelled" ELSE status[x]]
  <2>1. st \in [Rows -> Terminal \cup Cancellable \cup {"absent"}]
    BY DEF Terminal
  <2>2. RollUpFrames(st, p, 1) \in Seq(Frames)
    BY RollUpFramesType
  <2>3. status' = RollUp(st, {p}) /\ log' = [log EXCEPT ![p] = @ \o RollUpFrames(st, p, 1)]
    BY <1>4 DEF CancelBatch
  <2> HIDE DEF st
  <2>4. status' \in [Rows -> Terminal \cup Cancellable \cup {"absent"}]
    BY <2>1, <2>3, RollUpType
  <2>5. log' \in [Rows -> Seq(Frames)]
    BY <1>0, <2>2, <2>3
  <2> QED BY <1>4, <2>4, <2>5 DEF CancelBatch
<1>5. ASSUME NEW S \in SUBSET Runs, ReapStaleRuns(S) PROVE Goal
  <2>1. "failed" \in Terminal /\ <<"fatal">> \in Seq(Frames)
    BY DEF Terminal, Frames
  <2> QED BY <1>5, <2>1, FlipType DEF ReapStaleRuns
<1>6. ASSUME NEW w \in Workers, NEW r \in Runs, Claim(w, r) PROVE Goal
  BY <1>6 DEF Claim
<1>7. ASSUME NEW w \in Workers, job[w] \in Runs, Starts(w) PROVE Goal
  <2>1. "status" \in Frames /\ job[w] \in Rows
    BY <1>0, <1>7 DEF Frames
  <2> QED BY <1>7, <2>1 DEF Starts, MarkRunning
<1>8. ASSUME NEW w \in Workers, job[w] \in Runs, StopCancelled(w) PROVE Goal
  <2>1. "done" \in Frames /\ job[w] \in Rows
    BY <1>0, <1>8 DEF Frames
  <2> QED BY <1>8, <2>1 DEF StopCancelled, Release
<1>9. ASSUME NEW w \in Workers, NEW s \in Terminal, NEW frames \in Seq(Frames),
             job[w] \in Runs, Ends(w, s, frames)
      PROVE  Goal
  <2>1. /\ status' \in [Rows -> Terminal \cup Cancellable \cup {"absent"}]
        /\ log' \in [Rows -> Seq(Frames)]
    BY <1>9, FlipType DEF Ends
  <2> QED BY <1>9, <2>1 DEF Ends
<1>10. ASSUME NEW r \in Runs, NEW f \in Frames, Says(r, f) PROVE Goal
  BY <1>0, <1>10 DEF Says
<1>11. ASSUME NEW w \in Workers, Quiet(w) PROVE Goal
  BY <1>11 DEF Quiet
<1>12. CASE UNCHANGED <<status, owner, log, findings, job>>
  BY <1>12
<1> QED BY <1>1, <1>2, <1>3, <1>4, <1>5, <1>6, <1>7, <1>8, <1>9, <1>10, <1>11, <1>12, StepKinds

\* Every step keeps every variable in its type, and workers without a run idle.
LEMMA TypingStep == TypeOK /\ Occupied /\ [Next]_vars => TypeOK' /\ Occupied'
BY ProcessTyping, TableTyping DEF TypeOK

-----------------------------------------------------------------------------
(* Ownership. *)

\* claimed_by names the worker that has the run, and only a claim sets it.
Owned ==
    /\ \A w \in Workers : job[w] # NoRun => owner[job[w]] = w
    /\ \A r \in Runs : status[r] \in {"absent", "queued"} => owner[r] = NoWorker

\* A run a worker has is neither missing nor queued, and no other has it.
LEMMA OwnedJob ==
    ASSUME TypeOK, Owned, NEW w \in Workers, job[w] \in Runs
    PROVE  /\ status[job[w]] \notin {"absent", "queued"}
           /\ \A v \in Workers : job[v] = job[w] => v = w
BY RowsAssumption, WorkersAssumption DEF TypeOK, Owned

\* A batch and its calls are inserted together, and a batch is never claimed.
FamilyBorn ==
    /\ \A p \in Batches : \A c \in Children(p) : status[c] = "absent" <=> status[p] = "absent"
    /\ \A p \in Batches : status[p] \in {"absent", "queued", "completed", "cancelled"}

\* Ownership survives every step: a claim takes a row nobody owns, and no
\* other step queues a row again or writes claimed_by.
LEMMA OwnedStep == TypeOK /\ Occupied /\ Owned /\ FamilyBorn /\ [Next]_vars => Owned'
<1> SUFFICES ASSUME TypeOK, Occupied, Owned, FamilyBorn, [Next]_vars PROVE Owned'
  OBVIOUS
<1>0. Runs \subseteq Rows /\ NoRun \notin Runs /\ \A r \in Runs : r \notin Batches
  BY RowsAssumption DEF Rows
<1> USE DEF TypeOK, Owned
<1>1. ASSUME NEW r \in Runs, CreateRun(r) PROVE Owned'
  BY <1>0, <1>1 DEF CreateRun
<1>2. ASSUME NEW r \in Runs, CancelRun(r) PROVE Owned'
  <2>1. \A x \in Runs : status'[x] = IF x \in {r} THEN "cancelled" ELSE status[x]
    <3>1. {r} \in SUBSET Runs /\ Flip({r}, "cancelled", << >>)
      BY <1>2 DEF CancelRun
    <3> HIDE DEF TypeOK, Owned
    <3> QED BY <3>1, FlipRuns
  <2> QED BY <1>2, <2>1 DEF CancelRun
<1>3. ASSUME NEW p \in Batches, LaunchBatch(p) PROVE Owned'
  BY <1>0, <1>3 DEF LaunchBatch, FamilyBorn, Children
<1>4. ASSUME NEW p \in Batches, CancelBatch(p) PROVE Owned'
  BY <1>4, CancelBatchRows DEF CancelBatch
<1>5. ASSUME NEW S \in SUBSET Runs, ReapStaleRuns(S) PROVE Owned'
  <2>1. \A x \in Runs : status'[x] = IF x \in S THEN "failed" ELSE status[x]
    BY <1>5, FlipRuns DEF ReapStaleRuns
  <2> QED BY <1>5, <2>1 DEF ReapStaleRuns
<1>6. ASSUME NEW w \in Workers, NEW r \in Runs, Claim(w, r) PROVE Owned'
  <2>1. \A v \in Workers : job[v] # r
    BY <1>0, <1>6, WorkersAssumption, ZenonT(30) DEF Claim
  <2> QED BY <1>0, <1>6, <2>1 DEF Claim
<1>7. ASSUME NEW w \in Workers, job[w] \in Runs, Starts(w) PROVE Owned'
  BY <1>0, <1>7 DEF Starts, MarkRunning
<1>8. ASSUME NEW w \in Workers, job[w] \in Runs, StopCancelled(w) PROVE Owned'
  BY <1>0, <1>8 DEF StopCancelled, Release
<1>9. ASSUME NEW w \in Workers, NEW s \in Terminal, NEW frames \in Seq(Frames),
             job[w] \in Runs, Ends(w, s, frames)
      PROVE  Owned'
  <2>1. \A x \in Runs : status'[x] = IF x \in {job[w]} THEN s ELSE status[x]
    <3>1. {job[w]} \in SUBSET Runs /\ Flip({job[w]}, s, frames)
      BY <1>9 DEF Ends
    <3> HIDE DEF TypeOK, Owned
    <3> QED BY <3>1, FlipRuns, ZenonT(30)
  <2>2. s \notin {"absent", "queued"}
    BY DEF Terminal
  <2>3. \A v \in Workers : job'[v] # NoRun => job'[v] = job[v]
    BY <1>9 DEF Ends
  <2> QED BY <1>9, <2>1, <2>2, <2>3 DEF Ends
<1>10. ASSUME NEW r \in Runs, NEW f \in Frames, Says(r, f) PROVE Owned'
  BY <1>10 DEF Says
<1>11. ASSUME NEW w \in Workers, Quiet(w) PROVE Owned'
  BY <1>0, <1>11 DEF Quiet
<1>12. CASE UNCHANGED <<status, owner, log, findings, job>>
  BY <1>12
<1> QED BY <1>1, <1>2, <1>3, <1>4, <1>5, <1>6, <1>7, <1>8, <1>9, <1>10, <1>11, <1>12, StepKinds

-----------------------------------------------------------------------------
(* Batches. *)

\* What a step may do to a batch and its calls: leave the batch alone and not
\* end its last live call, launch it with its calls, or close it once all its
\* calls have ended.
BatchStep(p) ==
    \/ /\ status'[p] = status[p]
       /\ \A c \in Children(p) :
             status'[c] = "absent" <=> status[c] = "absent"
       /\ status[p] = "queued" /\ AllDone(status', p) => AllDone(status, p)
    \/ /\ status[p] = "absent"
       /\ status'[p] = "queued"
       /\ \A c \in Children(p) : status'[c] = "queued"
       /\ Children(p) # {}
    \/ /\ status[p] = "queued"
       /\ AllDone(status', p)
       /\ status'[p] = ClosedAs(status', p)
       /\ \A c \in Children(p) : status'[c] # "absent"

\* A transaction that ends existing calls rolls their parents up.
LEMMA FlipBatchStep ==
    ASSUME TypeOK, FamilyBorn, NEW S \in SUBSET Runs, NEW s \in Terminal, NEW frames,
           Flip(S, s, frames), \A r \in S : status[r] # "absent", NEW p \in Batches
    PROVE  BatchStep(p)
<1> USE DEF FamilyBorn, Children
<1>1. \A r \in Runs : status'[r] = IF r \in S THEN s ELSE status[r]
  BY FlipRuns
<1>2. s # "absent"
  BY DEF Terminal
<1>3. \A c \in Children(p) : status'[c] = "absent" <=> status[c] = "absent"
  BY <1>1, <1>2
<1>4. CASE p \in ParentsOf(S) /\ status[p] \notin Terminal /\ AllDone(status', p)
  <2>1. status'[p] = ClosedAs(status', p)
    BY <1>4, FlipBatches
  <2>2. PICK c \in S : ParentOf[c] = p
    BY <1>4 DEF ParentsOf
  <2>3. status[p] = "queued"
    BY <1>4, <2>2 DEF Terminal
  <2> QED BY <1>3, <1>4, <2>1, <2>3 DEF BatchStep
<1>5. CASE ~(p \in ParentsOf(S) /\ status[p] \notin Terminal /\ AllDone(status', p))
  <2>1. status'[p] = status[p]
    BY <1>5, FlipBatches
  <2>2. ASSUME status[p] = "queued", AllDone(status', p) PROVE AllDone(status, p)
    <3>1. p \notin ParentsOf(S)
      BY <1>5, <2>2 DEF Terminal
    <3>2. \A c \in Children(p) : c \notin S
      BY <3>1 DEF ParentsOf
    <3> QED BY <1>1, <2>2, <3>2 DEF AllDone
  <2> QED BY <1>3, <2>1, <2>2 DEF BatchStep
<1> QED BY <1>4, <1>5

\* Every step treats every batch that way.
LEMMA BatchSteps ==
    ASSUME TypeOK, Occupied, Owned, FamilyBorn, [Next]_vars, NEW p \in Batches
    PROVE  BatchStep(p)
<1>0. /\ Runs \subseteq Rows
      /\ \A r \in Runs : r # p
      /\ p \in Rows
      /\ Children(p) \subseteq Runs
      /\ \A r \in Runs : ParentOf[r] = NoBatch => r \notin Children(p)
  BY RowsAssumption DEF Rows, Children
<1>1. ASSUME NEW r \in Runs, CreateRun(r) PROVE BatchStep(p)
  BY <1>0, <1>1 DEF CreateRun, BatchStep, AllDone, TypeOK
<1>2. ASSUME NEW r \in Runs, CancelRun(r) PROVE BatchStep(p)
  <2>1. "cancelled" \in Terminal /\ {r} \in SUBSET Runs
    BY DEF Terminal
  <2>2. \A x \in {r} : status[x] # "absent"
    BY <1>2 DEF CancelRun, Cancellable
  <2> QED BY <1>2, <2>1, <2>2, FlipBatchStep DEF CancelRun
<1>3. ASSUME NEW q \in Batches, LaunchBatch(q) PROVE BatchStep(p)
  <2>1. CASE p = q
    BY <1>0, <1>3, <2>1 DEF LaunchBatch, BatchStep, TypeOK
  <2>2. CASE p # q
    <3>1. p \notin Children(q) /\ \A c \in Children(p) : c \notin Children(q) /\ c # q
      BY <2>2, RowsAssumption DEF Children
    <3>2. status'[p] = status[p] /\ \A c \in Children(p) : status'[c] = status[c]
      BY <1>0, <1>3, <2>2, <3>1 DEF LaunchBatch, TypeOK
    <3> QED BY <3>2 DEF BatchStep, AllDone
  <2> QED BY <2>1, <2>2
<1>4. ASSUME NEW q \in Batches, CancelBatch(q) PROVE BatchStep(p)
  <2>1. \A c \in Children(p) : status'[c] = "absent" <=> status[c] = "absent"
    BY <1>0, <1>4, CancelBatchRows DEF Cancellable
  <2>2. status'[p] = IF p = q /\ status[p] \notin Terminal /\ AllDone(status', p)
                     THEN ClosedAs(status', p) ELSE status[p]
    BY <1>4, CancelBatchRows
  <2>3. CASE p = q /\ status[p] \notin Terminal /\ AllDone(status', p)
    <3>1. status[p] = "queued"
      BY <1>4, <2>3 DEF CancelBatch, Cancellable, FamilyBorn
    <3> QED BY <2>1, <2>2, <2>3, <3>1 DEF BatchStep, FamilyBorn
  <2>4. CASE p = q /\ ~(status[p] \notin Terminal /\ AllDone(status', p))
    <3>1. status[p] = "queued" => ~AllDone(status', p)
      BY <2>4 DEF Terminal
    <3> QED BY <2>1, <2>2, <2>4, <3>1 DEF BatchStep
  <2>5. CASE p # q
    <3>1. \A c \in Children(p) : status'[c] = status[c]
      BY <1>0, <1>4, <2>5, CancelBatchRows DEF Children
    <3> QED BY <2>1, <2>2, <2>5, <3>1 DEF BatchStep, AllDone
  <2> QED BY <2>3, <2>4, <2>5
<1>5. ASSUME NEW S \in SUBSET Runs, ReapStaleRuns(S) PROVE BatchStep(p)
  <2>1. "failed" \in Terminal
    BY DEF Terminal
  <2>2. \A r \in S : status[r] # "absent"
    BY <1>5 DEF ReapStaleRuns, Stale, Live
  <2> QED BY <1>5, <2>1, <2>2, FlipBatchStep DEF ReapStaleRuns
<1>6. ASSUME NEW r \in Runs, NEW s \in {"claimed", "running"},
             status' = [status EXCEPT ![r] = s], status[r] # "absent"
      PROVE  BatchStep(p)
  BY <1>0, <1>6 DEF BatchStep, AllDone, Terminal, TypeOK
<1>7. ASSUME NEW w \in Workers, NEW r \in Runs, Claim(w, r) PROVE BatchStep(p)
  BY <1>6, <1>7 DEF Claim
<1>8. ASSUME NEW w \in Workers, job[w] \in Runs, Starts(w) PROVE BatchStep(p)
  BY <1>6, <1>8, OwnedJob DEF Starts, MarkRunning
<1>9. ASSUME NEW w \in Workers, NEW s \in Terminal, NEW frames \in Seq(Frames),
             job[w] \in Runs, Ends(w, s, frames)
      PROVE  BatchStep(p)
  <2>1. \A r \in {job[w]} : status[r] # "absent"
    BY <1>9, OwnedJob
  <2> QED BY <1>9, <2>1, FlipBatchStep DEF Ends
<1>10. CASE UNCHANGED status
  BY <1>10 DEF BatchStep
<1> QED BY <1>1, <1>2, <1>3, <1>4, <1>5, <1>7, <1>8, <1>9, <1>10, StepKinds
        DEF StopCancelled, Says, Quiet

\* Calls and batches stay inserted together, and batch statuses closed.
LEMMA FamilyStep == TypeOK /\ Occupied /\ Owned /\ FamilyBorn /\ [Next]_vars => FamilyBorn'
<1> SUFFICES ASSUME TypeOK, Occupied, Owned, FamilyBorn, [Next]_vars, NEW p \in Batches
             PROVE  /\ \A c \in Children(p) : status'[c] = "absent" <=> status'[p] = "absent"
                    /\ status'[p] \in {"absent", "queued", "completed", "cancelled"}
  BY DEF FamilyBorn, Children
<1>1. BatchStep(p)
  BY BatchSteps
<1> QED BY <1>1 DEF BatchStep, FamilyBorn, ClosedAs

\* The reaper's soak assertion is inductive.
LEMMA NoOrphanStep ==
    TypeOK /\ Occupied /\ Owned /\ FamilyBorn /\ NoOrphanedParent /\ [Next]_vars
      => NoOrphanedParent'
<1> SUFFICES ASSUME TypeOK, Occupied, Owned, FamilyBorn, NoOrphanedParent, [Next]_vars,
                    NEW p \in Batches, status'[p] = "queued"
             PROVE  ~AllDone(status', p)
  BY DEF NoOrphanedParent, AllDone
<1>1. BatchStep(p)
  BY BatchSteps
<1>2. CASE status'[p] = status[p]
  BY <1>1, <1>2 DEF BatchStep, NoOrphanedParent, ClosedAs
<1>3. CASE status'[p] # status[p]
  BY <1>1, <1>3 DEF BatchStep, AllDone, ClosedAs, Terminal
<1> QED BY <1>2, <1>3

-----------------------------------------------------------------------------
(* Runs and their logs. *)

Held(r) == \E w \in Workers : job[w] = r

\* The log of r grows by frames.
Grows(r, frames) == log'[r] = log[r] \o frames

\* What a step may do to a run: nothing, queue it, give it to a worker, cancel
\* it, reap it, start it, end it, say something about it or stop it cancelled.
RunStep(r) ==
    \/ /\ status'[r] = status[r] /\ log'[r] = log[r]
       /\ Held(r)' => Held(r)
       /\ r \in findings' => r \in findings
    \/ /\ status[r] \in {"absent", "queued"} /\ status'[r] \in {"queued", "claimed"}
       /\ log'[r] = log[r]
       /\ r \in findings' => r \in findings
    \/ /\ status[r] \in Cancellable /\ status'[r] = "cancelled"
       /\ log'[r] = log[r]
       /\ Held(r)' => Held(r)
       /\ r \in findings' => r \in findings
    \/ /\ status[r] \in Live /\ status'[r] = "failed"
       /\ Grows(r, <<"fatal">>)
       /\ Held(r)' => Held(r)
       /\ MayStall \/ ~Held(r)
       /\ r \in findings' => r \in findings
    \/ /\ Held(r) /\ status'[r] = "running"
       /\ Grows(r, <<"status">>)
       /\ r \in findings' => r \in findings
    \/ /\ Held(r) /\ ~Held(r)'
       /\ \E frames \in Seq(Frames) :
             Outcome(status'[r], frames) /\ Grows(r, frames)
       /\ status'[r] # "failed" => status[r] \in Live \cup {"cancelled"}
       /\ r \in findings' => r \in findings \/ status'[r] = "completed"
    \/ /\ status'[r] = status[r]
       /\ Grows(r, <<"turn">>) \/ Grows(r, <<"detail">>)
       /\ Held(r)' => Held(r)
       /\ r \in findings' => r \in findings
    \/ /\ Held(r) /\ ~Held(r)'
       /\ status[r] = "cancelled" /\ status'[r] = "cancelled"
       /\ Grows(r, <<"done">>)
       /\ r \in findings' => r \in findings

\* A frame appended to a log is a log that grows by it.
LEMMA AppendGrows ==
    ASSUME NEW s \in Seq(Frames), NEW f \in Frames
    PROVE  Append(s, f) = s \o <<f>>
OBVIOUS

\* Every step treats every run that way.
LEMMA RunSteps ==
    ASSUME TypeOK, Occupied, Owned, FamilyBorn, [Next]_vars, NEW r \in Runs
    PROVE  RunStep(r)
<1>0. /\ r \in Rows /\ r \notin Batches /\ r # NoRun
      /\ log[r] \in Seq(Frames)
      /\ status \in [Rows -> Terminal \cup Cancellable \cup {"absent"}]
      /\ log \in [Rows -> Seq(Frames)]
      /\ job \in [Workers -> Runs \cup {NoRun}]
  BY RowsAssumption DEF Rows, TypeOK
<1>1. ASSUME NEW x \in Runs, CreateRun(x) PROVE RunStep(r)
  BY <1>0, <1>1 DEF CreateRun, RunStep, Held
<1>2. ASSUME NEW x \in Runs, CancelRun(x) PROVE RunStep(r)
  <2>1. {x} \in SUBSET Runs /\ Flip({x}, "cancelled", << >>)
    BY <1>2 DEF CancelRun
  <2>2. /\ status'[r] = IF r = x THEN "cancelled" ELSE status[r]
        /\ log'[r] = IF r = x THEN log[r] \o << >> ELSE log[r]
    <3>1. /\ status'[r] = IF r \in {x} THEN "cancelled" ELSE status[r]
          /\ log'[r] = IF r \in {x} THEN log[r] \o << >> ELSE log[r]
      BY <2>1, FlipRuns
    <3> QED BY <3>1
  <2>3. log'[r] = log[r]
    BY <1>0, <2>2
  <2> QED BY <1>2, <2>2, <2>3 DEF CancelRun, RunStep, Held
<1>3. ASSUME NEW p \in Batches, LaunchBatch(p) PROVE RunStep(r)
  <2>1. status'[r] = IF r \in Children(p) THEN "queued" ELSE status[r]
    BY <1>0, <1>3 DEF LaunchBatch
  <2>2. r \in Children(p) => status[r] = "absent"
    BY <1>3 DEF LaunchBatch, FamilyBorn
  <2> QED BY <1>3, <2>1, <2>2 DEF LaunchBatch, RunStep, Held
<1>4. ASSUME NEW p \in Batches, CancelBatch(p) PROVE RunStep(r)
  BY <1>4, CancelBatchRows DEF CancelBatch, RunStep, Held
<1>5. ASSUME NEW S \in SUBSET Runs, ReapStaleRuns(S) PROVE RunStep(r)
  <2>1. /\ status'[r] = IF r \in S THEN "failed" ELSE status[r]
        /\ log'[r] = IF r \in S THEN log[r] \o <<"fatal">> ELSE log[r]
    BY <1>5, FlipRuns DEF ReapStaleRuns
  <2> QED BY <1>5, <2>1 DEF ReapStaleRuns, RunStep, Stale, Held, Grows
<1>6. ASSUME NEW w \in Workers, NEW x \in Runs, Claim(w, x) PROVE RunStep(r)
  BY <1>0, <1>6 DEF Claim, RunStep, Held
<1>7. ASSUME NEW w \in Workers, job[w] \in Runs, Starts(w) PROVE RunStep(r)
  <2>1. Append(log[r], "status") = log[r] \o <<"status">>
    BY <1>0, AppendGrows DEF Frames
  <2> QED BY <1>0, <1>7, <2>1 DEF Starts, MarkRunning, RunStep, Held, Grows
<1>8. ASSUME NEW w \in Workers, job[w] \in Runs, StopCancelled(w) PROVE RunStep(r)
  <2>1. Append(log[r], "done") = log[r] \o <<"done">>
    BY <1>0, AppendGrows DEF Frames
  <2>2. CASE r = job[w]
    <3>1. Held(r) /\ ~Held(r)'
      BY <1>0, <1>8, <2>2, OwnedJob DEF Held, StopCancelled, Release
    <3>2. status[r] = "cancelled" /\ status' = status /\ Grows(r, <<"done">>)
      BY <1>0, <1>8, <2>1, <2>2 DEF StopCancelled, Grows
    <3> QED BY <1>8, <3>1, <3>2 DEF StopCancelled, RunStep
  <2>3. CASE r # job[w]
    BY <1>0, <1>8, <2>3 DEF StopCancelled, Release, RunStep, Held
  <2> QED BY <2>2, <2>3
<1>9. ASSUME NEW w \in Workers, NEW s \in Terminal, NEW frames \in Seq(Frames),
             job[w] \in Runs, Ends(w, s, frames)
      PROVE  RunStep(r)
  <2>1. {job[w]} \in SUBSET Runs /\ Flip({job[w]}, s, frames)
    BY <1>9 DEF Ends
  <2>2. /\ status'[r] = IF r = job[w] THEN s ELSE status[r]
        /\ log'[r] = IF r = job[w] THEN log[r] \o frames ELSE log[r]
    <3>1. /\ status'[r] = IF r \in {job[w]} THEN s ELSE status[r]
          /\ log'[r] = IF r \in {job[w]} THEN log[r] \o frames ELSE log[r]
      BY <2>1, FlipRuns
    <3> QED BY <3>1
  <2>3. CASE r = job[w]
    <3>1. Held(r) /\ ~Held(r)'
      BY <1>0, <1>9, <2>3, OwnedJob DEF Held, Ends
    <3>2. Outcome(status'[r], frames) /\ Grows(r, frames)
      BY <1>9, <2>2, <2>3 DEF Ends, Grows
    <3>3. r \in findings' => r \in findings \/ status'[r] = "completed"
      BY <1>9, <2>2, <2>3 DEF Ends
    <3>4. status'[r] # "failed" => status[r] \in Live \cup {"cancelled"}
      BY <1>9, <2>2, <2>3 DEF Ends
    <3> QED BY <3>1, <3>2, <3>3, <3>4 DEF RunStep
  <2>4. CASE r # job[w]
    <3>1. Held(r)' => Held(r)
      BY <1>0, <1>9, <2>4 DEF Ends, Held
    <3>2. r \in findings' => r \in findings
      BY <1>9, <2>4 DEF Ends
    <3> QED BY <2>2, <2>4, <3>1, <3>2 DEF RunStep
  <2> QED BY <2>3, <2>4
<1>10. ASSUME NEW x \in Runs, NEW f \in Frames, Says(x, f) PROVE RunStep(r)
  <2>1. f \in {"turn", "detail"} /\ Append(log[r], f) = log[r] \o <<f>>
    BY <1>0, <1>10, AppendGrows DEF Says
  <2>2. log'[r] = IF r = x THEN log[r] \o <<f>> ELSE log[r]
    BY <1>0, <1>10, <2>1 DEF Says
  <2> QED BY <1>10, <2>1, <2>2 DEF Says, RunStep, Held, Grows
<1>11. ASSUME NEW w \in Workers, Quiet(w) PROVE RunStep(r)
  BY <1>0, <1>11 DEF Quiet, RunStep, Held
<1>12. CASE UNCHANGED <<status, owner, log, findings, job>>
  BY <1>12 DEF RunStep, Held
<1> QED BY <1>1, <1>2, <1>3, <1>4, <1>5, <1>6, <1>7, <1>8, <1>9, <1>10, <1>11, <1>12, StepKinds

\* The positions of a log that grows: the old frames, then the new ones.
LEMMA LogGrows ==
    ASSUME NEW r, log[r] \in Seq(Frames), NEW frames \in Seq(Frames), Grows(r, frames)
    PROVE  LET m == Len(log[r]) IN
           /\ m \in Nat /\ DOMAIN log[r] = 1..m
           /\ DOMAIN frames = 1..Len(frames) /\ Len(frames) \in Nat
           /\ DOMAIN log'[r] = 1..(m + Len(frames))
           /\ \A i \in 1..m : log'[r][i] = log[r][i]
           /\ \A i \in DOMAIN frames : m + i \in DOMAIN log'[r] /\ log'[r][m + i] = frames[i]
           /\ \A i \in DOMAIN log'[r] : i \in 1..m \/ (i - m \in DOMAIN frames /\ i = m + (i - m))
<1> DEFINE m == Len(log[r])
<1>1. /\ m \in Nat /\ DOMAIN log[r] = 1..m
      /\ DOMAIN frames = 1..Len(frames) /\ Len(frames) \in Nat
      /\ DOMAIN log'[r] = 1..(m + Len(frames))
      /\ \A i \in 1..m : log'[r][i] = log[r][i]
      /\ \A i \in DOMAIN frames : m + i \in DOMAIN log'[r] /\ log'[r][m + i] = frames[i]
  BY SMTT(20) DEF Grows
<1>2. \A i \in DOMAIN log'[r] : i \in 1..m \/ (i - m \in DOMAIN frames /\ i = m + (i - m))
  BY <1>1
<1> QED BY <1>1, <1>2

\* What appending frames does to the question whether a kind of frame is in
\* the log, and to how many there are.
LEMMA HasGrows ==
    ASSUME NEW r, log[r] \in Seq(Frames), NEW frames \in Seq(Frames), Grows(r, frames),
           NEW f
    PROVE  /\ Has(r, f)' <=> Has(r, f) \/ \E i \in DOMAIN frames : frames[i] = f
           /\ (~ \E i \in DOMAIN frames : frames[i] = f) => Count(r, f)' = Count(r, f)
           /\ \A j \in DOMAIN frames :
                ~Has(r, f) /\ (\A i \in DOMAIN frames : frames[i] = f <=> i = j)
                  => Count(r, f)' = 1
<1> DEFINE m == Len(log[r])
<1>1. /\ m \in Nat /\ DOMAIN log[r] = 1..m
      /\ DOMAIN frames = 1..Len(frames) /\ Len(frames) \in Nat
      /\ DOMAIN log'[r] = 1..(m + Len(frames))
      /\ \A i \in 1..m : log'[r][i] = log[r][i]
      /\ \A i \in DOMAIN frames : m + i \in DOMAIN log'[r] /\ log'[r][m + i] = frames[i]
  BY LogGrows
<1>2. \A i \in DOMAIN log'[r] : i \in 1..m \/ (i - m \in DOMAIN frames /\ i = m + (i - m))
  BY LogGrows
<1> HIDE DEF m
<1>3. Has(r, f)' <=> Has(r, f) \/ \E i \in DOMAIN frames : frames[i] = f
  <2>1. ASSUME NEW i \in DOMAIN log'[r], log'[r][i] = f
        PROVE  Has(r, f) \/ \E k \in DOMAIN frames : frames[k] = f
    <3>1. CASE i \in 1..m
      BY <1>1, <2>1, <3>1 DEF Has
    <3>2. CASE i - m \in DOMAIN frames /\ i = m + (i - m)
      BY <1>1, <2>1, <3>2
    <3> QED BY <1>2, <3>1, <3>2
  <2>2. ASSUME NEW i \in DOMAIN log[r], log[r][i] = f PROVE Has(r, f)'
    <3>1. i \in DOMAIN log'[r] /\ log'[r][i] = f
      BY <1>1, <2>2
    <3> QED BY <3>1 DEF Has
  <2>3. ASSUME NEW i \in DOMAIN frames, frames[i] = f PROVE Has(r, f)'
    BY <1>1, <2>3 DEF Has
  <2> QED BY <2>1, <2>2, <2>3 DEF Has
<1>4. ASSUME ~ \E i \in DOMAIN frames : frames[i] = f
      PROVE  Count(r, f)' = Count(r, f)
  <2>1. {i \in DOMAIN log'[r] : log'[r][i] = f} = {i \in DOMAIN log[r] : log[r][i] = f}
    <3>1. \A i \in DOMAIN log'[r] : log'[r][i] = f => i \in 1..m
      BY <1>1, <1>2, <1>4
    <3>2. \A i \in 1..m : i \in DOMAIN log'[r]
      BY <1>1
    <3> QED BY <1>1, <3>1, <3>2
  <2> QED BY <2>1 DEF Count
<1>5. ASSUME NEW j \in DOMAIN frames, ~Has(r, f), \A i \in DOMAIN frames : frames[i] = f <=> i = j
      PROVE  Count(r, f)' = 1
  <2>1. {i \in DOMAIN log'[r] : log'[r][i] = f} = {m + j}
    <3>1. ASSUME NEW i \in DOMAIN log'[r], log'[r][i] = f PROVE i = m + j
      <4>1. i \notin 1..m
        BY <1>1, <1>5, <3>1 DEF Has
      <4>2. i - m \in DOMAIN frames /\ i = m + (i - m)
        BY <1>2, <4>1
      <4>3. frames[i - m] = f
        BY <1>1, <3>1, <4>2
      <4> QED BY <1>5, <4>2, <4>3
    <3>2. m + j \in DOMAIN log'[r] /\ log'[r][m + j] = f
      BY <1>1, <1>5
    <3> QED BY <3>1, <3>2
  <2> QED BY <2>1, FS_Singleton DEF Count
<1> QED BY <1>3, <1>4, <1>5

\* The outcomes, frame by frame.
LEMMA OutcomeFrames ==
    ASSUME NEW s, NEW frames, Outcome(s, frames)
    PROVE  \/ /\ s = "failed"
              /\ \E j \in DOMAIN frames : \A i \in DOMAIN frames : frames[i] = "fatal" <=> i = j
              /\ \A i \in DOMAIN frames : frames[i] # "done"
           \/ /\ s \in {"completed", "cancelled"}
              /\ \E j \in DOMAIN frames : \A i \in DOMAIN frames : frames[i] = "done" <=> i = j
              /\ \A i \in DOMAIN frames : frames[i] # "fatal"
<1>1. CASE frames = <<"fatal">> /\ s = "failed"
  <2>1. DOMAIN frames = {1} /\ frames[1] = "fatal"
    BY <1>1
  <2> QED BY <1>1, <2>1
<1>2. CASE frames = <<"done">> /\ s \in {"completed", "cancelled"}
  <2>1. DOMAIN frames = {1} /\ frames[1] = "done"
    BY <1>2
  <2> QED BY <1>2, <2>1
<1>3. CASE frames = <<"detail", "done">> /\ s = "completed"
  <2>1. DOMAIN frames = {1, 2} /\ frames[1] = "detail" /\ frames[2] = "done"
    BY <1>3
  <2> QED BY <1>3, <2>1
<1> QED BY <1>1, <1>2, <1>3 DEF Outcome

\* What a step may do to a run, in terms of its terminal frames: it adds none,
\* it adds one as its only executor lets it go or as it is reaped, or it
\* changes its status without a word.
TerminalStep(r) ==
    \/ /\ \A f \in {"done", "fatal"} : Count(r, f)' = Count(r, f) /\ (Has(r, f)' <=> Has(r, f))
       /\ \/ status'[r] = status[r] /\ (Held(r)' => Held(r))
          \/ status[r] \in {"absent", "queued"} /\ status'[r] \in {"queued", "claimed"}
          \/ status[r] \in Cancellable /\ status'[r] = "cancelled" /\ (Held(r)' => Held(r))
          \/ Held(r) /\ status'[r] = "running"
    \/ /\ \/ status[r] \in Live /\ (Held(r)' => Held(r)) /\ (MayStall \/ ~Held(r))
          \/ Held(r) /\ ~Held(r)'
       /\ status'[r] = "failed"
       /\ Has(r, "fatal")' /\ (~Has(r, "fatal") => Count(r, "fatal")' = 1)
       /\ Count(r, "done")' = Count(r, "done") /\ (Has(r, "done")' <=> Has(r, "done"))
    \/ /\ Held(r) /\ ~Held(r)'
       /\ status'[r] \in {"completed", "cancelled"}
       /\ Has(r, "done")' /\ (~Has(r, "done") => Count(r, "done")' = 1)
       /\ Count(r, "fatal")' = Count(r, "fatal") /\ (Has(r, "fatal")' <=> Has(r, "fatal"))

\* Every step ends a run with the frame that belongs to its new status.
LEMMA TerminalSteps ==
    ASSUME TypeOK, Occupied, Owned, FamilyBorn, [Next]_vars, NEW r \in Runs
    PROVE  /\ TerminalStep(r)
           /\ r \in findings' => r \in findings \/ (status'[r] = "completed" /\ Has(r, "done")')
           /\ status'[r] # status[r] =>
                /\ status'[r] = "completed" => Has(r, "done")'
                /\ status'[r] = "failed" => Has(r, "fatal")'
<1> DEFINE Goal ==
      /\ TerminalStep(r)
      /\ r \in findings' => r \in findings \/ (status'[r] = "completed" /\ Has(r, "done")')
      /\ status'[r] # status[r] =>
           /\ status'[r] = "completed" => Has(r, "done")'
           /\ status'[r] = "failed" => Has(r, "fatal")'
<1>0. log[r] \in Seq(Frames)
  BY DEF TypeOK, Rows
<1>1. RunStep(r)
  BY RunSteps
<1>2. ASSUME log'[r] = log[r],
             \/ status'[r] = status[r] /\ (Held(r)' => Held(r))
             \/ status[r] \in {"absent", "queued"} /\ status'[r] \in {"queued", "claimed"}
             \/ status[r] \in Cancellable /\ status'[r] = "cancelled" /\ (Held(r)' => Held(r)),
             r \in findings' => r \in findings
      PROVE  Goal
  <2>1. \A f : Count(r, f)' = Count(r, f) /\ (Has(r, f)' <=> Has(r, f))
    BY <1>2 DEF Count, Has
  <2> QED BY <1>2, <2>1 DEF TerminalStep
<1>3. ASSUME NEW g \in {"status", "turn", "detail"}, Grows(r, <<g>>),
             \/ status'[r] = status[r] /\ (Held(r)' => Held(r))
             \/ Held(r) /\ status'[r] = "running",
             r \in findings' => r \in findings
      PROVE  Goal
  <2>1. <<g>> \in Seq(Frames) /\ \A i \in DOMAIN <<g>> : <<g>>[i] = g
    BY DEF Frames
  <2>2. ASSUME NEW f \in {"done", "fatal"}
        PROVE  Count(r, f)' = Count(r, f) /\ (Has(r, f)' <=> Has(r, f))
    <3>1. PICK frames \in Seq(Frames) : frames = <<g>>
      BY <2>1
    <3>2. Grows(r, frames) /\ ~ \E i \in DOMAIN frames : frames[i] = f
      BY <1>3, <2>1, <3>1
    <3> QED BY <1>0, <3>2, HasGrows
  <2> QED BY <1>3, <2>2 DEF TerminalStep
<1>4. ASSUME NEW s, NEW frames \in Seq(Frames), Outcome(s, frames), Grows(r, frames),
             status'[r] = s,
             \/ Held(r) /\ ~Held(r)'
             \/ /\ s = "failed" /\ status[r] \in Live
                /\ (Held(r)' => Held(r)) /\ (MayStall \/ ~Held(r)),
             r \in findings' => r \in findings \/ s = "completed"
      PROVE  Goal
  <2>1. CASE s = "failed"
    <3>1. PICK j \in DOMAIN frames : \A i \in DOMAIN frames : frames[i] = "fatal" <=> i = j
      BY <1>4, <2>1, OutcomeFrames
    <3>2. \A i \in DOMAIN frames : frames[i] # "done"
      BY <1>4, <2>1, OutcomeFrames
    <3>3. Has(r, "fatal")' /\ (~Has(r, "fatal") => Count(r, "fatal")' = 1)
      BY <1>0, <1>4, <3>1, HasGrows
    <3>4. Count(r, "done")' = Count(r, "done") /\ (Has(r, "done")' <=> Has(r, "done"))
      BY <1>0, <1>4, <3>2, HasGrows
    <3> QED BY <1>4, <2>1, <3>3, <3>4 DEF TerminalStep
  <2>2. CASE s \in {"completed", "cancelled"}
    <3>1. PICK j \in DOMAIN frames : \A i \in DOMAIN frames : frames[i] = "done" <=> i = j
      BY <1>4, <2>2, OutcomeFrames
    <3>2. \A i \in DOMAIN frames : frames[i] # "fatal"
      BY <1>4, <2>2, OutcomeFrames
    <3>3. Has(r, "done")' /\ (~Has(r, "done") => Count(r, "done")' = 1)
      BY <1>0, <1>4, <3>1, HasGrows
    <3>4. Count(r, "fatal")' = Count(r, "fatal") /\ (Has(r, "fatal")' <=> Has(r, "fatal"))
      BY <1>0, <1>4, <3>2, HasGrows
    <3> QED BY <1>4, <2>2, <3>3, <3>4 DEF TerminalStep
  <2> QED BY <1>4, <2>1, <2>2, OutcomeFrames
<1>5. /\ Outcome("failed", <<"fatal">>) /\ <<"fatal">> \in Seq(Frames)
      /\ Outcome("cancelled", <<"done">>) /\ <<"done">> \in Seq(Frames)
  BY DEF Outcome, Frames
<1>6. Goal
  <2> HIDE DEF Goal
  <2> QED BY <1>1, <1>2, <1>3, <1>4, <1>5 DEF RunStep
<1> QED BY <1>6

-----------------------------------------------------------------------------
(* What terminal frames, statuses and findings say of each other. *)

\* The last fatal error in the log of r has no start after it.
OpenFatal(r) ==
    \E i \in DOMAIN log[r] :
        log[r][i] = "fatal" /\ \A k \in DOMAIN log[r] : k > i => log[r][k] # "status"

\* A run that failed since its start is failed: what the reaper has taken from
\* a stalled process is neither cancelled nor completed without another start.
ReapedIsFailed == \A r \in Runs : OpenFatal(r) => status[r] = "failed"

\* Every fatal error is before every done, with a start in between.
DoneFollows(r) ==
    \A i, j \in DOMAIN log[r] : log[r][i] = "fatal" /\ log[r][j] = "done" =>
        i < j /\ \E k \in i..j : log[r][k] = "status"

\* A frame that ends nothing opens no fatal error and puts no done anywhere; a
\* start leaves no fatal error open.
LEMMA SaidInOrder ==
    ASSUME NEW r, log[r] \in Seq(Frames), DoneFollows(r),
           NEW g \in {"status", "turn", "detail"}, Grows(r, <<g>>)
    PROVE  /\ OpenFatal(r)' => OpenFatal(r) /\ g # "status"
           /\ DoneFollows(r)'
<1> DEFINE m == Len(log[r])
<1>1. <<g>> \in Seq(Frames) /\ DOMAIN <<g>> = {1} /\ <<g>>[1] = g /\ Len(<<g>>) = 1
  BY DEF Frames
<1>2. /\ m \in Nat /\ DOMAIN log[r] = 1..m /\ DOMAIN log'[r] = 1..(m + 1)
      /\ \A i \in 1..m : log'[r][i] = log[r][i]
      /\ log'[r][m + 1] = g
  <2>1. PICK frames \in Seq(Frames) : frames = <<g>>
    BY <1>1
  <2>2. Grows(r, frames) /\ DOMAIN frames = {1} /\ frames[1] = g /\ Len(frames) = 1
    <3>1. Grows(r, frames)
      BY <2>1
    <3>2. DOMAIN frames = {1} /\ frames[1] = g /\ Len(frames) = 1
      BY <1>1, <2>1
    <3> QED BY <3>1, <3>2
  <2>3. /\ m \in Nat /\ DOMAIN log[r] = 1..m
        /\ DOMAIN log'[r] = 1..(m + Len(frames))
        /\ \A i \in 1..m : log'[r][i] = log[r][i]
        /\ \A i \in DOMAIN frames : log'[r][m + i] = frames[i]
    BY <2>2, LogGrows
  <2> QED BY <2>2, <2>3
<1> HIDE DEF m
<1>3. ASSUME NEW i \in DOMAIN log'[r], log'[r][i] = "fatal" \/ log'[r][i] = "done"
      PROVE  i \in 1..m
  BY <1>2, <1>3
<1>4. ASSUME OpenFatal(r)' PROVE OpenFatal(r) /\ g # "status"
  <2>1. PICK i \in DOMAIN log'[r] : /\ log'[r][i] = "fatal"
                                    /\ \A k \in DOMAIN log'[r] : k > i => log'[r][k] # "status"
    BY <1>4 DEF OpenFatal
  <2>2. i \in 1..m
    BY <1>3, <2>1
  <2>3. g # "status"
    BY <1>2, <2>1, <2>2
  <2>4. \A k \in 1..m : k > i => log[r][k] # "status"
    BY <1>2, <2>1
  <2> QED BY <1>2, <2>1, <2>2, <2>3, <2>4 DEF OpenFatal
<1>5. DoneFollows(r)'
  <2> SUFFICES ASSUME NEW i \in DOMAIN log'[r], NEW j \in DOMAIN log'[r],
                      log'[r][i] = "fatal", log'[r][j] = "done"
               PROVE  i < j /\ \E k \in i..j : log'[r][k] = "status"
    BY DEF DoneFollows
  <2>1. i \in 1..m /\ j \in 1..m
    BY <1>3
  <2>2. i < j /\ \E k \in i..j : log[r][k] = "status"
    BY <1>2, <2>1 DEF DoneFollows
  <2>3. \A k \in i..j : k \in 1..m
    BY <1>2, <2>1
  <2> QED BY <1>2, <2>2, <2>3
<1> QED BY <1>4, <1>5

\* done, with a detail before it perhaps, follows a start after every fatal
\* error if none is open and none of the old frames is a done.
LEMMA DoneInOrder ==
    ASSUME NEW r, log[r] \in Seq(Frames), NEW frames \in Seq(Frames), Grows(r, frames),
           \A i \in DOMAIN frames : frames[i] # "fatal", ~OpenFatal(r), ~Has(r, "done")
    PROVE  ~OpenFatal(r)' /\ DoneFollows(r)'
<1> DEFINE m == Len(log[r])
<1>1. /\ m \in Nat /\ DOMAIN log[r] = 1..m /\ Len(frames) \in Nat
      /\ DOMAIN log'[r] = 1..(m + Len(frames))
      /\ \A i \in 1..m : log'[r][i] = log[r][i]
      /\ \A i \in DOMAIN frames : log'[r][m + i] = frames[i]
      /\ \A i \in DOMAIN log'[r] : i \in 1..m \/ (i - m \in DOMAIN frames /\ i = m + (i - m))
  BY LogGrows
<1> HIDE DEF m
<1>2. ASSUME NEW i \in DOMAIN log'[r], log'[r][i] = "fatal"
      PROVE  i \in 1..m /\ \E k \in 1..m : k > i /\ log'[r][k] = "status"
  <2>1. i \in 1..m
    <3>1. ASSUME i - m \in DOMAIN frames, i = m + (i - m) PROVE FALSE
      <4>1. log'[r][m + (i - m)] = frames[i - m]
        BY <1>1, <3>1
      <4> QED BY <1>2, <3>1, <4>1
    <3> QED BY <1>1, <3>1
  <2> QED BY <1>1, <1>2, <2>1 DEF OpenFatal
<1>3. ASSUME NEW j \in DOMAIN log'[r], log'[r][j] = "done" PROVE j > m
  BY <1>1, <1>3 DEF Has
<1>4. ~OpenFatal(r)'
  <2>1. \A k \in 1..m : k \in DOMAIN log'[r]
    BY <1>1
  <2> QED BY <1>2, <2>1 DEF OpenFatal
<1>5. DoneFollows(r)'
  <2> SUFFICES ASSUME NEW i \in DOMAIN log'[r], NEW j \in DOMAIN log'[r],
                      log'[r][i] = "fatal", log'[r][j] = "done"
               PROVE  i < j /\ \E k \in i..j : log'[r][k] = "status"
    BY DEF DoneFollows
  <2>1. i \in 1..m /\ j > m /\ j \in Int
    BY <1>1, <1>2, <1>3
  <2>2. PICK k \in 1..m : k > i /\ log'[r][k] = "status"
    BY <1>2
  <2>3. i < j /\ k \in i..j
    BY <1>1, <2>1, <2>2
  <2> QED BY <2>2, <2>3
<1> QED BY <1>4, <1>5

\* What every step makes of the order of the terminal frames: executors end a
\* run other than as failed only from a status that no open fatal error leaves.
LEMMA OrderSteps ==
    ASSUME TypeOK, Occupied, Owned, FamilyBorn, ReapedIsFailed, DoneSettlesTheRun,
           [Next]_vars, NEW r \in Runs
    PROVE  /\ OpenFatal(r)' => status'[r] = "failed"
           /\ DoneFollows(r)'
<1> DEFINE Goal == (OpenFatal(r)' => status'[r] = "failed") /\ DoneFollows(r)'
<1>0. log[r] \in Seq(Frames)
  BY DEF TypeOK, Rows
<1>1. RunStep(r)
  BY RunSteps
<1>2. /\ OpenFatal(r) => status[r] = "failed"
      /\ Has(r, "done") => status[r] \in {"completed", "cancelled"} /\ ~Held(r)
      /\ DoneFollows(r)
  BY DEF ReapedIsFailed, DoneSettlesTheRun, Held, DoneFollows, Has
<1>3. ASSUME log'[r] = log[r],
             \/ status'[r] = status[r]
             \/ status[r] \in {"absent", "queued"}
             \/ status[r] \in Cancellable
      PROVE  Goal
  <2>1. (OpenFatal(r)' <=> OpenFatal(r)) /\ DoneFollows(r)'
    BY <1>2, <1>3 DEF OpenFatal, DoneFollows
  <2> QED BY <1>2, <1>3, <2>1 DEF Cancellable
<1>4. ASSUME NEW g \in {"status", "turn", "detail"}, Grows(r, <<g>>),
             g = "status" \/ status'[r] = status[r]
      PROVE  Goal
  BY <1>0, <1>2, <1>4, SaidInOrder
<1>5. ASSUME NEW s, NEW frames \in Seq(Frames), Outcome(s, frames), Grows(r, frames),
             status'[r] = s,
             Held(r) \/ status[r] \in Live,
             s # "failed" => status[r] \in Live \cup {"cancelled"}
      PROVE  Goal
  <2>1. ~Has(r, "done")
    BY <1>2, <1>5 DEF Live
  <2>2. CASE s = "failed"
    <3>1. \A i \in DOMAIN frames : frames[i] # "done"
      BY <1>5, <2>2, OutcomeFrames
    <3>2. ~Has(r, "done")'
      BY <1>0, <1>5, <2>1, <3>1, HasGrows
    <3> QED BY <1>5, <2>2, <3>2 DEF DoneFollows, Has
  <2>3. CASE s # "failed"
    <3>1. \A i \in DOMAIN frames : frames[i] # "fatal"
      BY <1>5, <2>3, OutcomeFrames
    <3>2. ~OpenFatal(r)
      BY <1>2, <1>5, <2>3 DEF Live
    <3> QED BY <1>0, <1>5, <2>1, <3>1, <3>2, DoneInOrder
  <2> QED BY <2>2, <2>3
<1>6. /\ Outcome("failed", <<"fatal">>) /\ <<"fatal">> \in Seq(Frames)
      /\ Outcome("cancelled", <<"done">>) /\ <<"done">> \in Seq(Frames)
  BY DEF Outcome, Frames
<1>7. Goal
  <2> HIDE DEF Goal
  <2> QED BY <1>1, <1>3, <1>4, <1>5, <1>6 DEF RunStep
<1> QED BY <1>7

\* No step but a start takes a run that has failed out of that status.
LEMMA ReapedStep ==
    TypeOK /\ Occupied /\ Owned /\ FamilyBorn /\ ReapedIsFailed /\ DoneSettlesTheRun
      /\ [Next]_vars => ReapedIsFailed'
BY OrderSteps DEF ReapedIsFailed

\* A live run that said done would be executed twice: done settles a run.
LEMMA DoneStep ==
    TypeOK /\ Occupied /\ Owned /\ FamilyBorn /\ ReapedIsFailed /\ DoneSettlesTheRun
      /\ [Next]_vars => DoneSettlesTheRun'
<1> SUFFICES ASSUME TypeOK, Occupied, Owned, FamilyBorn, ReapedIsFailed, DoneSettlesTheRun,
                    [Next]_vars, NEW r \in Runs, Has(r, "done")'
             PROVE  /\ status'[r] \in {"completed", "cancelled"}
                    /\ ~Held(r)'
                    /\ Count(r, "done")' = 1
                    /\ DoneFollows(r)'
  BY DEF DoneSettlesTheRun, Held, DoneFollows
<1>1. TerminalStep(r) /\ DoneFollows(r)'
  BY TerminalSteps, OrderSteps
<1>2. CASE Has(r, "done")
  <2>1. status[r] \in {"completed", "cancelled"} /\ ~Held(r) /\ Count(r, "done") = 1
    BY <1>2 DEF DoneSettlesTheRun, Held
  <2> QED BY <1>1, <2>1 DEF TerminalStep, Cancellable, Live
<1>3. CASE ~Has(r, "done")
  BY <1>1, <1>3 DEF TerminalStep
<1> QED BY <1>2, <1>3

\* A finding stands with a done frame and a status that no step leaves.
LEMMA FindingStep ==
    TypeOK /\ Occupied /\ Owned /\ FamilyBorn /\ DoneSettlesTheRun
      /\ FindingBelongsToDoneRun /\ [Next]_vars => FindingBelongsToDoneRun'
<1> SUFFICES ASSUME TypeOK, Occupied, Owned, FamilyBorn, DoneSettlesTheRun,
                    FindingBelongsToDoneRun, [Next]_vars
             PROVE  FindingBelongsToDoneRun'
  OBVIOUS
<1> SUFFICES ASSUME NEW r \in Runs, r \in findings'
             PROVE  Has(r, "done")' /\ status'[r] = "completed"
  <2>1. findings' \in SUBSET Runs
    BY TableTyping
  <2> QED BY <2>1 DEF FindingBelongsToDoneRun
<1>1. TerminalStep(r) /\ (r \in findings \/ (status'[r] = "completed" /\ Has(r, "done")'))
  BY TerminalSteps
<1>2. CASE r \in findings
  <2>1. Has(r, "done") /\ status[r] = "completed" /\ ~Held(r)
    BY <1>2 DEF FindingBelongsToDoneRun, DoneSettlesTheRun, Held
  <2> QED BY <1>1, <2>1 DEF TerminalStep, Cancellable, Live
<1> QED BY <1>1, <1>2

\* A status of completed or failed has its frame, because logs only grow.
LEMMA OutcomeStep ==
    TypeOK /\ Occupied /\ Owned /\ FamilyBorn /\ OutcomeIsInTheLog /\ [Next]_vars
      => OutcomeIsInTheLog'
<1> SUFFICES ASSUME TypeOK, Occupied, Owned, FamilyBorn, OutcomeIsInTheLog, [Next]_vars,
                    NEW r \in Runs
             PROVE  /\ status'[r] = "completed" => Has(r, "done")'
                    /\ status'[r] = "failed" => Has(r, "fatal")'
  BY DEF OutcomeIsInTheLog
<1>1. /\ TerminalStep(r)
      /\ status'[r] # status[r] =>
           /\ status'[r] = "completed" => Has(r, "done")'
           /\ status'[r] = "failed" => Has(r, "fatal")'
  BY TerminalSteps
<1>2. (Has(r, "done") => Has(r, "done")') /\ (Has(r, "fatal") => Has(r, "fatal")')
  BY <1>1 DEF TerminalStep
<1> QED BY <1>1, <1>2 DEF OutcomeIsInTheLog

\* As long as no live process is taken for dead, a fatal frame settles a run
\* as done does.
FatalSettlesTheRun ==
    ~MayStall => \A r \in Runs : Has(r, "fatal") =>
        /\ status[r] = "failed"
        /\ ~Held(r)
        /\ Count(r, "fatal") = 1
        /\ ~Has(r, "done")

\* Without stalls no step touches a run that has a fatal error in its log.
LEMMA FatalStep ==
    TypeOK /\ Occupied /\ Owned /\ FamilyBorn /\ DoneSettlesTheRun /\ FatalSettlesTheRun
      /\ [Next]_vars => FatalSettlesTheRun'
<1> SUFFICES ASSUME TypeOK, Occupied, Owned, FamilyBorn, DoneSettlesTheRun,
                    FatalSettlesTheRun, [Next]_vars, ~MayStall,
                    NEW r \in Runs, Has(r, "fatal")'
             PROVE  /\ status'[r] = "failed"
                    /\ ~Held(r)'
                    /\ Count(r, "fatal")' = 1
                    /\ ~Has(r, "done")'
  BY DEF FatalSettlesTheRun
<1>1. TerminalStep(r)
  BY TerminalSteps
<1>2. CASE Has(r, "fatal")
  <2>1. status[r] = "failed" /\ ~Held(r) /\ Count(r, "fatal") = 1 /\ ~Has(r, "done")
    BY <1>2 DEF FatalSettlesTheRun
  <2> QED BY <1>1, <2>1 DEF TerminalStep, Cancellable, Live
<1>3. CASE ~Has(r, "fatal")
  <2>1. Has(r, "done") => status[r] \in {"completed", "cancelled"} /\ ~Held(r)
    BY DEF DoneSettlesTheRun, Held
  <2> QED BY <1>1, <1>3, <2>1 DEF TerminalStep, Live
<1> QED BY <1>2, <1>3

-----------------------------------------------------------------------------
(* The inductive invariant and the theorems. *)

IInv ==
    /\ TypeOK
    /\ Occupied
    /\ Owned
    /\ FamilyBorn
    /\ NoOrphanedParent
    /\ ReapedIsFailed
    /\ DoneSettlesTheRun
    /\ FindingBelongsToDoneRun
    /\ OutcomeIsInTheLog
    /\ FatalSettlesTheRun

\* An empty table satisfies the invariant.
LEMMA IInvInit == Init => IInv
<1> SUFFICES ASSUME Init PROVE IInv
  OBVIOUS
<1>0. Runs \subseteq Rows /\ Batches \subseteq Rows
  BY DEF Rows
<1> USE RowsAssumption, WorkersAssumption DEF Init
<1>1. TypeOK
  BY DEF TypeOK, PC
<1>2. Occupied /\ Owned
  BY <1>0 DEF Occupied, Owned
<1>3. FamilyBorn /\ NoOrphanedParent
  BY <1>0 DEF FamilyBorn, NoOrphanedParent, Children
<1>4. \A r \in Runs : DOMAIN log[r] = {} /\ status[r] = "absent"
  BY <1>0
<1>5. \A r \in Runs : \A f : ~Has(r, f)
  BY <1>4 DEF Has
<1> QED BY <1>1, <1>2, <1>3, <1>4, <1>5
        DEF IInv, ReapedIsFailed, OpenFatal, DoneSettlesTheRun, FindingBelongsToDoneRun,
            OutcomeIsInTheLog, FatalSettlesTheRun

\* Every transaction of the API, a worker or the reaper preserves the invariant.
LEMMA IInvStep == IInv /\ [Next]_vars => IInv'
BY TypingStep, OwnedStep, FamilyStep, NoOrphanStep, ReapedStep, DoneStep, FindingStep, OutcomeStep, FatalStep
DEF IInv

\* The invariant holds throughout every execution.
THEOREM Invariance == Spec => []IInv
<1>1. Init => IInv
  BY IInvInit
<1>2. IInv /\ [Next]_vars => IInv'
  BY IInvStep
<1> QED BY <1>1, <1>2, PTL DEF Spec

\* Every variable keeps its type.
THEOREM TypeCorrect == Spec => []TypeOK
BY Invariance, PTL DEF IInv

\* No two workers ever execute the same run, and claimed_by tells which does.
THEOREM RunsHaveOneWorker == Spec => []OneWorkerPerRun
<1>1. IInv => OneWorkerPerRun
  BY DEF IInv, Owned, Occupied, OneWorkerPerRun
<1> QED BY <1>1, Invariance, PTL

\* No batch stays open once all its calls have ended.
THEOREM NoOrphans == Spec => []NoOrphanedParent
BY Invariance, PTL DEF IInv

\* done is the last word on a run's status, and no executor says it of a run
\* that has failed since its start.
THEOREM DoneIsFinal == Spec => []DoneSettlesTheRun
BY Invariance, PTL DEF IInv

\* Findings belong to completed attacks whose clients were told so.
THEOREM FindingsAreSettled == Spec => []FindingBelongsToDoneRun
BY Invariance, PTL DEF IInv

\* The polled status and the streamed log agree.
THEOREM OutcomesAreLogged == Spec => []OutcomeIsInTheLog
BY Invariance, PTL DEF IInv

\* Without stalls, one terminal frame per run.
THEOREM OneOutcomeWithoutStalls ==
    ASSUME ~MayStall
    PROVE  Spec => []OneTerminalFrame
<1>1. IInv => OneTerminalFrame
  <2> SUFFICES ASSUME IInv, NEW r \in Runs
               PROVE  /\ Count(r, "done") + Count(r, "fatal") <= 1
                      /\ Has(r, "fatal") => status[r] = "failed"
    BY DEF OneTerminalFrame
  <2>1. \A f : ~Has(r, f) => Count(r, f) = 0
    <3>1. ASSUME NEW f, ~Has(r, f) PROVE {i \in DOMAIN log[r] : log[r][i] = f} = {}
      BY <3>1 DEF Has
    <3> QED BY <3>1, FS_EmptySet DEF Count
  <2>2. Has(r, "done") => Count(r, "done") = 1
    BY DEF IInv, DoneSettlesTheRun
  <2>3. Has(r, "fatal") => Count(r, "fatal") = 1 /\ ~Has(r, "done") /\ status[r] = "failed"
    BY DEF IInv, FatalSettlesTheRun
  <2> QED BY <2>1, <2>2, <2>3
<1> QED BY <1>1, Invariance, PTL

\* A batch is closed at most once, when all its calls have ended, with the
\* status its calls have at that moment.
THEOREM BatchesCloseOnce == Spec => ParentClosesOnce
<1>1. IInv /\ [Next]_vars =>
        [\A p \in Batches : status'[p] # status[p] =>
           \/ status[p] = "absent" /\ status'[p] = "queued"
           \/ /\ status[p] = "queued"
              /\ \A c \in Children(p) : status'[c] \in Terminal
              /\ status'[p] = "cancelled" <=> \E c \in Children(p) : status'[c] = "cancelled"
              /\ status'[p] \in {"cancelled", "completed"}]_vars
  BY BatchSteps DEF IInv, BatchStep, AllDone, ClosedAs
<1> QED BY <1>1, Invariance, PTL DEF Spec, ParentClosesOnce

\* A run is handed to a worker at most once.
THEOREM NoRunIsClaimedTwice == Spec => ClaimedAtMostOnce
<1>1. IInv /\ [Next]_vars =>
        [\A r \in Runs : owner'[r] # owner[r] =>
           owner[r] = NoWorker /\ status[r] = "queued"]_vars
  <2> SUFFICES ASSUME IInv, [Next]_vars, NEW r \in Runs, owner'[r] # owner[r]
               PROVE  owner[r] = NoWorker /\ status[r] = "queued"
    OBVIOUS
  <2>1. TypeOK /\ Occupied /\ Owned
    BY DEF IInv
  <2>2. \E w \in Workers : \E x \in Runs : Claim(w, x)
    BY <2>1, StepKinds DEF CreateRun, CancelRun, LaunchBatch, CancelBatch, ReapStaleRuns,
       Starts, StopCancelled, Ends, Says, Quiet
  <2> QED BY <2>1, <2>2 DEF Claim, Owned, TypeOK
<1> QED BY <1>1, Invariance, PTL DEF Spec, ClaimedAtMostOnce

=============================================================================
