------------------------- MODULE SimulationExecutor -------------------------
(***************************************************************************)
(* The simulation executor after its call, and the incremental judge that  *)
(* runs beside it as a task of the worker process.                         *)
(***************************************************************************)
EXTENDS CallExecutor

\* on_turn for an agent turn: at most one incremental judge task at a time.
AgentTurn(w) ==
    /\ pc[w] = "calling"
    /\ Executes(w, "simulation")
    /\ Turns(job[w]) < MaxTurns
    /\ Emit(job[w], "turn")
    /\ judging' = judging \cup {job[w]}
    /\ UNCHANGED <<pc, noticed, fruitful>>

\* run_incremental: its assertion and metrics frames, or nothing when the
\* model call raised.  No status is read, and the task may outlive the call:
\* the executor waits 30 seconds for it after the call, and not at all on a
\* failure.
JudgeEmits(r) ==
    /\ r \in judging
    /\ judging' = judging \ {r}
    /\ Emit(r, "detail")
    /\ UNCHANGED <<pc, noticed, fruitful>>

JudgeGivesUp(r) ==
    /\ r \in judging
    /\ judging' = judging \ {r}
    /\ UNCHANGED <<status, owner, log, findings, pc, job, noticed, fruitful, crashes>>

\* was_cancelled: a partial done and status cancelled, unless the row has
\* been completed or failed meanwhile.
FinishCancelledCall(w) ==
    /\ pc[w] = "ended"
    /\ Executes(w, "simulation")
    /\ noticed[w]
    /\ \/ /\ status[job[w]] \in Live \cup {"cancelled"}
          /\ Flip({job[w]}, "cancelled", <<"done">>)
          /\ Release(w)
          /\ UNCHANGED <<owner, findings, noticed, fruitful, judging, crashes>>
       \/ /\ status[job[w]] \notin Live \cup {"cancelled"}
          /\ Abandon(w)

\* The final judge has answered: its frames, done and status completed, only
\* if the row is still live.
FinishSimulation(w) ==
    /\ pc[w] = "ended"
    /\ Executes(w, "simulation")
    /\ ~noticed[w]
    /\ \/ /\ status[job[w]] \in Live
          /\ Flip({job[w]}, "completed", <<"detail", "done">>)
          /\ Release(w)
          /\ UNCHANGED <<owner, findings, noticed, fruitful, judging, crashes>>
       \/ /\ status[job[w]] \notin Live
          /\ Abandon(w)

\* Judging or recording raises (its transaction, if any, is rolled back).
ScoringFails(w) ==
    /\ pc[w] = "ended"
    /\ Executes(w, "simulation")
    /\ FailRun(w)

SimulationStep(w) == FinishCancelledCall(w) \/ FinishSimulation(w) \/ ScoringFails(w)

=============================================================================
