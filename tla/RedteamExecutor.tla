-------------------------- MODULE RedteamExecutor ---------------------------
(***************************************************************************)
(* The red-team executor: interim attack verdicts during the call, then    *)
(* the graded verdict, the finding and done in one transaction.            *)
(***************************************************************************)
EXTENDS CallExecutor

\* _say_attack: the first attack line, whose turn is emitted like any other.
FirstAttackLine(w) ==
    /\ pc[w] = "calling"
    /\ Executes(w, "redteam")
    /\ w \notin fruitful
    /\ fruitful' = fruitful \cup {w}
    /\ UNCHANGED <<status, owner, log, findings, pc, job, noticed, judging, crashes>>

\* on_exchange: an interim verdict on one attack line.
Exchange(w) ==
    /\ pc[w] = "calling"
    /\ Executes(w, "redteam")
    /\ w \in fruitful
    /\ Details(job[w]) < Turns(job[w])
    /\ Emit(job[w], "detail")
    /\ UNCHANGED <<pc, noticed, fruitful, judging>>

\* The attacker never got to speak an attack line.
AttackNotDelivered(w) ==
    /\ pc[w] = "ended"
    /\ Executes(w, "redteam")
    /\ ~noticed[w]
    /\ w \notin fruitful
    /\ FailRun(w)

\* Mutant of FinishAttack: done is committed before the rest.
DoneBeforeVerdict(w) ==
    /\ pc[w] = "ended"
    /\ Executes(w, "redteam")
    /\ ~noticed[w]
    /\ w \in fruitful
    /\ Count(job[w], "done") < 2
    /\ Emit(job[w], "done")
    /\ UNCHANGED <<pc, noticed, fruitful, judging>>

\* _finish: the verdict frames, the finding, done and status completed; a row
\* cancelled too late for the watcher passes the guard.
FinishAttack(w) ==
    /\ pc[w] = "ended"
    /\ Executes(w, "redteam")
    /\ ~noticed[w]
    /\ w \in fruitful
    /\ \/ /\ status[job[w]] \in Live \cup {"cancelled"}
          /\ Flip({job[w]}, "completed", <<"detail", "done">>)
          /\ findings' = findings \cup {job[w]}
          /\ Release(w)
          /\ UNCHANGED <<owner, noticed, fruitful, judging, crashes>>
       \/ /\ status[job[w]] \notin Live \cup {"cancelled"}
          /\ Abandon(w)

\* Mutant of FinishCancelledAttack: the finding is recorded here too.
RecordAlthoughCancelled(w) ==
    /\ pc[w] = "ended"
    /\ Executes(w, "redteam")
    /\ noticed[w]
    /\ status[job[w]] \in Live \cup {"cancelled"}
    /\ Flip({job[w]}, "cancelled", <<"done">>)
    /\ findings' = findings \cup {job[w]}
    /\ Release(w)
    /\ UNCHANGED <<owner, noticed, fruitful, judging, crashes>>

\* _finish_cancelled: a partial done, no finding.
FinishCancelledAttack(w) ==
    /\ pc[w] = "ended"
    /\ Executes(w, "redteam")
    /\ noticed[w]
    /\ \/ /\ status[job[w]] \in Live \cup {"cancelled"}
          /\ Flip({job[w]}, "cancelled", <<"done">>)
          /\ Release(w)
          /\ UNCHANGED <<owner, findings, noticed, fruitful, judging, crashes>>
       \/ /\ status[job[w]] \notin Live \cup {"cancelled"}
          /\ Abandon(w)

GradingFails(w) ==
    /\ pc[w] = "ended"
    /\ Executes(w, "redteam")
    /\ FailRun(w)

RedteamStep(w) ==
    AttackNotDelivered(w) \/ FinishAttack(w) \/ FinishCancelledAttack(w) \/ GradingFails(w)

=============================================================================
