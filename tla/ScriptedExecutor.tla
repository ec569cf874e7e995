-------------------------- MODULE ScriptedExecutor --------------------------
(***************************************************************************)
(* The executors that replay recorded events: FakeRunner, which runs a     *)
(* simulation whose scenario has no real script, and the demo replay of a  *)
(* curated discovery run.  Each event is one transaction that locks the    *)
(* row and looks at its status before it emits anything.  A script is      *)
(* MaxTurns events long before its last one.                               *)
(***************************************************************************)
EXTENDS RunTable

Started(w) ==
    /\ pc[w] = "claimed"
    /\ MarkRunning(job[w])
    /\ pc' = [pc EXCEPT ![w] = "script"]
    /\ UNCHANGED <<owner, findings, job, noticed, fruitful, judging, crashes>>

\* run_fake_script and replay_discovery up to their first event.
StartScript(w) == Executes(w, "scripted") /\ Started(w)

StartReplay(w) == Executes(w, "replay") /\ Started(w)

\* An event before the last one, of a run that is still live.
PlayEntry(w) ==
    /\ status[job[w]] \in Live
    /\ Turns(job[w]) < MaxTurns
    /\ Emit(job[w], "turn")
    /\ UNCHANGED <<pc, noticed, fruitful, judging>>

\* The last event: done, status completed and the parent's rollup together.
PlayLast(w) ==
    /\ status[job[w]] \in Live
    /\ Turns(job[w]) = MaxTurns
    /\ Flip({job[w]}, "completed", <<"done">>)
    /\ Release(w)
    /\ UNCHANGED <<owner, findings, noticed, fruitful, judging, crashes>>

\* Mutant of StopCancelled: the reaper-resurrection guard is dropped.
StopUnlessLive(w) ==
    /\ status[job[w]] \notin Live
    /\ log' = [log EXCEPT ![job[w]] = Append(@, "done")]
    /\ Release(w)
    /\ UNCHANGED <<status, owner, findings, noticed, fruitful, judging, crashes>>

\* The run was cancelled: a partial done, no status write, no rollup (the
\* cancel request did both).
StopCancelled(w) ==
    /\ status[job[w]] = "cancelled"
    /\ log' = [log EXCEPT ![job[w]] = Append(@, "done")]
    /\ Release(w)
    /\ UNCHANGED <<status, owner, findings, noticed, fruitful, judging, crashes>>

\* The reaper took the run: not another frame.
StopReaped(w) ==
    /\ status[job[w]] \notin Live \cup {"cancelled"}
    /\ Abandon(w)

PlayEvent(w) == PlayEntry(w) \/ PlayLast(w) \/ StopCancelled(w) \/ StopReaped(w)

PlayScript(w) == pc[w] = "script" /\ Executes(w, "scripted") /\ PlayEvent(w)

PlayReplay(w) == pc[w] = "script" /\ Executes(w, "replay") /\ PlayEvent(w)

ScriptedStep(w) == StartScript(w) \/ StartReplay(w) \/ PlayScript(w) \/ PlayReplay(w)

=============================================================================
