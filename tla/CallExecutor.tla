---------------------------- MODULE CallExecutor ----------------------------
(***************************************************************************)
(* What the simulation, discovery and red-team executors have in common:   *)
(* prepare, mark the run as running, start a heartbeat and a watcher that  *)
(* polls for a cancellation, and hold the call, whose turns are emitted    *)
(* without a look at the run's status.  The watcher stops with the call,   *)
(* and cancel_event, not the row, tells the rest whether the user asked to *)
(* stop.  What follows the call is in the three executors' modules.        *)
(***************************************************************************)
EXTENDS RunTable

\* A scenario, an identity, a pack, credentials or a client that cannot be
\* loaded; run_simulation checks the first before it delegates to a script.
PrepareFails(w) ==
    /\ pc[w] = "claimed"
    /\ ~Executes(w, "replay")
    /\ FailRun(w)

StartCall(w) ==
    /\ pc[w] = "claimed"
    /\ Kind[job[w]] \in {"simulation", "discovery", "redteam"}
    /\ MarkRunning(job[w])
    /\ pc' = [pc EXCEPT ![w] = "calling"]
    /\ UNCHANGED <<owner, findings, job, noticed, fruitful, judging, crashes>>

\* on_turn: a transaction of its own that only appends the turn.
CallerTurn(w) ==
    /\ pc[w] = "calling"
    /\ Turns(job[w]) < MaxTurns
    /\ Emit(job[w], "turn")
    /\ UNCHANGED <<pc, noticed, fruitful, judging>>

\* _poll_for_cancellation, which only runs while the call does.
NoticeCancel(w) ==
    /\ pc[w] = "calling"
    /\ ~noticed[w]
    /\ status[job[w]] = "cancelled"
    /\ noticed' = [noticed EXCEPT ![w] = TRUE]
    /\ UNCHANGED <<status, owner, log, findings, pc, job, fruitful, judging, crashes>>

\* run_persona_call returns, hung up, timed out or told to stop; the watcher
\* is shut down.
CallEnds(w) ==
    /\ pc[w] = "calling"
    /\ pc' = [pc EXCEPT ![w] = "ended"]
    /\ UNCHANGED <<status, owner, log, findings, job, noticed, fruitful, judging, crashes>>

\* The call, or the judge's client before it, raises.
CallFails(w) ==
    /\ pc[w] = "calling"
    /\ FailRun(w)

CallStep(w) ==
    PrepareFails(w) \/ StartCall(w) \/ NoticeCancel(w) \/ CallEnds(w) \/ CallFails(w)

=============================================================================
