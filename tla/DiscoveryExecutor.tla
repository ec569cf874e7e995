------------------------- MODULE DiscoveryExecutor --------------------------
(***************************************************************************)
(* The discovery executor: node and intent frames during the call, then    *)
(* one transaction that records the map.                                   *)
(***************************************************************************)
EXTENDS CallExecutor

\* FlowGraph.observe creates the first node, before its frames are emitted.
FirstNode(w) ==
    /\ pc[w] = "calling"
    /\ Executes(w, "discovery")
    /\ w \notin fruitful
    /\ fruitful' = fruitful \cup {w}
    /\ UNCHANGED <<status, owner, log, findings, pc, job, noticed, judging, crashes>>

\* on_observation: the nodes and intents one agent turn changed.
Observe(w) ==
    /\ pc[w] = "calling"
    /\ Executes(w, "discovery")
    /\ w \in fruitful
    /\ Details(job[w]) < Turns(job[w])
    /\ Emit(job[w], "detail")
    /\ UNCHANGED <<pc, noticed, fruitful, judging>>

\* No node was ever observed and nobody asked to stop.
NothingObserved(w) ==
    /\ pc[w] = "ended"
    /\ Executes(w, "discovery")
    /\ ~noticed[w]
    /\ w \notin fruitful
    /\ FailRun(w)

\* Mutant of FinishDiscovery: nobody looks at the row.
FinishAnyway(w) ==
    /\ pc[w] = "ended"
    /\ Executes(w, "discovery")
    /\ noticed[w] \/ w \in fruitful
    /\ IF noticed[w] THEN Flip({job[w]}, "cancelled", <<"done">>)
                     ELSE Flip({job[w]}, "completed", <<"detail", "done">>)
    /\ Release(w)
    /\ UNCHANGED <<owner, findings, noticed, fruitful, judging, crashes>>

\* One guard for both endings: a row that was cancelled too late for the
\* watcher passes it and is written with the status the executor decided on.
FinishDiscovery(w) ==
    /\ pc[w] = "ended"
    /\ Executes(w, "discovery")
    /\ noticed[w] \/ w \in fruitful
    /\ \/ /\ status[job[w]] \in Live \cup {"cancelled"}
          /\ IF noticed[w] THEN Flip({job[w]}, "cancelled", <<"done">>)
                           ELSE Flip({job[w]}, "completed", <<"detail", "done">>)
          /\ Release(w)
          /\ UNCHANGED <<owner, findings, noticed, fruitful, judging, crashes>>
       \/ /\ status[job[w]] \notin Live \cup {"cancelled"}
          /\ Abandon(w)

DiscoveryFails(w) ==
    /\ pc[w] = "ended"
    /\ Executes(w, "discovery")
    /\ FailRun(w)

DiscoveryStep(w) == NothingObserved(w) \/ FinishDiscovery(w) \/ DiscoveryFails(w)

=============================================================================
