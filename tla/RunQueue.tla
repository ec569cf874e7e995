------------------------------ MODULE RunQueue ------------------------------
(***************************************************************************)
(* What the queue of runs promises, without a word about how: rows are     *)
(* queued, a worker takes one at a time, a row is taken at most once, and  *)
(* an agent never has more taken rows than its max_concurrency.            *)
(***************************************************************************)
EXTENDS Integers, FiniteSets

CONSTANTS Runs, Agents, AgentOf, Cap, Workers, NoWorker

VARIABLES
    state,   \* of each run: "absent", "queued", "live" or "ended"
    taker    \* the worker a run was given to

vars == <<state, taker>>

LiveRuns(a) == {r \in Runs : AgentOf[r] = a /\ state[r] = "live"}

Init ==
    /\ state = [r \in Runs |-> "absent"]
    /\ taker = [r \in Runs |-> NoWorker]

Enqueue(S) ==
    /\ \A r \in S : state[r] = "absent"
    /\ state' = [r \in Runs |-> IF r \in S THEN "queued" ELSE state[r]]
    /\ UNCHANGED taker

Take(w, r) ==
    /\ state[r] = "queued"
    /\ taker[r] = NoWorker
    /\ Cardinality(LiveRuns(AgentOf[r])) < Cap[AgentOf[r]]
    /\ state' = [state EXCEPT ![r] = "live"]
    /\ taker' = [taker EXCEPT ![r] = w]

Leave(r) ==
    /\ state[r] \in {"queued", "live"}
    /\ state' = [state EXCEPT ![r] = "ended"]
    /\ UNCHANGED taker

Next ==
    \/ \E S \in SUBSET Runs : Enqueue(S)
    \/ \E w \in Workers, r \in Runs : Take(w, r)
    \/ \E r \in Runs : Leave(r)

Spec == Init /\ [][Next]_vars

=============================================================================
