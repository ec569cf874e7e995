---------------------------- MODULE ExplorerCall -----------------------------
(***************************************************************************)
(* A discovery call: PersonaRunner with ExplorerCaller as its planner      *)
(* (app/engine/discovery/explorer.py), and the executor's on_observation   *)
(* (app/engine/executor/discovery.py), a transaction within next_turn that *)
(* emits the nodes an observation changed, and the intents among them, so  *)
(* that the map grows live.  `shown' is what the log says of each node and *)
(* `told' what it says of each topic: mapped, or the gate it is behind.    *)
(***************************************************************************)
EXTENDS PersonaCall, FlowGraph

CONSTANTS Candidates,      \* the topics, in the order order_candidates gives them
          Handoffs,        \* those that ask for a human
          TurnBudget,      \* DEFAULT_TURN_BUDGET
          MaxRejections,   \* MAX_GATE_REJECTIONS
          MaxStalls,       \* MAX_STALLS_PER_TOPIC
          Observations     \* what the model may report of a turn

Topics == {Candidates[i] : i \in DOMAIN Candidates}
NoTopic == "-"

ASSUME ExplorerAssumption ==
  /\ Candidates \in Seq(Topics)
  /\ Handoffs \subseteq Topics
  /\ TurnBudget \in Nat /\ MaxRejections \in Nat /\ MaxStalls \in Nat
  /\ \A o \in Observations : o \in [key : {o.key}, kind : Kinds, result : GateResults]
  /\ \A i, j \in DOMAIN Candidates :     \* order_candidates: handoffs last
       Candidates[i] \in Handoffs /\ i < j => Candidates[j] \in Handoffs

VARIABLES
  graph, reached, abandoned, stalls, target, rejections, callerTurns, handedOff,
  failed,        \* failure
  observing,     \* per task: the observation on_observation is emitting
  shown,         \* node frames in the log, the last of each node
  told,          \* intent frames in the log, the last of each topic
  lost,          \* nodes whose frame was lost with a cancelled task
  finalized

exploreVars == <<graph, reached, abandoned, stalls, target, rejections, callerTurns,
                 handedOff, failed, observing, shown, told, lost, finalized>>

NoObs == [obs |-> [key |-> NoKey, kind |-> "none", result |-> "none"],
          changed |-> {}, complete |-> FALSE]

ExploreInit ==
  /\ graph = EmptyGraph /\ reached = {} /\ abandoned = {}
  /\ stalls = [c \in Topics |-> 0] /\ target = NoTopic
  /\ rejections = 0 /\ callerTurns = 0 /\ handedOff = FALSE /\ failed = FALSE
  /\ observing = [t \in Tasks |-> NoObs]
  /\ shown = << >> /\ told = << >> /\ lost = {} /\ finalized = FALSE

Remaining(done_) == {i \in DOMAIN Candidates : Candidates[i] \notin done_}
FirstOfThem(places) == IF places = {} THEN NoTopic
                       ELSE Candidates[CHOOSE i \in places : \A j \in places : i <= j]

HasReplied == transcript # << >> /\ transcript[Len(transcript)] = "agent"
ExplorerReply == IF HasReplied THEN "wait" ELSE "line"

\* next_turn up to its first await.
AskExplorer(t) ==
  /\ IF HasReplied
       THEN /\ callerTurns' = callerTurns + 1
            /\ target' = FirstOfThem(Remaining(reached \union abandoned))
       ELSE UNCHANGED <<callerTurns, target>>
  /\ UNCHANGED <<graph, reached, abandoned, stalls, rejections, handedOff, failed,
                 observing, shown, told, lost, finalized>>

ExplorerWakes ==
  \/ WakeAdvance(ExplorerReply)
     /\ IF WillAsk THEN AskExplorer("advance") ELSE UNCHANGED exploreVars
  \/ WakeSilence(ExplorerReply)
     /\ IF WillAsk /\ ~TooManyNudges THEN AskExplorer("silence") ELSE UNCHANGED exploreVars

(***************************************************************************)
(* _attributed_topic and _canonical: a topic carried out is named after    *)
(* the candidate, the one claimed, else the one asked for, else (a handoff)*)
(* a pending one that asks for a human.                                    *)
(***************************************************************************)
Attributed(obs, claimed) ==
  CASE claimed # NoTopic                          -> claimed
    [] claimed = NoTopic /\ obs.kind = "intent"   -> target
    [] claimed = NoTopic /\ obs.kind = "handoff"  ->
         FirstOfThem({i \in Remaining(reached \union abandoned) : Candidates[i] \in Handoffs})
    [] OTHER                                      -> NoTopic

Canonical(obs, claimed) ==
  LET topic == Attributed(obs, claimed)
  IN IF topic = NoTopic THEN obs
     ELSE [obs EXCEPT !.key = topic,
                      !.kind = IF @ \in {"intent", "handoff"} THEN @ ELSE "intent"]

CarriedOut(obs) == obs.kind \in {"intent", "handoff"} /\ obs.key \in Topics

\* _absorb and _should_stop, then the end of next_turn.
Finish(t, obs, complete) ==
  LET done_ == reached' \union abandoned'
      gateOpen == obs.kind = "gate" /\ obs.result \in {"pending", "rejected"}
      stop == \/ complete \/ handedOff' \/ rejections' >= MaxRejections
              \/ callerTurns >= TurnBudget - 1
              \/ Remaining(done_) = {} /\ ~gateOpen
      stalled == ~CarriedOut(obs) /\ target # NoTopic /\ obs.kind \notin {"gate", "greeting"}
  IN /\ rejections' = IF obs.result = "rejected" THEN rejections + 1 ELSE rejections
     /\ handedOff' = (handedOff \/ obs.kind = "handoff")
     /\ reached' = IF CarriedOut(obs) THEN reached \union {obs.key} ELSE reached
     /\ stalls' = IF stalled THEN [stalls EXCEPT ![target] = @ + 1] ELSE stalls
     /\ abandoned' = IF stalled /\ stalls[target] + 1 >= MaxStalls
                       THEN abandoned \union {target} ELSE abandoned
     /\ Answer(t, stop)
     /\ UNCHANGED <<target, callerTurns, failed, lost, finalized>>

\* The plan is back: observe, and emit what changed if anything did.
Explored(t, seen, claimed, complete) ==
  LET obs == Canonical(seen, claimed)
      next == Observed(graph, obs)
      changed == Changed(graph, next)
  IN /\ Running /\ task[t].at = "asking" /\ observing[t] = NoObs
     /\ graph' = next
     /\ IF changed = {} THEN Finish(t, obs, complete) /\ UNCHANGED <<observing, shown, told>>
        ELSE /\ observing' = [observing EXCEPT ![t] =
                                [obs |-> obs, changed |-> changed, complete |-> complete]]
             /\ UNCHANGED <<callVars, reached, abandoned, stalls, target, rejections,
                            callerTurns, handedOff, failed, shown, told, lost, finalized>>

\* _emit_node_frames and _emit_intent_frames, of the graph g at the time they run.
Emit(g, keys, intents) ==
  /\ shown' = [k \in DOMAIN shown \union keys |->
                 IF k \in keys THEN Frame(NodeAt(g, k)) ELSE shown[k]]
  /\ told' = [c \in DOMAIN told \union {i.name : i \in intents} |->
                IF \E i \in intents : i.name = c
                  THEN (CHOOSE i \in intents : i.name = c).behind ELSE told[c]]
IntentsAmong(keys) == {i \in Intents(graph, {}) : i.name \in keys}

ObservationStored(t) ==
  /\ observing[t] # NoObs /\ Finish(t, observing[t].obs, observing[t].complete)
  /\ Emit(graph, observing[t].changed, IntentsAmong(observing[t].changed))
  /\ observing' = [observing EXCEPT ![t] = NoObs]
  /\ UNCHANGED graph

\* The model fails or takes too long.
ExplorerFails(t) ==
  /\ observing[t] = NoObs /\ failed' = TRUE /\ Answer(t, TRUE)
  /\ UNCHANGED <<graph, reached, abandoned, stalls, target, rejections, callerTurns,
                 handedOff, observing, shown, told, lost, finalized>>

\* A task that is cancelled, or whose on_observation raises, may lose its frames:
\* a cancelled transaction has committed or not.
Others ==
  /\ \/ Connect \/ Hear \/ HeardRecorded \/ HeardFails \/ Cancel \/ Drain \/ TimeOut
     \/ \E t \in Tasks : LineRecorded(t) \/ LineFails(t)
     \/ \E t \in Tasks : observing[t] # NoObs /\ PlannerFails(t)
  /\ LET dropped == {t \in Tasks : observing[t] # NoObs /\ task'[t].at # "asking"}
     IN /\ observing' = [t \in Tasks |-> IF t \in dropped THEN NoObs ELSE observing[t]]
        /\ \E kept \in SUBSET dropped :
             /\ LET keys == UNION {observing[t].changed : t \in kept}
                IN Emit(graph, keys, IntentsAmong(keys))
             /\ lost' = lost \union UNION {observing[t].changed : t \in dropped \ kept}
  /\ UNCHANGED <<graph, reached, abandoned, stalls, target, rejections, callerTurns,
                 handedOff, failed, finalized>>

\* The executor, once the call is over: an unresolved gate becomes blocked, and the
\* topics never reached are behind it.  A cancelled run emits no more frames.
Finalize ==
  /\ closed /\ ~finalized /\ finalized' = TRUE
  /\ graph' = Finalized(graph)
  /\ IF cancelSet THEN UNCHANGED <<shown, told>>
     ELSE Emit(graph', Changed(graph, graph'), Intents(graph', Topics))
  /\ UNCHANGED <<callVars, reached, abandoned, stalls, target, rejections, callerTurns,
                 handedOff, failed, observing, lost>>

\* materialize_discovery, in the same transaction: the last frame of each node, and
\* its edges from nodes that have one.
StoredEdges == {e \in (DOMAIN shown) \X (DOMAIN shown) : e[1] \in shown[e[2]].incoming}

ExploreNext ==
  \/ ExplorerWakes
  \/ \E t \in Waiting : ObservationStored(t) \/ ExplorerFails(t)
  \/ \E t \in Waiting, obs \in Observations, c \in Topics \union {NoTopic}, b \in BOOLEAN :
       Explored(t, obs, c, b)
  \/ Others \/ Finalize

ExploreSpec == CallInit /\ ExploreInit /\ [][ExploreNext]_<<callVars, exploreVars>>
-----------------------------------------------------------------------------
InFlight == UNION {observing[t].changed : t \in Tasks}
Edges(g) == {e \in NodeKeys(g) \X NodeKeys(g) : e[1] \in NodeAt(g, e[2]).incoming}

\* The map a client builds from the node frames is the explorer's graph: whatever
\* an observation touches is emitted again, gates whose outcome comes with a later
\* turn and menus that gain an edge included, and a topic carried out is told of
\* with its node.  The exceptions are the nodes an emission in flight is about,
\* those whose emission was lost when an agent's line cancelled the task, and the
\* end of a cancelled run.  A topic told to be blocked is so behind a gate that
\* the same map shows blocked, and was not carried out.  The edges that are stored
\* are edges of the graph, and only an edge of a node that was lost is missing.
ShownMapIsTheGraph ==
  LET settled == NodeKeys(graph) \ (InFlight \union lost)
      topic(key) == KindAt(graph, key) \in {"intent", "handoff"}
  IN (finalized => ~cancelSet) =>
       /\ \A key \in settled : /\ key \in DOMAIN shown /\ shown[key] = Frame(NodeAt(graph, key))
                               /\ topic(key) => key \in DOMAIN told /\ told[key] = NoKey
       /\ StoredEdges \subseteq Edges(graph)
       /\ Edges(graph) \intersect (settled \X settled) \subseteq StoredEdges
       /\ \A c \in DOMAIN told : told[c] # NoKey =>
            /\ ~topic(c)
            /\ told[c] \in settled => shown[told[c]].state # "mapped"
=============================================================================
