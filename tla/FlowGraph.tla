------------------------------ MODULE FlowGraph ------------------------------
(***************************************************************************)
(* The discovery map (app/engine/discovery/graph.py): what one observation *)
(* of an agent's turn does to it, and what may have to be emitted again.   *)
(* A node is its key; its label and the wording of a rejection are left    *)
(* out, its layer is its depth and its row the number of nodes the layer   *)
(* had before it.                                                          *)
(***************************************************************************)
EXTENDS Integers, Sequences, FiniteSets

Kinds == {"greeting", "gate", "menu", "intent", "handoff", "other"}
GateResults == {"none", "pending", "passed", "rejected"}

NoKey == "-"
EmptyGraph == [nodes |-> << >>, current |-> NoKey, lastGate |-> NoKey]

NodeKeys(g) == {g.nodes[i].key : i \in DOMAIN g.nodes}
NodeAt(g, key) == g.nodes[CHOOSE i \in DOMAIN g.nodes : g.nodes[i].key = key]
OfKind(g, kind) == {i \in DOMAIN g.nodes : g.nodes[i].kind = kind}
KindAt(g, key) == IF key \in NodeKeys(g) THEN NodeAt(g, key).kind ELSE "none"

\* The first node, in the order of discovery, whose place is in `places'.
FirstKey(g, places) ==
  IF places = {} THEN NoKey
  ELSE g.nodes[CHOOSE i \in places : \A j \in places : i <= j].key

\* _refresh_gate_state: a gate that ever accepted the caller is mapped.
StateOf(node) == CASE node.passed                        -> "mapped"
                   [] ~node.passed /\ node.rejected      -> "rejected"
                   [] ~node.passed /\ ~node.rejected     ->
                        IF node.unresolved THEN "unresolved" ELSE "mapped"
\* A node as node_event has it: its place, its state and its edges.
Frame(node) == [x |-> node.depth, y |-> node.row, state |-> StateOf(node),
                incoming |-> node.incoming]

UpdateNode(g, key, new) ==
  [g EXCEPT !.nodes = [i \in DOMAIN @ |-> IF @[i].key = key THEN new ELSE @[i]]]

\* _create
NewNode(g, key, kind, parent) ==
  LET depth == IF parent \in NodeKeys(g) THEN NodeAt(g, parent).depth + 1 ELSE 0
  IN [key |-> key, kind |-> kind, depth |-> depth,
      row |-> Cardinality({i \in DOMAIN g.nodes : g.nodes[i].depth = depth}),
      incoming |-> {}, passed |-> FALSE, rejected |-> FALSE, unresolved |-> FALSE]

(***************************************************************************)
(* observe, in its parts.  Consecutive gate turns are one gate; a topic    *)
(* that follows a topic comes from the menu, if there is one.              *)
(***************************************************************************)
FoldedKey(g, obs) == IF obs.kind = "gate" /\ KindAt(g, g.current) = "gate"
                       THEN g.current ELSE obs.key

ViaMenu(g, obs) ==
  /\ obs.kind \in {"intent", "handoff"} /\ KindAt(g, g.current) = "intent"
  /\ OfKind(g, "menu") # {} /\ obs.key # g.current

Visited(g, key, kind, parent) ==
  IF key \in NodeKeys(g) THEN g
  ELSE [g EXCEPT !.nodes = Append(@, NewNode(g, key, kind, parent))]

Linked(g, from, key) ==
  IF from = NoKey \/ from = key \/ key \notin NodeKeys(g) THEN g
  ELSE UpdateNode(g, key, [NodeAt(g, key) EXCEPT !.incoming = @ \union {from}])

\* _apply_gate_result: an outcome seen elsewhere belongs to the last gate.
Judged(g, key, result) ==
  LET gate == IF KindAt(g, key) = "gate" THEN key ELSE g.lastGate
  IN IF gate \notin NodeKeys(g) THEN g
     ELSE CASE result = "passed"   -> UpdateNode(g, gate, [NodeAt(g, gate) EXCEPT !.passed = TRUE])
            [] result = "rejected" -> UpdateNode(g, gate, [NodeAt(g, gate) EXCEPT !.rejected = TRUE])
            [] OTHER               -> g

Observed(g, obs) ==
  LET key == FoldedKey(g, obs)
      menu == FirstKey(g, OfKind(g, "menu"))
      prev == IF ViaMenu(g, obs) THEN menu ELSE g.current
      g1 == Visited(g, key, obs.kind, prev)
      g2 == IF ViaMenu(g, obs) THEN Linked(g1, g.current, menu) ELSE g1
      g3 == Linked(g2, prev, key)
      g4 == [g3 EXCEPT !.current = key,
                       !.lastGate = IF KindAt(g3, key) = "gate" THEN key ELSE @]
  IN Judged(g4, key, obs.result)

\* Mutant of Changed: only the nodes that are new.
Created(g, h) == NodeKeys(h) \ NodeKeys(g)

\* ObserveResult.changed: created here, or a new edge or another state.
Changed(g, h) == {key \in NodeKeys(h) :
                    key \notin NodeKeys(g) \/ Frame(NodeAt(g, key)) # Frame(NodeAt(h, key))}

\* finalize
Finalized(g) ==
  [g EXCEPT !.nodes = [i \in DOMAIN @ |->
      IF @[i].kind = "gate" /\ ~@[i].passed THEN [@[i] EXCEPT !.unresolved = TRUE] ELSE @[i]]]

\* intents(expected): the topics reached, and those a blocked gate stands before,
\* with that gate.
BlockingGate(g) == FirstKey(g, {i \in OfKind(g, "gate") : StateOf(g.nodes[i]) # "mapped"})
Intents(g, expected) ==
  LET reached == {g.nodes[i] : i \in OfKind(g, "intent") \union OfKind(g, "handoff")}
      missing == expected \ {n.key : n \in reached}
  IN {[name |-> n.key, behind |-> NoKey] : n \in reached}
     \union (IF BlockingGate(g) = NoKey THEN {}
             ELSE {[name |-> c, behind |-> BlockingGate(g)] : c \in missing})
=============================================================================
