-------------------------------- MODULE MCApi --------------------------------
(***************************************************************************)
(* The API's state for TLC: metrics, authoring, the requests that create   *)
(* runs, the poll of a batch's page, and the scripts of Python metrics.    *)
(* `area', chosen in the initial state, says which of the five a behaviour *)
(* is about; the variables of the others keep their first values.          *)
(***************************************************************************)
EXTENDS MetricCatalog, Authoring, RunRequests, DeltaPolling, MetricSandbox, TLC

VARIABLE area

CONSTANTS latency, mine, call1, call2, editor1, editor2,     \* metrics
          p1, p2, a1, a2, s1, s2, x0, x1, x2, own, free,             \* authoring
          q1, q2,                                                    \* requests
          t1, t2,                                                    \* polling
          simple, careful, wrong, empty                              \* scripts

\* A project's metric overrides the built-in of the same name.
SameName == [m \in Metrics |-> "latency"]
Levels == (latency :> 0) @@ (mine :> 1)
KindsOf == (latency :> "builtin") @@ (mine :> "llm_judge")
SomeBodies ==
  {[spec |-> "keep", status |-> "active"], [spec |-> "keep", status |-> "draft"],
   [spec |-> "B", status |-> "keep"], [spec |-> "B", status |-> "active"]}
BothGates == {{latency, mine}}
NotSampled == {<<call2, latency>>}

\* A metric of the first project and a built-in.
MetricOwners == (own :> p1) @@ (free :> "shared")
SomeProposals == {{}, {own, free}}
HasAuthored ==
  /\ agents = (a1 :> p1) @@ (a2 :> p2)
  /\ suites[s1].agent = a1 /\ suites[s2].agent = a2 /\ x0 \in DOMAIN personas

\* One that needs much memory, one that catches what it can, one that is refused.
WhatTheyDo == (simple :> {"passed", "memory_exceeded"}) @@ (wrong :> {"forbidden_syntax"})
              @@ (careful :> {"warn", "error", "denied", "invalid_output"}) @@ (empty :> {})

vars == <<catalogVars, authorVars, requestVars, deltaVars, sandboxVars, area>>

NoCatalog == /\ metrics = << >> /\ backtests = {} /\ retired = {} /\ testing = {} /\ gates = {}
             /\ patches = [u \in Editors |-> NoPatch]
             /\ scoring = [c \in ScoredCalls |-> Unscored] /\ edits = 0 /\ raced = {}

Init ==
  /\ area \in {"metrics", "authoring", "requests", "polling", "scripts"}
  /\ IF area = "metrics" THEN CatalogInit ELSE NoCatalog
  /\ AuthorInit /\ HasAuthored /\ RequestInit /\ DeltaInit /\ SandboxInit

InCatalog == /\ area = "metrics" /\ CatalogNext
             /\ UNCHANGED <<authorVars, requestVars, deltaVars, sandboxVars>>
InAuthoring == /\ area = "authoring" /\ AuthorNext
               /\ UNCHANGED <<catalogVars, requestVars, deltaVars, sandboxVars>>
InRequests == /\ area = "requests" /\ RequestNext
              /\ UNCHANGED <<catalogVars, authorVars, deltaVars, sandboxVars>>
InPolling == /\ area = "polling" /\ DeltaNext
             /\ UNCHANGED <<catalogVars, authorVars, requestVars, sandboxVars>>
InScripts == /\ area = "scripts" /\ SandboxNext
             /\ UNCHANGED <<catalogVars, authorVars, requestVars, deltaVars>>
Next == (InCatalog \/ InAuthoring \/ InRequests \/ InPolling \/ InScripts) /\ UNCHANGED area

Spec == Init /\ [][Next]_vars

\* Editors, transactions and requests are alike.
Symmetric == Permutations({editor1, editor2}) \union Permutations({t1, t2})
             \union Permutations({q1, q2})
=============================================================================
