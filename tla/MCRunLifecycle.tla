--------------------------- MODULE MCRunLifecycle ---------------------------
(* Instances of RunLifecycle: which rows there are, and of which kinds.    *)
EXTENDS RunLifecycle, TLC

CONSTANTS r1, r2, r3, b1, a1

OneAgent == [r \in Runs |-> a1]
CapOne == [a \in Agents |-> 1]
CapTwo == [a \in Agents |-> 2]

\* A suite batch of a call without a real script and one with.
BatchOfTwo == (r1 :> b1) @@ (r2 :> b1)
ScriptAndSimulation == (r1 :> "scripted") @@ (r2 :> "simulation")

\* A red-team batch of one attack, and two single runs.
BatchOfOne == (r1 :> b1) @@ (r2 :> NoBatch) @@ (r3 :> NoBatch)
AttackDiscoveryReplay == (r1 :> "redteam") @@ (r2 :> "discovery") @@ (r3 :> "replay")

\* Single runs.
Singles == [r \in Runs |-> NoBatch]
AllSimulations == [r \in Runs |-> "simulation"]
AllAttacks == [r \in Runs |-> "redteam"]

WorkerSymmetry == Permutations(Workers)

=============================================================================
