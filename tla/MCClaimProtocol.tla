-------------------------- MODULE MCClaimProtocol ---------------------------
(* Instances of ClaimProtocol.                                             *)
EXTENDS ClaimProtocol, TLC

CONSTANTS r1, r2, r3, a1, a2

TwoAgents == (r1 :> a1) @@ (r2 :> a1) @@ (r3 :> a2)
CapOne == [a \in Agents |-> 1]

WorkerSymmetry == Permutations(Workers)

=============================================================================
