---------------------------- MODULE BatchRollup -----------------------------
(***************************************************************************)
(* What the rollup promises: the end of calls and the closing of their     *)
(* batch are one atomic change, whatever runs at the same time.  A batch   *)
(* closes with its last call, as cancelled if one of its calls is, and is  *)
(* never written again.  RunTable's Flip is this step.                     *)
(***************************************************************************)

CONSTANTS Children

VARIABLES
    calls,   \* status of each call: "live" or how it ended
    batch    \* "open", "completed" or "cancelled"

vars == <<calls, batch>>

Init == calls = [c \in Children |-> "live"] /\ batch = "open"

CloseAs(st) ==
    IF \E c \in Children : st[c] = "live" THEN "open"
    ELSE IF \E c \in Children : st[c] = "cancelled" THEN "cancelled" ELSE "completed"

\* The calls of S end as s; one that has ended already may be overwritten.
Flip(S, s) ==
    /\ calls' = [c \in Children |-> IF c \in S THEN s ELSE calls[c]]
    /\ batch' = IF batch = "open" THEN CloseAs(calls') ELSE batch

Next == \E S \in SUBSET Children, s \in {"completed", "failed", "cancelled"} : Flip(S, s)

Spec == Init /\ [][Next]_vars

=============================================================================
