----------------------------- MODULE EventFeed ------------------------------
(***************************************************************************)
(* What a run's event stream promises: the log only grows, and every       *)
(* client is shown a prefix of it, event by event and never one twice,     *)
(* that ends with the first terminal event, whatever connections it takes. *)
(***************************************************************************)
EXTENDS Integers, Sequences

CONSTANTS Clients

VARIABLES
    log,    \* the events of the run, in order
    seen    \* what each client has received

vars == <<log, seen>>

Init == log = << >> /\ seen = [c \in Clients |-> << >>]

\* A transaction with one or more events commits.
Publish ==
    /\ Len(log') > Len(log)
    /\ \A i \in 1..Len(log) : log'[i] = log[i]
    /\ UNCHANGED seen

Deliver(c) ==
    /\ Len(seen[c]) < Len(log)
    /\ \A i \in DOMAIN seen[c] : seen[c][i].kind # "terminal"
    /\ seen' = [seen EXCEPT ![c] = Append(@, log[Len(@) + 1])]
    /\ UNCHANGED log

Next == Publish \/ \E c \in Clients : Deliver(c)

Spec == Init /\ [][Next]_vars

=============================================================================
