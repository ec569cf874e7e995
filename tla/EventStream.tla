----------------------------- MODULE EventStream ----------------------------
(***************************************************************************)
(* The SSE reader of a run's log: GET /v1/runs/{id}/stream.  Each          *)
(* connection replays what is committed after Last-Event-ID, then follows  *)
(* by NOTIFY with a poll as fallback, until it has sent a terminal event.  *)
(* Heartbeat comments carry no event and are left out.                     *)
(* Between two awaits of the generator writers commit and notifications    *)
(* arrive.  What is sent may be lost with the connection; the client comes *)
(* back with the id of the last event it received.                         *)
(***************************************************************************)
EXTENDS EventLog

CONSTANTS
    Clients,
    MaxDrops     \* bound: connections lost

ASSUME ClientsAssumption == MaxDrops \in Nat

VARIABLES
    spc,       \* where event_stream is, for each client
    last,      \* last_seq
    batch,     \* the fetched rows it has not sent yet
    notified,  \* its asyncio.Event
    wire,      \* sent and not received
    got,       \* what the client has received
    drops      \* connections lost so far

streamVars == <<spc, last, batch, notified, wire, got, drops>>
vars == <<rows, own, lock, wpc, spc, last, batch, notified, wire, got, drops>>

Places == {"off", "fetch", "send", "wait", "closed"}

TypeOK ==
    /\ LogTypeOK
    /\ spc \in [Clients -> Places]
    /\ last \in [Clients -> Nat]
    /\ batch \in [Clients -> SUBSET Events]
    /\ notified \in [Clients -> BOOLEAN]
    /\ wire \in [Clients -> Seq(Events)]
    /\ got \in [Clients -> Seq(Events)]
    /\ drops \in Nat

Init ==
    /\ LogInit
    /\ spc = [c \in Clients |-> "off"]
    /\ last = [c \in Clients |-> 0]
    /\ batch = [c \in Clients |-> {}]
    /\ notified = [c \in Clients |-> FALSE]
    /\ wire = [c \in Clients |-> << >>]
    /\ got = [c \in Clients |-> << >>]
    /\ drops = 0

-----------------------------------------------------------------------------

Listening(c) == spc[c] \in {"fetch", "send", "wait"}

\* Mutant of LastEventId: what was sent, received or not.
LastSent(c) == last[c]

\* Last-Event-ID: the browser sends the id of the last event it received.
LastEventId(c) == IF got[c] = << >> THEN 0 ELSE got[c][Len(got[c])].seq

HasTerminal(s) == \E i \in DOMAIN s : s[i].kind = "terminal"

\* stream_run: LISTEN comes before the first fetch.
Open(c) ==
    /\ spc' = [spc EXCEPT ![c] = "fetch"]
    /\ last' = [last EXCEPT ![c] = LastEventId(c)]
    /\ notified' = [notified EXCEPT ![c] = FALSE]
    /\ UNCHANGED <<rows, own, lock, wpc, batch, wire, got, drops>>

Connect(c) ==
    /\ spc[c] = "off"
    /\ Open(c)

\* _fetch_events_after: the rows with seq > last_seq.
Fetch(c) ==
    /\ spc[c] = "fetch"
    /\ batch' = [batch EXCEPT ![c] =
                   {rows[i] : i \in {j \in DOMAIN rows : rows[j].seq > last[c]}}]
    /\ spc' = [spc EXCEPT ![c] = "send"]
    /\ UNCHANGED <<rows, own, lock, wpc, last, notified, wire, got, drops>>

\* ORDER BY seq: the next to be sent is the one with the smallest seq.
Least(e, c) == \A f \in batch[c] : e.seq <= f.seq

\* Mutant of Send: a terminal event is sent like any other.
SendOn(c) ==
    /\ spc[c] = "send"
    /\ \E e \in batch[c] :
          /\ Least(e, c)
          /\ last' = [last EXCEPT ![c] = e.seq]
          /\ wire' = [wire EXCEPT ![c] = Append(@, e)]
          /\ batch' = [batch EXCEPT ![c] = @ \ {e}]
    /\ UNCHANGED <<rows, own, lock, wpc, spc, notified, got, drops>>

\* One yield; a terminal event ends the generator, whatever is left.
Send(c) ==
    /\ spc[c] = "send"
    /\ \E e \in batch[c] :
          /\ Least(e, c)
          /\ last' = [last EXCEPT ![c] = e.seq]
          /\ wire' = [wire EXCEPT ![c] = Append(@, e)]
          /\ \/ /\ e.kind = "terminal"
                /\ spc' = [spc EXCEPT ![c] = "closed"]
                /\ batch' = [batch EXCEPT ![c] = {}]
             \/ /\ e.kind = "frame"
                /\ batch' = [batch EXCEPT ![c] = @ \ {e}]
                /\ UNCHANGED spc
    /\ UNCHANGED <<rows, own, lock, wpc, notified, got, drops>>

\* All sent: notified is cleared, whatever set it since the fetch.
Arm(c) ==
    /\ spc[c] = "send"
    /\ batch[c] = {}
    /\ notified' = [notified EXCEPT ![c] = FALSE]
    /\ spc' = [spc EXCEPT ![c] = "wait"]
    /\ UNCHANGED <<rows, own, lock, wpc, last, batch, wire, got, drops>>

\* wait_for returns: woken, or after POLL_INTERVAL_SECONDS.
Wake(c) ==
    /\ spc[c] = "wait"
    /\ notified[c]
    /\ spc' = [spc EXCEPT ![c] = "fetch"]
    /\ UNCHANGED <<rows, own, lock, wpc, last, batch, notified, wire, got, drops>>

\* Mutants of Poll: the timeout is not handled; only a notification ends the
\* wait.
TimeOut(c) ==
    /\ spc[c] = "wait"
    /\ ~notified[c]
    /\ spc' = [spc EXCEPT ![c] = "timed out"]
    /\ UNCHANGED <<rows, own, lock, wpc, last, batch, notified, wire, got, drops>>

WaitForever(c) == Wake(c)

Poll(c) ==
    /\ spc[c] = "wait"
    /\ ~notified[c]
    /\ spc' = [spc EXCEPT ![c] = "fetch"]
    /\ UNCHANGED <<rows, own, lock, wpc, last, batch, notified, wire, got, drops>>

\* The channel is shared by all runs and carries notifications of each; one
\* of this run may also arrive later than its commit.
NotifyOther(c) ==
    /\ Listening(c)
    /\ ~notified[c]
    /\ notified' = [notified EXCEPT ![c] = TRUE]
    /\ UNCHANGED <<rows, own, lock, wpc, spc, last, batch, wire, got, drops>>

Receive(c) ==
    /\ wire[c] # << >>
    /\ got' = [got EXCEPT ![c] = Append(@, Head(wire[c]))]
    /\ wire' = [wire EXCEPT ![c] = Tail(@)]
    /\ UNCHANGED <<rows, own, lock, wpc, spc, last, batch, notified, drops>>

\* The connection, the proxy or the API process is lost with what was in flight.
Drop(c) ==
    /\ Listening(c) \/ wire[c] # << >>
    /\ drops < MaxDrops
    /\ drops' = drops + 1
    /\ spc' = [spc EXCEPT ![c] = "off"]
    /\ batch' = [batch EXCEPT ![c] = {}]
    /\ wire' = [wire EXCEPT ![c] = << >>]
    /\ UNCHANGED <<rows, own, lock, wpc, last, notified, got>>

\* The server has ended the response; an EventSource nobody closed treats
\* that as a lost connection and reconnects.
Reconnect(c) ==
    /\ spc[c] = "closed"
    /\ wire[c] = << >>
    /\ Open(c)

-----------------------------------------------------------------------------

Begin(w) == Lock(w) /\ UNCHANGED streamVars

Write(w) == (\E kind \in Kinds : Insert(w, kind)) /\ UNCHANGED streamVars

Undo(w) == Rollback(w) /\ UNCHANGED streamVars

\* NOTIFY is delivered with the commit, to every connection that listens.
Commit(w) ==
    /\ CommitRows(w)
    /\ notified' = [c \in Clients |-> notified[c] \/ Listening(c)]
    /\ UNCHANGED <<spc, last, batch, wire, got, drops>>

Stream(c) == Fetch(c) \/ Send(c) \/ Arm(c) \/ Wake(c) \/ Poll(c)

Next ==
    \/ \E w \in Writers : Begin(w) \/ Write(w) \/ Undo(w) \/ Commit(w)
    \/ \E c \in Clients : Connect(c) \/ Stream(c) \/ NotifyOther(c) \/ Receive(c) \/ Drop(c)

Spec == Init /\ [][Next]_vars

\* A client that is not connected reconnects, a connection that is not lost
\* delivers, and the API runs its generators.  Writers owe nothing.
Fairness ==
    \A c \in Clients : WF_vars(Connect(c)) /\ WF_vars(Stream(c)) /\ WF_vars(Receive(c))

FairSpec == Spec /\ Fairness

\* With a client that does not close its EventSource on a terminal event.
ReconnectingSpec ==
    /\ Init
    /\ [][Next \/ \E c \in Clients : Reconnect(c)]_vars
    /\ Fairness

-----------------------------------------------------------------------------

\* A client that drops and resumes any number of times, while writers commit
\* between any two awaits of its generator, receives the log in order, each
\* event once, nothing skipped, and nothing after the first terminal event.
Feed == INSTANCE EventFeed WITH log <- rows, seen <- got
ImplementsFeed == Feed!Spec

\* Committed events arrive, up to the first terminal one, although a
\* notification that comes between the fetch and the wait is discarded.
EveryEventArrives ==
    \A c \in Clients, n \in 1..MaxEvents :
        /\ Len(rows) >= n
        /\ ~HasTerminal(SubSeq(rows, 1, n - 1))
        ~> Len(got[c]) >= n

\* The docstring of event_stream: "Terminates after a `done` event or a
\* fatal `error`".  A stream that is open on a run whose log has one ends.
StreamsEnd ==
    \A c \in Clients : HasTerminal(rows) /\ Listening(c) ~> ~Listening(c)

=============================================================================
