---------------------------- MODULE DeltaPolling ----------------------------
(***************************************************************************)
(* GET /v1/runs?fields=light (app/api/runs.py: _run_delta), the poll that  *)
(* keeps a page of a batch's calls up to date while the calls go on.  An   *)
(* answer has the batch's aggregate, the calls whose updated_at is past    *)
(* `since', and an ETag; the client polls again with both, and is told     *)
(* "not modified" if the ETag still fits.  updated_at is set by a trigger  *)
(* (migration 007) to now(), the time the transaction BEGAN; a row is      *)
(* visible when it has COMMITTED.  The three statements of a poll each see *)
(* what is committed when they run.  The answer has no cursor: `since' is  *)
(* the time at which the client sent its last answered poll.               *)
(***************************************************************************)
EXTENDS Integers, FiniteSets, FiniteSetsExt

CONSTANTS
  Polled,          \* the calls of the batch
  Transactions,    \* the transactions that change them
  RowCap,          \* _DELTA_ROW_CAP
  MaxTime          \* bound: transactions begun

\* A batch without calls is refused.
ASSUME DeltaAssumption ==
  IsFiniteSet(Polled) /\ Polled # {} /\ RowCap \in Nat \ {0} /\ MaxTime \in Nat

VARIABLES
  now,       \* the database's clock
  calls,     \* the committed rows: [status, badge, updated (updated_at)]
  open,      \* per transaction: the call and what it writes, and when it began
  poll,      \* the poll under way: what it was sent with and has read so far
  page,      \* what the client shows and holds: rows, aggregate, etag, since
  late,      \* calls that a transaction was writing when a poll read
  cut,       \* calls that the row cap cut off an answer
  current    \* no commit since the last poll read

deltaVars == <<now, calls, open, poll, page, late, cut, current>>

Closed == [call |-> "none", began |-> 0]
NoPoll == [at |-> "idle"]
Idle == "idle"
UnknownRow == [status |-> "unknown", badge |-> Idle]
NoAggregate == [calls |-> 0]

\* verdict_for_run.
Verdict(status, badge) ==
  CASE status = "completed" -> badge
    [] status \in {"failed", "cancelled"} -> "fail"
    [] OTHER -> "idle"

\* _reduce_aggregate: counts by status, and how many of the scored calls passed.
VerdictOf(c) == Verdict(calls[c].status, calls[c].badge)
Aggregate ==
  [calls  |-> Cardinality(Polled),
   counts |-> [s \in {calls[c].status : c \in Polled} |->
                 Cardinality({c \in Polled : calls[c].status = s})],
   passed |-> Cardinality({c \in Polled : VerdictOf(c) = "pass"}),
   scored |-> Cardinality({c \in Polled : VerdictOf(c) # "idle"})]

\* _delta_etag; the number of calls never changes.
ETag == Max({calls[c].updated : c \in Polled})

Shown(c) == [status |-> calls[c].status, badge |-> calls[c].badge]

DeltaInit ==
  /\ now = 1
  /\ calls = [c \in Polled |-> [status |-> "queued", badge |-> Idle, updated |-> 1]]
  /\ open = [t \in Transactions |-> Closed]
  /\ poll = NoPoll
  /\ page = [rows |-> [c \in Polled |-> UnknownRow], aggregate |-> NoAggregate, etag |-> 0, since |-> 0]
  /\ late = {} /\ cut = {} /\ current = FALSE

-----------------------------------------------------------------------------
(* The writers: the claim, an executor, the reaper, a cancel.  One that finds the
   row locked waits, and began before the one it waits for committed. *)

NextRow(c) ==
  CASE calls[c].status = "queued"  -> {<<"running", Idle>>, <<"cancelled", Idle>>}
    [] calls[c].status = "running" -> {<<"completed", "pass">>, <<"failed", Idle>>, <<"cancelled", Idle>>}
    [] OTHER -> {}

BeginChange(t, c) ==
  /\ open[t] = Closed /\ now < MaxTime
  /\ now' = now + 1
  /\ open' = [open EXCEPT ![t] = [call |-> c, began |-> now + 1]]
  /\ UNCHANGED <<calls, poll, page, late, cut, current>>

Writing(t, c) == open[t].call = c

CommitChange(t) ==
  /\ open[t] # Closed
  /\ \E row \in NextRow(open[t].call) :
       calls' = [calls EXCEPT ![open[t].call] =
                   [status |-> row[1], badge |-> row[2], updated |-> open[t].began]]
  /\ open' = [open EXCEPT ![t] = Closed] /\ current' = FALSE
  /\ UNCHANGED <<now, poll, page, late, cut>>

\* It finds nothing to do, or is lost.
RollBack(t) ==
  /\ open[t] # Closed /\ open' = [open EXCEPT ![t] = Closed]
  /\ UNCHANGED <<now, calls, poll, page, late, cut, current>>

-----------------------------------------------------------------------------
(* A poll: the ETag, then the aggregate, then the rows. *)

BeingWritten == {c \in Polled : \E t \in Transactions : Writing(t, c)}

\* _DELTA_STATE_SQL.  The client may leave `since' out (0), but not the ETag it has.
PollState(since) ==
  /\ poll = NoPoll /\ since \in {0, page.since}
  /\ current' = TRUE
  /\ IF ETag = page.etag
       THEN late' = late \union BeingWritten /\ UNCHANGED poll     \* 304
       ELSE /\ poll' = [at |-> "aggregate", since |-> since, etag |-> ETag, sent |-> now,
                        aggregate |-> NoAggregate, writing |-> BeingWritten]
            /\ UNCHANGED late
  /\ UNCHANGED <<now, calls, open, page, cut>>

\* _compute_aggregate
PollAggregate ==
  /\ poll.at = "aggregate"
  /\ poll' = [poll EXCEPT !.at = "rows", !.aggregate = Aggregate]
  /\ UNCHANGED <<now, calls, open, page, late, cut, current>>

\* _DELTA_ROWS_SQL: ORDER BY updated_at DESC LIMIT.
Changed(since) == {c \in Polled : since = 0 \/ calls[c].updated > since}
Newest(cs) == {c \in cs : Cardinality({d \in cs : calls[d].updated > calls[c].updated}) < RowCap}

\* Mutant of AnswerTag: the ETag is computed when the answer is complete.
TagOfTheEnd == ETag

\* The ETag of the answer is the one read first.
AnswerTag == poll.etag

PollRows ==
  /\ poll.at = "rows"
  /\ \E answer \in kSubset(Min({RowCap, Cardinality(Changed(poll.since))}), Newest(Changed(poll.since))) :
       /\ \A c \in Newest(Changed(poll.since)), d \in answer :
            c \notin answer => calls[c].updated <= calls[d].updated
       /\ page' = [rows |-> [c \in Polled |-> IF c \in answer THEN Shown(c) ELSE page.rows[c]],
                   aggregate |-> poll.aggregate, etag |-> AnswerTag, since |-> poll.sent]
       /\ late' = (late \ answer) \union poll.writing
       /\ cut' = (cut \ answer) \union (Changed(poll.since) \ answer)
  /\ poll' = NoPoll
  /\ UNCHANGED <<now, calls, open, current>>

DeltaNext ==
  \/ \E t \in Transactions, c \in Polled : BeginChange(t, c)
  \/ \E t \in Transactions : CommitChange(t) \/ RollBack(t)
  \/ \E since \in {0, page.since} : PollState(since)
  \/ PollAggregate \/ PollRows

DeltaSpec == DeltaInit /\ [][DeltaNext]_deltaVars
-----------------------------------------------------------------------------
\* When a poll has been answered and nothing was committed since it read, the page shows
\* every call and the aggregate as they are, whatever was committed between the poll's
\* own statements, but for a change that was being written while this or an earlier poll
\* read (its updated_at is then before the cursor, or before the ETag's maximum) and a
\* call that the row cap cut off.
PageSettles ==
  (poll = NoPoll /\ current) =>
    /\ \A c \in Polled : page.rows[c] = Shown(c) \/ c \in late \union cut
    /\ page.aggregate = Aggregate \/ late # {}
=============================================================================
