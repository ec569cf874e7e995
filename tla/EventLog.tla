------------------------------ MODULE EventLog ------------------------------
(***************************************************************************)
(* The event log of one run, written by concurrent transactions: emit()    *)
(* takes the run's advisory lock in one statement and inserts              *)
(* MAX(seq) + 1 in the next, and the lock lasts as long as the             *)
(* transaction.  Under READ COMMITTED an insert sees what is committed     *)
(* when it starts, and its own transaction's rows.  The executor, its      *)
(* incremental judge, the reaper and a batch's children all write.         *)
(***************************************************************************)
EXTENDS Integers, Sequences, FiniteSetsExt

CONSTANTS
    Writers,     \* transactions that emit to this run, each any number of times
    NoWriter,    \* the advisory lock is free
    MaxEvents    \* bound: events in the log, counting those not committed yet

ASSUME LogAssumption == NoWriter \notin Writers /\ MaxEvents \in Nat

VARIABLES
    rows,    \* the committed rows of run_events, in the order of their commits
    own,     \* each writer's rows, not committed yet
    lock,    \* who holds pg_advisory_xact_lock(hashtext(run_id))
    wpc      \* "open": between two emits; "locked": about to insert

logVars == <<rows, own, lock, wpc>>

\* A done or a fatal error ends a stream; the other types do not.
Kinds == {"frame", "terminal"}

Events == [seq : Nat, kind : Kinds]

LogTypeOK ==
    /\ rows \in Seq(Events)
    /\ own \in [Writers -> Seq(Events)]
    /\ lock \in Writers \cup {NoWriter}
    /\ wpc \in [Writers -> {"open", "locked"}]

LogInit ==
    /\ rows = << >>
    /\ own = [w \in Writers |-> << >>]
    /\ lock = NoWriter
    /\ wpc = [w \in Writers |-> "open"]

\* Mutant of NextSeq: COALESCE(MAX(seq), 1) + 1.
NextSeqFromOne(w) ==
    LET seqs(s) == {s[i].seq : i \in DOMAIN s}
    IN  Max({1} \cup seqs(rows) \cup seqs(own[w])) + 1

\* COALESCE(MAX(seq), 0) + 1 over the rows w sees: the committed and its own.
NextSeq(w) ==
    LET seqs(s) == {s[i].seq : i \in DOMAIN s}
    IN  Max({0} \cup seqs(rows) \cup seqs(own[w])) + 1

\* (run_id, seq) is the primary key: a row another transaction has inserted
\* and not committed makes an insert of the same seq wait, and then fail.
Collides(w) ==
    \E v \in Writers \ {w} : \E i \in DOMAIN own[v] : own[v][i].seq = NextSeq(w)

\* Mutant of Lock: the advisory lock is not taken.
LockNothing(w) ==
    /\ wpc[w] = "open"
    /\ Len(rows) + Len(own[w]) < MaxEvents
    /\ lock' = lock
    /\ wpc' = [wpc EXCEPT ![w] = "locked"]
    /\ UNCHANGED <<rows, own>>

\* The first statement of emit waits for the lock, unless it is its own.
Lock(w) ==
    /\ wpc[w] = "open"
    /\ Len(rows) + Len(own[w]) < MaxEvents
    /\ lock \in {NoWriter, w}
    /\ lock' = w
    /\ wpc' = [wpc EXCEPT ![w] = "locked"]
    /\ UNCHANGED <<rows, own>>

Insert(w, kind) ==
    /\ wpc[w] = "locked"
    /\ ~Collides(w)
    /\ own' = [own EXCEPT ![w] = Append(@, [seq |-> NextSeq(w), kind |-> kind])]
    /\ wpc' = [wpc EXCEPT ![w] = "open"]
    /\ UNCHANGED <<rows, lock>>

\* The rows appear at once, and the lock is free for the next writer.
Unlock(w) == lock' = IF lock = w THEN NoWriter ELSE lock

CommitRows(w) ==
    /\ wpc[w] = "open"
    /\ own[w] # << >>
    /\ rows' = rows \o own[w]
    /\ own' = [own EXCEPT ![w] = << >>]
    /\ Unlock(w)
    /\ UNCHANGED wpc

\* A failure or a crash anywhere in the transaction: as if it never emitted.
Rollback(w) ==
    /\ wpc[w] = "locked" \/ own[w] # << >>
    /\ own' = [own EXCEPT ![w] = << >>]
    /\ Unlock(w)
    /\ wpc' = [wpc EXCEPT ![w] = "open"]
    /\ UNCHANGED rows

-----------------------------------------------------------------------------

\* "A gapless, duplicate-free sequence": commits happen in seq order, so the
\* row committed as the i-th has seq i.  A reader that has seen seq n never
\* finds a smaller one later.
SeqIsPosition == \A i \in DOMAIN rows : rows[i].seq = i

\* "Even when two workers race to write the same run's event log": no emit
\* ever loses its transaction to the primary key, whoever else is writing.
EmitsNeverCollide == \A w \in Writers : wpc[w] = "locked" => ~Collides(w)

=============================================================================
