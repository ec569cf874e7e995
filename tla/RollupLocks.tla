---------------------------- MODULE RollupLocks -----------------------------
(***************************************************************************)
(* The calls of one batch ending at the same time, lock by lock: the       *)
(* executors' last transactions, their emits, cancel_run on a call and on  *)
(* the batch, and the reaper.  PostgreSQL's locks, as this code takes      *)
(* them: SELECT ... FOR UPDATE ("strong"), UPDATE (not strong), the key    *)
(* share of the foreign key check of an inserted event, and the advisory   *)
(* lock of emit.  All are kept to the end of the transaction.  A deadlock  *)
(* ends with one of its transactions rolled back.                          *)
(*                                                                         *)
(* A transaction is the sequence of what it still has to wait for.  Calls  *)
(* have started ("live" is claimed or running); resurrections of a         *)
(* cancelled call by a late start are in RunLifecycle.                     *)
(***************************************************************************)
EXTENDS Naturals, Sequences, FiniteSets

CONSTANTS
    Children,   \* the calls of the batch
    Parent,     \* its parent row
    Txs,        \* who runs transactions: a role and its call; the row of a
                \* batch cancel or a reaper only tells it from others
    NoTx        \* a lock nobody has

CallRoles == {"worker", "judge", "user"}
BatchRoles == {"batch", "reaper"}

Rows == Children \cup {Parent}

ASSUME LocksAssumption ==
    /\ IsFiniteSet(Children)
    /\ Parent \notin Children
    /\ Txs \subseteq CallRoles \X Children \cup BatchRoles \X Rows
    /\ NoTx \notin Txs

VARIABLES
    status,    \* committed status of each call
    parent,    \* committed status of the batch: "open" until it closes
    row,       \* who has each row locked, FOR UPDATE or by an UPDATE
    strong,    \* the rows that are locked FOR UPDATE
    share,     \* who has a key share of each call's row
    logs,      \* who has the advisory lock of each call's log
    op,        \* the transaction each of Txs is in
    todo,      \* what it waits for next, and then
    wrote,     \* the calls it has ended, not committed
    closes     \* what it has written to the parent, not committed

vars == <<status, parent, row, strong, share, logs, op, todo, wrote, closes>>

Ended == {"completed", "failed", "cancelled"}

\* The operations, and the status a call gets from each.
EndsAs ==
    [complete |-> "completed", acknowledge |-> "cancelled", fail |-> "failed",
     cancel |-> "cancelled", cancel_batch |-> "cancelled", reap |-> "failed"]

Ops == DOMAIN EndsAs \cup {"emit"}

Requests == [do : {"log", "share", "hold", "write", "roll"}, to : Rows]

Ask(what, x) == [do |-> what, to |-> x]

TypeOK ==
    /\ status \in [Children -> Ended \cup {"live"}]
    /\ parent \in {"open", "completed", "cancelled"}
    /\ row \in [Rows -> Txs \cup {NoTx}]
    /\ strong \in SUBSET Rows
    /\ share \in [Children -> SUBSET Txs]
    /\ logs \in [Children -> Txs \cup {NoTx}]
    /\ op \in [Txs -> Ops \cup {"none", "over"}]
    /\ todo \in [Txs -> Seq(Requests)]
    /\ wrote \in [Txs -> SUBSET Children]
    /\ closes \in [Txs -> {"open", "completed", "cancelled"}]

Init ==
    /\ status = [c \in Children |-> "live"]
    /\ parent = "open"
    /\ row = [x \in Rows |-> NoTx]
    /\ strong = {}
    /\ share = [c \in Children |-> {}]
    /\ logs = [c \in Children |-> NoTx]
    /\ op = [t \in Txs |-> "none"]
    /\ todo = [t \in Txs |-> << >>]
    /\ wrote = [t \in Txs |-> {}]
    /\ closes = [t \in Txs |-> "open"]

-----------------------------------------------------------------------------
(* The transactions. *)

\* emit alone: an event of the call or of its incremental judge.
EmitPlan(c) == <<Ask("log", c), Ask("share", c)>>

\* Mutant of FinishPlan: done is emitted before the row is locked.
LogFirstPlan(c) == <<Ask("log", c), Ask("share", c), Ask("hold", c), Ask("roll", c)>>

\* The last transaction of an executor: the row, done, the rollup.
FinishPlan(c) == <<Ask("hold", c), Ask("log", c), Ask("roll", c)>>

\* Every failure path: the fatal error first, then the row, the rollup.
FailPlan(c) == <<Ask("log", c), Ask("share", c), Ask("write", c), Ask("roll", c)>>

\* cancel_run on a call.
CancelPlan(c) == <<Ask("hold", c), Ask("roll", c)>>

Begin(t, what, plan) ==
    /\ op[t] = "none"
    /\ op' = [op EXCEPT ![t] = what]
    /\ todo' = [todo EXCEPT ![t] = plan]

\* The worker of a call emits its turns, and at last ends it.
Work(t) ==
    /\ t[1] = "worker"
    /\ \/ Begin(t, "emit", EmitPlan(t[2]))
       \/ \E what \in {"complete", "acknowledge"} : Begin(t, what, FinishPlan(t[2]))
       \/ Begin(t, "fail", FailPlan(t[2]))
    /\ UNCHANGED <<status, parent, row, strong, share, logs, wrote, closes>>

JudgeEmits(t) ==
    /\ t[1] = "judge"
    /\ Begin(t, "emit", EmitPlan(t[2]))
    /\ UNCHANGED <<status, parent, row, strong, share, logs, wrote, closes>>

CancelRun(t) ==
    /\ t[1] = "user"
    /\ Begin(t, "cancel", CancelPlan(t[2]))
    /\ UNCHANGED <<status, parent, row, strong, share, logs, wrote, closes>>

\* The parent, then the children in whatever order the UPDATE finds them,
\* then the rollup.
CancelBatch(t) ==
    /\ t[1] = "batch"
    /\ \E order \in [1..Cardinality(Children) -> Children] :
          /\ \A c \in Children : \E i \in DOMAIN order : order[i] = c
          /\ Begin(t, "cancel_batch",
                   <<Ask("hold", Parent)>>
                   \o [i \in DOMAIN order |-> Ask("write", order[i])]
                   \o <<Ask("roll", Parent)>>)
    /\ UNCHANGED <<status, parent, row, strong, share, logs, wrote, closes>>

\* _FIND_STALE_SQL: the stale rows that nobody has locked, all at once.
Lockable == {c \in Children : status[c] = "live" /\ row[c] = NoTx /\ share[c] = {}}

Reap(t) ==
    /\ t[1] = "reaper"
    /\ \E S \in (SUBSET Lockable) \ {{}} : \E order \in [1..Cardinality(S) -> S] :
          /\ \A c \in S : \E i \in DOMAIN order : order[i] = c
          /\ Begin(t, "reap",
                   [i \in 1..(2 * Cardinality(S)) |->
                       Ask(IF i % 2 = 1 THEN "log" ELSE "roll", order[(i + 1) \div 2])])
          /\ row' = [x \in Rows |-> IF x \in S THEN t ELSE row[x]]
          /\ strong' = strong \cup S
    /\ UNCHANGED <<status, parent, share, logs, wrote, closes>>

-----------------------------------------------------------------------------
(* Waiting. *)

\* Whom t waits for before it can go on: the transactions with a lock that
\* conflicts with the one it needs now.
Blockers(t) ==
    IF todo[t] = << >> THEN {}
    ELSE LET want == Head(todo[t]).do
             x    == IF want = "roll" THEN Parent ELSE Head(todo[t]).to
             rowOf    == {row[x]} \ {t, NoTx}
             sharesOf == IF x \in Children THEN share[x] \ {t} ELSE {}
         IN  CASE want = "log"   -> {logs[x]} \ {t, NoTx}
               [] want = "share" -> IF x \in strong THEN rowOf ELSE {}
               [] want = "write" -> rowOf
               [] OTHER          -> rowOf \cup sharesOf

Asks(t, what) == todo[t] # << >> /\ Head(todo[t]).do = what /\ Blockers(t) = {}

Proceed(t) == todo' = [todo EXCEPT ![t] = Tail(@)]

Target(t) == Head(todo[t]).to

TakeLog(t) ==
    /\ Asks(t, "log")
    /\ logs' = [logs EXCEPT ![Target(t)] = t]
    /\ Proceed(t)
    /\ UNCHANGED <<status, parent, row, strong, share, op, wrote, closes>>

TakeShare(t) ==
    /\ Asks(t, "share")
    /\ share' = [share EXCEPT ![Target(t)] = @ \cup {t}]
    /\ Proceed(t)
    /\ UNCHANGED <<status, parent, row, strong, logs, op, wrote, closes>>

\* May t go on with the row it has just locked FOR UPDATE?  A cancel needs it
\* not to have ended, an executor leaves a reaped or completed call alone,
\* and only some executors a cancelled one.
GoesOn(t) ==
    CASE Target(t) = Parent -> parent = "open"
      [] op[t] = "cancel"   -> status[Target(t)] = "live"
      [] OTHER              -> status[Target(t)] \in {"live", "cancelled"}

Hold(t) ==
    /\ Asks(t, "hold")
    /\ GoesOn(t)
    /\ row' = [row EXCEPT ![Target(t)] = t]
    /\ strong' = strong \cup {Target(t)}
    /\ Proceed(t)
    /\ UNCHANGED <<status, parent, share, logs, op, wrote, closes>>

\* An UPDATE of a call: a batch cancel only writes the calls that are live
\* when it gets to them, a failing executor writes its call in any case.
Write(t) ==
    /\ Asks(t, "write")
    /\ \/ /\ op[t] = "fail" \/ status[Target(t)] = "live"
          /\ row' = [row EXCEPT ![Target(t)] = t]
          /\ wrote' = [wrote EXCEPT ![t] = @ \cup {Target(t)}]
       \/ /\ op[t] # "fail" /\ status[Target(t)] # "live"
          /\ UNCHANGED <<row, wrote>>
    /\ Proceed(t)
    /\ UNCHANGED <<status, parent, strong, share, logs, op, closes>>

\* What t sees of the calls: the committed rows and what it wrote itself.
View(t, mine) ==
    [c \in Children |-> IF c \in mine THEN EndsAs[op[t]] ELSE status[c]]

\* Mutant of Tally: a failed call fails its batch.
TallyFailed(view) ==
    IF \E c \in Children : view[c] = "live" THEN "open"
    ELSE IF \E c \in Children : view[c] = "failed" THEN "failed" ELSE "completed"

\* The status t closes the parent with, or "open".
Tally(view) ==
    IF \E c \in Children : view[c] = "live" THEN "open"
    ELSE IF \E c \in Children : view[c] = "cancelled" THEN "cancelled" ELSE "completed"

\* Mutant of RollUp: FOR UPDATE on the parent is dropped.
RollUpUnlocked(t) ==
    /\ todo[t] # << >>
    /\ Head(todo[t]).do = "roll"
    /\ LET mine == wrote[t] \cup ({Target(t)} \cap Children)
       IN  /\ wrote' = [wrote EXCEPT ![t] = mine]
           /\ closes' = [closes EXCEPT ![t] =
                            IF parent = "open" THEN Tally(View(t, mine)) ELSE @]
    /\ Proceed(t)
    /\ UNCHANGED <<status, parent, row, strong, share, logs, op>>

\* _close_if_done: the parent's lock, then the tally; a closed parent is left
\* alone.  The call's own UPDATE comes just before.
RollUp(t) ==
    /\ Asks(t, "roll")
    /\ LET mine == wrote[t] \cup ({Target(t)} \cap Children)
       IN  /\ wrote' = [wrote EXCEPT ![t] = mine]
           /\ closes' = [closes EXCEPT ![t] =
                            IF parent = "open" THEN Tally(View(t, mine)) ELSE @]
    /\ row' = [row EXCEPT ![Parent] = t]
    /\ strong' = strong \cup {Parent}
    /\ Proceed(t)
    /\ UNCHANGED <<status, parent, share, logs, op>>

-----------------------------------------------------------------------------
(* Endings. *)

\* The end of t's transaction: all its locks are free.
Free(t) ==
    /\ row' = [x \in Rows |-> IF row[x] = t THEN NoTx ELSE row[x]]
    /\ strong' = {x \in strong : row[x] # t}
    /\ share' = [c \in Children |-> share[c] \ {t}]
    /\ logs' = [c \in Children |-> IF logs[c] = t THEN NoTx ELSE logs[c]]
    /\ wrote' = [wrote EXCEPT ![t] = {}]
    /\ closes' = [closes EXCEPT ![t] = "open"]

\* An emit is followed by others, a reap by the next tick; the rest is over.
Done(t) ==
    /\ op' = [op EXCEPT ![t] = IF @ \in {"emit", "reap"} THEN "none" ELSE "over"]
    /\ todo' = [todo EXCEPT ![t] = << >>]

Commit(t) ==
    /\ op[t] \in Ops
    /\ todo[t] = << >>
    /\ status' = [c \in Children |-> IF c \in wrote[t] THEN EndsAs[op[t]] ELSE status[c]]
    /\ parent' = IF closes[t] # "open" THEN closes[t] ELSE parent
    /\ Free(t)
    /\ Done(t)

\* The guard says no (and may for a cancelled call): the transaction ends.
GiveUp(t) ==
    /\ Asks(t, "hold")
    /\ ~GoesOn(t) \/ (op[t] = "complete" /\ status[Target(t)] = "cancelled")
    /\ Free(t)
    /\ Done(t)
    /\ UNCHANGED <<status, parent>>

Waiting == {t \in Txs : Blockers(t) # {}}

\* Every member waits for a member.
Stuck(D) == D # {} /\ \A t \in D : Blockers(t) \cap D # {}

Deadlocked(t) == t \in Waiting /\ \E D \in SUBSET Waiting : t \in D /\ Stuck(D)

\* The deadlock detector rolls t back.  An executor takes the exception for a
\* failure to score or record the call; a failing one dies of it, a request
\* is answered with an error, and the reaper's loop ends.
Victim(t) ==
    /\ Deadlocked(t)
    /\ Free(t)
    /\ \/ /\ op[t] \in {"complete", "acknowledge"}
          /\ op' = [op EXCEPT ![t] = "fail"]
          /\ todo' = [todo EXCEPT ![t] = FailPlan(t[2])]
       \/ /\ op' = [op EXCEPT ![t] = "over"]
          /\ todo' = [todo EXCEPT ![t] = << >>]
    /\ UNCHANGED <<status, parent>>

\* The worker's process is lost.
Crash(t) ==
    /\ t[1] = "worker"
    /\ op[t] # "over"
    /\ Free(t)
    /\ op' = [op EXCEPT ![t] = "over"]
    /\ todo' = [todo EXCEPT ![t] = << >>]
    /\ UNCHANGED <<status, parent>>

Take(t) == TakeLog(t) \/ TakeShare(t) \/ Hold(t) \/ Write(t) \/ RollUp(t) \/ GiveUp(t)

Start(t) == Work(t) \/ JudgeEmits(t) \/ CancelRun(t) \/ CancelBatch(t) \/ Reap(t)

Next == \E t \in Txs : Start(t) \/ Take(t) \/ Commit(t) \/ Victim(t) \/ Crash(t)

Spec == Init /\ [][Next]_vars

-----------------------------------------------------------------------------

\* "Without this lock each transaction's tally can miss the other's
\* not-yet-committed update and neither ever closes the parent": with it,
\* what commits is the atomic rollup of RunTable, for any interleaving of
\* finishing, failing, cancelled and reaped calls, rollbacks included.
Rollup == INSTANCE BatchRollup WITH calls <- status, batch <- parent

ImplementsRollup == Rollup!Spec

\* The order call row, call log, parent row is safe: finishing calls, cancels
\* of single calls and the reaper never deadlock with each other.  It takes a
\* batch cancel (parent before calls) or a log before the row of the same call.
RowFirstNeverDeadlocks ==
    \A D \in SUBSET Waiting :
        Stuck(D) => \E t \in D : op[t] \in {"cancel_batch", "fail", "emit"}

=============================================================================
