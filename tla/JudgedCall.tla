----------------------------- MODULE JudgedCall ------------------------------
(***************************************************************************)
(* What is kept of a simulated call: the run's log, to which on_turn, the  *)
(* incremental judge and the final transaction append                      *)
(* (app/engine/executor/simulation.py), the rows materialize_run makes of  *)
(* it (app/workers/materialize.py), and the run's page, which reduces the  *)
(* log anew (_reduce_events in app/api/runs.py).  The judges number turns  *)
(* by their place in the call's transcript, the rows by the log.  The log  *)
(* is kept by type, as its readers select it.                              *)
(***************************************************************************)
EXTENDS PersonaCall, SequencesExt

CONSTANTS LiveAnswers,    \* what the incremental judge may say: sets of words
          FinalAnswers,   \* what the final judge may say
          MaxFlips        \* bound: assertion frames of the incremental judge

\* A word is a status for an assertion; an answer is a list, with one word on
\* each at most.
ASSUME JudgedAssumption ==
  /\ MaxFlips \in Nat
  /\ \A said \in LiveAnswers \union FinalAnswers :
       IsFiniteSet(said) /\ \A v, w \in said : v.about = w.about => v = w

VARIABLES
  turnLog,      \* the turn frames of run_events: the line each is about
  wordLog,      \* its assertion frames, in order
  atDone,       \* how many of them there were when done was emitted, or Never
  flips,        \* how many are the incremental judge's
  live,         \* pending_incremental: whether its task is under way
  row,          \* the run's status
  stage,        \* how far the executor is
  verdict,      \* final_verdict.assertions
  tables,       \* turns and assertion_results of the run
  disturbed     \* lines recorded at the same time as another one, cut off or failed

recordVars == <<turnLog, wordLog, atDone, flips, live, row, stage, verdict, tables,
                disturbed>>

Never == -1
NoRows == [written |-> FALSE, turns |-> << >>, assertions |-> << >>]

RecordInit ==
  /\ turnLog = << >> /\ wordLog = << >> /\ atDone = Never /\ flips = 0 /\ live = FALSE
  /\ row = "running" /\ stage = "call" /\ verdict = {} /\ tables = NoRows /\ disturbed = {}

\* Lines whose on_turn is under way.
InProgress == (IF frame = 0 THEN {} ELSE {frame})
              \union {task[t].line : t \in {u \in Tasks : task[u].at = "recording"}}

(***************************************************************************)
(* The call: the lines a step has recorded are appended in any order, and  *)
(* an agent's line starts the incremental judge unless it is at work.  A   *)
(* cancel that the watcher sees may as well have come when it is seen.     *)
(***************************************************************************)
JudgedCallStep ==
  /\ stage = "call" /\ CallNext
  /\ row' = IF cancelSet' THEN "cancelled" ELSE row
  /\ \E order \in SetToSeqs(recorded' \ recorded) : turnLog' = turnLog \o order
  /\ live' = (live \/ (frame # 0 /\ frame \in recorded' \ recorded))
  /\ disturbed' = disturbed \union (IF Cardinality(InProgress') > 1 THEN InProgress' ELSE {})
                            \union (InProgress \ (InProgress' \union recorded'))
  /\ UNCHANGED <<wordLog, atDone, flips, stage, verdict, tables>>

\* run_incremental: the flips in one transaction.
LiveVerdict ==
  /\ live /\ live' = FALSE
  /\ \E said \in LiveAnswers : \E words \in SetToSeqs(said) :
       /\ flips + Len(words) <= MaxFlips /\ flips' = flips + Len(words)
       /\ wordLog' = wordLog \o words
  /\ UNCHANGED <<callVars, turnLog, atDone, row, stage, verdict, tables, disturbed>>

\* Its transaction fails, which the executor meets when it waits for the task
\* and nowhere else: no handler of its own catches it.
LiveWriteFails ==
  /\ live /\ live' = FALSE
  /\ stage' = IF stage = "waiting" THEN "over" ELSE stage
  /\ UNCHANGED <<callVars, turnLog, wordLog, atDone, flips, row, verdict, tables, disturbed>>

\* run_persona_call has returned: a judge at work is given 30 seconds.
CallOver ==
  /\ stage = "call" /\ closed /\ stage' = IF live THEN "waiting" ELSE "scoring"
  /\ UNCHANGED <<callVars, turnLog, wordLog, atDone, flips, live, row, verdict, tables, disturbed>>

Waited ==
  /\ stage = "waiting" /\ stage' = "scoring"
  /\ UNCHANGED <<callVars, turnLog, wordLog, atDone, flips, live, row, verdict, tables, disturbed>>

\* The user cancels too late for the watcher, or the reaper finds no heartbeat;
\* nothing before the last transaction looks at the row.
RowChanges ==
  /\ stage = "scoring" /\ row = "running" /\ row' \in {"cancelled", "failed"}
  /\ UNCHANGED <<callVars, turnLog, wordLog, atDone, flips, live, stage, verdict, tables, disturbed>>

\* The last word on each assertion, which the upserts of materialize_run and the
\* dictionary of _reduce_events come to.
Named(words) == {words[i].about : i \in DOMAIN words}
LastWords(words) ==
  [a \in Named(words) |->
     LET places == {i \in DOMAIN words : words[i].about = a}
     IN words[CHOOSE i \in places : \A j \in places : j <= i].status]

\* Mutant of Materialized: ON CONFLICT DO NOTHING.
MaterializedOnce(turns, words) ==
  [written |-> TRUE, turns |-> turns, assertions |-> LastWords(Reverse(words))]

\* materialize_run
Materialized(turns, words) ==
  [written |-> TRUE, turns |-> turns, assertions |-> LastWords(words)]

\* The last transaction, or its early return: the row decides, under its lock.
FinishAs(status, accepted, words) ==
  /\ stage = "scoring" /\ stage' = "over"
  /\ IF row \in accepted
       THEN /\ wordLog' = wordLog \o words /\ atDone' = Len(wordLog')
            /\ tables' = Materialized(turnLog, wordLog')
            /\ row' = status
       ELSE UNCHANGED <<wordLog, atDone, tables, row>>
  /\ UNCHANGED <<callVars, turnLog, flips, live, disturbed>>

FinishCancelledCall ==
  /\ cancelSet /\ FinishAs("cancelled", {"running", "cancelled"}, << >>) /\ UNCHANGED verdict

FinishJudgedCall ==
  /\ ~cancelSet
  /\ \E said \in FinalAnswers : \E words \in SetToSeqs(said) :
       verdict' = said /\ FinishAs("completed", {"running"}, words)

\* run_persona_call, the final judge or the last transaction raises.
JudgedCallFails ==
  /\ closed /\ stage \in {"call", "scoring"} /\ stage' = "over" /\ row' = "failed"
  /\ UNCHANGED <<callVars, turnLog, wordLog, atDone, flips, live, verdict, tables, disturbed>>

JudgedNext ==
  \/ JudgedCallStep \/ LiveVerdict \/ LiveWriteFails \/ CallOver \/ Waited \/ RowChanges
  \/ FinishCancelledCall \/ FinishJudgedCall \/ JudgedCallFails

JudgedSpec == CallInit /\ RecordInit /\ [][JudgedNext]_<<callVars, recordVars>>
-----------------------------------------------------------------------------
\* The incremental judge has written of a after the executor's done.
IsLate(a) == \E i \in DOMAIN wordLog : i > atDone /\ wordLog[i].about = a

\* A call is recorded once its executor has ended it, and then the final judge's
\* word is what the rows have of an assertion, whatever the incremental one wrote
\* and when; the run's page shows the same, turn by turn, except for an assertion
\* the incremental judge flipped after done, which nothing puts back.  Turn i of
\* the rows is line i of the transcript, which the judges' turn numbers refer to,
\* as long as no line up to it was recorded beside another, cut off or failed.
RecordIsTheCall ==
  /\ row = "completed" => tables.written
  /\ tables.written =>
       /\ \A w \in verdict : w.about \in DOMAIN tables.assertions
                              /\ tables.assertions[w.about] = w.status
       /\ tables.turns = turnLog
       /\ \A a \in Named(wordLog) : ~IsLate(a) =>
            a \in DOMAIN tables.assertions /\ tables.assertions[a] = LastWords(wordLog)[a]
       /\ \A i \in DOMAIN transcript : (1 .. i) \intersect disturbed = {} =>
            i \in DOMAIN tables.turns /\ tables.turns[i] = i
=============================================================================
