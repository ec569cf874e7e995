----------------------------- MODULE PersonaCall -----------------------------
(***************************************************************************)
(* PersonaRunner (app/engine/caller/persona_call.py): the frame processor  *)
(* that drives one call.  Three activities interleave at their awaits: the *)
(* handling of one frame of the agent's (serial, it awaits on_turn), the   *)
(* task _advance_after and the task _check_silence, both of which end in   *)
(* _speak_next: ask the planner, record the line with on_turn, push it to  *)
(* the TTS.  What the lines say is left out: a line is its index in the    *)
(* transcript.  The planner is a module of its own (Attacker, Explorer) or *)
(* the persona model, any answer of which is possible.                     *)
(***************************************************************************)
EXTENDS Integers, Sequences, FiniteSets

CONSTANTS MaxTurns,         \* max_turns of the call
          MaxNudges,        \* MAX_SILENT_NUDGES
          SilenceChecks,    \* whether silence_timeout_secs was given
          MaxHeard,         \* bound: lines of the agent
          MaxFaults         \* bound: failed planner calls and recordings

ASSUME CallAssumption == /\ MaxTurns \in Nat /\ MaxNudges \in Nat
                         /\ MaxHeard \in Nat /\ MaxFaults \in Nat
                         /\ SilenceChecks \in BOOLEAN

VARIABLES
  transcript,   \* _transcript: who said each line
  recorded,     \* lines whose on_turn committed
  task,         \* _pending_advance and _pending_silence_check
  frame,        \* the agent line whose process_frame awaits on_turn, or 0
  started, done, endReason, turnsTaken, nudges,
  cancelSet,    \* cancel_event
  closed,       \* runner.run(worker) has returned
  faults

callVars == <<transcript, recorded, task, frame, started, done, endReason,
              turnsTaken, nudges, cancelSet, closed, faults>>

Tasks == {"advance", "silence"}
Idle == [at |-> "none", line |-> 0, complete |-> FALSE]
Sleeping == [Idle EXCEPT !.at = "sleeping"]
\* Asking the planner, which is shown the first `seen' lines.
Asking(seen) == [at |-> "asking", line |-> seen, complete |-> FALSE]
Recording(line, complete) == [at |-> "recording", line |-> line, complete |-> complete]
Running == ~closed
Waiting == {t \in Tasks : task[t].at = "asking"}

CallInit ==
  /\ transcript = << >> /\ recorded = {}
  /\ task = [t \in Tasks |-> Idle]
  /\ frame = 0 /\ started = FALSE /\ done = FALSE /\ endReason = "none"
  /\ turnsTaken = 0 /\ nudges = 0 /\ cancelSet = FALSE
  /\ closed = FALSE /\ faults = 0

(***************************************************************************)
(* _done, end_reason and EndFrame are always set together.                 *)
(***************************************************************************)
EndCall(reason) == done' = TRUE /\ endReason' = reason
GoOn == UNCHANGED <<done, endReason>>

\* _maybe_end_for_cancellation
CancelNoticed == ~done /\ cancelSet

\* A task cancelled while it records has recorded its line or not.
CancelledRecording(t) ==
  IF task[t].at = "recording" THEN {recorded, recorded \union {task[t].line}}
                              ELSE {recorded}

\* ClientConnectedFrame: the first one schedules the opening.
Connect ==
  /\ Running /\ ~started /\ started' = TRUE
  /\ task' = IF done THEN task ELSE [task EXCEPT !["advance"] = Sleeping]
  /\ UNCHANGED <<transcript, recorded, frame, turnsTaken, nudges, cancelSet,
                 closed, faults>> /\ GoOn

HeardSoFar == Cardinality({i \in DOMAIN transcript : transcript[i] = "agent"})

\* TranscriptionFrame, up to the await of on_turn.
Hear ==
  /\ Running /\ frame = 0 /\ HeardSoFar < MaxHeard
  /\ transcript' = Append(transcript, "agent")
  /\ frame' = Len(transcript')
  /\ nudges' = 0
  /\ recorded' \in CancelledRecording("silence")
  /\ task' = [task EXCEPT !["silence"] = Idle]
  /\ UNCHANGED <<started, turnsTaken, cancelSet, closed, faults>> /\ GoOn

\* ... and from its return: _maybe_end_for_cancellation, or _schedule_advance,
\* which cancels the pending task wherever it is.
HeardRecorded ==
  /\ Running /\ frame # 0
  /\ frame' = 0
  /\ IF CancelNoticed
       THEN /\ EndCall("cancelled") /\ UNCHANGED task
            /\ recorded' = recorded \union {frame}
       ELSE /\ GoOn
            /\ IF done THEN UNCHANGED task /\ recorded' = recorded \union {frame}
               ELSE /\ task' = [task EXCEPT !["advance"] = Sleeping]
                    /\ \E r \in CancelledRecording("advance") : recorded' = r \union {frame}
  /\ UNCHANGED <<transcript, started, turnsTaken, nudges, cancelSet, closed, faults>>

\* on_turn raises in process_frame: the line stays unanswered.
HeardFails ==
  /\ Running /\ frame # 0 /\ faults < MaxFaults
  /\ frame' = 0 /\ faults' = faults + 1
  /\ UNCHANGED <<transcript, recorded, task, started, turnsTaken, nudges,
                 cancelSet, closed>> /\ GoOn

(***************************************************************************)
(* A sleeping task wakes and runs to its first await.  `reply' is          *)
(* "wait" when the planner has to ask its model, else the line it returns  *)
(* at once: "line", or "last" with call_complete.                          *)
(***************************************************************************)
Say(t, complete) ==
  /\ turnsTaken' = turnsTaken + 1
  /\ transcript' = Append(transcript, "caller")
  /\ task' = [task EXCEPT ![t] = Recording(Len(transcript'), complete)]

\* Mutant of OutOfTurns: one turn too many is let through.
OneMoreTurn == turnsTaken > MaxTurns
OutOfTurns == turnsTaken >= MaxTurns

SpeakNext(t, reply) ==
  IF CancelNoticed \/ done \/ OutOfTurns
    THEN /\ task' = [task EXCEPT ![t] = Idle]
         /\ IF done THEN GoOn
            ELSE EndCall(IF CancelNoticed THEN "cancelled" ELSE "timeout")
         /\ UNCHANGED <<transcript, turnsTaken>>
    ELSE /\ GoOn
         /\ IF reply = "wait"
              THEN /\ task' = [task EXCEPT ![t] = Asking(Len(transcript))]
                   /\ UNCHANGED <<transcript, turnsTaken>>
              ELSE Say(t, reply = "last")

\* Whether a task that wakes gets as far as the planner.
WillAsk == ~done /\ ~cancelSet /\ ~OutOfTurns

WakeAdvance(reply) ==
  /\ Running /\ task["advance"].at = "sleeping"
  /\ SpeakNext("advance", reply)
  /\ UNCHANGED <<recorded, frame, started, nudges, cancelSet, closed, faults>>

TooManyNudges == nudges >= MaxNudges

WakeSilence(reply) ==
  /\ Running /\ task["silence"].at = "sleeping"
  /\ nudges' = IF done THEN nudges ELSE nudges + 1
  /\ IF ~done /\ TooManyNudges
       THEN /\ EndCall("timeout") /\ task' = [task EXCEPT !["silence"] = Idle]
            /\ UNCHANGED <<transcript, turnsTaken>>
       ELSE SpeakNext("silence", reply)
  /\ UNCHANGED <<recorded, frame, started, cancelSet, closed, faults>>

\* The planner's model has answered.
Answer(t, complete) ==
  /\ Running /\ task[t].at = "asking"
  /\ Say(t, complete)
  /\ UNCHANGED <<recorded, frame, started, nudges, cancelSet, closed, faults>>
  /\ GoOn

\* The planner raises: the task dies and nothing is scheduled.
PlannerFails(t) ==
  /\ Running /\ task[t].at = "asking" /\ faults < MaxFaults
  /\ task' = [task EXCEPT ![t] = Idle] /\ faults' = faults + 1
  /\ UNCHANGED <<transcript, recorded, frame, started, turnsTaken, nudges,
                 cancelSet, closed>> /\ GoOn

\* Mutant of TasksAfter: nobody waits for the agent's answer.
NoSilenceCheck(t, last) == [task EXCEPT ![t] = Idle]

\* _schedule_silence_check
TasksAfter(t, last) ==
  IF SilenceChecks /\ ~done /\ ~last THEN [task EXCEPT ![t] = Idle, !["silence"] = Sleeping]
                                    ELSE [task EXCEPT ![t] = Idle]

\* on_turn returns: the line is pushed unless the call was cancelled meanwhile.
\* A silence check cancels its predecessor, which may be the task itself.
LineRecorded(t) ==
  /\ Running /\ task[t].at = "recording"
  /\ LET line == task[t].line
         last == task[t].complete
         idle == [task EXCEPT ![t] = Idle]
         next == TasksAfter(t, last)
         lost == IF next # idle /\ t = "advance" THEN CancelledRecording("silence")
                                                 ELSE {recorded}
     IN IF CancelNoticed
          THEN /\ EndCall("cancelled") /\ task' = idle
               /\ recorded' = recorded \union {line}
          ELSE /\ IF last THEN EndCall("caller_ended") ELSE GoOn
               /\ task' = next
               /\ \E r \in lost : recorded' = r \union {line}
  /\ UNCHANGED <<transcript, frame, started, turnsTaken, nudges, cancelSet, closed, faults>>

\* on_turn raises in a task.
LineFails(t) ==
  /\ Running /\ task[t].at = "recording" /\ faults < MaxFaults
  /\ task' = [task EXCEPT ![t] = Idle] /\ faults' = faults + 1
  /\ UNCHANGED <<transcript, recorded, frame, started, turnsTaken, nudges,
                 cancelSet, closed>> /\ GoOn

\* The executor's watcher has seen the cancelled row.
Cancel ==
  /\ Running /\ ~cancelSet /\ cancelSet' = TRUE
  /\ UNCHANGED <<transcript, recorded, task, frame, started, turnsTaken, nudges,
                 closed, faults>> /\ GoOn

\* run_persona_call returns: an EndFrame has gone through the pipeline, or
\* run_timeout_secs is over; either way the worker cancels what still runs.
Stop ==
  /\ Running
  /\ closed' = TRUE /\ frame' = 0 /\ task' = [t \in Tasks |-> Idle]
  /\ endReason' = IF endReason = "none" THEN "timeout" ELSE endReason
  /\ UNCHANGED <<transcript, recorded, started, done, turnsTaken, nudges,
                 cancelSet, faults>>
Drain == done /\ Stop
TimeOut == ~done /\ Stop

\* PersonaCaller.next_turn: the opening line needs no model.
PersonaReply == IF transcript = << >> THEN "line" ELSE "wait"

Call(reply) ==
  \/ Connect \/ Hear \/ HeardRecorded \/ HeardFails
  \/ WakeAdvance(reply) \/ WakeSilence(reply)
  \/ \E t \in Tasks : PlannerFails(t) \/ LineRecorded(t) \/ LineFails(t)
  \/ Cancel \/ Drain \/ TimeOut

CallNext == Call(PersonaReply) \/ \E t \in Waiting, c \in BOOLEAN : Answer(t, c)

CallSpec == CallInit /\ [][CallNext]_callVars

(***************************************************************************)
(* What asyncio and the database owe a call: a frame's on_turn returns, a  *)
(* timer fires, a task that asks or records gets its answer.  That the     *)
(* planner answers is the attacker's and the explorer's PLAN_TIMEOUT_SECS; *)
(* the persona model has no timeout and is owed nothing.  Neither are the  *)
(* agent's joining and speaking, a cancel, a fault or the outer timeout.   *)
(***************************************************************************)
FrameHandled == HeardRecorded \/ HeardFails
TimerFires(t) == \E reply \in {"wait", "line", "last"} :
                   IF t = "advance" THEN WakeAdvance(reply) ELSE WakeSilence(reply)
Activity(t) == LineRecorded(t) \/ LineFails(t) \/ PlannerFails(t)
               \/ \E c \in BOOLEAN : Answer(t, c)
-----------------------------------------------------------------------------
TaskType == [at : {"none", "sleeping", "asking", "recording"}, line : Nat, complete : BOOLEAN]

\* Every variable keeps its type.
CallTypeOK ==
  /\ transcript \in Seq({"agent", "caller"})
  /\ recorded \subseteq Nat
  /\ task \in [Tasks -> TaskType]
  /\ frame \in Nat /\ started \in BOOLEAN /\ done \in BOOLEAN
  /\ endReason \in {"none", "cancelled", "timeout", "caller_ended"}
  /\ turnsTaken \in Nat /\ nudges \in Nat /\ cancelSet \in BOOLEAN
  /\ closed \in BOOLEAN /\ faults \in Nat

\* MAX_TURNS is not as hard as its comment says: when the silence check wakes
\* while an advance still waits for the planner both pass the check, so a call
\* may take one turn more, and never two.
TurnsBounded == turnsTaken <= MaxTurns + 1

\* With silence checks, which red-team and discovery calls are given and simulated
\* ones are not, a call that the agent joined ends by itself, at whatever point the
\* agent falls silent, unless a planner call or a recording fails: the run's outer
\* timeout is not needed.
CallEndsItself ==
  SilenceChecks => (started ~> (faults > 0 \/ done \/ closed))
=============================================================================
