------------------------- MODULE PersonaCall_proofs -------------------------
(***************************************************************************)
(* What holds of a call driven by PersonaRunner for any number of turns,   *)
(* nudges, lines and faults.  The steps of the call are treated with the   *)
(* reply of the planner left open, so that the lemmas serve the planners   *)
(* that refine it as well.                                                 *)
(***************************************************************************)
EXTENDS PersonaCall, TLAPS

Replies == {"wait", "line", "last"}

\* A step of the call, whatever the planner replies or answers.
AnyCallStep ==
  \/ \E reply \in Replies : Call(reply)
  \/ \E t \in Tasks, c \in BOOLEAN : Answer(t, c)

LEMMA CallNextIsAStep == CallNext => AnyCallStep
<1> SUFFICES ASSUME CallNext PROVE AnyCallStep
  OBVIOUS
<1>1. PersonaReply \in Replies
  BY DEF PersonaReply, Replies
<1> QED BY <1>1 DEF CallNext, AnyCallStep, Waiting

-----------------------------------------------------------------------------
(* Type correctness. *)

LEMMA TaskTypes ==
  /\ Idle \in TaskType /\ Sleeping \in TaskType
  /\ \A n \in Nat : Asking(n) \in TaskType
  /\ \A n \in Nat, c \in BOOLEAN : Recording(n, c) \in TaskType
BY DEF Idle, Sleeping, Asking, Recording, TaskType

\* What a cancelled task leaves of recorded.
LEMMA CancelledType ==
  ASSUME CallTypeOK, NEW t \in Tasks, NEW r \in CancelledRecording(t)
  PROVE  r \subseteq Nat
BY DEF CallTypeOK, CancelledRecording, TaskType

LEMMA EndCallType ==
  ASSUME CallTypeOK, NEW reason \in {"cancelled", "timeout", "caller_ended"}, EndCall(reason)
  PROVE  /\ done' = TRUE /\ endReason' = reason
BY DEF CallTypeOK, EndCall

LEMMA SayType ==
  ASSUME CallTypeOK, NEW t \in Tasks, NEW c \in BOOLEAN, Say(t, c)
  PROVE  /\ turnsTaken' = turnsTaken + 1
         /\ transcript' = Append(transcript, "caller")
         /\ transcript' \in Seq({"agent", "caller"})
         /\ task' = [task EXCEPT ![t] = Recording(Len(transcript'), c)]
         /\ task' \in [Tasks -> TaskType]
<1>1. transcript' \in Seq({"agent", "caller"})
  BY DEF Say, CallTypeOK
<1>2. Len(transcript') \in Nat
  BY <1>1
<1>3. Recording(Len(transcript'), c) \in TaskType
  BY <1>2, TaskTypes
<1> QED BY <1>1, <1>3 DEF Say, CallTypeOK

\* What SpeakNext does: the call ends, the planner is asked, or a line is said.
LEMMA SpeakNextCases ==
  ASSUME CallTypeOK, NEW t \in Tasks, NEW reply \in Replies, SpeakNext(t, reply)
  PROVE  \/ /\ task' = [task EXCEPT ![t] = Idle]
            /\ \/ GoOn \/ EndCall("cancelled") \/ EndCall("timeout")
            /\ UNCHANGED <<transcript, turnsTaken>>
         \/ /\ turnsTaken < MaxTurns /\ GoOn /\ reply = "wait"
            /\ task' = [task EXCEPT ![t] = Asking(Len(transcript))]
            /\ UNCHANGED <<transcript, turnsTaken>>
         \/ /\ turnsTaken < MaxTurns /\ GoOn
            /\ \E c \in BOOLEAN : Say(t, c)
<1>1. CASE CancelNoticed \/ done \/ OutOfTurns
  BY <1>1 DEF SpeakNext
<1>2. CASE ~(CancelNoticed \/ done \/ OutOfTurns)
  <2>1. turnsTaken < MaxTurns
    BY <1>2, CallAssumption DEF OutOfTurns, CallTypeOK
  <2>2. CASE reply = "wait"
    BY <1>2, <2>1, <2>2 DEF SpeakNext
  <2>3. CASE reply # "wait"
    BY <1>2, <2>1, <2>3 DEF SpeakNext
  <2> QED BY <2>2, <2>3
<1> QED BY <1>1, <1>2

LEMMA SpeakNextType ==
  ASSUME CallTypeOK, NEW t \in Tasks, NEW reply \in Replies, SpeakNext(t, reply)
  PROVE  /\ transcript' \in Seq({"agent", "caller"}) /\ turnsTaken' \in Nat
         /\ task' \in [Tasks -> TaskType]
         /\ done' \in BOOLEAN /\ endReason' \in {"none", "cancelled", "timeout", "caller_ended"}
<1>1. CASE /\ task' = [task EXCEPT ![t] = Idle]
           /\ \/ GoOn \/ EndCall("cancelled") \/ EndCall("timeout")
           /\ UNCHANGED <<transcript, turnsTaken>>
  BY <1>1, EndCallType, TaskTypes DEF CallTypeOK, GoOn
<1>2. CASE /\ GoOn /\ task' = [task EXCEPT ![t] = Asking(Len(transcript))]
           /\ UNCHANGED <<transcript, turnsTaken>>
  <2>1. Len(transcript) \in Nat
    BY DEF CallTypeOK
  <2> QED BY <1>2, <2>1, TaskTypes DEF CallTypeOK, GoOn
<1>3. ASSUME GoOn, NEW c \in BOOLEAN, Say(t, c)
      PROVE  /\ transcript' \in Seq({"agent", "caller"}) /\ turnsTaken' \in Nat
             /\ task' \in [Tasks -> TaskType]
  BY <1>3, SayType DEF CallTypeOK
<1> QED BY <1>1, <1>2, <1>3, SpeakNextCases DEF CallTypeOK, GoOn

\* Every step of the call keeps every variable in its type.
LEMMA CallTyping == CallTypeOK /\ (AnyCallStep \/ UNCHANGED callVars) => CallTypeOK'
<1> SUFFICES ASSUME CallTypeOK, AnyCallStep \/ UNCHANGED callVars PROVE CallTypeOK'
  OBVIOUS
<1>1. ASSUME Connect PROVE CallTypeOK'
  BY <1>1, TaskTypes DEF Connect, CallTypeOK, GoOn, Tasks
<1>2. ASSUME Hear PROVE CallTypeOK'
  <2>1. transcript' \in Seq({"agent", "caller"}) /\ Len(transcript') \in Nat
    BY <1>2 DEF Hear, CallTypeOK
  <2>2. recorded' \subseteq Nat
    BY <1>2, CancelledType DEF Hear, Tasks
  <2> QED BY <1>2, <2>1, <2>2, TaskTypes DEF Hear, CallTypeOK, GoOn, Tasks
<1>3. ASSUME HeardRecorded PROVE CallTypeOK'
  <2>1. recorded' \subseteq Nat
    BY <1>3, CancelledType DEF HeardRecorded, CallTypeOK, Tasks
  <2>2. CASE CancelNoticed
    BY <1>3, <2>1, <2>2, EndCallType DEF HeardRecorded, CallTypeOK
  <2>3. CASE ~CancelNoticed
    BY <1>3, <2>1, <2>3, TaskTypes DEF HeardRecorded, CallTypeOK, GoOn, Tasks
  <2> QED BY <2>2, <2>3
<1>4. ASSUME HeardFails PROVE CallTypeOK'
  BY <1>4 DEF HeardFails, CallTypeOK, GoOn
<1>5. ASSUME NEW reply \in Replies, WakeAdvance(reply) PROVE CallTypeOK'
  BY <1>5, SpeakNextType DEF WakeAdvance, CallTypeOK, Tasks
<1>6. ASSUME NEW reply \in Replies, WakeSilence(reply) PROVE CallTypeOK'
  <2>0. nudges' \in Nat
    BY <1>6 DEF WakeSilence, CallTypeOK
  <2>1. CASE ~done /\ TooManyNudges
    <3>1. EndCall("timeout") /\ task' = [task EXCEPT !["silence"] = Idle]
          /\ UNCHANGED <<transcript, turnsTaken>>
      BY <1>6, <2>1 DEF WakeSilence
    <3>2. done' = TRUE /\ endReason' = "timeout"
      BY <3>1, EndCallType
    <3>3. task' \in [Tasks -> TaskType]
      BY <3>1, TaskTypes DEF CallTypeOK
    <3> QED BY <1>6, <2>0, <3>1, <3>2, <3>3 DEF WakeSilence, CallTypeOK
  <2>2. CASE ~(~done /\ TooManyNudges)
    <3>1. SpeakNext("silence", reply)
      BY <1>6, <2>2 DEF WakeSilence
    <3> QED BY <1>6, <2>0, <3>1, SpeakNextType DEF WakeSilence, CallTypeOK, Tasks
  <2> QED BY <2>1, <2>2
<1>7. ASSUME NEW t \in Tasks, NEW c \in BOOLEAN, Answer(t, c) PROVE CallTypeOK'
  BY <1>7, SayType DEF Answer, CallTypeOK, GoOn
<1>8. ASSUME NEW t \in Tasks, PlannerFails(t) PROVE CallTypeOK'
  BY <1>8, TaskTypes DEF PlannerFails, CallTypeOK, GoOn
<1>9. ASSUME NEW t \in Tasks, LineRecorded(t) PROVE CallTypeOK'
  <2>1. task[t].line \in Nat
    BY <1>9 DEF CallTypeOK, TaskType
  <2>2. TasksAfter(t, task[t].complete) \in [Tasks -> TaskType]
    BY TaskTypes DEF TasksAfter, CallTypeOK, Tasks
  <2>3. recorded' \subseteq Nat
    BY <1>9, <2>1, CancelledType, ZenonT(30) DEF LineRecorded, CallTypeOK, Tasks
  <2>4. done' \in BOOLEAN
        /\ endReason' \in {"none", "cancelled", "timeout", "caller_ended"}
    BY <1>9, EndCallType DEF LineRecorded, CallTypeOK, GoOn
  <2>5. task' \in [Tasks -> TaskType]
    BY <1>9, <2>2, TaskTypes DEF LineRecorded, CallTypeOK
  <2> QED BY <1>9, <2>3, <2>4, <2>5 DEF LineRecorded, CallTypeOK
<1>10. ASSUME NEW t \in Tasks, LineFails(t) PROVE CallTypeOK'
  BY <1>10, TaskTypes DEF LineFails, CallTypeOK, GoOn
<1>11. ASSUME Cancel PROVE CallTypeOK'
  BY <1>11 DEF Cancel, CallTypeOK, GoOn
<1>12. ASSUME Stop PROVE CallTypeOK'
  BY <1>12, TaskTypes DEF Stop, CallTypeOK
<1>13. CASE UNCHANGED callVars
  BY <1>13 DEF callVars, CallTypeOK
<1> QED
  BY <1>1, <1>2, <1>3, <1>4, <1>5, <1>6, <1>7, <1>8, <1>9, <1>10, <1>11, <1>12, <1>13
  DEF AnyCallStep, Call, Drain, TimeOut

LEMMA CallStartsTyped == CallInit => CallTypeOK
<1> SUFFICES ASSUME CallInit PROVE CallTypeOK
  OBVIOUS
<1>1. task \in [Tasks -> TaskType]
  BY TaskTypes DEF CallInit
<1>2. transcript \in Seq({"agent", "caller"})
  BY DEF CallInit
<1> QED BY <1>1, <1>2 DEF CallInit, CallTypeOK

\* Every variable of a call keeps its type, for any bound on turns, nudges,
\* lines heard and faults.
THEOREM CallTypeCorrect == CallSpec => []CallTypeOK
<1>1. CallInit => CallTypeOK
  BY CallStartsTyped
<1>2. CallTypeOK /\ [CallNext]_callVars => CallTypeOK'
  BY CallTyping, CallNextIsAStep
<1> QED BY <1>1, <1>2, PTL DEF CallSpec

-----------------------------------------------------------------------------
(* The turns of a call.  A task that waits for the planner has passed the  *)
(* check of MAX_TURNS and will take a turn whatever the other does, so the *)
(* inductive invariant counts those who wait with the turns already taken. *)

TurnsAllowed ==
  /\ turnsTaken <= MaxTurns + 1
  /\ \A t \in Waiting : turnsTaken <= MaxTurns
  /\ \A t, u \in Waiting : t # u => turnsTaken < MaxTurns

\* A step leaves the turns alone and adds a waiting task only below MaxTurns, or
\* takes a turn, below MaxTurns or for one of the tasks that waited.
TurnStep ==
  \/ turnsTaken' = turnsTaken /\ (Waiting' \subseteq Waiting \/ turnsTaken < MaxTurns)
  \/ /\ turnsTaken' = turnsTaken + 1
     /\ \E t \in Tasks : /\ Waiting' = Waiting \ {t}
                         /\ turnsTaken < MaxTurns \/ t \in Waiting

LEMMA TurnsAllowedStep ==
  ASSUME CallTypeOK, TurnsAllowed, TurnStep PROVE TurnsAllowed'
<1>1. turnsTaken \in Nat /\ MaxTurns \in Nat
  BY CallAssumption DEF CallTypeOK
<1>2. CASE turnsTaken' = turnsTaken /\ Waiting' \subseteq Waiting
  BY <1>1, <1>2 DEF TurnsAllowed
<1>3. CASE turnsTaken' = turnsTaken /\ turnsTaken < MaxTurns
  BY <1>1, <1>3 DEF TurnsAllowed
<1>4. ASSUME turnsTaken' = turnsTaken + 1, NEW t \in Tasks, Waiting' = Waiting \ {t},
             turnsTaken < MaxTurns \/ t \in Waiting
      PROVE  TurnsAllowed'
  <2>1. turnsTaken' <= MaxTurns + 1
    BY <1>1, <1>4 DEF TurnsAllowed
  <2>2. \A u \in Waiting' : turnsTaken' <= MaxTurns
    <3> SUFFICES ASSUME NEW u \in Waiting' PROVE turnsTaken < MaxTurns
      BY <1>1, <1>4
    <3>1. CASE t \in Waiting
      BY <1>4, <3>1 DEF TurnsAllowed
    <3> QED BY <1>4, <3>1
  <2>3. \A u, v \in Waiting' : u = v
    BY <1>4 DEF Waiting, Tasks
  <2> QED BY <2>1, <2>2, <2>3 DEF TurnsAllowed
<1> QED BY <1>2, <1>3, <1>4 DEF TurnStep

LEMMA SayTurn ==
  ASSUME CallTypeOK, NEW t \in Tasks, NEW c \in BOOLEAN, Say(t, c)
  PROVE  turnsTaken' = turnsTaken + 1 /\ Waiting' = Waiting \ {t}
BY DEF Say, CallTypeOK, Waiting, Recording

LEMMA SpeakNextTurn ==
  ASSUME CallTypeOK, NEW t \in Tasks, NEW reply \in Replies, SpeakNext(t, reply)
  PROVE  TurnStep
<1>1. CASE task' = [task EXCEPT ![t] = Idle] /\ UNCHANGED <<transcript, turnsTaken>>
  BY <1>1 DEF TurnStep, Waiting, Idle, CallTypeOK
<1>2. CASE turnsTaken < MaxTurns /\ UNCHANGED <<transcript, turnsTaken>>
  BY <1>2 DEF TurnStep
<1>3. ASSUME turnsTaken < MaxTurns, NEW c \in BOOLEAN, Say(t, c) PROVE TurnStep
  BY <1>3, SayTurn DEF TurnStep
<1> QED BY <1>1, <1>2, <1>3, SpeakNextCases

LEMMA CallTurn == CallTypeOK /\ (AnyCallStep \/ UNCHANGED callVars) => TurnStep
<1> SUFFICES ASSUME CallTypeOK, AnyCallStep \/ UNCHANGED callVars PROVE TurnStep
  OBVIOUS
<1>1. ASSUME Connect PROVE TurnStep
  BY <1>1 DEF Connect, TurnStep, Waiting, Idle, Sleeping, CallTypeOK
<1>2. ASSUME Hear PROVE TurnStep
  BY <1>2 DEF Hear, TurnStep, Waiting, Idle, CallTypeOK
<1>3. ASSUME HeardRecorded PROVE TurnStep
  BY <1>3 DEF HeardRecorded, TurnStep, Waiting, Idle, Sleeping, CallTypeOK
<1>4. ASSUME HeardFails \/ Cancel \/ UNCHANGED callVars PROVE TurnStep
  BY <1>4 DEF HeardFails, Cancel, callVars, TurnStep, Waiting
<1>5. ASSUME NEW reply \in Replies, WakeAdvance(reply) PROVE TurnStep
  BY <1>5, SpeakNextTurn DEF WakeAdvance, Tasks
<1>6. ASSUME NEW reply \in Replies, WakeSilence(reply) PROVE TurnStep
  <2>1. CASE ~done /\ TooManyNudges
    BY <1>6, <2>1 DEF WakeSilence, TurnStep, Waiting, Idle, CallTypeOK
  <2>2. CASE ~(~done /\ TooManyNudges)
    BY <1>6, <2>2, SpeakNextTurn DEF WakeSilence, Tasks
  <2> QED BY <2>1, <2>2
<1>7. ASSUME NEW t \in Tasks, NEW c \in BOOLEAN, Answer(t, c) PROVE TurnStep
  <2>1. t \in Waiting
    BY <1>7 DEF Answer, Waiting
  <2> QED BY <1>7, <2>1, SayTurn DEF Answer, TurnStep
<1>8. ASSUME NEW t \in Tasks, PlannerFails(t) \/ LineFails(t) PROVE TurnStep
  BY <1>8 DEF PlannerFails, LineFails, TurnStep, Waiting, Idle, CallTypeOK
<1>9. ASSUME NEW t \in Tasks, LineRecorded(t) PROVE TurnStep
  <2>1. /\ turnsTaken' = turnsTaken
        /\ \/ task' = [task EXCEPT ![t] = Idle]
           \/ task' = TasksAfter(t, task[t].complete)
    BY <1>9 DEF LineRecorded
  <2> QED BY <2>1 DEF TasksAfter, TurnStep, Waiting, Idle, Sleeping, CallTypeOK
<1>10. ASSUME Stop PROVE TurnStep
  BY <1>10 DEF Stop, TurnStep, Waiting, Idle
<1> QED
  BY <1>1, <1>2, <1>3, <1>4, <1>5, <1>6, <1>7, <1>8, <1>9, <1>10
  DEF AnyCallStep, Call, Drain, TimeOut

\* Types and budget together are inductive for every step of a call, whatever
\* its planner replies.
LEMMA CallInvariance ==
  CallTypeOK /\ TurnsAllowed /\ (AnyCallStep \/ UNCHANGED callVars) => CallTypeOK' /\ TurnsAllowed'
BY CallTyping, CallTurn, TurnsAllowedStep

LEMMA CallStarts == CallInit => CallTypeOK /\ TurnsAllowed
<1> CallInit => TurnsAllowed
  BY CallAssumption DEF CallInit, TurnsAllowed, Waiting, Idle
<1> QED BY CallStartsTyped

\* However the frames, the two tasks, the planner and a cancel interleave, a call
\* exceeds max_turns by one turn at most.
THEOREM TurnsAreBounded == CallSpec => []TurnsBounded
<1>1. CallTypeOK /\ TurnsAllowed /\ [CallNext]_callVars => CallTypeOK' /\ TurnsAllowed'
  BY CallInvariance, CallNextIsAStep
<1>2. TurnsAllowed => TurnsBounded
  BY DEF TurnsAllowed, TurnsBounded
<1> QED BY <1>1, <1>2, CallStarts, PTL DEF CallSpec

=============================================================================
