------------------------ MODULE AttackerCall_proofs -------------------------
(***************************************************************************)
(* What holds of a red-team call for every script, every bound on turns    *)
(* and every answer of the model.  A step of the attacker is a step of a   *)
(* call with some reply, so the lemmas about calls apply to it as they     *)
(* are; what is added is how attack lines and exchanges follow each other. *)
(* Then what is made of the answers: the quote that the judge of an attack *)
(* gives as its evidence is what the agent said, whatever was heard and    *)
(* whatever the judge answers (AttackJudge).                               *)
(***************************************************************************)
EXTENDS AttackerCall, PersonaCall_proofs, AttackJudge,
        FiniteSetTheorems, SequenceTheorems, WellFoundedInduction

LEMMA ReplyTypes == AttackerReply \in Replies
BY DEF AttackerReply, Replies

AttackLineType == [at : Nat, orderly : BOOLEAN]
ExchangeType == [prompt : Nat, reply : SUBSET Nat, verdict : {"none", "blocked", "succeeded"},
                 seen : Nat, at : Nat]

AttackTypeOK ==
  /\ verifying \in BOOLEAN /\ verifyTurns \in Nat /\ failure \in BOOLEAN
  /\ attackLines \in Seq(AttackLineType) /\ exchanges \in Seq(ExchangeType)
  /\ grading \in [Tasks -> Plans \union {NoPlan}]

-----------------------------------------------------------------------------
(* A step of the attacker's call is a step of a call. *)

LEMMA SomeReply == "wait" \in Replies
BY DEF Replies

LEMMA DecideAnswers ==
  ASSUME NEW t \in Tasks, NEW plan \in Plans, NEW u \in BOOLEAN, Decide(t, plan, u)
  PROVE  \E c \in BOOLEAN : Answer(t, c)
<1>1. plan.complete \in BOOLEAN
  BY DEF Plans
<1>2. (StoppedOnSuccess \/ Len(attackLines) >= ScriptLen \/ plan.complete) \in BOOLEAN
  BY <1>1
<1> QED BY <1>2 DEF Decide

LEMMA PlannedCalls ==
  ASSUME AttackTypeOK, NEW t \in Tasks, NEW plan \in Plans, NEW v \in BOOLEAN, Planned(t, plan, v)
  PROVE  (\E c \in BOOLEAN : Answer(t, c)) \/ UNCHANGED callVars
<1>1. (verifying /\ ~v) \in BOOLEAN
  BY DEF AttackTypeOK
<1> QED BY <1>1, DecideAnswers DEF Planned

LEMMA StoredAnswers ==
  ASSUME AttackTypeOK, NEW t \in Tasks, ExchangeStored(t)
  PROVE  \E c \in BOOLEAN : Answer(t, c)
<1>1. grading[t] \in Plans /\ verifying \in BOOLEAN
  BY DEF ExchangeStored, AttackTypeOK
<1> QED BY <1>1, DecideAnswers DEF ExchangeStored

\* The steps that leave the attacker alone, a grading that is cut off excepted.
CallGoesOn ==
  \/ Connect \/ Hear \/ HeardRecorded \/ HeardFails \/ Cancel \/ Drain \/ TimeOut
  \/ \E t \in Tasks : LineRecorded(t) \/ LineFails(t) \/ PlannerFails(t)

LEMMA AttackIsACall ==
  AttackTypeOK /\ [AttackNext]_<<callVars, attackVars>> => AnyCallStep \/ UNCHANGED callVars
<1> SUFFICES ASSUME AttackTypeOK, AttackNext PROVE AnyCallStep \/ UNCHANGED callVars
  OBVIOUS
<1>1. CASE AttackerWakes
  BY <1>1, ReplyTypes DEF AttackerWakes, AnyCallStep, Call
<1>2. ASSUME NEW t \in Tasks,
             \/ ExchangeStored(t) \/ PlanFails(t)
             \/ \E plan \in Plans, v \in BOOLEAN : Planned(t, plan, v)
      PROVE  AnyCallStep \/ UNCHANGED callVars
  BY <1>2, StoredAnswers, PlannedCalls DEF PlanFails, AnyCallStep
<1>3. CASE CallGoesOn
  BY <1>3, SomeReply DEF CallGoesOn, AnyCallStep, Call
<1> QED BY <1>1, <1>2, <1>3 DEF AttackNext, CallGoesOn, Waiting

-----------------------------------------------------------------------------
(* What a step does to the transcript and to the tasks that wait.          *)

\* Lines are only added to the transcript, one at a time.
LEMMA TranscriptGrows ==
  ASSUME CallTypeOK, AnyCallStep \/ UNCHANGED callVars
  PROVE  transcript' = transcript \/ \E who \in {"agent", "caller"} : transcript' = Append(transcript, who)
<1>1. ASSUME NEW t \in Tasks, NEW reply \in Replies, SpeakNext(t, reply)
      PROVE  transcript' = transcript \/ transcript' = Append(transcript, "caller")
  BY <1>1, SpeakNextCases, SayType
<1>2. ASSUME NEW reply \in Replies, WakeAdvance(reply) \/ WakeSilence(reply)
      PROVE  transcript' = transcript \/ transcript' = Append(transcript, "caller")
  BY <1>1, <1>2 DEF WakeAdvance, WakeSilence, Tasks
<1>3. ASSUME NEW t \in Tasks, NEW c \in BOOLEAN, Answer(t, c)
      PROVE  transcript' = Append(transcript, "caller")
  BY <1>3, SayType DEF Answer
<1>4. CASE \/ Connect \/ HeardRecorded \/ HeardFails \/ Cancel \/ Stop
           \/ \E t \in Tasks : PlannerFails(t) \/ LineRecorded(t) \/ LineFails(t)
           \/ UNCHANGED callVars
  BY <1>4 DEF Connect, HeardRecorded, HeardFails, Cancel, Stop, PlannerFails, LineRecorded,
              LineFails, callVars
<1>5. CASE Hear
  BY <1>5 DEF Hear
<1> QED BY <1>2, <1>3, <1>4, <1>5 DEF AnyCallStep, Call, Drain, TimeOut

\* What was said stays said.
LEMMA LinesStay ==
  ASSUME CallTypeOK, AnyCallStep \/ UNCHANGED callVars
  PROVE  /\ transcript' = transcript \/ Len(transcript') = Len(transcript) + 1
         /\ \A i \in DOMAIN transcript : i \in DOMAIN transcript' /\ transcript'[i] = transcript[i]
<1>1. CASE transcript' = transcript
  BY <1>1
<1>2. ASSUME NEW who \in {"agent", "caller"}, transcript' = Append(transcript, who)
      PROVE  /\ Len(transcript') = Len(transcript) + 1
             /\ \A i \in DOMAIN transcript : i \in DOMAIN transcript' /\ transcript'[i] = transcript[i]
  BY <1>2 DEF CallTypeOK
<1> QED BY <1>1, <1>2, TranscriptGrows

\* Task t asks since before this step, or from now on, about the agent's last line.
StillAsks(t) == t \in Waiting /\ task'[t] = task[t]
AsksNow(t) == /\ t \notin Waiting /\ HasReply /\ task'[t].line = Len(transcript)
              /\ transcript' = transcript

LEMMA WhoAsks ==
  ASSUME CallTypeOK, AttackTypeOK, [AttackNext]_<<callVars, attackVars>>
  PROVE  \A t \in Waiting' : StillAsks(t) \/ AsksNow(t)
<1> SUFFICES ASSUME NEW t \in Tasks, task'[t].at = "asking" PROVE StillAsks(t) \/ AsksNow(t)
  BY DEF Waiting
<1>1. ASSUME task'[t] = task[t] PROVE StillAsks(t)
  BY <1>1 DEF StillAsks, Waiting
<1>2. ASSUME NEW u \in Tasks, task[u].at = "sleeping", SpeakNext(u, AttackerReply)
      PROVE  StillAsks(t) \/ AsksNow(t)
  <2>1. CASE t # u
    <3>1. task'[t] = task[t]
      BY <1>2, <2>1, ReplyTypes, SpeakNextCases DEF Say, CallTypeOK
    <3> QED BY <1>1, <3>1
  <2>2. CASE t = u
    <3>1. \/ task' = [task EXCEPT ![t] = Idle]
          \/ /\ AttackerReply = "wait" /\ UNCHANGED transcript
             /\ task' = [task EXCEPT ![t] = Asking(Len(transcript))]
          \/ \E c \in BOOLEAN : Say(t, c)
      BY <1>2, <2>2, ReplyTypes, SpeakNextCases
    <3>2. Idle.at # "asking" /\ \A n, c : Recording(n, c).at # "asking"
      BY DEF Idle, Recording
    <3>3. AttackerReply = "wait" /\ UNCHANGED transcript /\ task'[t] = Asking(Len(transcript))
      BY <3>1, <3>2 DEF Say, CallTypeOK
    <3>4. HasReply /\ task'[t].line = Len(transcript)
      BY <3>3 DEF AttackerReply, Asking
    <3>5. t \notin Waiting
      BY <1>2, <2>2 DEF Waiting
    <3> QED BY <3>3, <3>4, <3>5 DEF AsksNow
  <2> QED BY <2>1, <2>2
<1>3. CASE AttackerWakes
  <2>1. CASE WakeAdvance(AttackerReply)
    BY <1>2, <2>1 DEF WakeAdvance, Tasks
  <2>2. CASE WakeSilence(AttackerReply)
    <3>1. CASE ~done /\ TooManyNudges
      <4>1. task'[t] = task[t]
        BY <2>2, <3>1 DEF WakeSilence, CallTypeOK, Idle
      <4> QED BY <1>1, <4>1
    <3>2. CASE ~(~done /\ TooManyNudges)
      BY <1>2, <2>2, <3>2 DEF WakeSilence, Tasks
    <3> QED BY <3>1, <3>2
  <2> QED BY <1>3, <2>1, <2>2 DEF AttackerWakes
<1>4. ASSUME NEW u \in Tasks, NEW c \in BOOLEAN, Answer(u, c) PROVE StillAsks(t)
  <2>1. task'[t] = task[t]
    BY <1>4 DEF Answer, Say, CallTypeOK, Recording
  <2> QED BY <1>1, <2>1
<1>5. CASE CallGoesOn
  <2>1. CASE Connect \/ Hear \/ HeardRecorded
    BY <1>1, <2>1 DEF Connect, Hear, HeardRecorded, CallTypeOK, Idle, Sleeping
  <2>2. CASE HeardFails \/ Cancel \/ Drain \/ TimeOut
    BY <1>1, <2>2 DEF HeardFails, Cancel, Drain, TimeOut, Stop, Idle
  <2>3. ASSUME NEW u \in Tasks, LineFails(u) \/ PlannerFails(u) PROVE StillAsks(t)
    BY <1>1, <2>3 DEF LineFails, PlannerFails, CallTypeOK, Idle
  <2>4. ASSUME NEW u \in Tasks, LineRecorded(u) PROVE StillAsks(t)
    <3>1. task' = [task EXCEPT ![u] = Idle] \/ task' = TasksAfter(u, task[u].complete)
      BY <2>4 DEF LineRecorded
    <3> QED BY <1>1, <3>1 DEF TasksAfter, CallTypeOK, Idle, Sleeping
  <2> QED BY <1>5, <2>1, <2>2, <2>3, <2>4 DEF CallGoesOn
<1>6. ASSUME UNCHANGED callVars PROVE StillAsks(t)
  BY <1>1, <1>6 DEF callVars
<1>7. ASSUME NEW u \in Tasks,
             \/ ExchangeStored(u) \/ PlanFails(u)
             \/ \E plan \in Plans, v \in BOOLEAN : Planned(u, plan, v)
      PROVE  StillAsks(t)
  <2>1. CASE ExchangeStored(u)
    BY <1>4, <2>1, StoredAnswers
  <2>2. CASE PlanFails(u)
    BY <1>4, <2>2 DEF PlanFails
  <2>3. ASSUME NEW plan \in Plans, NEW v \in BOOLEAN, Planned(u, plan, v) PROVE StillAsks(t)
    BY <1>4, <1>6, <2>3, PlannedCalls
  <2> QED BY <1>7, <2>1, <2>2, <2>3
<1> QED BY <1>3, <1>5, <1>6, <1>7 DEF AttackNext, CallGoesOn, Waiting

-----------------------------------------------------------------------------
(* What a step does to the attack lines, the exchanges and the plans.      *)

\* Every attack line so far was said in order.
AllOrderly == \A l \in DOMAIN attackLines : attackLines[l].orderly

\* Task t has had its answer graded, of a transcript that nothing was added to.
GradedInTime(t) == t \in Waiting /\ grading[t] # NoPlan /\ task[t].line = Len(transcript)

\* An attack line is said, which is the next line of the transcript.  It is in order
\* only if the lines before it are graded.
InItsTurn == \/ transcript = << >> \/ attackLines = << >> \/ Len(attackLines) <= Len(exchanges)
             \/ \E t \in Tasks : GradedInTime(t)
Attacks == /\ \E o \in BOOLEAN : SayAttack(o) /\ (o => InItsTurn)
           /\ transcript' = Append(transcript, "caller") /\ exchanges' = exchanges
Grades == /\ \E t \in Waiting, plan \in Plans :
               /\ Gradable(plan) /\ exchanges' = Append(exchanges, Exchange(t, plan))
               /\ \A u \in Tasks : u # t => grading'[u] = grading[u]
          /\ UNCHANGED <<callVars, attackLines>>
NoAttack == UNCHANGED <<attackLines, exchanges>>
\* No plan is there to be graded that was not.
NoNewPlan == \A t \in Tasks : grading'[t] # NoPlan => grading'[t] = grading[t]

LEMMA DecideAttacks ==
  ASSUME CallTypeOK, AttackTypeOK, NEW t \in Tasks, NEW plan \in Plans, NEW u \in BOOLEAN,
         Decide(t, plan, u), exchanges' = exchanges, InOrder(t, plan) => InItsTurn
  PROVE  Attacks \/ NoAttack
<1>1. \E c \in BOOLEAN : Answer(t, c)
  BY DecideAnswers
<1>2. transcript' = Append(transcript, "caller")
  BY <1>1, SayType DEF Answer
<1>3. InOrder(t, plan) \in BOOLEAN
  BY DEF InOrder
<1>4. SayAttack(InOrder(t, plan)) \/ UNCHANGED attackLines
  BY DEF Decide
<1> QED BY <1>2, <1>3, <1>4 DEF Attacks, NoAttack

LEMMA AskAttacks ==
  ASSUME CallTypeOK, NEW t \in Tasks, WillAsk, SpeakNext(t, AttackerReply), AskAttacker(t)
  PROVE  (Attacks \/ NoAttack) /\ grading' = grading
<1>1. CASE transcript = << >> /\ ~verifying
  <2>1. AttackerReply = "line"
    BY <1>1 DEF AttackerReply, HasReply
  <2>2. Say(t, FALSE)
    <3>1. ~(CancelNoticed \/ done \/ OutOfTurns)
      BY DEF WillAsk, CancelNoticed
    <3>2. Say(t, "line" = "last")
      BY <2>1, <3>1 DEF SpeakNext
    <3>3. ("line" = "last") = FALSE
      OBVIOUS
    <3> QED BY <3>2, <3>3
  <2>3. transcript' = Append(transcript, "caller")
    BY <2>2 DEF Say
  <2>4. ~HasReply
    BY <1>1 DEF HasReply
  <2>5. SayAttack(TRUE) /\ exchanges' = exchanges /\ grading' = grading
    BY <1>1, <2>4 DEF AskAttacker
  <2> QED BY <1>1, <2>3, <2>5 DEF Attacks, InItsTurn
<1>2. CASE ~(transcript = << >> /\ ~verifying)
  BY <1>2 DEF AskAttacker, NoAttack
<1> QED BY <1>1, <1>2

LEMMA PlannedAttacks ==
  ASSUME CallTypeOK, AttackTypeOK, NEW t \in Tasks, NEW plan \in Plans, NEW v \in BOOLEAN,
         Planned(t, plan, v)
  PROVE  Grades \/ ((Attacks \/ NoAttack) /\ NoNewPlan)
<1>1. CASE Gradable(plan)
  <2>1. t \in Waiting
    BY DEF Planned, Waiting
  <2>2. \A u \in Tasks : u # t => grading'[u] = grading[u]
    BY <1>1 DEF Planned, AttackTypeOK
  <2> QED BY <1>1, <2>1, <2>2 DEF Planned, Grades
<1>2. CASE ~Gradable(plan)
  <2>1. (verifying /\ ~v) \in BOOLEAN
    BY DEF AttackTypeOK
  <2>2. Decide(t, plan, verifying /\ ~v) /\ UNCHANGED <<exchanges, grading>>
    BY <1>2 DEF Planned
  <2>3. Len(attackLines) \in Nat /\ Len(exchanges) \in Nat
    BY DEF AttackTypeOK
  <2>4. InOrder(t, plan) => InItsTurn
    BY <1>2, <2>3 DEF InOrder, Gradable, InItsTurn
  <2> QED BY <2>1, <2>2, <2>4, DecideAttacks DEF NoNewPlan
<1> QED BY <1>1, <1>2

LEMMA StoredAttacks ==
  ASSUME CallTypeOK, AttackTypeOK, NEW t \in Tasks, ExchangeStored(t)
  PROVE  (Attacks \/ NoAttack) /\ NoNewPlan
<1>1. grading[t] \in Plans /\ verifying \in BOOLEAN /\ t \in Waiting
  <2>1. task[t].at = "asking"
    BY StoredAnswers DEF Answer
  <2> QED BY <2>1 DEF ExchangeStored, AttackTypeOK, Waiting
<1>2. InOrder(t, grading[t]) => InItsTurn
  BY <1>1 DEF ExchangeStored, InOrder, InItsTurn, GradedInTime
<1>3. NoNewPlan
  BY DEF ExchangeStored, NoNewPlan, AttackTypeOK
<1> QED BY <1>1, <1>2, <1>3, DecideAttacks DEF ExchangeStored

LEMMA AttackSteps ==
  ASSUME CallTypeOK, AttackTypeOK, [AttackNext]_<<callVars, attackVars>>
  PROVE  Grades \/ ((Attacks \/ NoAttack) /\ NoNewPlan)
<1>1. CASE UNCHANGED attackVars
  BY <1>1 DEF attackVars, NoAttack, NoNewPlan
<1>2. CASE AttackerWakes
  <2>1. CASE WakeAdvance(AttackerReply) /\ WillAsk /\ AskAttacker("advance")
    BY <2>1, AskAttacks DEF WakeAdvance, Tasks, NoNewPlan
  <2>2. CASE WakeSilence(AttackerReply) /\ WillAsk /\ ~TooManyNudges /\ AskAttacker("silence")
    BY <2>2, AskAttacks DEF WakeSilence, Tasks, NoNewPlan
  <2> QED BY <1>1, <1>2, <2>1, <2>2 DEF AttackerWakes
<1>3. ASSUME NEW t \in Tasks, PlanFails(t) PROVE NoAttack /\ NoNewPlan
  BY <1>3 DEF PlanFails, NoAttack, NoNewPlan
<1>4. CASE /\ grading' = [t \in Tasks |-> IF task'[t].at = "asking" THEN grading[t] ELSE NoPlan]
           /\ UNCHANGED <<verifying, verifyTurns, attackLines, exchanges, failure>>
  BY <1>4 DEF NoAttack, NoNewPlan
<1> QED
  BY <1>1, <1>2, <1>3, <1>4, PlannedAttacks, StoredAttacks DEF AttackNext, attackVars, Waiting

\* Only a task that asks has a plan to be graded.
GradingWaits == \A t \in Tasks : grading[t] # NoPlan => t \in Waiting

LEMMA GradingWaitsStep ==
  ASSUME CallTypeOK, AttackTypeOK, GradingWaits, [AttackNext]_<<callVars, attackVars>>
  PROVE  GradingWaits'
<1> SUFFICES ASSUME NEW t \in Tasks, grading'[t] # NoPlan PROVE task'[t].at = "asking"
  BY DEF GradingWaits, Waiting
<1>1. CASE grading' = [u \in Tasks |-> IF task'[u].at = "asking" THEN grading[u] ELSE NoPlan]
  BY <1>1
<1>2. ASSUME NEW u \in Tasks, NEW c \in BOOLEAN, Answer(u, c), u # t, grading[t] # NoPlan
      PROVE  task'[t].at = "asking"
  BY <1>2 DEF Answer, Say, CallTypeOK, GradingWaits, Waiting
<1>3. CASE UNCHANGED <<callVars, attackVars>>
  BY <1>3 DEF callVars, attackVars, GradingWaits, Waiting
<1>4. CASE AttackerWakes
  <2>1. grading' = grading
    BY <1>4 DEF AttackerWakes, AskAttacker, attackVars
  <2>2. t \in Waiting
    BY <2>1 DEF GradingWaits
  <2>3. ASSUME NEW u \in Tasks, task[u].at = "sleeping", SpeakNext(u, AttackerReply)
        PROVE  task'[t] = task[t]
    <3>1. t # u
      BY <2>2, <2>3 DEF Waiting
    <3> QED BY <2>3, <3>1, ReplyTypes, SpeakNextCases DEF Say, CallTypeOK
  <2>4. CASE WakeAdvance(AttackerReply)
    BY <2>2, <2>3, <2>4 DEF WakeAdvance, Tasks, Waiting
  <2>5. CASE WakeSilence(AttackerReply)
    <3>1. CASE ~done /\ TooManyNudges
      BY <2>2, <2>5, <3>1 DEF WakeSilence, CallTypeOK, Waiting
    <3>2. CASE ~(~done /\ TooManyNudges)
      BY <2>2, <2>3, <2>5, <3>2 DEF WakeSilence, Tasks, Waiting
    <3> QED BY <3>1, <3>2
  <2> QED BY <1>4, <2>4, <2>5 DEF AttackerWakes
<1>5. ASSUME NEW u \in Tasks, ExchangeStored(u) PROVE task'[t].at = "asking"
  <2>1. u # t /\ grading[t] # NoPlan
    BY <1>5 DEF ExchangeStored, AttackTypeOK
  <2> QED BY <1>2, <1>5, <2>1, StoredAnswers
<1>6. ASSUME NEW u \in Tasks, PlanFails(u) PROVE task'[t].at = "asking"
  <2>1. u # t /\ grading[t] # NoPlan
    BY <1>6 DEF PlanFails
  <2> QED BY <1>2, <1>6, <2>1 DEF PlanFails
<1>7. ASSUME NEW u \in Tasks, NEW plan \in Plans, NEW v \in BOOLEAN, Planned(u, plan, v)
      PROVE  task'[t].at = "asking"
  <2>1. task[u].at = "asking" /\ grading[u] = NoPlan
    BY <1>7 DEF Planned
  <2>2. CASE Gradable(plan)
    <3>1. UNCHANGED callVars /\ (u # t => grading[t] # NoPlan)
      BY <1>7, <2>2 DEF Planned, AttackTypeOK
    <3> QED BY <2>1, <3>1 DEF callVars, GradingWaits, Waiting
  <2>3. CASE ~Gradable(plan)
    <3>1. grading' = grading /\ Decide(u, plan, verifying /\ ~v)
      BY <1>7, <2>3 DEF Planned
    <3>2. (verifying /\ ~v) \in BOOLEAN
      BY DEF AttackTypeOK
    <3>3. \E c \in BOOLEAN : Answer(u, c)
      BY <3>1, <3>2, DecideAnswers
    <3> QED BY <1>2, <2>1, <3>1, <3>3
  <2> QED BY <2>2, <2>3
<1> QED BY <1>1, <1>3, <1>4, <1>5, <1>6, <1>7 DEF AttackNext, Waiting

-----------------------------------------------------------------------------
(* Types of the attacker's own state. *)

LEMMA ExchangeTyped ==
  ASSUME CallTypeOK, AttackTypeOK, NEW t \in Tasks, NEW plan \in Plans, Gradable(plan)
  PROVE  Exchange(t, plan) \in ExchangeType
<1>1. Len(exchanges) \in Nat /\ Len(attackLines) \in Nat /\ Len(transcript) \in Nat
  BY DEF AttackTypeOK, CallTypeOK
<1>2. attackLines[Len(exchanges) + 1].at \in Nat
  <2>1. Len(exchanges) + 1 \in DOMAIN attackLines
    BY <1>1 DEF Gradable, AttackTypeOK
  <2>2. attackLines[Len(exchanges) + 1] \in AttackLineType
    BY <2>1 DEF AttackTypeOK
  <2> QED BY <2>2 DEF AttackLineType
<1>3. ReplyTurns \subseteq Nat /\ task[t].line \in Nat
  BY DEF ReplyTurns, CallTypeOK, TaskType
<1>4. plan.verdict \in {"none", "blocked", "succeeded"}
  BY DEF Plans
<1> QED BY <1>1, <1>2, <1>3, <1>4 DEF Exchange, ExchangeType

LEMMA AttackTyping ==
  ASSUME CallTypeOK, AttackTypeOK, [AttackNext]_<<callVars, attackVars>>
  PROVE  AttackTypeOK'
<1>1. attackLines' \in Seq(AttackLineType) /\ exchanges' \in Seq(ExchangeType)
  <2>1. ASSUME NEW o \in BOOLEAN, SayAttack(o), exchanges' = exchanges
        PROVE  attackLines' \in Seq(AttackLineType) /\ exchanges' \in Seq(ExchangeType)
    <3>1. Len(transcript) + 1 \in Nat
      BY DEF CallTypeOK
    <3>2. [at |-> Len(transcript) + 1, orderly |-> o] \in AttackLineType
      BY <3>1 DEF AttackLineType
    <3> QED BY <2>1, <3>2 DEF SayAttack, AttackTypeOK
  <2>2. CASE Grades
    <3>1. PICK t \in Waiting, plan \in Plans :
            Gradable(plan) /\ exchanges' = Append(exchanges, Exchange(t, plan))
      BY <2>2 DEF Grades
    <3>2. Exchange(t, plan) \in ExchangeType
      BY <3>1, ExchangeTyped DEF Waiting
    <3> QED BY <2>2, <3>1, <3>2 DEF Grades, AttackTypeOK
  <2>3. CASE NoAttack
    BY <2>3 DEF NoAttack, AttackTypeOK
  <2> QED BY <2>1, <2>2, <2>3, AttackSteps DEF Attacks
<1>2. /\ verifying' \in BOOLEAN /\ verifyTurns' \in Nat /\ failure' \in BOOLEAN
      /\ grading' \in [Tasks -> Plans \union {NoPlan}]
  <2>1. CASE UNCHANGED attackVars
    BY <2>1 DEF attackVars, AttackTypeOK
  <2>2. ASSUME NEW t \in Tasks, AskAttacker(t) \/ ExchangeStored(t) \/ PlanFails(t)
        PROVE  /\ verifying' \in BOOLEAN /\ verifyTurns' \in Nat /\ failure' \in BOOLEAN
               /\ grading' \in [Tasks -> Plans \union {NoPlan}]
    BY <2>2 DEF AskAttacker, ExchangeStored, PlanFails, AttackTypeOK
  <2>3. ASSUME NEW t \in Tasks, NEW plan \in Plans, NEW v \in BOOLEAN, Planned(t, plan, v)
        PROVE  /\ verifying' \in BOOLEAN /\ verifyTurns' \in Nat /\ failure' \in BOOLEAN
               /\ grading' \in [Tasks -> Plans \union {NoPlan}]
    <3>1. verifying' \in BOOLEAN
      BY <2>3 DEF Planned, AttackTypeOK
    <3> QED BY <2>3, <3>1 DEF Planned, AttackTypeOK
  <2>4. CASE /\ grading' = [t \in Tasks |-> IF task'[t].at = "asking" THEN grading[t] ELSE NoPlan]
             /\ UNCHANGED <<verifying, verifyTurns, attackLines, exchanges, failure>>
    BY <2>4 DEF AttackTypeOK
  <2> QED
    BY <2>1, <2>2, <2>3, <2>4 DEF AttackNext, AttackerWakes, attackVars, Tasks, Waiting
<1> QED BY <1>1, <1>2 DEF AttackTypeOK

-----------------------------------------------------------------------------
(* A task asks about a line of the agent's, attack lines are the caller's  *)
(* and said one after another, and as long as they are said in order there *)
(* is one more of them than there are exchanges at most.                   *)

AsksAboutReplies ==
  \A t \in Waiting : task[t].line \in DOMAIN transcript /\ transcript[task[t].line] = "agent"

LinesSaid ==
  /\ \A l \in DOMAIN attackLines : /\ attackLines[l].at \in DOMAIN transcript
                                   /\ transcript[attackLines[l].at] = "caller"
  /\ \A l, n \in DOMAIN attackLines : l < n => attackLines[l].at < attackLines[n].at

UpToDate ==
  AllOrderly => /\ Len(attackLines) <= Len(exchanges) + 1
                /\ (\E t \in Tasks : GradedInTime(t)) => Len(attackLines) <= Len(exchanges)

\* What RepliesGradeTheirLine says of an exchange.
GradesItsLine(e) ==
  LET before == {l \in DOMAIN attackLines : attackLines[l].at <= e.at}
  IN e.seen = e.at =>
       /\ e.reply # {} /\ \A k \in e.reply : e.prompt < k /\ k <= e.at
       /\ (\A l \in before : attackLines[l].orderly) => \A l \in before : attackLines[l].at <= e.prompt

Graded == \A i \in DOMAIN exchanges : exchanges[i].at <= Len(transcript) /\ GradesItsLine(exchanges[i])

LEMMA AsksStep ==
  ASSUME CallTypeOK, AttackTypeOK, AsksAboutReplies, [AttackNext]_<<callVars, attackVars>>
  PROVE  AsksAboutReplies'
<1> SUFFICES ASSUME NEW t \in Waiting'
             PROVE  task'[t].line \in DOMAIN transcript' /\ transcript'[task'[t].line] = "agent"
  BY DEF AsksAboutReplies
<1>1. \A i \in DOMAIN transcript : i \in DOMAIN transcript' /\ transcript'[i] = transcript[i]
  BY AttackIsACall, LinesStay
<1>2. CASE StillAsks(t)
  BY <1>1, <1>2 DEF StillAsks, AsksAboutReplies
<1>3. CASE AsksNow(t)
  <2>1. Len(transcript) \in DOMAIN transcript
    BY <1>3 DEF AsksNow, HasReply, CallTypeOK
  <2> QED BY <1>3, <2>1 DEF AsksNow, HasReply
<1> QED BY <1>2, <1>3, WhoAsks

LEMMA LinesSaidStep ==
  ASSUME CallTypeOK, AttackTypeOK, LinesSaid, [AttackNext]_<<callVars, attackVars>>
  PROVE  LinesSaid'
<1>1. \A i \in DOMAIN transcript : i \in DOMAIN transcript' /\ transcript'[i] = transcript[i]
  BY AttackIsACall, LinesStay
<1>2. CASE UNCHANGED attackLines
  BY <1>1, <1>2 DEF LinesSaid
<1>3. CASE Attacks
  <2>1. PICK o \in BOOLEAN : attackLines' = Append(attackLines, [at |-> Len(transcript) + 1, orderly |-> o])
    BY <1>3 DEF Attacks, SayAttack
  <2>2. /\ DOMAIN attackLines' = DOMAIN attackLines \union {Len(attackLines) + 1}
        /\ \A l \in DOMAIN attackLines : attackLines'[l] = attackLines[l] /\ l \in 1 .. Len(attackLines)
        /\ attackLines'[Len(attackLines) + 1].at = Len(transcript) + 1
    BY <2>1 DEF AttackTypeOK
  <2>3. /\ Len(transcript) + 1 \in DOMAIN transcript' /\ transcript'[Len(transcript) + 1] = "caller"
        /\ \A i \in DOMAIN transcript : i < Len(transcript) + 1
    BY <1>3 DEF Attacks, CallTypeOK
  <2>4. Len(attackLines) \in Nat
    BY DEF AttackTypeOK
  <2>5. \A l \in DOMAIN attackLines' : /\ attackLines'[l].at \in DOMAIN transcript'
                                       /\ transcript'[attackLines'[l].at] = "caller"
    BY <1>1, <2>2, <2>3 DEF LinesSaid
  <2>6. \A l, n \in DOMAIN attackLines' : l < n => attackLines'[l].at < attackLines'[n].at
    BY <2>2, <2>3, <2>4 DEF LinesSaid
  <2> QED BY <2>5, <2>6 DEF LinesSaid
<1> QED BY <1>2, <1>3, AttackSteps DEF Grades, NoAttack

LEMMA UpToDateStep ==
  ASSUME CallTypeOK, AttackTypeOK, AsksAboutReplies, LinesSaid, GradingWaits, UpToDate,
         [AttackNext]_<<callVars, attackVars>>
  PROVE  UpToDate'
<1>1. Len(transcript) \in Nat /\ Len(attackLines) \in Nat /\ Len(exchanges) \in Nat
  BY DEF CallTypeOK, AttackTypeOK
<1>2. \A t \in Waiting : task[t].line <= Len(transcript)
  BY <1>1 DEF AsksAboutReplies, CallTypeOK
<1>3. transcript' = transcript \/ Len(transcript') = Len(transcript) + 1
  BY AttackIsACall, LinesStay
<1>4. CASE NoAttack /\ NoNewPlan
  <2>1. ASSUME NEW t \in Tasks, GradedInTime(t)' PROVE GradedInTime(t)
    <3>1. grading[t] # NoPlan /\ t \in Waiting
      BY <1>4, <2>1 DEF NoNewPlan, GradedInTime, GradingWaits
    <3>2. task'[t] = task[t]
      BY <2>1, <3>1, WhoAsks DEF GradedInTime, StillAsks, AsksNow
    <3>3. task[t].line = Len(transcript')
      BY <2>1, <3>2 DEF GradedInTime
    <3>4. transcript' = transcript
      BY <1>1, <1>2, <1>3, <3>1, <3>3
    <3> QED BY <3>1, <3>3, <3>4 DEF GradedInTime
  <2> QED BY <1>4, <2>1 DEF NoAttack, UpToDate, AllOrderly
<1>5. CASE Attacks
  <2>1. PICK o \in BOOLEAN :
          /\ attackLines' = Append(attackLines, [at |-> Len(transcript) + 1, orderly |-> o])
          /\ o => InItsTurn
    BY <1>5 DEF Attacks, SayAttack
  <2>2. /\ Len(attackLines') = Len(attackLines) + 1 /\ Len(exchanges') = Len(exchanges)
        /\ DOMAIN attackLines' = DOMAIN attackLines \union {Len(attackLines) + 1}
        /\ \A l \in DOMAIN attackLines : attackLines'[l] = attackLines[l]
        /\ attackLines'[Len(attackLines) + 1].orderly = o
    BY <1>5, <2>1 DEF AttackTypeOK, Attacks
  <2>3. AllOrderly' => AllOrderly /\ InItsTurn
    BY <2>1, <2>2 DEF AllOrderly
  <2>4. transcript = << >> => Len(attackLines) = 0
    <3> SUFFICES ASSUME transcript = << >>, Len(attackLines) # 0 PROVE FALSE
      OBVIOUS
    <3>1. 1 \in DOMAIN attackLines
      BY <1>1 DEF AttackTypeOK
    <3> QED BY <3>1 DEF LinesSaid
  <2>5. AllOrderly' => Len(attackLines) <= Len(exchanges)
    BY <1>1, <2>3, <2>4 DEF InItsTurn, UpToDate
  <2>6. ASSUME NEW t \in Tasks, GradedInTime(t)' PROVE FALSE
    <3>1. Len(transcript') = Len(transcript) + 1
      BY <1>5 DEF Attacks, CallTypeOK
    <3>2. t \in Waiting /\ task'[t] = task[t]
      BY <1>1, <2>6, <3>1, WhoAsks DEF GradedInTime, StillAsks, AsksNow
    <3> QED BY <1>1, <1>2, <2>6, <3>1, <3>2 DEF GradedInTime
  <2> QED BY <1>1, <2>2, <2>5, <2>6 DEF UpToDate
<1>6. CASE Grades
  <2>1. Len(exchanges') = Len(exchanges) + 1 /\ Len(exchanges) < Len(attackLines)
    BY <1>6 DEF Grades, Gradable, AttackTypeOK
  <2>2. AllOrderly' => AllOrderly
    BY <1>6 DEF Grades, AllOrderly
  <2> QED BY <1>1, <1>6, <2>1, <2>2 DEF Grades, UpToDate
<1> QED BY <1>4, <1>5, <1>6, AttackSteps

\* An exchange is stored as it will stay: the attack lines said later come after it.
LEMMA GradeStays ==
  ASSUME CallTypeOK, AttackTypeOK, UNCHANGED attackLines \/ Attacks
  PROVE  \A e \in ExchangeType : e.at <= Len(transcript) /\ GradesItsLine(e) => GradesItsLine(e)'
<1>1. CASE UNCHANGED attackLines
  BY <1>1 DEF GradesItsLine
<1>2. CASE Attacks
  <2>1. PICK o \in BOOLEAN : attackLines' = Append(attackLines, [at |-> Len(transcript) + 1, orderly |-> o])
    BY <1>2 DEF Attacks, SayAttack
  <2>2. /\ DOMAIN attackLines' = DOMAIN attackLines \union {Len(attackLines) + 1}
        /\ \A l \in DOMAIN attackLines : attackLines'[l] = attackLines[l]
        /\ attackLines'[Len(attackLines) + 1].at = Len(transcript) + 1
    BY <2>1 DEF AttackTypeOK
  <2>3. SUFFICES ASSUME NEW e \in ExchangeType, e.at <= Len(transcript), GradesItsLine(e)
                 PROVE  GradesItsLine(e)'
    OBVIOUS
  <2>4. Len(transcript) \in Nat /\ e.at \in Nat
    BY DEF CallTypeOK, ExchangeType
  <2>5. \A l \in DOMAIN attackLines' :
          attackLines'[l].at <= e.at => l \in DOMAIN attackLines /\ attackLines'[l] = attackLines[l]
    BY <2>2, <2>3, <2>4
  <2>6. \A l \in DOMAIN attackLines : l \in DOMAIN attackLines' /\ attackLines'[l] = attackLines[l]
    BY <2>2
  <2> QED BY <2>3, <2>5, <2>6 DEF GradesItsLine
<1> QED BY <1>1, <1>2

\* What is stored now is the agent's reply to the only line that is not graded yet.
LEMMA NewGrade ==
  ASSUME CallTypeOK, AttackTypeOK, AsksAboutReplies, LinesSaid, UpToDate,
         NEW t \in Waiting, NEW plan \in Plans, Gradable(plan)
  PROVE  Exchange(t, plan).at <= Len(transcript) /\ GradesItsLine(Exchange(t, plan))
<1>1. Len(transcript) \in Nat /\ Len(attackLines) \in Nat /\ Len(exchanges) \in Nat
  BY DEF CallTypeOK, AttackTypeOK
<1>2. PICK n : n = Len(exchanges) + 1
  OBVIOUS
<1>3. n \in DOMAIN attackLines
  BY <1>1, <1>2 DEF Gradable, AttackTypeOK
<1>4. PICK e : e = Exchange(t, plan)
  OBVIOUS
<1>5. /\ e.prompt = attackLines[n].at /\ e.reply = ReplyTurns
      /\ e.seen = task[t].line /\ e.at = Len(transcript)
  BY <1>2, <1>4 DEF Exchange
<1>6. ASSUME e.seen = e.at PROVE e.reply # {}
  <2>1. Len(transcript) \in DOMAIN transcript /\ transcript[Len(transcript)] = "agent"
    BY <1>5, <1>6 DEF AsksAboutReplies
  <2>2. \A j \in Len(transcript) .. Len(transcript) : transcript[j] = "agent"
    BY <1>1, <2>1
  <2> QED BY <1>5, <2>1, <2>2 DEF ReplyTurns
<1>7. ASSUME NEW k \in e.reply PROVE e.prompt < k /\ k <= e.at
  <2>1. k \in DOMAIN transcript /\ \A j \in k .. Len(transcript) : transcript[j] = "agent"
    BY <1>5 DEF ReplyTurns
  <2>2. e.prompt \in DOMAIN transcript /\ transcript[e.prompt] = "caller"
    BY <1>3, <1>5 DEF LinesSaid
  <2>3. DOMAIN transcript = 1 .. Len(transcript)
    BY DEF CallTypeOK
  <2>4. e.prompt \notin k .. Len(transcript)
    BY <2>1, <2>2
  <2> QED BY <1>1, <1>5, <2>1, <2>2, <2>3, <2>4
<1>8. ASSUME \A l \in {m \in DOMAIN attackLines : attackLines[m].at <= e.at} : attackLines[l].orderly
      PROVE  \A l \in DOMAIN attackLines : attackLines[l].at <= e.prompt
  <2>1. DOMAIN transcript = 1 .. Len(transcript) /\ DOMAIN attackLines = 1 .. Len(attackLines)
    BY DEF CallTypeOK, AttackTypeOK
  <2>2. AllOrderly
    BY <1>1, <1>5, <1>8, <2>1 DEF AllOrderly, LinesSaid
  <2>3. n = Len(attackLines)
    <3>1. Len(attackLines) <= Len(exchanges) + 1
      BY <2>2, Zenon DEF UpToDate
    <3>2. n \in 1 .. Len(attackLines)
      BY <1>3, <2>1
    <3> QED BY <1>1, <1>2, <3>1, <3>2
  <2>4. SUFFICES ASSUME NEW l \in DOMAIN attackLines PROVE attackLines[l].at <= attackLines[n].at
    BY <1>5
  <2>5. attackLines[l].at \in 1 .. Len(transcript) /\ attackLines[n].at \in 1 .. Len(transcript)
    BY <1>3, <2>1 DEF LinesSaid
  <2>6. l < n => attackLines[l].at < attackLines[n].at
    BY <1>3 DEF LinesSaid
  <2> QED BY <1>1, <2>1, <2>3, <2>5, <2>6
<1>9. e.at <= Len(transcript)
  BY <1>1, <1>5
<1> QED BY <1>4, <1>6, <1>7, <1>8, <1>9 DEF GradesItsLine

LEMMA GradedStep ==
  ASSUME CallTypeOK, AttackTypeOK, AsksAboutReplies, LinesSaid, UpToDate, Graded,
         [AttackNext]_<<callVars, attackVars>>
  PROVE  Graded'
<1>1. Len(transcript) \in Nat /\ \A i \in DOMAIN exchanges : exchanges[i] \in ExchangeType
  BY DEF CallTypeOK, AttackTypeOK
<1>2. \A e \in ExchangeType : e.at <= Len(transcript) => e.at <= Len(transcript')
  <2>1. Len(transcript) <= Len(transcript') /\ Len(transcript') \in Nat
    BY <1>1, AttackIsACall, LinesStay
  <2> QED BY <1>1, <2>1 DEF ExchangeType
<1>3. CASE NoAttack \/ Attacks
  <2>1. exchanges' = exchanges /\ (UNCHANGED attackLines \/ Attacks)
    BY <1>3 DEF NoAttack, Attacks
  <2>2. ASSUME NEW i \in DOMAIN exchanges
        PROVE  (exchanges[i].at <= Len(transcript) /\ GradesItsLine(exchanges[i]))'
    <3>1. PICK e \in ExchangeType : e = exchanges[i] /\ e = exchanges'[i]
      BY <1>1, <2>1
    <3>2. e.at <= Len(transcript) /\ GradesItsLine(e)
      BY <3>1 DEF Graded
    <3>3. e.at <= Len(transcript') /\ GradesItsLine(e)'
      BY <1>2, <2>1, <3>2, GradeStays
    <3> QED BY <3>1, <3>3 DEF GradesItsLine
  <2> QED BY <2>1, <2>2 DEF Graded
<1>4. CASE Grades
  <2>1. PICK t \in Waiting, plan \in Plans :
          Gradable(plan) /\ exchanges' = Append(exchanges, Exchange(t, plan))
    BY <1>4 DEF Grades
  <2>2. PICK e : e = Exchange(t, plan)
    OBVIOUS
  <2>3. e \in ExchangeType /\ e.at <= Len(transcript) /\ GradesItsLine(e)
    BY <2>1, <2>2, ExchangeTyped, NewGrade DEF Waiting
  <2>4. UNCHANGED <<transcript, attackLines>>
    BY <1>4 DEF Grades, callVars
  <2>5. \A i \in DOMAIN exchanges' : exchanges'[i] = e \/ (i \in DOMAIN exchanges /\ exchanges'[i] = exchanges[i])
    BY <2>1, <2>2, <2>3 DEF AttackTypeOK
  <2>6. \A i \in DOMAIN exchanges' : exchanges'[i].at <= Len(transcript) /\ GradesItsLine(exchanges'[i])
    BY <2>3, <2>5 DEF Graded
  <2> QED BY <2>4, <2>6 DEF Graded, GradesItsLine
<1> QED BY <1>3, <1>4, AttackSteps

-----------------------------------------------------------------------------
AttackInv == /\ CallTypeOK /\ TurnsAllowed /\ AttackTypeOK
             /\ GradingWaits /\ AsksAboutReplies /\ LinesSaid /\ UpToDate /\ Graded

LEMMA AttackInvariance == AttackSpec => []AttackInv
<1>1. CallInit /\ AttackInit => AttackInv
  <2> SUFFICES ASSUME CallInit, AttackInit PROVE AttackInv
    OBVIOUS
  <2>1. AttackTypeOK
    <3>1. attackLines \in Seq(AttackLineType) /\ exchanges \in Seq(ExchangeType)
      BY DEF AttackInit
    <3>2. grading \in [Tasks -> Plans \union {NoPlan}]
      BY DEF AttackInit
    <3> QED BY <3>1, <3>2 DEF AttackInit, AttackTypeOK
  <2>2. Waiting = {}
    BY DEF CallInit, Waiting, Idle
  <2>3. GradingWaits /\ AsksAboutReplies /\ LinesSaid /\ UpToDate /\ Graded
    BY <2>2 DEF AttackInit, GradingWaits, AsksAboutReplies, LinesSaid, UpToDate, Graded, GradedInTime
  <2> QED BY <2>1, <2>3, CallStarts DEF AttackInv
<1>2. AttackInv /\ [AttackNext]_<<callVars, attackVars>> => AttackInv'
  BY AttackIsACall, CallInvariance, AttackTyping, GradingWaitsStep, AsksStep, LinesSaidStep,
     UpToDateStep, GradedStep DEF AttackInv
<1> QED BY <1>1, <1>2, PTL DEF AttackSpec

\* In a red-team call too max_turns is exceeded by one turn at most.
THEOREM AttackTurnsAreBounded == AttackSpec => []TurnsBounded
<1>1. AttackInv => TurnsBounded
  BY DEF AttackInv, TurnsAllowed, TurnsBounded
<1> QED BY <1>1, AttackInvariance, PTL

\* Whatever the model answers and however its calls are cancelled, repeated and
\* overlap: a verdict on a transcript that nothing was added to meanwhile is stored
\* with a reply that is not empty and was heard after the stored attack line, and,
\* if every line so far was said in order, with the latest attack line there is.
THEOREM RepliesAreGraded == AttackSpec => []RepliesGradeTheirLine
<1>1. AttackInv => RepliesGradeTheirLine
  BY DEF AttackInv, Graded, GradesItsLine, RepliesGradeTheirLine
<1> QED BY <1>1, AttackInvariance, PTL

-----------------------------------------------------------------------------
(* The turns joined.  The function that joins them is recursive: that it   *)
(* exists, and so is what its definition says, is shown by taking the      *)
(* least argument up to which it would not.                                *)

\* A set of naturals that is not empty has a least member.
LEMMA LeastMember ==
  ASSUME NEW S, S \subseteq Nat, S # {}
  PROVE  \E n \in S : \A m \in S : n <= m
<1>1. PICK R : R = {ss \in Nat \X Nat : ss[1] < ss[2]}
  OBVIOUS
<1>2. IsWellFoundedOn(R, Nat)
  BY <1>1, NatLessThanWellFounded DEF OpToRel
<1>3. PICK n \in S : \A m \in S : <<m, n>> \notin R
  BY <1>2, WFMin, Zenon
<1>4. ASSUME NEW m \in S PROVE n <= m
  <2>1. n \in Nat /\ m \in Nat /\ <<m, n>> \in Nat \X Nat
    OBVIOUS
  <2>2. ~(m < n)
    BY <1>1, <1>3, <2>1
  <2> QED BY <2>1, <2>2
<1> QED BY <1>4

\* A function that does at i what JoinedFrom says.
JoinsAt(f, first, i) ==
  f[i] = IF i <= first THEN heard[first].text
         ELSE f[i - 1] \o <<Blank>> \o heard[i].text

LEMMA JoinsOnePath ==
  ASSUME NEW first \in Nat, NEW n \in Nat, NEW f, NEW g,
         \A i \in 0 .. n : JoinsAt(f, first, i) /\ JoinsAt(g, first, i)
  PROVE  \A i \in 0 .. n : f[i] = g[i]
<1> DEFINE S == {i \in 0 .. n : f[i] # g[i]}
<1> SUFFICES ASSUME S # {} PROVE FALSE
  OBVIOUS
<1> S \subseteq Nat
  OBVIOUS
<1>1. PICK i \in S : \A j \in S : i <= j
  BY LeastMember, Zenon
<1>2. i \in 0 .. n /\ f[i] # g[i]
  OBVIOUS
<1>3. CASE i <= first
  BY <1>2, <1>3 DEF JoinsAt
<1>4. CASE ~(i <= first)
  <2>1. i - 1 \in 0 .. n /\ i - 1 \notin S
    BY <1>1, <1>2, <1>4
  <2>2. f[i - 1] = g[i - 1]
    BY <2>1
  <2> QED BY <1>2, <1>4, <2>2 DEF JoinsAt
<1> QED BY <1>3, <1>4

LEMMA JoinsSoFar ==
  ASSUME NEW first \in Nat, NEW n \in Nat
  PROVE  \E f : \A i \in 0 .. n : JoinsAt(f, first, i)
<1> DEFINE S == {m \in Nat : ~\E f : \A i \in 0 .. m : JoinsAt(f, first, i)}
<1> SUFFICES ASSUME S # {} PROVE FALSE
  OBVIOUS
<1>1. PICK m \in S : \A j \in S : m <= j
  BY LeastMember
<1>2. m \in Nat /\ ~\E f : \A i \in 0 .. m : JoinsAt(f, first, i)
  OBVIOUS
<1>3. CASE m = 0
  <2>1. PICK f : f = [i \in 0 .. 0 |-> heard[first].text]
    OBVIOUS
  <2>2. \A i \in 0 .. m : JoinsAt(f, first, i)
    BY <1>3, <2>1 DEF JoinsAt
  <2> QED BY <1>2, <2>2
<1>4. CASE m # 0
  <2>1. m - 1 \in Nat /\ m - 1 \notin S
    BY <1>1, <1>2, <1>4
  <2>2. PICK g : \A i \in 0 .. m - 1 : JoinsAt(g, first, i)
    BY <2>1
  <2>3. PICK f : f = [i \in 0 .. m |->
                        IF i < m THEN g[i]
                        ELSE IF i <= first THEN heard[first].text
                        ELSE g[i - 1] \o <<Blank>> \o heard[i].text]
    OBVIOUS
  <2>4. \A i \in 0 .. m - 1 : f[i] = g[i]
    BY <1>2, <2>3
  <2>5. f[m] = IF m <= first THEN heard[first].text
               ELSE f[m - 1] \o <<Blank>> \o heard[m].text
    BY <1>2, <2>1, <2>3, <2>4
  <2>6. ASSUME NEW i \in 0 .. m PROVE JoinsAt(f, first, i)
    <3>1. CASE i = m
      BY <2>5, <3>1 DEF JoinsAt
    <3>2. CASE i # m
      <4>1. i \in 0 .. m - 1 /\ (i > first => i - 1 \in 0 .. m - 1)
        BY <1>2, <3>2
      <4> QED BY <2>2, <2>4, <4>1 DEF JoinsAt
    <3> QED BY <3>1, <3>2
  <2> QED BY <1>2, <2>6
<1> QED BY <1>3, <1>4

LEMMA JoinedFromIs ==
  ASSUME NEW first \in Nat PROVE \A i \in Nat : JoinsAt(JoinedFrom(first), first, i)
<1>1. PICK far : far = [i \in Nat |-> CHOOSE f : \A j \in 0 .. i : JoinsAt(f, first, j)]
  OBVIOUS
<1>2. \A i \in Nat : \A j \in 0 .. i : JoinsAt(far[i], first, j)
  BY <1>1, JoinsSoFar
<1>3. PICK whole : whole = [i \in Nat |-> far[i][i]]
  OBVIOUS
<1>4. \A i \in Nat : whole[i] = far[i][i]
  BY <1>3
<1>5. ASSUME NEW i \in Nat PROVE JoinsAt(whole, first, i)
  <2>1. JoinsAt(far[i], first, i)
    BY <1>2
  <2>2. CASE i <= first
    BY <1>4, <2>1, <2>2 DEF JoinsAt
  <2>3. CASE ~(i <= first)
    <3>1. i - 1 \in Nat /\ i - 1 \in 0 .. i - 1 /\ 0 .. i - 1 \subseteq 0 .. i
      BY <2>3
    <3>2. \A j \in 0 .. i - 1 : JoinsAt(far[i], first, j) /\ JoinsAt(far[i - 1], first, j)
      BY <1>2, <3>1
    <3>3. far[i][i - 1] = far[i - 1][i - 1]
      BY <3>1, <3>2, JoinsOnePath
    <3>4. whole[i - 1] = far[i][i - 1]
      BY <1>4, <3>1, <3>3
    <3>5. whole[i] = far[i][i]
      BY <1>4
    <3> QED BY <2>1, <2>3, <3>4, <3>5 DEF JoinsAt
  <2> QED BY <2>2, <2>3
<1> DEFINE Body(f, i) == IF i <= first THEN heard[first].text
                         ELSE f[i - 1] \o <<Blank>> \o heard[i].text
<1>6. whole = [i \in Nat |-> Body(whole, i)]
  <2>1. \A i \in Nat : whole[i] = Body(whole, i)
    BY <1>5 DEF JoinsAt
  <2>2. whole = [i \in Nat |-> whole[i]]
    BY <1>3
  <2> HIDE DEF Body
  <2> QED BY <2>1, <2>2
<1>7. JoinedFrom(first) = CHOOSE f : f = [i \in Nat |-> Body(f, i)]
  BY DEF JoinedFrom
<1>8. \E f : f = [i \in Nat |-> Body(f, i)]
  BY <1>6
<1> HIDE DEF Body
<1>9. JoinedFrom(first) = [i \in Nat |-> Body(JoinedFrom(first), i)]
  BY <1>7, <1>8
<1>10. \A i \in Nat : JoinedFrom(first)[i] = Body(JoinedFrom(first), i)
  BY <1>9
<1> QED BY <1>10 DEF JoinsAt, Body

LEMMA JoinedFirst ==
  ASSUME NEW first \in Nat PROVE Joined(first, first) = heard[first].text
<1>1. JoinsAt(JoinedFrom(first), first, first) /\ first <= first
  BY JoinedFromIs
<1> QED BY <1>1, Zenon DEF JoinsAt, Joined

LEMMA JoinedThen ==
  ASSUME NEW first \in Nat, NEW i \in Nat, i > first
  PROVE  Joined(first, i) = Joined(first, i - 1) \o <<Blank>> \o heard[i].text
<1>1. JoinsAt(JoinedFrom(first), first, i) /\ ~(i <= first)
  BY JoinedFromIs
<1> QED BY <1>1, Zenon DEF JoinsAt, Joined

\* The call has n turns, and none is empty.
Said(n) ==
  /\ n \in Nat /\ DOMAIN heard = 1 .. n
  /\ \A i \in 1 .. n : heard[i].text \in Seq(Chars) /\ Len(heard[i].text) > 0

LEMMA HeardIsSaid == ASSUME heard \in Transcripts PROVE \E n \in Nat : Said(n)
<1>1. PICK n \in Nat : heard \in [1 .. n -> Turns]
  BY JudgeAssumption DEF Transcripts
<1>2. ASSUME NEW i \in 1 .. n PROVE heard[i].text \in Seq(Chars) /\ Len(heard[i].text) > 0
  <2>1. PICK text \in Texts : text = heard[i].text
    BY <1>1 DEF Turns
  <2>2. text \in Seq(Chars) /\ text # << >>
    BY JudgeAssumption DEF NoQuote
  <2>3. Len(text) > 0
    BY <2>2
  <2> QED BY <2>1, <2>2, <2>3
<1> QED BY <1>1, <1>2 DEF Said

\* u is s, a blank and t.
Glued(u, s, t) ==
  /\ u \in Seq(Chars) /\ s \in Seq(Chars) /\ t \in Seq(Chars)
  /\ Len(u) = Len(s) + 1 + Len(t)
  /\ \A k \in 1 .. Len(s) : u[k] = s[k]
  /\ u[Len(s) + 1] = Blank
  /\ \A k \in 1 .. Len(t) : u[Len(s) + 1 + k] = t[k]

Concat(u, s, t) ==
  /\ u \in Seq(Chars) /\ Len(u) = Len(s) + Len(t)
  /\ \A k \in 1 .. Len(s) : u[k] = s[k]
  /\ \A k \in 1 .. Len(t) : u[Len(s) + k] = t[k]

LEMMA ConcatIs ==
  ASSUME NEW s \in Seq(Chars), NEW t \in Seq(Chars) PROVE Concat(s \o t, s, t)
BY DEF Concat

LEMMA OneElement ==
  ASSUME NEW S, NEW x \in S PROVE <<x>> \in Seq(S) /\ Len(<<x>>) = 1 /\ <<x>>[1] = x
OBVIOUS

LEMMA GluedIs ==
  ASSUME NEW s \in Seq(Chars), NEW t \in Seq(Chars) PROVE Glued(s \o <<Blank>> \o t, s, t)
<1>1. PICK b \in Seq(Chars) : b = <<Blank>> /\ Len(b) = 1 /\ b[1] = Blank
  <2>1. Blank \in Chars
    BY DEF Chars
  <2>2. <<Blank>> \in Seq(Chars) /\ Len(<<Blank>>) = 1 /\ <<Blank>>[1] = Blank
    BY <2>1, OneElement, Zenon
  <2> QED BY <2>2
<1>2. Concat(s \o b, s, b)
  BY ConcatIs
<1>3. PICK v \in Seq(Chars) : v = s \o b /\ Concat(v, s, b)
  BY <1>2 DEF Concat
<1>4. Concat(v \o t, v, t)
  BY ConcatIs
<1>5. PICK u : u = v \o t /\ Concat(u, v, t)
  BY <1>4
<1>6. Len(v) = Len(s) + 1 /\ v[Len(s) + 1] = Blank /\ \A k \in 1 .. Len(s) : v[k] = s[k]
  BY <1>1, <1>3 DEF Concat
<1>7. Glued(u, s, t)
  BY <1>5, <1>6 DEF Glued, Concat
<1> QED BY <1>1, <1>3, <1>5, <1>7, Zenon

LEMMA JoinedTyped ==
  ASSUME NEW n \in Nat, Said(n), NEW first \in 1 .. n
  PROVE  \A i \in first .. n : Joined(first, i) \in Seq(Chars)
<1> DEFINE S == {i \in first .. n : Joined(first, i) \notin Seq(Chars)}
<1> SUFFICES ASSUME S # {} PROVE FALSE
  OBVIOUS
<1> S \subseteq Nat
  OBVIOUS
<1>1. PICK i \in S : \A j \in S : i <= j
  BY LeastMember, Zenon
<1>2. i \in first .. n /\ Joined(first, i) \notin Seq(Chars) /\ i \in Nat /\ first \in Nat
  OBVIOUS
<1>3. CASE i = first
  <2>1. Joined(first, i) = heard[first].text
    BY <1>2, <1>3, JoinedFirst, Zenon
  <2> QED BY <1>2, <2>1 DEF Said
<1>4. CASE i # first
  <2>1. i - 1 \in first .. n /\ i - 1 \notin S /\ i > first /\ i \in 1 .. n
    BY <1>1, <1>2, <1>4
  <2>2. Joined(first, i - 1) \in Seq(Chars)
    BY <2>1
  <2>3. Joined(first, i) = Joined(first, i - 1) \o <<Blank>> \o heard[i].text
    BY <1>2, <2>1, JoinedThen, Zenon
  <2>4. heard[i].text \in Seq(Chars)
    BY <2>1 DEF Said
  <2>5. Glued(Joined(first, i), Joined(first, i - 1), heard[i].text)
    BY <2>2, <2>3, <2>4, GluedIs
  <2> QED BY <1>2, <2>5 DEF Glued
<1> QED BY <1>3, <1>4

LEMMA NextJoined ==
  ASSUME NEW n \in Nat, Said(n), NEW first \in 1 .. n, NEW i \in first .. n - 1
  PROVE  Glued(Joined(first, i + 1), Joined(first, i), heard[i + 1].text)
<1>1. i + 1 \in 1 .. n /\ i + 1 \in Nat /\ i + 1 > first /\ (i + 1) - 1 = i /\ i \in first .. n
      /\ first \in Nat
  OBVIOUS
<1>2. Joined(first, i + 1) = Joined(first, i) \o <<Blank>> \o heard[i + 1].text
  BY <1>1, JoinedThen, Zenon
<1>3. Joined(first, i) \in Seq(Chars)
  BY <1>1, JoinedTyped
<1>4. heard[i + 1].text \in Seq(Chars)
  BY <1>1 DEF Said
<1> QED BY <1>2, <1>3, <1>4, GluedIs

\* u begins with s.
Begins(u, s) == Len(s) <= Len(u) /\ \A k \in 1 .. Len(s) : u[k] = s[k]

LEMMA GluedBegins ==
  ASSUME NEW u, NEW v, NEW t, NEW s \in Seq(Chars), Glued(u, v, t), Begins(v, s)
  PROVE  Begins(u, s)
<1>1. PICK x \in Nat, y \in Nat, z \in Nat : x = Len(u) /\ y = Len(v) /\ z = Len(t)
  BY DEF Glued
<1>2. PICK w \in Nat : w = Len(s)
  OBVIOUS
<1>3. x = y + 1 + z /\ w <= y
  BY <1>1, <1>2 DEF Glued, Begins
<1>4. ASSUME NEW k \in 1 .. w PROVE u[k] = s[k]
  <2>1. k \in 1 .. y
    BY <1>3
  <2>2. u[k] = v[k] /\ v[k] = s[k]
    BY <1>1, <1>2, <2>1 DEF Glued, Begins
  <2> QED BY <2>2
<1> QED BY <1>1, <1>2, <1>3, <1>4 DEF Begins

\* The joined turns begin with those that came before.
LEMMA JoinedGrows ==
  ASSUME NEW n \in Nat, Said(n), NEW first \in 1 .. n, NEW b \in first .. n
  PROVE  \A c \in b .. n : Begins(Joined(first, c), Joined(first, b))
<1> DEFINE S == {c \in b .. n : ~Begins(Joined(first, c), Joined(first, b))}
<1> SUFFICES ASSUME S # {} PROVE FALSE
  OBVIOUS
<1>1. S \subseteq Nat
  OBVIOUS
<1>2. PICK c \in S : \A j \in S : c <= j
  BY <1>1, LeastMember, Zenon
<1>3. c \in b .. n /\ ~Begins(Joined(first, c), Joined(first, b))
  OBVIOUS
<1>4. c # b => c - 1 \in b .. n /\ c - 1 \notin S
  BY <1>2, <1>3
<1>5. c # b => c - 1 \in b .. n /\ Begins(Joined(first, c - 1), Joined(first, b))
  BY <1>4
<1>6. Joined(first, b) \in Seq(Chars)
  BY JoinedTyped
<1> HIDE DEF S
<1>7. CASE c = b
  BY <1>3, <1>6, <1>7 DEF Begins
<1>8. CASE c # b
  <2>1. c - 1 \in first .. n - 1 /\ (c - 1) + 1 = c
    BY <1>3, <1>8
  <2>2. Glued(Joined(first, c), Joined(first, c - 1), heard[c].text)
    BY <2>1, NextJoined
  <2> QED BY <1>3, <1>5, <1>6, <1>8, <2>2, GluedBegins
<1> QED BY <1>7, <1>8

\* Before the next turn comes a blank.
LEMMA BlankBetween ==
  ASSUME NEW n \in Nat, Said(n), NEW first \in 1 .. n, NEW b \in first .. n, NEW c \in b .. n,
         b # c
  PROVE  /\ Len(Joined(first, b)) < Len(Joined(first, c))
         /\ Joined(first, c)[Len(Joined(first, b)) + 1] = Blank
<1>1. b \in first .. n - 1 /\ b + 1 \in first .. n /\ c \in b + 1 .. n /\ b + 1 \in 1 .. n
  OBVIOUS
<1>2. Glued(Joined(first, b + 1), Joined(first, b), heard[b + 1].text)
  BY <1>1, NextJoined
<1>3. Begins(Joined(first, c), Joined(first, b + 1))
  BY <1>1, JoinedGrows
<1>4. PICK x \in Nat, y \in Nat, z \in Nat :
        x = Len(Joined(first, b)) /\ y = Len(Joined(first, b + 1)) /\ z = Len(heard[b + 1].text)
  BY <1>2 DEF Glued
<1>5. Joined(first, c) \in Seq(Chars)
  BY JoinedTyped
<1>6. PICK w \in Nat : w = Len(Joined(first, c))
  BY <1>5
<1>7. y = x + 1 + z /\ y <= w
  BY <1>2, <1>3, <1>4, <1>6 DEF Glued, Begins
<1>8. x + 1 \in 1 .. y
  BY <1>7
<1>9. Joined(first, c)[x + 1] = Blank
  BY <1>2, <1>3, <1>4, <1>8 DEF Glued, Begins
<1>10. x < w
  BY <1>7
<1> QED BY <1>4, <1>6, <1>9, <1>10, Zenon

\* u ends with s, from place m + 1 on.
Ends(u, s, m) == Len(u) = m + Len(s) /\ \A k \in 1 .. Len(s) : u[m + k] = s[k]

LEMMA GluedEnds ==
  ASSUME NEW u, NEW v, NEW s, NEW r, NEW t, NEW m \in Nat,
         Glued(u, v, t), Glued(s, r, t), Ends(v, r, m)
  PROVE  Ends(u, s, m)
<1>1. PICK lu \in Nat, lv \in Nat, ls \in Nat, lr \in Nat, lt \in Nat :
        lu = Len(u) /\ lv = Len(v) /\ ls = Len(s) /\ lr = Len(r) /\ lt = Len(t)
  BY DEF Glued
<1>2. lu = lv + 1 + lt /\ ls = lr + 1 + lt /\ lv = m + lr
  BY <1>1 DEF Glued, Ends
<1>3. ASSUME NEW k \in 1 .. ls PROVE u[m + k] = s[k]
  <2>1. CASE k \in 1 .. lr
    <3>1. m + k \in 1 .. lv
      BY <1>2, <2>1
    <3>2. u[m + k] = v[m + k] /\ v[m + k] = r[k] /\ s[k] = r[k]
      BY <1>1, <2>1, <3>1 DEF Glued, Ends
    <3> QED BY <3>2
  <2>2. CASE k = lr + 1
    <3>1. m + k = lv + 1
      BY <1>2, <2>2
    <3> QED BY <1>1, <2>2, <3>1 DEF Glued
  <2>3. CASE k > lr + 1
    <3>1. PICK j \in 1 .. lt : k = lr + 1 + j /\ m + k = lv + 1 + j
      <4>1. k - lr - 1 \in 1 .. lt
        BY <1>2, <2>3
      <4> QED BY <1>2, <4>1
    <3> QED BY <1>1, <3>1 DEF Glued
  <2> QED BY <2>1, <2>2, <2>3
<1> QED BY <1>1, <1>2, <1>3 DEF Ends

\* The turns from a on are at the end of those from first on, from where a starts.
LEMMA JoinedEnds ==
  ASSUME NEW n \in Nat, Said(n), NEW first \in 1 .. n, NEW a \in first .. n
  PROVE  /\ StartOf(first, a) - 1 \in Nat
         /\ \A b \in a .. n : Ends(Joined(first, b), Joined(a, b), StartOf(first, a) - 1)
<1> DEFINE m == StartOf(first, a) - 1
<1>1. m \in Nat /\ Ends(Joined(first, a), Joined(a, a), m)
  <2>1. Joined(a, a) = heard[a].text /\ a \in 1 .. n
    BY JoinedFirst
  <2>2. CASE a = first
    <3>1. m = 0
      BY <2>2 DEF StartOf
    <3>2. Joined(a, a) \in Seq(Chars)
      BY <2>1 DEF Said
    <3> QED BY <2>2, <3>1, <3>2 DEF Ends
  <2>3. CASE a # first
    <3>1. a - 1 \in first .. n - 1 /\ (a - 1) + 1 = a /\ ~(a <= first)
      BY <2>3
    <3>2. Glued(Joined(first, a), Joined(first, a - 1), heard[a].text)
      BY <3>1, NextJoined
    <3>3. PICK x \in Nat : x = Len(Joined(first, a - 1))
      BY <3>2 DEF Glued
    <3>4. m = x + 1
      BY <3>1, <3>3 DEF StartOf
    <3>5. Ends(Joined(first, a), heard[a].text, x + 1)
      <4>1. PICK u, t : u = Joined(first, a) /\ t = heard[a].text
        OBVIOUS
      <4>2. /\ t \in Seq(Chars) /\ Len(u) = x + 1 + Len(t)
            /\ \A k \in 1 .. Len(t) : u[x + 1 + k] = t[k]
        BY <3>2, <3>3, <4>1 DEF Glued
      <4>3. Ends(u, t, x + 1)
        BY <4>2 DEF Ends
      <4> QED BY <4>1, <4>3
    <3> HIDE DEF m
    <3> QED BY <2>1, <3>4, <3>5
  <2> QED BY <2>2, <2>3
<1> HIDE DEF m
<1> DEFINE S == {b \in a .. n : ~Ends(Joined(first, b), Joined(a, b), m)}
<1>2. SUFFICES ASSUME S # {} PROVE FALSE
  BY <1>1 DEF m
<1>3. S \subseteq Nat
  OBVIOUS
<1>4. PICK b \in S : \A j \in S : b <= j
  BY <1>2, <1>3, LeastMember, Zenon
<1>5. b \in a .. n /\ ~Ends(Joined(first, b), Joined(a, b), m)
  OBVIOUS
<1>6. b # a => b - 1 \in a .. n /\ b - 1 \notin S
  BY <1>4, <1>5
<1>7. b # a => b - 1 \in a .. n /\ Ends(Joined(first, b - 1), Joined(a, b - 1), m)
  BY <1>6
<1> HIDE DEF S
<1>8. b # a
  BY <1>1, <1>5
<1>9. b - 1 \in first .. n - 1 /\ b - 1 \in a .. n - 1 /\ a \in 1 .. n /\ (b - 1) + 1 = b
  BY <1>5, <1>8
<1>10. Glued(Joined(first, b), Joined(first, b - 1), heard[b].text)
  BY <1>9, NextJoined
<1>11. Glued(Joined(a, b), Joined(a, b - 1), heard[b].text)
  BY <1>9, NextJoined
<1> QED BY <1>1, <1>5, <1>7, <1>8, <1>10, <1>11, GluedEnds

-----------------------------------------------------------------------------
(* The turns a match touches.                                              *)

\* q is at place k of s.
IsAt(q, s, k) == /\ k \in 1 .. Len(s) - Len(q) + 1
                 /\ \A j \in 1 .. Len(q) : s[k + j - 1] = q[j]

LEMMA FoundIsAt ==
  ASSUME NEW s \in Seq(Chars), NEW q \in Seq(Chars)
  PROVE  \A k : k \in FoundAt(q, s) <=> IsAt(q, s, k)
<1>1. PICK x \in Nat, y \in Nat : x = Len(s) /\ y = Len(q)
  OBVIOUS
<1>2. ASSUME NEW k \in 1 .. x - y + 1
      PROVE  SubSeq(s, k, k + y - 1) = q <=> \A j \in 1 .. y : s[k + j - 1] = q[j]
  <2>1. PICK last \in Int : last = k + y - 1
    OBVIOUS
  <2>2. k \in Int /\ last - k + 1 = y /\ \A i \in k .. last : s[i] \in Chars
    BY <1>1, <2>1
  <2>3. PICK u : u = SubSeq(s, k, last)
    OBVIOUS
  <2>4. /\ u \in Seq(Chars)
        /\ Len(u) = IF k <= last THEN last - k + 1 ELSE 0
        /\ \A i \in 1 .. last - k + 1 : u[i] = s[k + i - 1]
    <3>1. /\ SubSeq(s, k, last) \in Seq(Chars)
          /\ Len(SubSeq(s, k, last)) = IF k <= last THEN last - k + 1 ELSE 0
          /\ \A i \in 1 .. last - k + 1 : SubSeq(s, k, last)[i] = s[k + i - 1]
      BY <2>2, SubSeqProperties
    <3> QED BY <2>3, <3>1, Zenon
  <2>5. Len(u) = y
    BY <2>1, <2>2, <2>4
  <2>6. \A i \in 1 .. y : u[i] = s[k + i - 1]
    BY <2>2, <2>4
  <2>7. (\A j \in 1 .. Len(u) : u[j] = q[j]) => u = q
    BY <1>1, <2>4, <2>5, SeqEqual, Zenon
  <2>8. u = q <=> \A j \in 1 .. y : u[j] = q[j]
    BY <2>5, <2>7
  <2> QED BY <2>1, <2>3, <2>6, <2>8
<1> QED BY <1>1, <1>2 DEF FoundAt, IsAt

\* Stretches that follow each other with one place between them: st[i] is the first
\* place of i, en[i] the one after its last.
Stretches(st, en, a, b) ==
  /\ \A i \in a .. b : st[i] \in Nat /\ en[i] \in Nat /\ st[i] < en[i]
  /\ \A i \in a .. b - 1 : st[i + 1] = en[i] + 1

LEMMA StretchesInOrder ==
  ASSUME NEW a \in Nat, NEW b \in Nat, NEW st, NEW en, Stretches(st, en, a, b),
         NEW i \in a .. b
  PROVE  \A j \in i .. b : st[i] <= st[j]
<1> DEFINE S == {j \in i .. b : ~(st[i] <= st[j])}
<1> SUFFICES ASSUME S # {} PROVE FALSE
  OBVIOUS
<1>1. S \subseteq Nat
  OBVIOUS
<1>2. PICK j \in S : \A k \in S : j <= k
  BY <1>1, LeastMember, Zenon
<1>3. j \in i .. b /\ ~(st[i] <= st[j])
  OBVIOUS
<1>4. j # i => j - 1 \in i .. b /\ j - 1 \notin S
  BY <1>2, <1>3
<1>5. j # i => j - 1 \in i .. b /\ st[i] <= st[j - 1]
  BY <1>4
<1> HIDE DEF S
<1>6. st[i] \in Nat /\ st[j] \in Nat
  BY <1>3 DEF Stretches
<1>7. j # i
  BY <1>3, <1>6
<1>8. j - 1 \in a .. b - 1 /\ (j - 1) + 1 = j
  BY <1>3, <1>7
<1>9. st[j - 1] \in Nat /\ en[j - 1] \in Nat /\ st[j - 1] < en[j - 1] /\ st[j] = en[j - 1] + 1
  BY <1>8 DEF Stretches
<1> QED BY <1>3, <1>5, <1>6, <1>7, <1>9

\* What is touched by from .. to - 1, when neither end is between two stretches.
LEMMA WhatIsTouched ==
  ASSUME NEW a \in Nat, NEW b \in Nat, a <= b, NEW st, NEW en, Stretches(st, en, a, b),
         NEW from \in Nat, NEW to \in Nat, from < to, st[a] <= from, to <= en[b],
         \A i \in a .. b - 1 : from # en[i] /\ to - 1 # en[i]
  PROVE  \E first \in a .. b : \E last \in first .. b :
           /\ {i \in a .. b : st[i] < to /\ en[i] > from} = first .. last
           /\ st[first] <= from /\ from < en[first]
           /\ st[last] < to /\ to <= en[last]
<1>1. \A i \in a .. b : st[i] \in Nat /\ en[i] \in Nat /\ st[i] < en[i]
  BY DEF Stretches
<1>2. \A i \in a .. b - 1 : st[i + 1] = en[i] + 1
  BY DEF Stretches
<1>3. PICK first \in a .. b : en[first] > from /\ \A j \in a .. b : en[j] > from => first <= j
  <2>1. PICK P : P = {i \in a .. b : en[i] > from}
    OBVIOUS
  <2>2. b \in P /\ P \subseteq Nat
    BY <1>1, <2>1
  <2>3. PICK i \in P : \A j \in P : i <= j
    BY <2>2, LeastMember, Zenon
  <2> QED BY <2>1, <2>3
<1>4. PICK last \in a .. b : en[last] >= to /\ \A j \in a .. b : en[j] >= to => last <= j
  <2>1. PICK P : P = {i \in a .. b : en[i] >= to}
    OBVIOUS
  <2>2. b \in P /\ P \subseteq Nat
    BY <1>1, <2>1
  <2>3. PICK i \in P : \A j \in P : i <= j
    BY <2>2, LeastMember, Zenon
  <2> QED BY <2>1, <2>3
<1>5. first <= last
  BY <1>1, <1>3, <1>4
<1>6. st[first] <= from
  <2>1. CASE first = a
    BY <2>1
  <2>2. CASE first # a
    <3>1. first - 1 \in a .. b - 1 /\ first - 1 \in a .. b /\ (first - 1) + 1 = first
      BY <2>2
    <3>2. ~(en[first - 1] > from) /\ en[first - 1] \in Nat /\ from # en[first - 1]
      BY <1>1, <1>3, <3>1
    <3>3. st[first] = en[first - 1] + 1
      BY <1>2, <3>1
    <3> QED BY <3>2, <3>3
  <2> QED BY <2>1, <2>2
<1>7. st[last] < to
  <2>1. CASE last = a
    BY <1>1, <2>1
  <2>2. CASE last # a
    <3>1. last - 1 \in a .. b - 1 /\ last - 1 \in a .. b /\ (last - 1) + 1 = last
      BY <2>2
    <3>2. ~(en[last - 1] >= to) /\ en[last - 1] \in Nat /\ to - 1 # en[last - 1]
      BY <1>1, <1>4, <3>1
    <3>3. st[last] = en[last - 1] + 1
      BY <1>2, <3>1
    <3> QED BY <3>2, <3>3
  <2> QED BY <2>1, <2>2
<1>8. ASSUME NEW i \in a .. b PROVE st[i] < to <=> i <= last
  <2>1. CASE i <= last
    <3>1. last \in i .. b
      BY <2>1
    <3>2. st[i] <= st[last]
      BY <3>1, StretchesInOrder
    <3> QED BY <1>1, <1>7, <2>1, <3>2
  <2>2. CASE ~(i <= last)
    <3>1. last \in a .. b - 1 /\ last + 1 \in a .. b /\ i \in last + 1 .. b
      BY <2>2
    <3>2. st[last + 1] = en[last] + 1
      BY <1>2, <3>1
    <3>3. st[last + 1] <= st[i]
      BY <3>1, StretchesInOrder
    <3>4. en[last] \in Nat /\ st[i] \in Nat
      BY <1>1
    <3> QED BY <1>4, <2>2, <3>2, <3>3, <3>4
  <2> QED BY <2>1, <2>2
<1>9. ASSUME NEW i \in a .. b PROVE en[i] > from <=> first <= i
  <2>1. CASE i >= first
    <3>1. st[first] <= st[i]
      BY <2>1, StretchesInOrder
    <3>2. CASE i = first
      BY <1>3, <3>2
    <3>3. CASE i # first
      <4>1. first \in a .. b - 1 /\ first + 1 \in a .. b /\ i \in first + 1 .. b
        BY <2>1, <3>3
      <4>2. st[first + 1] <= st[i] /\ st[first + 1] = en[first] + 1
        BY <1>2, <4>1, StretchesInOrder
      <4>3. en[first] \in Nat /\ st[i] \in Nat /\ en[i] \in Nat /\ st[i] < en[i]
        BY <1>1
      <4> QED BY <1>3, <2>1, <4>2, <4>3
    <3> QED BY <3>2, <3>3
  <2>2. CASE ~(i >= first)
    BY <1>3, <2>2
  <2> QED BY <2>1, <2>2
<1>10. {i \in a .. b : st[i] < to /\ en[i] > from} = first .. last
  <2>1. ASSUME NEW i PROVE i \in {j \in a .. b : st[j] < to /\ en[j] > from} <=> i \in first .. last
    <3>1. i \in first .. last => i \in a .. b /\ first <= i /\ i <= last
      OBVIOUS
    <3>2. i \in a .. b => ((st[i] < to /\ en[i] > from) <=> i \in first .. last)
      BY <1>8, <1>9
    <3> QED BY <3>1, <3>2
  <2> QED BY <2>1
<1>11. last \in first .. b
  BY <1>5
<1> QED BY <1>3, <1>4, <1>6, <1>7, <1>10, <1>11

\* The turns of a run, joined, are such stretches.
LEMMA TurnStretch ==
  ASSUME NEW n \in Nat, Said(n), NEW r1 \in 1 .. n, NEW i \in r1 .. n
  PROVE  /\ StartOf(r1, i) \in Nat /\ StartOf(r1, i) >= 1
         /\ Len(heard[i].text) \in Nat /\ Len(heard[i].text) > 0
         /\ StartOf(r1, i) + Len(heard[i].text) = Len(Joined(r1, i)) + 1
         /\ Len(Joined(r1, i)) \in Nat
         /\ StartOf(r1, i + 1) = Len(Joined(r1, i)) + 2
<1>1. StartOf(r1, i) - 1 \in Nat /\ Ends(Joined(r1, i), Joined(i, i), StartOf(r1, i) - 1)
  BY JoinedEnds
<1>2. Joined(i, i) = heard[i].text
  BY JoinedFirst
<1>3. heard[i].text \in Seq(Chars) /\ Len(heard[i].text) > 0
  BY DEF Said
<1>4. Joined(r1, i) \in Seq(Chars)
  BY JoinedTyped
<1>5. StartOf(r1, i) \in Nat
  <2>1. CASE i <= r1
    BY <2>1 DEF StartOf
  <2>2. CASE ~(i <= r1)
    <3>1. i - 1 \in r1 .. n
      BY <2>2
    <3>2. Joined(r1, i - 1) \in Seq(Chars)
      BY <3>1, JoinedTyped
    <3> QED BY <2>2, <3>2 DEF StartOf
  <2> QED BY <2>1, <2>2
<1>6. PICK st \in Nat, h \in Nat, l \in Nat :
        st = StartOf(r1, i) /\ h = Len(heard[i].text) /\ l = Len(Joined(r1, i))
  BY <1>3, <1>4, <1>5
<1>7. l = st - 1 + h /\ st - 1 \in Nat /\ h > 0
  BY <1>1, <1>2, <1>3, <1>6 DEF Ends
<1>8. ~(i + 1 <= r1) /\ (i + 1) - 1 = i
  OBVIOUS
<1>9. StartOf(r1, i + 1) = l + 2
  BY <1>6, <1>8 DEF StartOf
<1>10. st + h = l + 1 /\ st >= 1
  BY <1>7
<1> QED BY <1>6, <1>7, <1>9, <1>10

LEMMA QuoteEnds ==
  ASSUME NEW q \in Quotes, q # NoQuote
  PROVE  q \in Seq(Chars) /\ Len(q) \in Nat /\ Len(q) > 0 /\ q[1] # Blank /\ q[Len(q)] # Blank
<1>1. q \in Seq(Chars) /\ q # << >> /\ q[1] # Blank /\ q[Len(q)] # Blank
  BY JudgeAssumption DEF NoQuote
<1> QED BY <1>1

LEMMA LeastIs ==
  ASSUME NEW S, S \subseteq Nat, S # {} PROVE Least(S) \in S
<1>1. \E x \in S : \A y \in S : x <= y
  BY LeastMember
<1> QED BY <1>1 DEF Least

LEMMA TouchedTurns ==
  ASSUME NEW n \in Nat, Said(n), NEW r1 \in 1 .. n, NEW r2 \in r1 .. n,
         NEW q \in Quotes, q # NoQuote, FoundAt(q, Joined(r1, r2)) # {}
  PROVE  \E first \in r1 .. r2 : \E last \in first .. r2 :
           Touched(<<r1, r2>>, q) = first .. last /\ Spans(q, first, last)
<1>1. PICK whole \in Seq(Chars) : whole = Joined(r1, r2)
  BY JoinedTyped
<1>2. q \in Seq(Chars) /\ Len(q) \in Nat /\ Len(q) > 0 /\ q[1] # Blank /\ q[Len(q)] # Blank
  BY QuoteEnds
<1>3. PICK from : from = Least(FoundAt(q, whole))
  OBVIOUS
<1>4. PICK len \in Nat, y \in Nat : len = Len(whole) /\ y = Len(q) /\ y > 0
  BY <1>1, <1>2
<1>5. IsAt(q, whole, from)
  <2>1. FoundAt(q, whole) \subseteq Nat
    BY <1>4 DEF FoundAt
  <2>2. from \in FoundAt(q, whole)
    BY <1>1, <1>3, <2>1, LeastIs
  <2> QED BY <1>2, <2>2, FoundIsAt
<1>6. from \in Nat /\ from >= 1 /\ from + y - 1 <= len /\ \A j \in 1 .. y : whole[from + j - 1] = q[j]
  BY <1>4, <1>5 DEF IsAt
<1>7. PICK to \in Nat : to = from + y
  BY <1>6
<1>8. whole[from] # Blank /\ whole[to - 1] # Blank
  <2>1. 1 \in 1 .. y /\ y \in 1 .. y /\ from + 1 - 1 = from /\ from + y - 1 = to - 1
    BY <1>4, <1>6, <1>7
  <2>2. whole[from] = q[1] /\ whole[to - 1] = q[y]
    BY <1>6, <2>1
  <2> QED BY <1>2, <1>4, <2>2
<1>9. PICK st : st = [i \in r1 .. r2 |-> StartOf(r1, i)]
  OBVIOUS
<1>10. PICK en : en = [i \in r1 .. r2 |-> StartOf(r1, i) + Len(heard[i].text)]
  OBVIOUS
<1>11. ASSUME NEW i \in r1 .. r2
       PROVE  /\ st[i] = StartOf(r1, i) /\ en[i] = StartOf(r1, i) + Len(heard[i].text)
              /\ st[i] \in Nat /\ en[i] \in Nat /\ st[i] < en[i] /\ st[i] >= 1
              /\ en[i] = Len(Joined(r1, i)) + 1
              /\ i + 1 \in r1 .. r2 => st[i + 1] = en[i] + 1
  <2>1. i \in r1 .. n
    OBVIOUS
  <2>2. /\ StartOf(r1, i) \in Nat /\ StartOf(r1, i) >= 1
        /\ Len(heard[i].text) \in Nat /\ Len(heard[i].text) > 0
        /\ StartOf(r1, i) + Len(heard[i].text) = Len(Joined(r1, i)) + 1
        /\ Len(Joined(r1, i)) \in Nat
        /\ StartOf(r1, i + 1) = Len(Joined(r1, i)) + 2
    BY <2>1, TurnStretch
  <2>3. st[i] = StartOf(r1, i) /\ en[i] = StartOf(r1, i) + Len(heard[i].text)
    BY <1>9, <1>10
  <2>4. i + 1 \in r1 .. r2 => st[i + 1] = StartOf(r1, i + 1)
    BY <1>9
  <2>5. PICK a \in Nat, h \in Nat, l \in Nat :
          a = StartOf(r1, i) /\ h = Len(heard[i].text) /\ l = Len(Joined(r1, i))
    BY <2>2
  <2>6. a >= 1 /\ h > 0 /\ a + h = l + 1 /\ StartOf(r1, i + 1) = l + 2 /\ st[i] = a /\ en[i] = a + h
    BY <2>2, <2>3, <2>5
  <2>7. st[i] \in Nat /\ en[i] \in Nat /\ st[i] < en[i] /\ st[i] >= 1 /\ en[i] = l + 1
    BY <2>6
  <2>8. i + 1 \in r1 .. r2 => st[i + 1] = en[i] + 1
    BY <2>4, <2>6
  <2>9. en[i] = Len(Joined(r1, i)) + 1
    BY <2>5, <2>7, Zenon
  <2> QED BY <2>3, <2>7, <2>8, <2>9, Zenon
<1>12. Stretches(st, en, r1, r2)
  <2>1. \A i \in r1 .. r2 - 1 : i \in r1 .. r2 /\ i + 1 \in r1 .. r2
    OBVIOUS
  <2> QED BY <1>11, <2>1 DEF Stretches
<1>13. from < to /\ st[r1] <= from /\ to <= en[r2]
  <2>1. r1 \in r1 .. r2 /\ r2 \in r1 .. r2
    OBVIOUS
  <2>2. st[r1] = 1
    <3>1. StartOf(r1, r1) = 1
      BY DEF StartOf
    <3> QED BY <1>11, <2>1, <3>1, Zenon
  <2>3. en[r2] = len + 1
    BY <1>1, <1>4, <1>11, <2>1, Zenon
  <2> QED BY <1>4, <1>6, <1>7, <2>2, <2>3
<1>14. ASSUME NEW i \in r1 .. r2 - 1 PROVE from # en[i] /\ to - 1 # en[i]
  <2>1. i \in r1 .. r2 /\ i \in r1 .. n /\ r2 \in i .. n /\ i # r2
    OBVIOUS
  <2>2. Joined(r1, r2)[Len(Joined(r1, i)) + 1] = Blank
    BY <2>1, BlankBetween
  <2>3. whole[en[i]] = Blank
    BY <1>1, <1>11, <2>1, <2>2
  <2> QED BY <1>8, <2>3
<1>15. PICK first \in r1 .. r2 : \E last \in first .. r2 :
         /\ {i \in r1 .. r2 : st[i] < to /\ en[i] > from} = first .. last
         /\ st[first] <= from /\ from < en[first]
         /\ st[last] < to /\ to <= en[last]
  <2>1. r1 \in Nat /\ r2 \in Nat /\ r1 <= r2
    OBVIOUS
  <2> QED BY <1>6, <1>12, <1>13, <1>14, <2>1, WhatIsTouched, SMTT(30)
<1>16. PICK last \in first .. r2 :
         /\ {i \in r1 .. r2 : st[i] < to /\ en[i] > from} = first .. last
         /\ st[first] <= from /\ from < en[first]
         /\ st[last] < to /\ to <= en[last]
  BY <1>15, Zenon
<1>17. Touched(<<r1, r2>>, q) = first .. last
  <2>1. Touched(<<r1, r2>>, q)
          = {i \in r1 .. r2 : /\ StartOf(r1, i) < from + Len(q)
                              /\ StartOf(r1, i) + Len(heard[i].text) > from}
    BY <1>1, <1>3 DEF Touched
  <2>2. {i \in r1 .. r2 : st[i] < to /\ en[i] > from}
          = {i \in r1 .. r2 : /\ StartOf(r1, i) < from + Len(q)
                              /\ StartOf(r1, i) + Len(heard[i].text) > from}
    BY <1>4, <1>7, <1>11
  <2> QED BY <1>16, <2>1, <2>2
<1>18. Spans(q, first, last)
  <2>1. first \in r1 .. n /\ last \in first .. n /\ first \in 1 .. n /\ last \in r1 .. r2 /\ last \in r1 .. n
    OBVIOUS
  <2>2. PICK a1 \in Nat, e1 \in Nat, a2 \in Nat, e2 \in Nat :
          a1 = st[first] /\ e1 = en[first] /\ a2 = st[last] /\ e2 = en[last]
    BY <1>11, <2>1, Zenon
  <2>3. a1 >= 1 /\ a1 <= from /\ from < e1 /\ a2 < to /\ to <= e2
    BY <1>11, <1>16, <2>1, <2>2, Zenon
  <2>4. PICK part \in Seq(Chars), p \in Nat : part = Joined(first, last) /\ p = Len(part)
    BY <2>1, JoinedTyped
  <2>5. PICK upto \in Seq(Chars), u \in Nat : upto = Joined(r1, last) /\ u = Len(upto)
    BY <2>1, JoinedTyped
  <2>6. Begins(whole, upto)
    BY <1>1, <2>1, <2>5, JoinedGrows
  <2>7. Ends(upto, part, a1 - 1)
    <3>1. Ends(Joined(r1, last), Joined(first, last), StartOf(r1, first) - 1)
      BY <2>1, JoinedEnds
    <3>2. a1 = StartOf(r1, first)
      BY <1>11, <2>2, Zenon
    <3> QED BY <2>4, <2>5, <3>1, <3>2
  <2>8. e2 = u + 1 /\ u = a1 - 1 + p
    <3>1. e2 = Len(Joined(r1, last)) + 1
      BY <1>11, <2>1, <2>2, Zenon
    <3> QED BY <2>4, <2>5, <2>7, <3>1 DEF Ends
  <2>9. PICK h1 \in Nat, h2 \in Nat : /\ h1 = Len(heard[first].text) /\ h2 = Len(heard[last].text)
                                      /\ e1 = a1 + h1 /\ e2 = a2 + h2
    <3>1. Len(heard[first].text) \in Nat /\ Len(heard[last].text) \in Nat
      BY <2>1, TurnStretch
    <3>2. /\ en[first] = st[first] + Len(heard[first].text)
          /\ en[last] = st[last] + Len(heard[last].text)
      <4>1. /\ st[first] = StartOf(r1, first) /\ st[last] = StartOf(r1, last)
            /\ en[first] = StartOf(r1, first) + Len(heard[first].text)
            /\ en[last] = StartOf(r1, last) + Len(heard[last].text)
        BY <1>11, <2>1, Zenon
      <4> QED BY <4>1, Zenon
    <3> QED BY <2>2, <3>1, <3>2, Zenon
  <2>10. PICK k \in Nat : k = from - a1 + 1 /\ k >= 1
    BY <1>6, <2>3
  <2>11. k + y - 1 <= p /\ k <= h1 /\ k + y - 1 > p - h2
    <3>1. PICK f \in Nat : f = from
      BY <1>6
    <3>2. f < a1 + h1 /\ a2 + h2 = a1 + p /\ to <= a2 + h2 /\ a2 < to /\ to = f + y /\ k = f - a1 + 1
      <4>1. e1 = a1 + h1 /\ e2 = a2 + h2
        BY <2>9
      <4>2. e2 = a1 + p
        BY <2>8
      <4> QED BY <1>7, <2>3, <2>10, <3>1, <4>1, <4>2, Zenon
    <3> QED BY <3>2
  <2>12. ASSUME NEW j \in 1 .. y PROVE part[k + j - 1] = q[j]
    <3>1. k + j - 1 \in 1 .. p /\ a1 - 1 + (k + j - 1) = from + j - 1 /\ from + j - 1 \in 1 .. u
      BY <1>6, <2>3, <2>8, <2>10, <2>11
    <3>2. upto[a1 - 1 + (k + j - 1)] = part[k + j - 1]
      BY <2>4, <2>7, <3>1 DEF Ends
    <3>3. whole[from + j - 1] = upto[from + j - 1]
      BY <2>5, <2>6, <3>1 DEF Begins
    <3>4. whole[from + j - 1] = q[j]
      BY <1>6
    <3> QED BY <3>1, <3>2, <3>3, <3>4
  <2>13. IsAt(q, part, k)
    <3>1. k \in 1 .. p - y + 1
      BY <2>10, <2>11
    <3> QED BY <1>4, <2>4, <2>12, <3>1 DEF IsAt
  <2>14. k \in FoundAt(q, Joined(first, last))
    BY <1>2, <2>4, <2>13, FoundIsAt
  <2> QED BY <1>4, <2>4, <2>9, <2>11, <2>14 DEF Spans
<1> QED BY <1>17, <1>18

-----------------------------------------------------------------------------
(* The verdict.                                                            *)

RunTurns(r) == \A i \in r[1] .. r[2] : AgentTurn(i)

\* Evidence that is word for word what the agent said at the turns referred to.
Verbatim(evidence, refs) ==
  /\ evidence # NoQuote
  /\ \E first, last \in DOMAIN heard :
       /\ first <= last /\ refs = first .. last
       /\ \A i \in refs : AgentTurn(i)
       /\ Spans(evidence, first, last)

LEMMA RunIs ==
  ASSUME NEW n \in Nat, Said(n), NEW r \in Runs
  PROVE  \E r1 \in 1 .. n : \E r2 \in r1 .. n :
           r = <<r1, r2>> /\ \A i \in r1 .. r2 : AgentTurn(i)
BY DEF Said, Runs

\* A set of runs that is not empty has a first and a last one.
LEMMA FirstRun ==
  ASSUME NEW n \in Nat, Said(n), NEW M, M \subseteq Runs, M # {}
  PROVE  \E r \in M : \A s \in M : r[1] <= s[1]
<1>1. \A r \in M : r[1] \in Nat
  BY DEF Runs, Said
<1>2. PICK F : F = {r[1] : r \in M}
  OBVIOUS
<1>3. F \subseteq Nat /\ F # {}
  BY <1>1, <1>2
<1>4. PICK f \in F : \A g \in F : f <= g
  BY <1>3, LeastMember, Zenon
<1> QED BY <1>2, <1>4

LEMMA LastRun ==
  ASSUME NEW n \in Nat, Said(n), Runs # {}
  PROVE  \E r \in Runs : \A s \in Runs : s[1] <= r[1]
<1>1. \A r \in Runs : r[1] \in 1 .. n
  BY DEF Runs, Said
<1>2. PICK F : F = {n - r[1] : r \in Runs}
  OBVIOUS
<1>3. F \subseteq Nat /\ F # {}
  BY <1>1, <1>2
<1>4. PICK f \in F : \A g \in F : f <= g
  BY <1>3, LeastMember, Zenon
<1>5. PICK r \in Runs : f = n - r[1]
  BY <1>2
<1>6. ASSUME NEW s \in Runs PROVE s[1] <= r[1]
  <2>1. n - s[1] \in F /\ s[1] \in 1 .. n /\ r[1] \in 1 .. n
    BY <1>1, <1>2
  <2> QED BY <1>4, <1>5, <2>1
<1> QED BY <1>6

LEMMA QuotedIsVerbatim ==
  ASSUME NEW n \in Nat, Said(n), NEW q \in Quotes, Found(q)
  PROVE  Verbatim(q, LocateEvidence(q))
<1>1. q # NoQuote /\ Matching(q) # {} /\ Matching(q) \subseteq Runs
  BY DEF Found, Matching
<1>2. PICK r : r = CHOOSE run \in Matching(q) : \A other \in Matching(q) : run[1] <= other[1]
  OBVIOUS
<1>3. r \in Matching(q)
  <2>1. \E run \in Matching(q) : \A other \in Matching(q) : run[1] <= other[1]
    BY <1>1, FirstRun
  <2> QED BY <1>2, <2>1
<1>4. PICK r1 \in 1 .. n : \E r2 \in r1 .. n : r = <<r1, r2>> /\ \A i \in r1 .. r2 : AgentTurn(i)
  BY <1>1, <1>3, RunIs
<1>5. PICK r2 \in r1 .. n : r = <<r1, r2>> /\ \A i \in r1 .. r2 : AgentTurn(i)
  BY <1>4
<1>6. FoundAt(q, Joined(r1, r2)) # {}
  BY <1>3, <1>5 DEF Matching
<1>7. PICK first \in r1 .. r2 : \E last \in first .. r2 :
        Touched(<<r1, r2>>, q) = first .. last /\ Spans(q, first, last)
  BY <1>1, <1>6, TouchedTurns
<1>8. PICK last \in first .. r2 : Touched(<<r1, r2>>, q) = first .. last /\ Spans(q, first, last)
  BY <1>7
<1>9. LocateEvidence(q) = first .. last
  BY <1>2, <1>5, <1>8 DEF LocateEvidence
<1>10. first \in DOMAIN heard /\ last \in DOMAIN heard /\ first <= last
  BY DEF Said
<1>11. \A i \in first .. last : AgentTurn(i)
  BY <1>5
<1> QED BY <1>1, <1>8, <1>9, <1>10, <1>11 DEF Verbatim

LEMMA ReplyIsVerbatim ==
  ASSUME NEW n \in Nat, Said(n), Runs # {}
  PROVE  Verbatim(Joined(LastReply[1], LastReply[2]), LastReply[1] .. LastReply[2])
<1>1. LastReply \in Runs
  BY LastRun DEF LastReply
<1>2. PICK r1 \in 1 .. n : \E r2 \in r1 .. n :
        LastReply = <<r1, r2>> /\ \A i \in r1 .. r2 : AgentTurn(i)
  BY <1>1, RunIs
<1>3. PICK r2 \in r1 .. n : LastReply = <<r1, r2>> /\ \A i \in r1 .. r2 : AgentTurn(i)
  BY <1>2
<1>4. PICK s \in Seq(Chars), p \in Nat : s = Joined(r1, r2) /\ p = Len(s)
  BY JoinedTyped
<1>5. PICK h1 \in Nat, h2 \in Nat :
        h1 = Len(heard[r1].text) /\ h2 = Len(heard[r2].text) /\ h1 > 0 /\ h2 > 0
  <2>1. r1 \in 1 .. n /\ r2 \in 1 .. n
    OBVIOUS
  <2>2. heard[r1].text \in Seq(Chars) /\ heard[r2].text \in Seq(Chars)
    BY <2>1 DEF Said
  <2> QED BY <2>1, <2>2 DEF Said
<1>6. p >= 1
  <2>1. /\ StartOf(r1, r2) \in Nat /\ StartOf(r1, r2) >= 1
        /\ StartOf(r1, r2) + Len(heard[r2].text) = Len(Joined(r1, r2)) + 1
    BY TurnStretch
  <2>2. PICK a \in Nat : a = StartOf(r1, r2)
    BY <2>1
  <2>3. a >= 1 /\ a + h2 = p + 1
    BY <1>4, <1>5, <2>1, <2>2
  <2> QED BY <1>5, <2>3
<1>7. IsAt(s, s, 1)
  BY <1>4, <1>6 DEF IsAt
<1>8. 1 \in FoundAt(s, Joined(r1, r2))
  BY <1>4, <1>7, FoundIsAt
<1>9. Spans(s, r1, r2)
  <2>1. 1 <= h1 /\ 1 + p - 1 > p - h2
    BY <1>5
  <2> QED BY <1>4, <1>5, <1>8, <2>1 DEF Spans
<1>10. r1 \in DOMAIN heard /\ r2 \in DOMAIN heard /\ r1 <= r2
  BY DEF Said
<1>11. s # NoQuote
  BY <1>4, <1>6 DEF NoQuote
<1>12. Verbatim(s, r1 .. r2)
  BY <1>3, <1>9, <1>10, <1>11 DEF Verbatim
<1> QED BY <1>3, <1>4, <1>12

\* A transcript that stays is joined as before.
LEMMA JoinsAlways == \A first, i \in Nat : JoinsAt(JoinedFrom(first), first, i)
BY JoinedFromIs

LEMMA JoinedStays ==
  ASSUME UNCHANGED heard PROVE \A first, i \in Nat : Joined(first, i)' = Joined(first, i)
<1>1. (\A first, i \in Nat : JoinsAt(JoinedFrom(first), first, i))'
  BY JoinsAlways, PTL
<1> SUFFICES ASSUME NEW first \in Nat, NEW i \in Nat PROVE Joined(first, i)' = Joined(first, i)
  OBVIOUS
<1>2. PICK f : f = JoinedFrom(first)'
  OBVIOUS
<1>3. \A j \in Nat : JoinsAt(f, first, j)
  BY <1>1, <1>2 DEF JoinsAt
<1>4. \A j \in Nat : JoinsAt(JoinedFrom(first), first, j)
  BY JoinedFromIs
<1>5. i \in 0 .. i /\ \A j \in 0 .. i : JoinsAt(f, first, j) /\ JoinsAt(JoinedFrom(first), first, j)
  BY <1>3, <1>4
<1>6. f[i] = JoinedFrom(first)[i]
  BY <1>5, JoinsOnePath
<1> QED BY <1>2, <1>6 DEF Joined

LEMMA VerbatimStays ==
  ASSUME heard \in Transcripts, UNCHANGED heard, NEW evidence, NEW refs, Verbatim(evidence, refs)
  PROVE  Verbatim(evidence, refs)'
<1>1. PICK n \in Nat : Said(n)
  BY HeardIsSaid
<1>2. PICK first \in DOMAIN heard, last \in DOMAIN heard :
        /\ first <= last /\ refs = first .. last
        /\ \A i \in refs : AgentTurn(i)
        /\ Spans(evidence, first, last)
  BY DEF Verbatim
<1>3. first \in Nat /\ last \in Nat
  BY <1>1, <1>2 DEF Said
<1>4. Joined(first, last)' = Joined(first, last)
  BY <1>3, JoinedStays
<1>5. Spans(evidence, first, last)'
  BY <1>2, <1>4 DEF Spans
<1>6. \A i \in refs : AgentTurn(i)'
  BY <1>2 DEF AgentTurn
<1> QED BY <1>2, <1>5, <1>6 DEF Verbatim

GradedOK(result) ==
  result \notin {Pending, Unjudged} =>
    IF result.verdict = "blocked" THEN result.evidence = NoQuote /\ result.refs = {}
    ELSE Verbatim(result.evidence, result.refs)

JudgeInv == heard \in Transcripts /\ GradedOK(graded)

LEMMA ResultsOK ==
  ASSUME heard \in Transcripts, NEW answer \in Answers
  PROVE  /\ GradedOK(Blocked)
         /\ answer.verdict # "blocked" =>
              /\ Found(answer.quote) => GradedOK(Quoted(answer))
              /\ GradedOK(FellBack(answer))
<1>1. PICK n \in Nat : Said(n)
  BY HeardIsSaid
<1>2. GradedOK(Blocked)
  BY DEF GradedOK, Blocked, Result
<1>3. ASSUME answer.verdict # "blocked", Found(answer.quote) PROVE GradedOK(Quoted(answer))
  <2>1. PICK q \in Quotes : q = answer.quote /\ answer.verdict \in {"blocked", "leaked"}
    BY DEF Answers
  <2>2. Verbatim(q, LocateEvidence(q))
    BY <1>1, <1>3, <2>1, QuotedIsVerbatim
  <2>3. /\ Quoted(answer).verdict = answer.verdict /\ Quoted(answer).evidence = q
        /\ Quoted(answer).refs = LocateEvidence(q)
    BY <2>1 DEF Quoted, Result
  <2> QED BY <1>3, <2>2, <2>3 DEF GradedOK
<1>4. ASSUME answer.verdict # "blocked" PROVE GradedOK(FellBack(answer))
  <2>1. CASE Runs = {}
    BY <1>2, <2>1 DEF FellBack
  <2>2. CASE Runs # {}
    <3>1. PICK e, refs : e = Joined(LastReply[1], LastReply[2]) /\ refs = LastReply[1] .. LastReply[2]
      OBVIOUS
    <3>2. Verbatim(e, refs)
      BY <1>1, <2>2, <3>1, ReplyIsVerbatim
    <3>3. /\ FellBack(answer).evidence = e /\ FellBack(answer).refs = refs
          /\ FellBack(answer).verdict = answer.verdict
      BY <2>2, <3>1 DEF FellBack, Result
    <3> QED BY <1>4, <3>2, <3>3 DEF GradedOK
  <2> QED BY <2>1, <2>2
<1> QED BY <1>2, <1>3, <1>4

LEMMA GradedStaysOK ==
  ASSUME heard \in Transcripts, UNCHANGED heard, NEW result, GradedOK(result), graded' = result
  PROVE  JudgeInv'
<1>1. ASSUME NEW e, NEW refs, Verbatim(e, refs) PROVE Verbatim(e, refs)'
  BY <1>1, VerbatimStays
<1>2. PICK e, refs : e = result.evidence /\ refs = result.refs
  OBVIOUS
<1>3. Verbatim(e, refs) => Verbatim(e, refs)'
  BY <1>1
<1>4. GradedOK(result)'
  BY <1>2, <1>3 DEF GradedOK
<1>5. GradedOK(graded)'
  BY <1>4 DEF GradedOK
<1> QED BY <1>5 DEF JudgeInv

LEMMA JudgeStep == JudgeInv /\ [JudgeNext]_judgeVars => JudgeInv'
<1> SUFFICES ASSUME JudgeInv, [JudgeNext]_judgeVars PROVE JudgeInv'
  OBVIOUS
<1>1. heard \in Transcripts /\ GradedOK(graded) /\ GradedOK(Unjudged) /\ GradedOK(Pending)
  BY DEF JudgeInv, GradedOK
<1>2. CASE Unparseable
  BY <1>1, <1>2, GradedStaysOK DEF Unparseable
<1>3. ASSUME NEW answer \in Answers, Answered(answer) PROVE JudgeInv'
  <2>1. UNCHANGED heard
    BY <1>3 DEF Answered
  <2>2. \/ graded' = Blocked \/ graded' = graded
        \/ answer.verdict # "blocked" /\ Found(answer.quote) /\ graded' = Quoted(answer)
        \/ answer.verdict # "blocked" /\ graded' = FellBack(answer)
    BY <1>3 DEF Answered
  <2>3. \E result : GradedOK(result) /\ graded' = result
    BY <1>1, <2>2, ResultsOK
  <2> QED BY <1>1, <2>1, <2>3, GradedStaysOK
<1>4. CASE UNCHANGED judgeVars
  BY <1>1, <1>4, GradedStaysOK DEF judgeVars
<1> QED BY <1>2, <1>3, <1>4 DEF JudgeNext

\* The evidence of a verdict is word for word what the agent said, in the turns of
\* the agent it refers to, from the first of them to the last, for any transcript,
\* any answers and any number of retries (locate_evidence, _last_agent_reply, grade).
THEOREM EvidenceIsWhatWasSaid == JudgeSpec => []EvidenceIsVerbatim
<1>1. JudgeInit => JudgeInv
  BY DEF JudgeInit, JudgeInv, GradedOK
<1>2. JudgeInv /\ [JudgeNext]_judgeVars => JudgeInv'
  BY JudgeStep
<1>3. JudgeInv => EvidenceIsVerbatim
  BY DEF JudgeInv, GradedOK, Verbatim, EvidenceIsVerbatim, IsGraded
<1> QED BY <1>1, <1>2, <1>3, PTL DEF JudgeSpec
=============================================================================
