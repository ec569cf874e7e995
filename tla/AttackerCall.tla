---------------------------- MODULE AttackerCall -----------------------------
(***************************************************************************)
(* A red-team call: PersonaRunner with AttackerCaller as its planner       *)
(* (app/engine/redteam/attacker.py).  The attacker keeps state of its own  *)
(* across turns, which the runner's tasks share, and awaits twice within   *)
(* next_turn: the model's plan and on_exchange, a transaction that stores  *)
(* the graded exchange.  The transcript may grow in between: next_turn is  *)
(* given the runner's list, not a copy.  What the model answers is any     *)
(* answer of its schema.  Two fields are kept for the property alone: how  *)
(* much of the transcript the model was shown, and whether a line was said *)
(* in order.                                                               *)
(***************************************************************************)
EXTENDS PersonaCall

CONSTANTS ScriptLen,        \* the opening and the escalations of the pack
          MaxVerifyTurns    \* MAX_VERIFY_TURNS

ASSUME AttackerAssumption == ScriptLen \in Nat \ {0} /\ MaxVerifyTurns \in Nat

VARIABLES
  verifying, verifyTurns,
  attackLines,    \* attack_lines: where each was said, and whether in order
  exchanges,      \* the graded exchanges, in order
  failure,        \* the attack could not be delivered
  grading         \* per task: the plan whose exchange on_exchange is storing

attackVars == <<verifying, verifyTurns, attackLines, exchanges, failure, grading>>

NoPlan == [kind |-> "none", complete |-> FALSE, verdict |-> "none"]
Plans == [kind : {"attack", "verify"}, complete : BOOLEAN,
          verdict : {"none", "blocked", "succeeded"}]

\* verifying: pack.requires_verified, and an identity is given.
AttackInit ==
  /\ verifying \in BOOLEAN /\ verifyTurns = 0
  /\ attackLines = << >> /\ exchanges = << >> /\ failure = FALSE
  /\ grading = [t \in Tasks |-> NoPlan]

StoppedOnSuccess == exchanges # << >> /\ exchanges[Len(exchanges)].verdict # "blocked"

\* _say_attack: the line is appended to the transcript in the same step.
SayAttack(orderly) ==
  attackLines' = Append(attackLines, [at |-> Len(transcript) + 1, orderly |-> orderly])

(***************************************************************************)
(* next_turn up to its first await, in the step in which a task wakes.     *)
(***************************************************************************)
OutOfVerifyTurns == verifying /\ verifyTurns >= MaxVerifyTurns
\* Mutant of HasReply: the model is asked whoever spoke last.
HasSpoken == transcript # << >>
HasReply == transcript # << >> /\ transcript[Len(transcript)] = "agent"
AttackerReply == IF ~HasReply THEN "line"
                 ELSE IF OutOfVerifyTurns THEN "last" ELSE "wait"

AskAttacker(t) ==
  /\ CASE transcript = << >> /\ ~verifying -> SayAttack(TRUE) /\ UNCHANGED failure
       [] HasReply /\ OutOfVerifyTurns     -> failure' = TRUE /\ UNCHANGED attackLines
       [] OTHER                            -> UNCHANGED <<attackLines, failure>>
  /\ UNCHANGED <<verifying, verifyTurns, exchanges, grading>>

AttackerWakes ==
  \/ WakeAdvance(AttackerReply)
     /\ IF WillAsk THEN AskAttacker("advance") ELSE UNCHANGED attackVars
  \/ WakeSilence(AttackerReply)
     /\ IF WillAsk /\ ~TooManyNudges THEN AskAttacker("silence") ELSE UNCHANGED attackVars

(***************************************************************************)
(* What follows the plan, and the end of next_turn.                        *)
(***************************************************************************)
\* The plan is about the transcript as it stands, and it has graded the line before.
InOrder(t, plan) ==
  task[t].line = Len(transcript) /\ (attackLines = << >> \/ plan.verdict # "none")

Decide(t, plan, unverified) ==
  LET ends == StoppedOnSuccess \/ Len(attackLines) >= ScriptLen \/ plan.complete
  IN /\ Answer(t, ends)
     /\ IF ~ends /\ plan.kind = "attack" /\ ~unverified THEN SayAttack(InOrder(t, plan))
                                                        ELSE UNCHANGED attackLines

\* The agent turns after the caller's last line.
ReplyTurns == {i \in DOMAIN transcript :
                 \A j \in i .. Len(transcript) : transcript[j] = "agent"}

\* _record_exchange has something to grade.
Gradable(plan) == Len(exchanges) < Len(attackLines) /\ plan.verdict # "none"

\* Mutant of Exchange: every reply is paired with the opening.
ExchangeOfOpening(t, plan) ==
  [prompt |-> attackLines[1].at, reply |-> ReplyTurns, verdict |-> plan.verdict,
   seen |-> task[t].line, at |-> Len(transcript)]

Exchange(t, plan) ==
  [prompt |-> attackLines[Len(exchanges) + 1].at, reply |-> ReplyTurns,
   verdict |-> plan.verdict, seen |-> task[t].line, at |-> Len(transcript)]

Planned(t, plan, verified) ==
  LET unverified == verifying /\ ~verified
  IN /\ Running /\ task[t].at = "asking" /\ grading[t] = NoPlan
     /\ verifyTurns' = IF verifying THEN verifyTurns + 1 ELSE verifyTurns
     /\ verifying' = unverified
     /\ IF Gradable(plan)
          THEN /\ exchanges' = Append(exchanges, Exchange(t, plan))
               /\ grading' = [grading EXCEPT ![t] = plan]
               /\ UNCHANGED <<callVars, attackLines>>
          ELSE Decide(t, plan, unverified) /\ UNCHANGED <<exchanges, grading>>
     /\ UNCHANGED <<failure>>

ExchangeStored(t) ==
  /\ grading[t] # NoPlan /\ Decide(t, grading[t], verifying)
  /\ grading' = [grading EXCEPT ![t] = NoPlan]
  /\ UNCHANGED <<verifying, verifyTurns, exchanges, failure>>

\* The model's call fails or takes too long: the attacker says goodbye itself.
PlanFails(t) ==
  /\ grading[t] = NoPlan /\ failure' = TRUE /\ Answer(t, TRUE)
  /\ UNCHANGED <<verifying, verifyTurns, attackLines, exchanges, grading>>

AttackNext ==
  \/ AttackerWakes
  \/ \E t \in Waiting : \/ ExchangeStored(t) \/ PlanFails(t)
                       \/ \E plan \in Plans, v \in BOOLEAN : Planned(t, plan, v)
  \/ /\ \/ Connect \/ Hear \/ HeardRecorded \/ HeardFails \/ Cancel \/ Drain \/ TimeOut
        \/ \E t \in Tasks : LineRecorded(t) \/ LineFails(t)
        \/ \E t \in Tasks : grading[t] # NoPlan /\ PlannerFails(t)
     /\ grading' = [t \in Tasks |-> IF task'[t].at = "asking" THEN grading[t] ELSE NoPlan]
     /\ UNCHANGED <<verifying, verifyTurns, attackLines, exchanges, failure>>

AttackSpec == CallInit /\ AttackInit /\ [][AttackNext]_<<callVars, attackVars>>
-----------------------------------------------------------------------------
\* A verdict is stored with what it is about.  If nothing was said or heard since
\* the model was shown the transcript, the stored reply is not empty, all of it was
\* heard after the stored prompt, and the prompt is the latest attack line there
\* is, the one the model graded: unless an attack line was said out of order
\* before, by a plan that came late (two tasks asked at once, or the agent spoke
\* meanwhile) or that left the line before it without a verdict.  From then on
\* every reply is stored with an older line.
RepliesGradeTheirLine ==
  \A i \in DOMAIN exchanges :
    LET e == exchanges[i]
        before == {l \in DOMAIN attackLines : attackLines[l].at <= e.at}
    IN e.seen = e.at =>
         /\ e.reply # {} /\ \A k \in e.reply : e.prompt < k /\ k <= e.at
         /\ (\A l \in before : attackLines[l].orderly) =>
              \A l \in before : attackLines[l].at <= e.prompt
=============================================================================
