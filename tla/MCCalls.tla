------------------------------- MODULE MCCalls -------------------------------
(***************************************************************************)
(* The calls for TLC: one instance of each planner that drives a           *)
(* PersonaRunner, and the judge of an attack.  `planner', chosen in the    *)
(* initial state, says which of the four a behaviour is about; the         *)
(* variables of the others keep their initial values.  The executors give  *)
(* the attacker and the explorer silence checks (redteam.py:245 and        *)
(* discovery.py:315), and a simulated call none; the simulated calls are   *)
(* a turn shorter, because the log of each is followed as well.            *)
(***************************************************************************)
EXTENDS AttackerCall, ExplorerCall, JudgedCall, AttackJudge

VARIABLE planner

Simulated == INSTANCE JudgedCall WITH SilenceChecks <- FALSE, MaxTurns <- 2

\* What the discovery agent may be seen to do: a menu that comes after an accepted
\* gate, a gate that rejects, a topic without an outcome.
SomeObservations ==
  {[key |-> "menu", kind |-> "menu", result |-> "passed"],
   [key |-> "id", kind |-> "gate", result |-> "rejected"],
   [key |-> "x", kind |-> "intent", result |-> "none"]}
HumanOnly == <<"human">>
Human == {"human"}

\* The final judge contradicts the incremental one, or has nothing to say.
EarlyWords == {{}, {[about |-> "greeted", status |-> "passed"]}}
LastWord == {{}, {[about |-> "greeted", status |-> "failed"]}}

\* "b a" runs across "b" and "ab a", and is in the second one too.
SomeTexts == {<<"a">>, <<"b">>, <<"a", "b", " ", "a">>}
SomeQuotes == {<< >>, <<"a">>, <<"b", " ", "a">>, <<"b", " ", "a", "b">>, <<"x">>}

vars == <<callVars, recordVars, attackVars, exploreVars, judgeVars, planner>>

NoJudging == /\ heard = << >> /\ asked = 1 /\ attempts = 0 /\ usage = 0 /\ graded = Pending

Init ==
  /\ CallInit /\ RecordInit /\ AttackInit /\ ExploreInit
  /\ planner \in {"persona", "attacker", "explorer", "judge"}
  /\ IF planner = "judge" THEN JudgeInit ELSE NoJudging

Persona == /\ planner = "persona" /\ Simulated!JudgedNext
           /\ UNCHANGED <<attackVars, exploreVars, judgeVars>>
Attack == planner = "attacker" /\ AttackNext /\ UNCHANGED <<recordVars, exploreVars, judgeVars>>
Explore == planner = "explorer" /\ ExploreNext /\ UNCHANGED <<recordVars, attackVars, judgeVars>>
Judge == /\ planner = "judge" /\ JudgeNext
         /\ UNCHANGED <<callVars, recordVars, attackVars, exploreVars>>
Next == (Persona \/ Attack \/ Explore \/ Judge) /\ UNCHANGED planner

\* The calls whose planner answers in time and whose silence is checked: while one
\* of these steps is due, one of them is taken.
Timed == {"attacker", "explorer"}
Fairness ==
  WF_callVars(/\ planner \in Timed
              /\ FrameHandled \/ \E t \in Tasks : TimerFires(t) \/ Activity(t))

Spec == Init /\ [][Next]_vars /\ Fairness

\* CallEndsItself, of the calls the code checks for silence: an attack and a
\* discovery hang up by themselves once the agent has joined and fallen silent.
TimedCallsEnd == planner \in Timed => CallEndsItself
=============================================================================
