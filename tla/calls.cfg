SPECIFICATION Spec
CONSTANTS
  MaxTurns = 3
  MaxNudges = 1
  SilenceChecks = TRUE
  MaxHeard = 2
  MaxFaults = 1
  ScriptLen = 2
  MaxVerifyTurns = 1
  Candidates <- HumanOnly
  Handoffs <- Human
  TurnBudget = 3
  MaxRejections = 2
  MaxStalls = 1
  Observations <- SomeObservations
  Texts <- SomeTexts
  Quotes <- SomeQuotes
  MaxLen = 3
  MaxRetries = 1
  LiveAnswers <- EarlyWords
  FinalAnswers <- LastWord
  MaxFlips = 1
INVARIANTS
  TurnsBounded
  RepliesGradeTheirLine
  ShownMapIsTheGraph
  EvidenceIsVerbatim
  RecordIsTheCall
PROPERTIES
  TimedCallsEnd
CHECK_DEADLOCK FALSE
