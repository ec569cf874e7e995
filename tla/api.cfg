SPECIFICATION Spec
CONSTANTS
  latency = latency  mine = mine  call1 = call1  call2 = call2
  editor1 = editor1  editor2 = editor2
  p1 = p1  p2 = p2  a1 = a1  a2 = a2  s1 = s1  s2 = s2  x0 = x0  x1 = x1  x2 = x2
  own = own  free = free  q1 = q1  q2 = q2  t1 = t1  t2 = t2
  Metrics = {latency, mine}
  Builtins = {latency}
  NameOf <- SameName
  LevelOf <- Levels
  KindOf <- KindsOf
  Specs = {"A", "B"}
  Editors = {editor1, editor2}
  ScoredCalls = {call1, call2}
  Bodies <- SomeBodies
  Attachments <- BothGates
  Verdicts = {"passed", "failed"}
  SampledOut <- NotSampled
  MaxEdits = 2
  Projects = {p1, p2}
  Agents = {a1, a2}
  Suites = {s1, s2}
  Personas = {x0, x1, x2}
  Profiles = {profile1}
  Scenarios = {scenario1, scenario2}
  Drafts = {draft1}
  AuthoredRuns = {run1}
  MetricProject <- MetricOwners
  Shared = "shared"
  Proposals <- SomeProposals
  Authors = {user1, user2}
  MaxRequests = 4
  Requests = {q1, q2}
  Keys = {key1}
  NoKey = nokey
  Items = {item1, item2}
  MaxConcurrency = 2
  BatchCap = 2
  MaxRequestFaults = 2
  Polled = {polled1, polled2}
  Transactions = {t1, t2}
  RowCap = 1
  MaxTime = 4
  simple = simple  careful = careful  wrong = wrong  empty = empty
  Scripts = {simple, careful, wrong, empty}
  MayDo <- WhatTheyDo
  Handles = {careful}
  NoCode = {empty}
INVARIANTS
  VersionNamesSpec
  GatesAnswered
  TenantsKeptApart
  DraftAcceptedOnce
  RetriesAreSafe
  PageSettles
  ScriptsAreSettled
SYMMETRY Symmetric
CHECK_DEADLOCK FALSE
