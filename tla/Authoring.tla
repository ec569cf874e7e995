------------------------------ MODULE Authoring ------------------------------
(***************************************************************************)
(* What the authoring endpoints do to the tables: suites, scenarios and    *)
(* drafts (app/api/suites.py), agents, personas, test profiles, projects   *)
(* (app/api/*.py), with the foreign keys of the migrations (CASCADE, SET   *)
(* NULL, or a refusal).  A request is one transaction, but for the         *)
(* acceptance of a draft, whose reads (has it been accepted? what does it  *)
(* propose?) are apart from its writes: two acceptances can overlap.       *)
(* Rows are records of what they refer to; names, scripts, goals, folders  *)
(* and voices are left out.  A request that is refused changes nothing.    *)
(***************************************************************************)
EXTENDS Integers, FiniteSets

CONSTANTS
  Projects, Agents, Suites, Personas, Profiles, Scenarios, Drafts, AuthoredRuns,  \* ids
  MetricProject,    \* the metrics there are, and the project of each
  Shared,           \* the project of a built-in: NULL
  Proposals,        \* bound: the sets of metrics a request may name
  Authors,          \* users
  MaxRequests       \* bound

None == "none"      \* NULL, which is no id

ASSUME AuthoringAssumption == None \notin Suites \union Personas \union Scenarios \union Drafts

VARIABLES
  projects,     \* not deleted
  agents,       \* id -> project
  suites,       \* id -> [project, agent]
  personas,     \* id -> project, or Shared
  profiles,     \* test_profiles: id -> project
  scenarios,    \* id -> [suite, persona, profile, draft (source_draft_ref), metrics]
  drafts,       \* discovery_drafts: id -> [suite, persona, metrics, added (added_scenario_id)]
  authored,     \* runs: id -> [project, agent, scenario]
  accepting,    \* per user: the acceptance of a draft under way
  used,         \* ids of rows that were deleted
  trespasses,   \* projects whose rows another project's request has changed
  requests

authorVars == <<projects, agents, suites, personas, profiles, scenarios, drafts, authored,
                accepting, used, trespasses, requests>>

Idling == [suite |-> None]

\* Rows of a table.
Put(table, id, row) == [k \in DOMAIN table \union {id} |-> IF k = id THEN row ELSE table[k]]
Drop(table, ids) == [k \in DOMAIN table \ ids |-> table[k]]
Fresh(table, id) == id \notin DOMAIN table \union used

\* The built-in personas are seeded; agents and suites have been created before.
AuthorInit ==
  /\ projects = Projects
  /\ agents \in [Agents -> Projects]
  /\ \E owner \in [Suites -> Agents] :
       suites = [s \in Suites |-> [project |-> agents[owner[s]], agent |-> owner[s]]]
  /\ personas \in {[x \in {y} |-> Shared] : y \in Personas}
  /\ profiles = << >> /\ scenarios = << >> /\ drafts = << >> /\ authored = << >>
  /\ accepting = [u \in Authors |-> Idling]
  /\ used = {} /\ trespasses = {} /\ requests = 0

Request == requests < MaxRequests /\ requests' = requests + 1

\* What a request in project p may refer to.
VisiblePersona(p, x) == x \in DOMAIN personas /\ personas[x] \in {Shared, p}
VisibleMetrics(p) == {m \in DOMAIN MetricProject : MetricProject[m] \in {Shared, p}}
MySuite(p, s) == s \in DOMAIN suites /\ suites[s].project = p
MyScenario(p, c) == c \in DOMAIN scenarios /\ MySuite(p, scenarios[c].suite)
MyAgent(p, a) == a \in DOMAIN agents /\ agents[a] = p

\* Deleting scenarios: runs and drafts keep their rows and lose the reference.
ForgetScenarios(cs) ==
  /\ authored' = [r \in DOMAIN authored |-> IF authored[r].scenario \in cs
                    THEN [authored[r] EXCEPT !.scenario = None] ELSE authored[r]]
Unaccepted(table, cs) == [d \in DOMAIN table |-> IF table[d].added \in cs
                            THEN [table[d] EXCEPT !.added = None] ELSE table[d]]

(***************************************************************************)
(* Agents, personas, test profiles, projects                               *)
(***************************************************************************)
CreateAgent(p, a) ==
  /\ Fresh(agents, a) /\ agents' = Put(agents, a, p)
  /\ UNCHANGED <<projects, suites, personas, profiles, scenarios, drafts, authored, accepting, used>>

DeleteAgent(p, a) ==
  /\ MyAgent(p, a)
  /\ \A s \in DOMAIN suites : suites[s].agent # a
  /\ \A r \in DOMAIN authored : authored[r].agent # a
  /\ agents' = Drop(agents, {a}) /\ used' = used \union {a}
  /\ UNCHANGED <<projects, suites, personas, profiles, scenarios, drafts, authored, accepting>>

CreatePersona(p, x) ==
  /\ Fresh(personas, x) /\ personas' = Put(personas, x, p)
  /\ UNCHANGED <<projects, agents, suites, profiles, scenarios, drafts, authored, accepting, used>>

\* The copy of a built-in is the project's own.
DuplicatePersona(p, y, x) == VisiblePersona(p, y) /\ CreatePersona(p, x)

\* Not a built-in, not one of a scenario; a draft that proposes it makes the DELETE fail.
DeletePersona(p, x) ==
  /\ x \in DOMAIN personas /\ personas[x] = p
  /\ \A c \in DOMAIN scenarios : scenarios[c].persona # x
  /\ \A d \in DOMAIN drafts : drafts[d].persona # x
  /\ personas' = Drop(personas, {x}) /\ used' = used \union {x}
  /\ UNCHANGED <<projects, agents, suites, profiles, scenarios, drafts, authored, accepting>>

CreateTestProfile(p, t) ==
  /\ Fresh(profiles, t) /\ profiles' = Put(profiles, t, p)
  /\ UNCHANGED <<projects, agents, suites, personas, scenarios, drafts, authored, accepting, used>>

DeleteTestProfile(p, t) ==
  /\ t \in DOMAIN profiles /\ profiles[t] = p
  /\ profiles' = Drop(profiles, {t}) /\ used' = used \union {t}
  /\ scenarios' = [c \in DOMAIN scenarios |-> IF scenarios[c].profile = t
                     THEN [scenarios[c] EXCEPT !.profile = None] ELSE scenarios[c]]
  /\ UNCHANGED <<projects, agents, suites, personas, drafts, authored, accepting>>

DeleteProject(p) ==
  /\ \A a \in DOMAIN agents : agents[a] # p
  /\ \A s \in DOMAIN suites : suites[s].project # p
  /\ \A r \in DOMAIN authored : authored[r].project # p
  /\ projects' = projects \ {p}
  /\ UNCHANGED <<agents, suites, personas, profiles, scenarios, drafts, authored, accepting, used>>

(***************************************************************************)
(* Suites                                                                  *)
(***************************************************************************)
CreateSuite(p, s, a) ==
  /\ Fresh(suites, s) /\ MyAgent(p, a)
  /\ suites' = Put(suites, s, [project |-> p, agent |-> a])
  /\ UNCHANGED <<projects, agents, personas, profiles, scenarios, drafts, authored, accepting, used>>

UpdateSuite(p, s, a) ==
  /\ MySuite(p, s) /\ MyAgent(p, a)
  /\ suites' = [suites EXCEPT ![s].agent = a]
  /\ UNCHANGED <<projects, agents, personas, profiles, scenarios, drafts, authored, accepting, used>>

\* Its scenarios and its drafts go with it.
DeleteSuite(p, s) ==
  /\ MySuite(p, s)
  /\ LET cs == {c \in DOMAIN scenarios : scenarios[c].suite = s}
         ds == {d \in DOMAIN drafts : drafts[d].suite = s}
     IN /\ suites' = Drop(suites, {s})
        /\ scenarios' = Drop(scenarios, cs)
        /\ drafts' = Unaccepted(Drop(drafts, ds), cs)
        /\ used' = used \union {s} \union cs \union ds
        /\ ForgetScenarios(cs)
  /\ UNCHANGED <<projects, agents, personas, profiles, accepting>>

(***************************************************************************)
(* Drafts: generate_scenarios, once the model has answered.                *)
(***************************************************************************)
GenerateDraft(p, s, d, x, ms) ==
  /\ MySuite(p, s) /\ Fresh(drafts, d)
  /\ VisiblePersona(p, x) /\ ms \subseteq VisibleMetrics(p)
  /\ drafts' = Put(drafts, d, [suite |-> s, persona |-> x, metrics |-> ms, added |-> None])
  /\ UNCHANGED <<projects, agents, suites, personas, profiles, scenarios, authored, accepting, used>>

(***************************************************************************)
(* Scenarios                                                               *)
(***************************************************************************)
Scenario(s, x, t, d, ms) ==
  [suite |-> s, persona |-> x, profile |-> t, draft |-> d, metrics |-> ms]

\* A test profile is not looked up: any that exists will do.
SomeProfile == DOMAIN profiles \union {None}

AddScenario(p, s, c, x, t, ms) ==
  /\ MySuite(p, s) /\ Fresh(scenarios, c)
  /\ VisiblePersona(p, x) /\ ms \subseteq VisibleMetrics(p) /\ t \in SomeProfile
  /\ scenarios' = Put(scenarios, c, Scenario(s, x, t, None, ms))
  /\ UNCHANGED <<projects, agents, suites, personas, profiles, drafts, authored, accepting, used>>

\* add_scenario with fromDraftId, its reads.  A draft already accepted is answered
\* with its scenario; the draft may be another suite's of the project.
AcceptDraft(u, p, s, d, x, ms) ==
  /\ accepting[u] = Idling
  /\ MySuite(p, s) /\ \A c \in DOMAIN scenarios : scenarios[c].draft # d
  /\ d \in DOMAIN drafts /\ MySuite(p, drafts[d].suite)
  /\ VisiblePersona(p, x)          \* the body's, else the draft's
  /\ ms = drafts[d].metrics \/ ms # {}     \* likewise
  /\ ms \subseteq VisibleMetrics(p)
  /\ accepting' = [accepting EXCEPT ![u] =
                     [suite |-> s, draft |-> d, persona |-> x, metrics |-> ms]]
  /\ UNCHANGED <<projects, agents, suites, personas, profiles, scenarios, drafts, authored, used>>

\* Mutant of Taken: the uniqueness of source_draft_ref is gone.
NeverTaken(d) == FALSE

Taken(d) == \E k \in DOMAIN scenarios : scenarios[k].draft = d

\* ... and its writes, which the foreign keys and the uniqueness of source_draft_ref
\* may refuse.
AcceptCommits(u, c, t) ==
  LET new == accepting[u]
  IN /\ accepting[u] # Idling /\ Fresh(scenarios, c) /\ t \in SomeProfile
     /\ IF Taken(new.draft) \/ new.suite \notin DOMAIN suites \/ new.persona \notin DOMAIN personas
          THEN UNCHANGED <<scenarios, drafts>>
          ELSE /\ scenarios' = Put(scenarios, c,
                    Scenario(new.suite, new.persona, t, new.draft, new.metrics))
               /\ drafts' = IF new.draft \in DOMAIN drafts
                              THEN [drafts EXCEPT ![new.draft].added = c] ELSE drafts
     /\ accepting' = [accepting EXCEPT ![u] = Idling]
     /\ UNCHANGED <<projects, agents, suites, personas, profiles, authored, used, requests>>

UpdateScenario(p, c, x, t, ms) ==
  /\ MyScenario(p, c) /\ VisiblePersona(p, x) /\ ms \subseteq VisibleMetrics(p)
  /\ t \in (SomeProfile \ {None}) \union {scenarios[c].profile}
  /\ scenarios' = [scenarios EXCEPT ![c].persona = x, ![c].profile = t, ![c].metrics = ms]
  /\ UNCHANGED <<projects, agents, suites, personas, profiles, drafts, authored, accepting, used>>

DeleteScenario(p, c) ==
  /\ MyScenario(p, c)
  /\ scenarios' = Drop(scenarios, {c}) /\ used' = used \union {c}
  /\ drafts' = Unaccepted(drafts, {c}) /\ ForgetScenarios({c})
  /\ UNCHANGED <<projects, agents, suites, personas, profiles, accepting>>

\* duplicate_scenario, into a suite of any project: what the source's project owns is
\* copied, and attachments that are not visible there are dropped.
\* Mutant of CopiedRef: the copy shares what the source refers to.
SharedRef(table, ref, q, copy) == [id |-> ref, rows |-> table]

CopiedRef(table, ref, q, copy) ==
  IF ref = None \/ (ref \in DOMAIN table /\ table[ref] \in {Shared, q})
    THEN [id |-> ref, rows |-> table]
    ELSE [id |-> copy, rows |-> Put(table, copy, q)]

DuplicateScenario(p, c, s, copy, x, t) ==
  /\ MyScenario(p, c) /\ s \in DOMAIN suites /\ Fresh(scenarios, copy)
  /\ Fresh(personas, x) /\ Fresh(profiles, t)
  /\ LET q == suites[s].project
         persona == CopiedRef(personas, scenarios[c].persona, q, x)
         profile == CopiedRef(profiles, scenarios[c].profile, q, t)
     IN /\ personas' = persona.rows /\ profiles' = profile.rows
        /\ scenarios' = Put(scenarios, copy,
             Scenario(s, persona.id, profile.id, None,
                      scenarios[c].metrics \intersect VisibleMetrics(q)))
  /\ UNCHANGED <<projects, agents, suites, drafts, authored, accepting, used>>

\* A scenario is run: by its suite's agent, or in a batch by any of the project.
LaunchScenario(p, r, c, a) ==
  /\ MyScenario(p, c) /\ MyAgent(p, a) /\ Fresh(authored, r)
  /\ authored' = Put(authored, r, [project |-> p, agent |-> a, scenario |-> c])
  /\ UNCHANGED <<projects, agents, suites, personas, profiles, scenarios, drafts, accepting, used>>

(***************************************************************************)
(* The PATCHes that change data only, and the bulk move of suites to a     *)
(* folder: whose rows they change.                                         *)
(***************************************************************************)
Edit(p, owners) ==
  /\ trespasses' = trespasses \union (owners \ {p})
  /\ UNCHANGED <<projects, agents, suites, personas, profiles, scenarios, drafts, authored,
                 accepting, used>>

\* Mutant of UpdatePersona: what a project sees it may edit.
EditVisiblePersona(p, x) == VisiblePersona(p, x) /\ Edit(p, {personas[x]})

UpdatePersona(p, x) ==
  VisiblePersona(p, x) /\ personas[x] # Shared /\ Edit(p, {personas[x]})
UpdateTestProfile(p, t) == t \in DOMAIN profiles /\ profiles[t] = p /\ Edit(p, {profiles[t]})
UpdateAgent(p, a) == MyAgent(p, a) /\ Edit(p, {agents[a]})

\* All of them are the project's, or none is moved.
MoveSuites(p, ss) ==
  /\ ss # {} /\ \A s \in ss : MySuite(p, s)
  /\ Edit(p, {suites[s].project : s \in ss})

EditRequest(p) ==
  \/ \E x \in Personas : UpdatePersona(p, x)
  \/ \E t \in Profiles : UpdateTestProfile(p, t)
  \/ \E a \in Agents : UpdateAgent(p, a)
  \/ \E ss \in SUBSET Suites : MoveSuites(p, ss)

ProjectRequest(p) ==
  \/ \E a \in Agents : CreateAgent(p, a) \/ DeleteAgent(p, a)
  \/ \E x \in Personas :
       \/ CreatePersona(p, x) \/ DeletePersona(p, x)
       \/ \E y \in Personas : DuplicatePersona(p, y, x)
  \/ \E t \in Profiles : CreateTestProfile(p, t) \/ DeleteTestProfile(p, t)
  \/ DeleteProject(p)
  \/ \E s \in Suites, a \in Agents : CreateSuite(p, s, a) \/ UpdateSuite(p, s, a)
  \/ \E s \in Suites : DeleteSuite(p, s)
  \/ \E s \in Suites, x \in Personas, ms \in Proposals :
       \/ \E d \in Drafts : GenerateDraft(p, s, d, x, ms)
       \/ \E c \in Scenarios, t \in SomeProfile : AddScenario(p, s, c, x, t, ms)
  \/ \E u \in Authors, s \in Suites, d \in Drafts, x \in Personas, ms \in Proposals :
       AcceptDraft(u, p, s, d, x, ms)
  \/ \E c \in Scenarios, x \in Personas, t \in SomeProfile, ms \in Proposals :
       UpdateScenario(p, c, x, t, ms)
  \/ \E c \in Scenarios : DeleteScenario(p, c)
  \/ \E c, copy \in Scenarios, s \in Suites, x \in Personas, t \in Profiles :
       DuplicateScenario(p, c, s, copy, x, t)
  \/ \E r \in AuthoredRuns, c \in Scenarios, a \in Agents : LaunchScenario(p, r, c, a)

AuthorNext ==
  \/ Request /\ UNCHANGED trespasses /\ \E p \in projects : ProjectRequest(p)
  \/ Request /\ \E p \in projects : EditRequest(p)
  \/ /\ \E u \in Authors, c \in Scenarios, t \in SomeProfile : AcceptCommits(u, c, t)
     /\ UNCHANGED trespasses

AuthorSpec == AuthorInit /\ [][AuthorNext]_authorVars
-----------------------------------------------------------------------------
ProjectOf(c) == suites[scenarios[c].suite].project

\* A project's scenarios are made of that project's rows and the built-ins, whatever is
\* copied from another, accepted late, or deleted in between: the agent, the persona
\* and the metrics of a scenario, of a draft and of a run are all of its project, and
\* no request has changed another project's rows, or a built-in, which they share.
\* (A test profile is not looked up: it is taken as named.)
TenantsKeptApart ==
  /\ trespasses = {}
  /\ \A s \in DOMAIN suites : MyAgent(suites[s].project, suites[s].agent)
  /\ \A c \in DOMAIN scenarios :
       /\ scenarios[c].suite \in DOMAIN suites
       /\ VisiblePersona(ProjectOf(c), scenarios[c].persona)
       /\ scenarios[c].metrics \subseteq VisibleMetrics(ProjectOf(c))
  /\ \A d \in DOMAIN drafts :
       /\ VisiblePersona(suites[drafts[d].suite].project, drafts[d].persona)
       /\ drafts[d].metrics \subseteq VisibleMetrics(suites[drafts[d].suite].project)
  /\ \A r \in DOMAIN authored :
       /\ MyAgent(authored[r].project, authored[r].agent)
       /\ authored[r].scenario # None => ProjectOf(authored[r].scenario) = authored[r].project

\* A draft becomes at most one scenario at a time, even when it is accepted twice at
\* once, and as long as the draft is there it names that scenario: deleting the
\* scenario, alone or with its suite, makes the draft acceptable again.
DraftAcceptedOnce ==
  /\ \A c, k \in DOMAIN scenarios : scenarios[c].draft = scenarios[k].draft
       => c = k \/ scenarios[c].draft = None
  /\ \A d \in DOMAIN drafts, c \in Scenarios :
       drafts[d].added = c <=> c \in DOMAIN scenarios /\ scenarios[c].draft = d
=============================================================================
