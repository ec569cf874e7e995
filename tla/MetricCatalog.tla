---------------------------- MODULE MetricCatalog ----------------------------
(***************************************************************************)
(* Metrics from authoring to a verdict: the metrics API                    *)
(* (app/api/metrics.py), which of them a scenario's call is scored with    *)
(* (app/engine/metrics/resolver.py), their outcomes (compiler.py) and how  *)
(* the gating ones decide the call's badge (app/engine/rubric.py, the      *)
(* scoring half of app/engine/executor/simulation.py).                     *)
(* A PATCH is a transaction at READ COMMITTED that reads the row, decides  *)
(* and then writes what it decided; a backtest reads in one transaction    *)
(* and is recorded in another; a call resolves its metrics when it starts. *)
(***************************************************************************)
EXTENDS Integers, FiniteSets

CONSTANTS
  Metrics, Builtins,     \* the ids there may be; the seeded built-ins
  NameOf, LevelOf,       \* level: 0 builtin, 1 project, 2 agent
  KindOf,                \* "builtin", "llm_judge" or "python"
  Specs, Editors, ScoredCalls,
  Bodies,                \* what a PATCH may say: a spec and a status, or Keep
  Attachments,           \* the sets of gating metrics a scenario may be given
  Verdicts,              \* the statuses a verdict may have
  SampledOut,            \* pairs <<call, metric>> that sampled_in rejects
  MaxEdits               \* bound: PATCHes of all editors

Statuses == {"draft", "active", "archived"}
Keep == "keep"                       \* a field the PATCH body leaves out

ASSUME MetricAssumption ==
  /\ Builtins \subseteq Metrics /\ MaxEdits \in Nat
  /\ Bodies \subseteq [spec : Specs \union {Keep}, status : Statuses \union {Keep}]
  /\ \A m \in Metrics : (LevelOf[m] = 0) <=> (m \in Builtins)
  /\ \A m \in Metrics : KindOf[m] \in {"builtin", "llm_judge", "python"}

VARIABLES
  metrics,      \* the table: id -> [spec, status, version]
  retired,      \* ids of deleted rows
  backtests,    \* metric_backtests: pairs <<metric, spec hash>>
  testing,      \* backtests under way
  gates,        \* scenario_metrics of the scenario, with gating
  patches,      \* per editor: the row and the body of the PATCH under way
  scoring,      \* per call
  edits,
  raced         \* metrics that a PATCH wrote after another changed the row it had read

catalogVars == <<metrics, retired, backtests, testing, gates, patches, scoring, edits, raced>>

NoChange == [spec |-> Keep, status |-> Keep]
NoPatch == [metric |-> "none"]

Row(spec, status, version) == [spec |-> spec, status |-> status, version |-> version]
Exists(m) == m \in DOMAIN metrics
With(m, row) == [k \in DOMAIN metrics \union {m} |-> IF k = m THEN row ELSE metrics[k]]
Without(m) == [k \in DOMAIN metrics \ {m} |-> metrics[k]]
Unscored == [at |-> "queued"]
Outcomes == UNION {DOMAIN scoring[c].outcomes : c \in {d \in ScoredCalls : scoring[d].at = "done"}}

\* The seed, and perhaps metrics that were created, tested and activated before.
CatalogInit ==
  /\ \E spec \in Specs, live \in SUBSET Metrics :
       /\ Builtins \subseteq live
       /\ \A m, k \in live : NameOf[m] = NameOf[k] /\ LevelOf[m] = LevelOf[k] => m = k
       /\ metrics = [m \in live |-> Row(spec, "active", 1)]
       /\ backtests = {<<m, spec>> : m \in live}
  /\ retired = {} /\ testing = {} /\ gates = {}
  /\ patches = [u \in Editors |-> NoPatch]
  /\ scoring = [c \in ScoredCalls |-> Unscored]
  /\ edits = 0 /\ raced = {}

\* POST /v1/metrics: a draft, its name unused at its level.
CreateMetric(m, spec) ==
  /\ m \notin DOMAIN metrics \union retired \union Builtins
  /\ \A k \in DOMAIN metrics : <<NameOf[k], LevelOf[k]>> # <<NameOf[m], LevelOf[m]>>
  /\ metrics' = With(m, Row(spec, "draft", 1))
  /\ UNCHANGED <<retired, backtests, testing, gates, patches, scoring, edits, raced>>

(***************************************************************************)
(* PATCH: what it reads and rejects, then what it writes.                  *)
(***************************************************************************)
Effective(row, body) == IF body.spec = Keep THEN row.spec ELSE body.spec

StartPatch(u, m, body) ==
  /\ patches[u] = NoPatch /\ Exists(m) /\ m \notin Builtins /\ edits < MaxEdits
  /\ body.status = "active" => <<m, Effective(metrics[m], body)>> \in backtests
  /\ patches' = [patches EXCEPT ![u] = [metric |-> m, row |-> metrics[m], body |-> body]]
  /\ edits' = edits + 1
  /\ UNCHANGED <<metrics, retired, backtests, testing, gates, scoring, raced>>

\* Mutant of Patched: the version is not raised.
SameVersion(now, read, body) ==
  [now EXCEPT !.spec = IF body.spec = Keep THEN @ ELSE body.spec,
              !.status = IF body.status = Keep THEN @ ELSE body.status]

Patched(now, read, body) ==
  [now EXCEPT !.spec = IF body.spec = Keep THEN @ ELSE body.spec,
              !.status = IF body.status = Keep THEN @ ELSE body.status,
              !.version = IF read.status = "active" /\ body # NoChange
                            THEN read.version + 1 ELSE @]

FinishPatch(u) ==
  /\ patches[u] # NoPatch
  /\ LET m == patches[u].metric
         read == patches[u].row
     IN IF ~Exists(m) THEN UNCHANGED <<metrics, raced>>
        ELSE /\ metrics' = With(m, Patched(metrics[m], read, patches[u].body))
             /\ raced' = IF metrics[m] # read THEN raced \union {m} ELSE raced
  /\ patches' = [patches EXCEPT ![u] = NoPatch]
  /\ UNCHANGED <<retired, backtests, testing, gates, scoring, edits>>

\* POST backtest: the spec that was read is what is recorded, if the metric is
\* still there by then.  One backtest at a time, and of a spec not tested before,
\* are bounds.
StartBacktest(m) ==
  /\ Exists(m) /\ testing = {} /\ <<m, metrics[m].spec>> \notin backtests /\ testing' = {<<m, metrics[m].spec>>}
  /\ UNCHANGED <<metrics, retired, backtests, gates, patches, scoring, edits, raced>>
FinishBacktest(test) ==
  /\ test \in testing /\ testing' = testing \ {test}
  /\ backtests' = IF Exists(test[1]) THEN backtests \union {test} ELSE backtests
  /\ UNCHANGED <<metrics, retired, gates, patches, scoring, edits, raced>>

\* DELETE: not a metric with results; its backtests and attachments go with it.
DeleteMetric(m) ==
  /\ Exists(m) /\ m \notin Builtins /\ m \notin Outcomes
  /\ metrics' = Without(m) /\ retired' = retired \union {m}
  /\ backtests' = {test \in backtests : test[1] # m}
  /\ gates' = gates \ {m}
  /\ UNCHANGED <<testing, patches, scoring, edits, raced>>

\* _sync_scenario_metrics replaces the whole set.
AttachGates(ms) ==
  /\ ms \subseteq DOMAIN metrics /\ gates' = ms
  /\ UNCHANGED <<metrics, retired, backtests, testing, patches, scoring, edits, raced>>

(***************************************************************************)
(* A call.                                                                 *)
(***************************************************************************)
\* resolve_metrics_for_agent: the active metric of each name nearest the agent.
Active == {m \in DOMAIN metrics : metrics[m].status = "active"}
Resolved == {m \in Active : \A k \in Active : NameOf[k] = NameOf[m] => LevelOf[k] <= LevelOf[m]}

StartScoring(c) ==
  /\ scoring[c] = Unscored
  /\ scoring' = [scoring EXCEPT ![c] = [at |-> "started", rows |-> [m \in Resolved |-> metrics[m]]]]
  /\ UNCHANGED <<metrics, retired, backtests, testing, gates, patches, edits, raced>>

Sampled(c, ms) == {m \in ms : <<c, m>> \notin SampledOut}
Judged(c, ms) == {m \in Sampled(c, ms) : KindOf[m] = "llm_judge"}
Possible(m) == CASE KindOf[m] = "llm_judge" -> {"passed", "failed", "warn"}
                 [] KindOf[m] = "builtin"   -> {"passed", "failed", "not_computable", "error"}
                 [] KindOf[m] = "python"    -> {"passed", "failed", "warn", "error", "not_computable"}

\* outcomes_from_judge_verdicts, evaluate_builtin_metric, evaluate_python_metric and
\* not_sampled_outcomes: `verdicts' is what the judge and the code said, and the
\* judge may have left some of its metrics out.
OutcomesOf(c, ms, verdicts) ==
  [m \in ms |-> IF m \notin Sampled(c, ms) THEN "not_sampled"
                ELSE IF m \in DOMAIN verdicts THEN verdicts[m] ELSE "error"]
VerdictSets(c, ms) ==
  UNION {{v \in [answered -> Verdicts] : \A m \in answered : v[m] \in Possible(m)} :
           answered \in {s \in SUBSET Sampled(c, ms) : Sampled(c, ms) \ Judged(c, ms) \subseteq s}}

\* Mutant of Badge: only a verdict that says failed fails the call.
LenientBadge(gating, byScore) ==
  CASE "failed" \in gating -> "fail"
    [] "warn" \in gating /\ "failed" \notin gating -> "warn"
    [] OTHER -> byScore

\* evaluate_call
Badge(gating, byScore) ==
  CASE "failed" \in gating \/ "error" \in gating -> "fail"
    [] "warn" \in gating /\ ~("failed" \in gating \/ "error" \in gating) -> "warn"
    [] OTHER -> byScore

\* The final transaction.  A metric deleted meanwhile breaks it: a result needs its
\* metric, and the run fails.
FinishScoring(c, verdicts, byScore) ==
  /\ scoring[c].at = "started"
  /\ LET ms == DOMAIN scoring[c].rows
         outcomes == OutcomesOf(c, ms, verdicts)
     IN scoring' = [scoring EXCEPT ![c] =
          IF ms \subseteq DOMAIN metrics
            THEN [at |-> "done", rows |-> @.rows, outcomes |-> outcomes, gates |-> gates,
                  badge |-> Badge({outcomes[m] : m \in ms \intersect gates}, byScore)]
            ELSE [at |-> "failed"]]
  /\ UNCHANGED <<metrics, retired, backtests, testing, gates, patches, edits, raced>>

CatalogNext ==
  \/ \E m \in Metrics, spec \in Specs : CreateMetric(m, spec)
  \/ \E u \in Editors, m \in Metrics, body \in Bodies : StartPatch(u, m, body)
  \/ \E u \in Editors : FinishPatch(u)
  \/ \E m \in Metrics : StartBacktest(m) \/ DeleteMetric(m)
  \/ \E test \in testing : FinishBacktest(test)
  \/ \E ms \in Attachments : AttachGates(ms)
  \/ \E c \in ScoredCalls : StartScoring(c)
  \/ \E c \in ScoredCalls, byScore \in {"pass", "warn", "fail"} :
       /\ scoring[c].at = "started"
       /\ \E v \in VerdictSets(c, DOMAIN scoring[c].rows) : FinishScoring(c, v, byScore)

CatalogSpec == CatalogInit /\ [][CatalogNext]_catalogVars
-----------------------------------------------------------------------------
DoneCalls == {c \in ScoredCalls : scoring[c].at = "done"}

\* A stored result says which version of its metric gave it, so that results of one
\* version can be compared: a metric that goes back to draft, is rewritten, tested
\* and activated again has another version than the one calls were scored with.
\* Only two PATCHes that overlap can give one version to two specs.
VersionNamesSpec ==
  \A c, d \in DoneCalls : \A m \in DOMAIN scoring[c].rows \intersect DOMAIN scoring[d].rows :
    scoring[c].rows[m].version = scoring[d].rows[m].version /\ m \notin raced
      => scoring[c].rows[m].spec = scoring[d].rows[m].spec

\* A call passes only on the answer of each of its gates: a metric the judge forgot
\* counts as failed.  What the gate cannot see is a metric that was not in force
\* when the call began: archived, a draft, or overridden by name.
GatesAnswered ==
  \A c \in DoneCalls : scoring[c].badge = "pass" =>
    \A m \in scoring[c].gates \intersect DOMAIN scoring[c].rows :
      \/ scoring[c].outcomes[m] \in {"passed", "not_computable"}
      \/ <<c, m>> \in SampledOut /\ scoring[c].outcomes[m] = "not_sampled"
=============================================================================
