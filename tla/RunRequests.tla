----------------------------- MODULE RunRequests -----------------------------
(***************************************************************************)
(* The requests that create runs: POST /v1/simulations/runs,               *)
(* /v1/discovery/runs and /v1/runs/{id}/rerun (app/api/runs.py),           *)
(* /v1/suites/{id}/run (suites.py), /v1/redteam/runs (redteam.py).  A      *)
(* request that brings a dummy identity stores it in a transaction of its  *)
(* own before it creates the run, and deletes it in a third one if there   *)
(* is no run for it.  Requests overlap, are repeated with their            *)
(* Idempotency-Key, lose their process or the answer to their commit.      *)
(* One project and one agent; an identity is named by its request.         *)
(***************************************************************************)
EXTENDS Integers, Sequences, SequencesExt, FiniteSets

CONSTANTS
  Requests,         \* the requests there may be; each is used once
  Keys, NoKey,      \* Idempotency-Key
  Items,            \* what a batch makes a call of each: scenarios or attack packs
  MaxConcurrency,   \* of the agent
  BatchCap,         \* suite_run_batch_cap
  MaxRequestFaults  \* bound: crashes, failed commits, profiles deleted by hand

Nothing == "none"

\* A suite without scenarios and a selection without packs are refused.
ASSUME RequestAssumption ==
  /\ NoKey \notin Keys /\ MaxConcurrency \in Nat /\ BatchCap \in Nat /\ MaxRequestFaults \in Nat
  /\ Nothing \notin Requests /\ Items # {} /\ IsFiniteSet(Items)

VARIABLES
  launched,     \* the rows of runs, in order of creation
  identities,   \* the identities in test_profiles
  erased,       \* those a user deleted with DELETE /v1/test-profiles
  asked,        \* per request: where it is and what it asks for
  mishaps

requestVars == <<launched, identities, erased, asked, mishaps>>

Single == {"simulation", "discovery"}
Batch == {"suite", "redteam"}

Unasked == [at |-> "unasked", kind |-> Nothing, key |-> NoKey, mine |-> TRUE,
            identity |-> Nothing, source |-> 0, items |-> << >>, run |-> 0, doubt |-> FALSE]

\* A row; verdict "live" until it ends.
Run(kind, key, parent, item, identity, source) ==
  [kind |-> kind, key |-> key, parent |-> parent, item |-> item, identity |-> identity,
   source |-> source, verdict |-> "live"]

RowIds == 1..Len(launched)
Calls(p) == {r \in RowIds : launched[r].parent = p}
IsLive(r) == IF Calls(r) = {} THEN launched[r].verdict = "live"
             ELSE \E c \in Calls(r) : launched[c].verdict = "live"
LiveCount == Cardinality({r \in RowIds : IsLive(r)})     \* batch parents count as well
\* Mutant of Named: a key is not looked for among the batches.
NamedSingle(key) == {r \in RowIds : key # NoKey /\ launched[r].key = key /\ launched[r].kind \in Single}
Named(key) == {r \in RowIds : key # NoKey /\ launched[r].key = key}

RequestInit ==
  /\ launched = << >> /\ identities = {} /\ erased = {}
  /\ asked = [q \in Requests |-> Unasked] /\ mishaps = 0

Moves(q, at) == asked' = [asked EXCEPT ![q].at = at]

\* The request, with what is validated before anything is written.  A discovery's agent
\* is only looked up later; `mine' says whether the project has it.
Ask(q, kind, key, mine, identity) ==
  /\ asked[q].at = "unasked"
  /\ ~mine => kind = "discovery"
  /\ identity = (IF kind = "discovery" THEN q ELSE IF kind = "redteam" THEN identity ELSE Nothing)
  /\ kind = "redteam" => Cardinality(Items) <= BatchCap
  /\ asked' = [asked EXCEPT ![q] =
       [Unasked EXCEPT !.at = IF identity = Nothing THEN "insert" ELSE "identity",
                       !.kind = kind, !.key = key, !.mine = mine, !.identity = identity,
                       !.items = IF kind \in Batch THEN SetToSeq(Items) ELSE << >>]]
  /\ UNCHANGED <<launched, identities, erased, mishaps>>

\* store_dummy_identity commits.
StoreIdentity(q) ==
  /\ asked[q].at = "identity" /\ identities' = identities \union {q} /\ Moves(q, "insert")
  /\ UNCHANGED <<launched, erased, mishaps>>

\* Where an exception leads: through the deletion of the identity it stored, if any.
Stored(q) == asked[q].identity = q
Raises(q) == IF Stored(q) THEN "dropping" ELSE "refused"

(***************************************************************************)
(* _create_run, for a simulation, a discovery or the rerun of a single     *)
(* run: the cap before the key.                                            *)
(***************************************************************************)
Refused(q) == ~asked[q].mine \/ LiveCount >= MaxConcurrency
NewRun(q) == Append(launched, Run(asked[q].kind, asked[q].key, 0, Nothing, asked[q].identity, asked[q].source))

CreateSingle(q) ==
  /\ asked[q].at = "insert" /\ asked[q].items = << >>
  /\ IF Refused(q) THEN Moves(q, Raises(q)) /\ UNCHANGED launched
     ELSE IF Named(asked[q].key) # {}
       THEN /\ \E r \in Named(asked[q].key) :
                 asked' = [asked EXCEPT ![q].at = "done", ![q].run = r]
            /\ UNCHANGED launched
     ELSE /\ launched' = NewRun(q)
          /\ asked' = [asked EXCEPT ![q].at = "done", ![q].run = Len(launched) + 1]
  /\ UNCHANGED <<identities, erased, mishaps>>

(***************************************************************************)
(* run_suite, create_redteam_run, and the rerun of a batch: a parent with  *)
(* all its calls in one transaction.  The live runs are not counted.       *)
(***************************************************************************)
CallKind(kind) == IF kind = "redteam" THEN "redteam" ELSE "simulation"
NewBatch(q) ==
  LET body == asked[q]
      parent == Len(launched) + 1
      call == IF body.source = 0 THEN CallKind(body.kind) ELSE "simulation"
  IN Append(launched, Run(body.kind, body.key, 0, Nothing, Nothing, body.source))
     \o [i \in 1..Len(body.items) |-> Run(call, NoKey, parent, body.items[i], body.identity, 0)]

\* Mutant of AfterReplay: the repeated request keeps its identity.
KeepIdentity(q) == "done"

\* A red-team batch that was there already needs no second identity.
AfterReplay(q) == IF Stored(q) THEN "dropping" ELSE "done"

CreateBatch(q) ==
  /\ asked[q].at = "insert" /\ asked[q].items # << >> /\ Len(asked[q].items) <= BatchCap
  /\ IF Named(asked[q].key) # {}
       THEN /\ \E r \in Named(asked[q].key) :
                 asked' = [asked EXCEPT ![q].at = AfterReplay(q), ![q].run = r]
            /\ UNCHANGED launched
       ELSE /\ launched' = NewBatch(q)
            /\ asked' = [asked EXCEPT ![q].at = "done", ![q].run = Len(launched) + 1]
  /\ UNCHANGED <<identities, erased, mishaps>>

DropIdentity(q) ==
  /\ asked[q].at = "dropping" /\ identities' = identities \ {q}
  /\ Moves(q, IF asked[q].run = 0 THEN "refused" ELSE "done")
  /\ UNCHANGED <<launched, erased, mishaps>>

(***************************************************************************)
(* rerun_run.  The source is read, then the calls of a batch, which must   *)
(* have ended; what was read is inserted later.  A single run is cloned    *)
(* with its config, the identity in it included; the calls of a batch      *)
(* become simulations of the scenarios, and an attack has none.            *)
(***************************************************************************)
AskRerun(q, r) ==
  /\ asked[q].at = "unasked" /\ r \in RowIds
  /\ asked' = [asked EXCEPT ![q] =
       [Unasked EXCEPT !.at = IF Calls(r) = {} THEN "insert" ELSE "reading",
                       !.kind = launched[r].kind, !.source = r,
                       !.identity = IF Calls(r) = {} THEN launched[r].identity ELSE Nothing]]
  /\ UNCHANGED <<launched, identities, erased, mishaps>>

ReadCalls(q, only) ==
  /\ asked[q].at = "reading"
  /\ LET calls == {c \in Calls(asked[q].source) : only = "all" \/ launched[c].verdict = "fail"}
         n == Cardinality(calls)
         scenario(c) == IF launched[c].kind = "redteam" THEN Nothing ELSE launched[c].item
     IN IF IsLive(asked[q].source) \/ calls = {} \/ n > BatchCap
          THEN Moves(q, "refused")
          ELSE \E order \in [1..n -> calls] :
                 /\ \A i, j \in 1..n : i < j => order[i] < order[j]
                 /\ asked' = [asked EXCEPT ![q].at = "insert",
                                           ![q].items = [i \in 1..n |-> scenario(order[i])]]
  /\ UNCHANGED <<launched, identities, erased, mishaps>>

(***************************************************************************)
(* What can go wrong, and what happens elsewhere.                          *)
(***************************************************************************)
Fault == mishaps < MaxRequestFaults /\ mishaps' = mishaps + 1

\* The connection is lost at the insert: before the commit, or after it.
InsertBreaks(q, committed) ==
  /\ Fault /\ asked[q].at = "insert" /\ Named(asked[q].key) = {}
  /\ asked[q].items = << >> => ~Refused(q)
  /\ asked' = [asked EXCEPT ![q].at = Raises(q), ![q].doubt = committed]
  /\ launched' = IF ~committed THEN launched
                 ELSE IF asked[q].items = << >> THEN NewRun(q) ELSE NewBatch(q)
  /\ UNCHANGED <<identities, erased>>

\* The process is gone.
Crash(q) ==
  /\ Fault /\ asked[q].at \in {"insert", "dropping", "reading"} /\ Moves(q, "dead")
  /\ UNCHANGED <<launched, identities, erased>>

DeleteProfile(i) ==
  /\ Fault /\ i \in identities
  /\ identities' = identities \ {i} /\ erased' = erased \union {i}
  /\ UNCHANGED <<launched, asked>>

\* A run ends, somehow, with the verdict of verdict_for_run.
EndRun(r, verdict) ==
  /\ r \in RowIds /\ Calls(r) = {} /\ launched[r].verdict = "live"
  /\ launched' = [launched EXCEPT ![r].verdict = verdict]
  /\ UNCHANGED <<identities, erased, asked, mishaps>>

RequestNext ==
  \/ \E q \in Requests, kind \in Single \union Batch, key \in Keys \union {NoKey} :
       \E mine \in BOOLEAN, identity \in {q, Nothing} : Ask(q, kind, key, mine, identity)
  \/ \E q \in Requests :
       \/ StoreIdentity(q) \/ CreateSingle(q) \/ CreateBatch(q) \/ DropIdentity(q)
       \/ \E only \in {"all", "failed"} : ReadCalls(q, only)
       \/ \E committed \in BOOLEAN : InsertBreaks(q, committed)
       \/ Crash(q) \/ DeleteProfile(q)
       \/ \E r \in RowIds : AskRerun(q, r)
  \/ \E r \in RowIds, verdict \in {"pass", "fail"} : EndRun(r, verdict)

RequestSpec == RequestInit /\ [][RequestNext]_requestVars
-----------------------------------------------------------------------------
Done(q) == asked[q].at = "done" /\ asked[q].run # 0

\* A request that is repeated with its key is answered with the run, or the whole batch,
\* that the first one made, whichever of them came first and however they overlapped,
\* and only one run carries the key.
KeyNamesOneRun ==
  /\ \A r, k \in RowIds : launched[r].key = launched[k].key => r = k \/ launched[r].key = NoKey
  /\ \A q, p \in Requests : Done(q) /\ Done(p) /\ asked[q].key = asked[p].key /\ asked[q].key # NoKey
       => asked[q].run = asked[p].run
  /\ \A q \in Requests : Done(q) /\ asked[q].kind = launched[asked[q].run].kind =>
       Cardinality(Calls(asked[q].run)) = Len(asked[q].items)

\* An identity is kept exactly for the runs that use it.  A run lacks its own only if
\* a user deleted it or the answer to the run's commit was lost; an identity that no run
\* refers to belongs to a request under way or dead, or to a discovery request that was
\* a repetition.
IdentitiesHaveRuns ==
  /\ \A r \in RowIds : LET i == launched[r].identity IN
       i # Nothing => i \in identities \union erased \/ asked[i].doubt
  /\ \A i \in identities :
       \/ \E r \in RowIds : launched[r].identity = i
       \/ asked[i].at \in {"insert", "dropping", "dead"}
       \/ asked[i].at = "done" /\ asked[i].kind = "discovery"

\* A request may be repeated, fail half-way, or race its own repetition: neither a second
\* run nor a stray identity comes of it, but for the cases named above.
RetriesAreSafe == KeyNamesOneRun /\ IdentitiesHaveRuns
=============================================================================
