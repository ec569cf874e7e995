---------------------------- MODULE ClaimProtocol ---------------------------
(***************************************************************************)
(* claim_run statement by statement: several workers inside the claim      *)
(* transaction at once, under READ COMMITTED, against each other and       *)
(* against the transactions that lock, cancel, reap or finish a row.  A    *)
(* statement sees what is committed; a claim's own UPDATE is seen by the   *)
(* others when it commits; locks are held until then.                      *)
(***************************************************************************)
EXTENDS Integers, FiniteSets, Sequences

CONSTANTS
    Runs,            \* queued rows, batch parents included
    Parents,         \* the rows among them that have children
    Agents,
    AgentOf,         \* agent_id
    Cap,             \* agents.max_concurrency
    Workers,
    NoWorker,
    NoRun,
    CandidateLimit,  \* _CANDIDATE_LIMIT: agents one scan looks at
    MaxAborts        \* bound: claim transactions lost before their commit

ASSUME QueueAssumption ==
    /\ IsFiniteSet(Runs)
    /\ IsFiniteSet(Agents)
    /\ Parents \subseteq Runs
    /\ NoRun \notin Runs
    /\ AgentOf \in [Runs -> Agents]
    /\ Cap \in [Agents -> Nat \ {0}]
    /\ NoWorker \notin Workers
    /\ CandidateLimit \in Nat \ {0}
    /\ MaxAborts \in Nat

VARIABLES
    status,    \* committed runs.status; "live" is claimed or running
    owner,     \* committed runs.claimed_by
    born,      \* runs.created_at: rows of one transaction share it
    held,      \* rows locked by a cancel, reap or finish under way
    lock,      \* which worker holds the advisory lock of an agent
    pc,        \* the claim statement each worker executes next
    todo,      \* its candidate agents not looked at yet
    picked,    \* the row it has claimed and not committed, or executes
    aborts     \* claim transactions lost so far

vars == <<status, owner, born, held, lock, pc, todo, picked, aborts>>

Steps == {"idle", "try", "count", "pick", "commit", "busy"}

TypeOK ==
    /\ status \in [Runs -> {"absent", "queued", "live", "ended"}]
    /\ owner \in [Runs -> Workers \cup {NoWorker}]
    /\ born \in [Runs -> Nat]
    /\ held \in SUBSET Runs
    /\ lock \in [Agents -> Workers \cup {NoWorker}]
    /\ pc \in [Workers -> Steps]
    /\ todo \in [Workers -> Seq(Agents)]
    /\ picked \in [Workers -> Runs \cup {NoRun}]
    /\ aborts \in Nat

Init ==
    /\ status = [r \in Runs |-> "absent"]
    /\ owner = [r \in Runs |-> NoWorker]
    /\ born = [r \in Runs |-> 0]
    /\ held = {}
    /\ lock = [a \in Agents |-> NoWorker]
    /\ pc = [w \in Workers |-> "idle"]
    /\ todo = [w \in Workers |-> << >>]
    /\ picked = [w \in Workers |-> NoRun]
    /\ aborts = 0

-----------------------------------------------------------------------------

\* The queued rows of a that have no children: the only claimable ones.
Claimable(a) == {r \in Runs : AgentOf[r] = a /\ status[r] = "queued" /\ r \notin Parents}

\* Mutant of LiveOf: the count takes queued runs for live ones.
LiveOrQueued(a) == {r \in Runs : AgentOf[r] = a /\ status[r] \in {"queued", "live"}}

LiveOf(a) == {r \in Runs : AgentOf[r] = a /\ status[r] = "live"}

\* Locked by another transaction: a claim that picked it, or held.
Locked(r) == r \in held \/ \E w \in Workers : pc[w] = "commit" /\ picked[w] = r

Older(a, b) == \E r \in Claimable(a) : \A q \in Claimable(b) : born[r] <= born[q]

\* One row per agent, oldest first; agents of the same age in any order.
Scans ==
    LET C == {a \in Agents : Claimable(a) # {}}
    IN  {s \in [1..Cardinality(C) -> C] :
            \A i, j \in DOMAIN s : i < j => s[i] # s[j] /\ Older(s[i], s[j])}

FirstOf(s) == IF Len(s) <= CandidateLimit THEN s ELSE SubSeq(s, 1, CandidateLimit)

\* The end of w's transaction: its advisory locks are released.
Unlock(w) == lock' = [a \in Agents |-> IF lock[a] = w THEN NoWorker ELSE lock[a]]

Skip(w) ==
    /\ todo' = [todo EXCEPT ![w] = Tail(@)]
    /\ pc' = [pc EXCEPT ![w] = "try"]
    /\ UNCHANGED <<status, owner, born, held, lock, picked, aborts>>

-----------------------------------------------------------------------------
(* claim_run. *)

Scan(w) ==
    /\ pc[w] = "idle"
    /\ \E s \in Scans : todo' = [todo EXCEPT ![w] = FirstOf(s)]
    /\ pc' = [pc EXCEPT ![w] = "try"]
    /\ UNCHANGED <<status, owner, born, held, lock, picked, aborts>>

\* No candidate left: the transaction ends without a claim.
GiveUp(w) ==
    /\ pc[w] = "try"
    /\ todo[w] = << >>
    /\ Unlock(w)
    /\ pc' = [pc EXCEPT ![w] = "idle"]
    /\ UNCHANGED <<status, owner, born, held, todo, picked, aborts>>

\* Mutant of TryLock: what pg_try_advisory_xact_lock returned is ignored.
TryLockIgnored(w) ==
    /\ pc[w] = "try"
    /\ todo[w] # << >>
    /\ lock' = [lock EXCEPT ![Head(todo[w])] = IF @ = NoWorker THEN w ELSE @]
    /\ pc' = [pc EXCEPT ![w] = "count"]
    /\ UNCHANGED <<status, owner, born, held, todo, picked, aborts>>

\* pg_try_advisory_xact_lock never waits; a lock already taken in this
\* transaction is granted again.
TryLock(w) ==
    /\ pc[w] = "try"
    /\ todo[w] # << >>
    /\ lock[Head(todo[w])] \in {NoWorker, w}
    /\ lock' = [lock EXCEPT ![Head(todo[w])] = w]
    /\ pc' = [pc EXCEPT ![w] = "count"]
    /\ UNCHANGED <<status, owner, born, held, todo, picked, aborts>>

LockTaken(w) ==
    /\ pc[w] = "try"
    /\ todo[w] # << >>
    /\ lock[Head(todo[w])] \notin {NoWorker, w}
    /\ Skip(w)

\* Mutant of HasRoom: one more than the cap.
HasRoomAtCap(w) ==
    /\ pc[w] = "count"
    /\ Cardinality(LiveOf(Head(todo[w]))) <= Cap[Head(todo[w])]
    /\ pc' = [pc EXCEPT ![w] = "pick"]
    /\ UNCHANGED <<status, owner, born, held, lock, todo, picked, aborts>>

\* _AGENT_CAPACITY_SQL: an agent at its cap is skipped, its lock kept.
HasRoom(w) ==
    /\ pc[w] = "count"
    /\ Cardinality(LiveOf(Head(todo[w]))) < Cap[Head(todo[w])]
    /\ pc' = [pc EXCEPT ![w] = "pick"]
    /\ UNCHANGED <<status, owner, born, held, lock, todo, picked, aborts>>

AtCap(w) ==
    /\ pc[w] = "count"
    /\ Cardinality(LiveOf(Head(todo[w]))) >= Cap[Head(todo[w])]
    /\ Skip(w)

\* Mutant of Free: FOR UPDATE SKIP LOCKED is dropped.
AnyClaimable(a) == Claimable(a)

\* _CLAIM_OLDEST_FOR_AGENT_SQL: FOR UPDATE SKIP LOCKED, then the UPDATE.
Free(a) == {r \in Claimable(a) : ~Locked(r)}

\* Mutant of Pick: ORDER BY created_at is dropped.
PickAny(w) ==
    /\ pc[w] = "pick"
    /\ \E r \in Free(Head(todo[w])) : picked' = [picked EXCEPT ![w] = r]
    /\ pc' = [pc EXCEPT ![w] = "commit"]
    /\ UNCHANGED <<status, owner, born, held, lock, todo, aborts>>

Pick(w) ==
    /\ pc[w] = "pick"
    /\ \E r \in Free(Head(todo[w])) :
          /\ \A q \in Free(Head(todo[w])) : born[r] <= born[q]
          /\ picked' = [picked EXCEPT ![w] = r]
    /\ pc' = [pc EXCEPT ![w] = "commit"]
    /\ UNCHANGED <<status, owner, born, held, lock, todo, aborts>>

NothingToPick(w) ==
    /\ pc[w] = "pick"
    /\ Free(Head(todo[w])) = {}
    /\ Skip(w)

Commit(w) ==
    /\ pc[w] = "commit"
    /\ status' = [status EXCEPT ![picked[w]] = "live"]
    /\ owner' = [owner EXCEPT ![picked[w]] = w]
    /\ Unlock(w)
    /\ pc' = [pc EXCEPT ![w] = "busy"]
    /\ todo' = [todo EXCEPT ![w] = << >>]
    /\ UNCHANGED <<born, held, picked, aborts>>

\* The connection or the process is lost before the commit: all rolled back.
Abort(w) ==
    /\ pc[w] \in {"try", "count", "pick", "commit"}
    /\ aborts < MaxAborts
    /\ aborts' = aborts + 1
    /\ Unlock(w)
    /\ pc' = [pc EXCEPT ![w] = "idle"]
    /\ todo' = [todo EXCEPT ![w] = << >>]
    /\ picked' = [picked EXCEPT ![w] = NoRun]
    /\ UNCHANGED <<status, owner, born, held>>

\* Mutant of Return: a state the claim loop does not have.
ReturnToNowhere(w) ==
    /\ pc[w] = "busy"
    /\ pc' = [pc EXCEPT ![w] = "done"]
    /\ picked' = [picked EXCEPT ![w] = NoRun]
    /\ UNCHANGED <<status, owner, born, held, lock, todo, aborts>>

\* execute_run returns (or the process is replaced): the worker polls again.
Return(w) ==
    /\ pc[w] = "busy"
    /\ pc' = [pc EXCEPT ![w] = "idle"]
    /\ picked' = [picked EXCEPT ![w] = NoRun]
    /\ UNCHANGED <<status, owner, born, held, lock, todo, aborts>>

-----------------------------------------------------------------------------
(* The other writers of the table. *)

\* One request: a single run, or a parent with its children.
Insert(S) ==
    /\ S # {}
    /\ \A r \in S : status[r] = "absent"
    /\ LET now == 1 + Cardinality({r \in Runs : status[r] # "absent"})
       IN  born' = [r \in Runs |-> IF r \in S THEN now ELSE born[r]]
    /\ status' = [r \in Runs |-> IF r \in S THEN "queued" ELSE status[r]]
    /\ UNCHANGED <<owner, held, lock, pc, todo, picked, aborts>>

\* SELECT ... FOR UPDATE of a cancel, a finish or a reap: it waits for a
\* claim that has the row.
LockRow(r) ==
    /\ status[r] \in {"queued", "live"}
    /\ ~Locked(r)
    /\ held' = held \cup {r}
    /\ UNCHANGED <<status, owner, born, lock, pc, todo, picked, aborts>>

EndRow(r) ==
    /\ r \in held
    /\ held' = held \ {r}
    /\ status' = [status EXCEPT ![r] = "ended"]
    /\ UNCHANGED <<owner, born, lock, pc, todo, picked, aborts>>

Claim(w) ==
    \/ Scan(w) \/ GiveUp(w) \/ TryLock(w) \/ LockTaken(w) \/ HasRoom(w)
    \/ AtCap(w) \/ Pick(w) \/ NothingToPick(w) \/ Commit(w)

Next ==
    \/ \E w \in Workers : Claim(w) \/ Abort(w) \/ Return(w)
    \/ \E S \in SUBSET Runs : Insert(S)
    \/ \E r \in Runs : LockRow(r) \/ EndRow(r)

Spec == Init /\ [][Next]_vars

\* Workers keep polling, a claimed run ends and its worker returns, and a
\* transaction that locked a row gets to its commit.
Fairness ==
    /\ \A w \in Workers : WF_vars(Claim(w)) /\ WF_vars(Return(w))
    /\ \A r \in Runs : WF_vars(EndRow(r)) /\ WF_vars(status[r] = "live" /\ LockRow(r))

FairSpec == Spec /\ Fairness

-----------------------------------------------------------------------------

\* "What makes max_concurrency actually hold under concurrent claimers": an
\* agent never has more committed claimed or running runs than its cap.
CapHolds == \A a \in Agents : Cardinality(LiveOf(a)) <= Cap[a]

\* What it rests on: past its try-lock a claimer holds the agent's lock until
\* its transaction ends, and between the count and the commit there is room.
UnderLock ==
    \A w \in Workers : pc[w] \in {"count", "pick", "commit"} =>
        /\ todo[w] # << >>
        /\ lock[Head(todo[w])] = w

RoomKept ==
    \A w \in Workers : pc[w] \in {"pick", "commit"} =>
        Cardinality(LiveOf(Head(todo[w]))) < Cap[Head(todo[w])]

\* An uncommitted claim has a queued row of its agent for itself.
PickIsExclusive ==
    \A w \in Workers : pc[w] = "commit" =>
        /\ picked[w] \in Claimable(Head(todo[w])) \ held
        /\ \A v \in Workers \ {w} : pc[v] = "commit" => picked[v] # picked[w]

\* Claims go oldest first: an older claimable run of the agent is passed over
\* only while another transaction has it locked.
ClaimsInOrder ==
    [][\A r \in Runs : (status[r] = "queued" /\ status'[r] = "live") =>
          \A q \in Claimable(AgentOf[r]) : born[q] < born[r] => q \in held]_vars

\* The claim implements the queue that takes a row in one step.
Queue == INSTANCE RunQueue WITH state <- status, taker <- owner

ImplementsQueue == Queue!Spec

\* No agent starves, whatever the others' backlogs: a claimable run leaves
\* the queue.
NobodyStarves ==
    \A r \in Runs \ Parents : (status[r] = "queued") ~> (status[r] # "queued")

=============================================================================
