------------------------ MODULE ClaimProtocol_proofs ------------------------
(***************************************************************************)
(* That the claim transaction keeps every agent within its cap, for any    *)
(* number of runs, agents and workers and any caps, and that it implements *)
(* the queue of RunQueue.                                                  *)
(***************************************************************************)
EXTENDS ClaimProtocol, FiniteSetTheorems, TLAPS

-----------------------------------------------------------------------------
(* Type correctness. *)

\* A claim looks at a sequence of agents, cut to the candidate limit.
LEMMA ScansAreAgentSequences ==
    ASSUME NEW s \in Scans
    PROVE  FirstOf(s) \in Seq(Agents)
<1> DEFINE C == {a \in Agents : Claimable(a) # {}}
<1>1. IsFiniteSet(C) /\ C \subseteq Agents
  BY FS_Subset, QueueAssumption
<1>2. Cardinality(C) \in Nat
  BY <1>1, FS_CardinalityType
<1>3. s \in [1..Cardinality(C) -> C]
  BY DEF Scans
<1> HIDE DEF C
<1>4. s \in Seq(Agents)
  BY <1>1, <1>2, <1>3
<1>5. CASE Len(s) <= CandidateLimit
  BY <1>4, <1>5 DEF FirstOf
<1>6. CASE ~(Len(s) <= CandidateLimit)
  <2>1. CandidateLimit \in Nat /\ Len(s) \in Nat /\ CandidateLimit < Len(s)
    BY <1>4, <1>6, QueueAssumption
  <2>2. SubSeq(s, 1, CandidateLimit) \in Seq(Agents)
    BY <1>4, <2>1
  <2> QED BY <1>6, <2>2 DEF FirstOf
<1> QED BY <1>5, <1>6

\* Every step keeps every variable in its type; the candidate a claimer is
\* looking at exists by UnderLock.
LEMMA TypingStep == TypeOK /\ UnderLock /\ [Next]_vars => TypeOK'
<1> SUFFICES ASSUME TypeOK, UnderLock, [Next]_vars PROVE TypeOK'
  OBVIOUS
<1> USE QueueAssumption DEF TypeOK, Steps
<1>1. ASSUME NEW w \in Workers, Scan(w) PROVE TypeOK'
  BY <1>1, ScansAreAgentSequences DEF Scan
<1>2. ASSUME NEW w \in Workers, GiveUp(w) PROVE TypeOK'
  BY <1>2 DEF GiveUp, Unlock
<1>3. ASSUME NEW w \in Workers, TryLock(w) PROVE TypeOK'
  BY <1>3 DEF TryLock
<1>4. ASSUME NEW w \in Workers, Skip(w), todo[w] # << >>, aborts' = aborts PROVE TypeOK'
  BY <1>4 DEF Skip
<1>5. ASSUME NEW w \in Workers, HasRoom(w) PROVE TypeOK'
  BY <1>5 DEF HasRoom
<1>6. ASSUME NEW w \in Workers, Pick(w) PROVE TypeOK'
  BY <1>6 DEF Pick, Free, Claimable
<1>7. ASSUME NEW w \in Workers, Commit(w) PROVE TypeOK'
  <2>1. status' \in [Runs -> {"absent", "queued", "live", "ended"}]
    BY <1>7 DEF Commit
  <2>2. owner' \in [Runs -> Workers \cup {NoWorker}]
    BY <1>7 DEF Commit
  <2>3. lock' \in [Agents -> Workers \cup {NoWorker}]
    BY <1>7 DEF Commit, Unlock
  <2>4. pc' \in [Workers -> Steps] /\ todo' \in [Workers -> Seq(Agents)]
    BY <1>7 DEF Commit
  <2> QED BY <1>7, <2>1, <2>2, <2>3, <2>4 DEF Commit
<1>8. ASSUME NEW w \in Workers, Abort(w) PROVE TypeOK'
  BY <1>8 DEF Abort, Unlock
<1>9. ASSUME NEW w \in Workers, Return(w) PROVE TypeOK'
  BY <1>9 DEF Return
<1>10. ASSUME NEW S \in SUBSET Runs, Insert(S) PROVE TypeOK'
  <2>1. Cardinality({r \in Runs : status[r] # "absent"}) \in Nat
    BY FS_Subset, FS_CardinalityType
  <2> DEFINE now == 1 + Cardinality({r \in Runs : status[r] # "absent"})
  <2>2. now \in Nat
    BY <2>1
  <2>3. born' = [r \in Runs |-> IF r \in S THEN now ELSE born[r]]
    BY <1>10 DEF Insert
  <2> HIDE DEF now
  <2>4. born' \in [Runs -> Nat]
    BY <2>2, <2>3
  <2>5. status' \in [Runs -> {"absent", "queued", "live", "ended"}]
    BY <1>10 DEF Insert
  <2> QED BY <1>10, <2>4, <2>5 DEF Insert
<1>11. ASSUME NEW r \in Runs, LockRow(r) PROVE TypeOK'
  BY <1>11 DEF LockRow
<1>12. ASSUME NEW r \in Runs, EndRow(r) PROVE TypeOK'
  BY <1>12 DEF EndRow
<1>13. CASE UNCHANGED vars
  BY <1>13 DEF vars
<1>14. ASSUME NEW w \in Workers, LockTaken(w) \/ AtCap(w) \/ NothingToPick(w) PROVE TypeOK'
  <2>1. Skip(w) /\ todo[w] # << >> /\ aborts' = aborts
    BY <1>14 DEF LockTaken, AtCap, NothingToPick, Skip, UnderLock
  <2> QED BY <2>1, <1>4
<1> QED
  BY <1>1, <1>2, <1>3, <1>5, <1>6, <1>7, <1>8, <1>9, <1>10, <1>11, <1>12, <1>13, <1>14
  DEF Next, Claim

-----------------------------------------------------------------------------
(* The parts of the inductive invariant, one lemma each. *)

\* A claimer past its try-lock keeps the lock of the agent it is looking at:
\* nobody else is granted it, and another transaction's end frees its own only.
LEMMA UnderLockStep == TypeOK /\ UnderLock /\ [Next]_vars => UnderLock'
<1> SUFFICES ASSUME TypeOK, UnderLock, [Next]_vars PROVE UnderLock'
  OBVIOUS
<1> USE QueueAssumption DEF TypeOK, UnderLock
<1>1. ASSUME NEW w \in Workers, Scan(w) PROVE UnderLock'
  BY <1>1 DEF Scan
<1>2. ASSUME NEW w \in Workers, GiveUp(w) PROVE UnderLock'
  BY <1>2 DEF GiveUp, Unlock
<1>3. ASSUME NEW w \in Workers, TryLock(w) PROVE UnderLock'
  <2>1. Head(todo[w]) \in Agents
    BY <1>3 DEF TryLock
  <2> QED BY <1>3, <2>1 DEF TryLock
<1>4. ASSUME NEW w \in Workers, LockTaken(w) \/ AtCap(w) \/ NothingToPick(w) PROVE UnderLock'
  BY <1>4, ZenonT(30) DEF LockTaken, AtCap, NothingToPick, Skip
<1>5. ASSUME NEW w \in Workers, HasRoom(w) PROVE UnderLock'
  BY <1>5 DEF HasRoom
<1>6. ASSUME NEW w \in Workers, Pick(w) PROVE UnderLock'
  BY <1>6 DEF Pick
<1>7. ASSUME NEW w \in Workers, Commit(w) PROVE UnderLock'
  BY <1>7 DEF Commit, Unlock
<1>8. ASSUME NEW w \in Workers, Abort(w) PROVE UnderLock'
  BY <1>8 DEF Abort, Unlock
<1>9. ASSUME NEW w \in Workers, Return(w) PROVE UnderLock'
  BY <1>9 DEF Return
<1>10. CASE UNCHANGED <<lock, pc, todo>>
  BY <1>10
<1> QED
  BY <1>1, <1>2, <1>3, <1>4, <1>5, <1>6, <1>7, <1>8, <1>9, <1>10
  DEF Next, Claim, Insert, LockRow, EndRow, vars

-----------------------------------------------------------------------------
(* Counting live runs. *)

\* LiveOf is finite, and a smaller LiveOf counts less.
LEMMA LiveCount ==
    ASSUME NEW a
    PROVE  /\ IsFiniteSet(LiveOf(a))
           /\ Cardinality(LiveOf(a)) \in Nat
           /\ LiveOf(a)' \subseteq LiveOf(a) =>
                /\ Cardinality(LiveOf(a)') \in Nat
                /\ Cardinality(LiveOf(a)') <= Cardinality(LiveOf(a))
<1>1. LiveOf(a) \subseteq Runs
  BY DEF LiveOf
<1>2. IsFiniteSet(LiveOf(a)) /\ Cardinality(LiveOf(a)) \in Nat
  BY <1>1, QueueAssumption, FS_Subset, FS_CardinalityType
<1>3. ASSUME LiveOf(a)' \subseteq LiveOf(a)
      PROVE  /\ Cardinality(LiveOf(a)') \in Nat
             /\ Cardinality(LiveOf(a)') <= Cardinality(LiveOf(a))
  BY <1>2, <1>3, FS_Subset, FS_CardinalityType
<1> QED BY <1>2, <1>3

\* Only the commit of a claim makes a run live.
LEMMA OnlyCommitsAdd ==
    ASSUME TypeOK, [Next]_vars, \A w \in Workers : ~Commit(w)
    PROVE  \A a : LiveOf(a)' \subseteq LiveOf(a)
<1> USE DEF LiveOf, TypeOK
<1>1. CASE UNCHANGED status
  BY <1>1
<1>2. ASSUME NEW S \in SUBSET Runs, Insert(S) PROVE \A a : LiveOf(a)' \subseteq LiveOf(a)
  BY <1>2 DEF Insert
<1>3. ASSUME NEW r \in Runs, EndRow(r) PROVE \A a : LiveOf(a)' \subseteq LiveOf(a)
  BY <1>3 DEF EndRow
<1> QED
  BY <1>1, <1>2, <1>3
  DEF Next, Claim, vars, Scan, GiveUp, TryLock, LockTaken, HasRoom, AtCap, Pick,
      NothingToPick, Skip, Abort, Return, LockRow

\* A commit adds the row it picked, to the agent it has the lock of.
LEMMA CommitAddsOne ==
    ASSUME TypeOK, PickIsExclusive, NEW w \in Workers, Commit(w), NEW b \in Agents
    PROVE  /\ picked[w] \notin LiveOf(b)
           /\ LiveOf(b)' = IF b = Head(todo[w]) THEN LiveOf(b) \cup {picked[w]}
                                                ELSE LiveOf(b)
<1>1. pc[w] = "commit" /\ status' = [status EXCEPT ![picked[w]] = "live"]
  BY DEF Commit
<1>2. picked[w] \in Runs /\ AgentOf[picked[w]] = Head(todo[w]) /\ status[picked[w]] = "queued"
  BY <1>1 DEF PickIsExclusive, Claimable
<1>3. \A r \in Runs : status'[r] = IF r = picked[w] THEN "live" ELSE status[r]
  BY <1>1, <1>2 DEF TypeOK
<1> QED
  BY <1>2, <1>3 DEF LiveOf

\* The cap: a commit had room, and nothing else adds a live run.
LEMMA CapStep ==
    TypeOK /\ UnderLock /\ PickIsExclusive /\ RoomKept /\ CapHolds /\ [Next]_vars => CapHolds'
<1> SUFFICES ASSUME TypeOK, UnderLock, PickIsExclusive, RoomKept, CapHolds, [Next]_vars,
                    NEW a \in Agents
             PROVE  Cardinality(LiveOf(a)') <= Cap[a]
  BY DEF CapHolds
<1>1. Cap[a] \in Nat /\ Cardinality(LiveOf(a)) <= Cap[a]
  BY QueueAssumption DEF CapHolds
<1>2. ASSUME NEW w \in Workers, Commit(w) PROVE Cardinality(LiveOf(a)') <= Cap[a]
  <2>1. CASE a = Head(todo[w])
    <3>1. Cardinality(LiveOf(a)) < Cap[a]
      BY <1>2, <2>1 DEF RoomKept, Commit
    <3>2. LiveOf(a)' = LiveOf(a) \cup {picked[w]} /\ picked[w] \notin LiveOf(a)
      BY <1>2, <2>1, CommitAddsOne
    <3>3. Cardinality(LiveOf(a)') = Cardinality(LiveOf(a)) + 1
      BY <3>2, LiveCount, FS_AddElement
    <3> QED BY <3>1, <3>3, <1>1, LiveCount
  <2>2. CASE a # Head(todo[w])
    <3>1. LiveOf(a)' = LiveOf(a)
      BY <1>2, <2>2, CommitAddsOne
    <3> QED BY <3>1, <1>1
  <2> QED BY <2>1, <2>2
<1>3. CASE \A w \in Workers : ~Commit(w)
  BY <1>1, <1>3, LiveCount, OnlyCommitsAdd
<1> QED BY <1>2, <1>3

-----------------------------------------------------------------------------
(* Room between the count and the commit, and the row picked. *)

\* Nobody else can fill the agent's last place: only a commit adds a live run,
\* and one for the same agent would need the lock the claimer holds.
LEMMA RoomStep ==
    TypeOK /\ UnderLock /\ PickIsExclusive /\ RoomKept /\ [Next]_vars => RoomKept'
<1> SUFFICES ASSUME TypeOK, UnderLock, PickIsExclusive, RoomKept, [Next]_vars,
                    NEW v \in Workers, pc'[v] \in {"pick", "commit"}
             PROVE  (Cardinality(LiveOf(Head(todo[v]))) < Cap[Head(todo[v])])'
  BY DEF RoomKept
<1>1. /\ todo'[v] = todo[v]
      /\ pc[v] \in {"count", "pick", "commit"}
      /\ pc[v] = "count" => HasRoom(v)
  <2> USE DEF TypeOK
  <2>1. CASE UNCHANGED <<pc, todo>>
    BY <2>1
  <2>2. ASSUME NEW w \in Workers, Claim(w) \/ Abort(w) \/ Return(w)
        PROVE  /\ todo'[v] = todo[v]
               /\ pc[v] \in {"count", "pick", "commit"}
               /\ pc[v] = "count" => HasRoom(v)
    BY <2>2, ZenonT(30) DEF Claim, Scan, GiveUp, TryLock, LockTaken, HasRoom, AtCap, Pick,
                NothingToPick, Skip, Commit, Abort, Return
  <2> QED BY <2>1, <2>2 DEF Next, Insert, LockRow, EndRow, vars
<1>2. PICK a \in Agents : a = Head(todo[v])
  BY <1>1 DEF UnderLock, TypeOK
<1>3. lock[a] = v /\ Cardinality(LiveOf(a)) < Cap[a]
  BY <1>1, <1>2 DEF UnderLock, RoomKept, HasRoom
<1>4. LiveOf(a)' \subseteq LiveOf(a)
  <2>1. ASSUME NEW w \in Workers, Commit(w) PROVE LiveOf(a)' = LiveOf(a)
    <3>1. w # v
      BY <2>1 DEF Commit, TypeOK
    <3>2. lock[Head(todo[w])] = w
      BY <2>1 DEF UnderLock, Commit
    <3>3. a # Head(todo[w])
      BY <3>1, <3>2, <1>3
    <3> QED BY <2>1, <3>3, CommitAddsOne
  <2> QED BY <2>1, OnlyCommitsAdd
<1>5. Cardinality(LiveOf(a)') < Cap[a]
  BY <1>3, <1>4, LiveCount, QueueAssumption
<1> QED BY <1>1, <1>2, <1>5 DEF LiveOf

\* A picked row stays queued and the claimer's own: the others see it locked,
\* and only the claimer's commit or abort ends that.
LEMMA PickStep ==
    TypeOK /\ UnderLock /\ PickIsExclusive /\ [Next]_vars => PickIsExclusive'
<1> SUFFICES ASSUME TypeOK, UnderLock, PickIsExclusive, [Next]_vars
             PROVE  PickIsExclusive'
  OBVIOUS
<1> USE DEF TypeOK, PickIsExclusive, Claimable
<1>1. ASSUME NEW w \in Workers,
             Scan(w) \/ GiveUp(w) \/ TryLock(w) \/ LockTaken(w) \/ HasRoom(w) \/ AtCap(w)
               \/ NothingToPick(w) \/ Abort(w) \/ Return(w)
      PROVE  PickIsExclusive'
  <2>1. UNCHANGED <<status, held>> /\ pc'[w] # "commit"
    BY <1>1 DEF Scan, GiveUp, TryLock, LockTaken, HasRoom, AtCap, NothingToPick, Skip,
                Abort, Return
  <2>2. \A v \in Workers \ {w} :
           pc'[v] = pc[v] /\ todo'[v] = todo[v] /\ picked'[v] = picked[v]
    BY <1>1 DEF Scan, GiveUp, TryLock, LockTaken, HasRoom, AtCap, NothingToPick, Skip,
                Abort, Return
  <2>3. \A v \in Workers : pc'[v] = "commit" => v # w
    BY <2>1
  <2>4. ASSUME NEW v \in Workers, pc'[v] = "commit"
        PROVE  /\ picked'[v] \in Claimable(Head(todo[v])) \ held
               /\ \A u \in Workers \ {v} : pc'[u] = "commit" => picked'[u] # picked'[v]
    <3>1. v \in Workers \ {w} /\ pc[v] = "commit" /\ picked'[v] = picked[v]
      BY <2>2, <2>3, <2>4
    <3>2. \A u \in Workers : pc'[u] = "commit" => pc[u] = "commit" /\ picked'[u] = picked[u]
      BY <2>2, <2>3
    <3> QED BY <3>1, <3>2
  <2> QED BY <2>1, <2>2, <2>3, <2>4
<1>2. ASSUME NEW w \in Workers, Pick(w) PROVE PickIsExclusive'
  <2>1. PICK r \in Free(Head(todo[w])) : picked' = [picked EXCEPT ![w] = r]
    BY <1>2 DEF Pick
  <2>2. r \in Claimable(Head(todo[w])) /\ ~Locked(r)
    BY <2>1 DEF Free
  <2>3. r \notin held /\ \A v \in Workers : pc[v] = "commit" => picked[v] # r
    BY <2>2 DEF Locked
  <2> QED BY <1>2, <2>1, <2>2, <2>3 DEF Pick
<1>3. ASSUME NEW w \in Workers, Commit(w) PROVE PickIsExclusive'
  BY <1>3 DEF Commit
<1>4. ASSUME NEW S \in SUBSET Runs, Insert(S) PROVE PickIsExclusive'
  BY <1>4 DEF Insert
<1>5. ASSUME NEW r \in Runs, LockRow(r) PROVE PickIsExclusive'
  BY <1>5 DEF LockRow, Locked
<1>6. ASSUME NEW r \in Runs, EndRow(r) PROVE PickIsExclusive'
  BY <1>6 DEF EndRow
<1>7. CASE UNCHANGED vars
  BY <1>7 DEF vars
<1> QED
  BY <1>1, <1>2, <1>3, <1>4, <1>5, <1>6, <1>7 DEF Next, Claim

-----------------------------------------------------------------------------
(* The inductive invariant and the theorems. *)

IInv == TypeOK /\ UnderLock /\ RoomKept /\ PickIsExclusive /\ CapHolds

\* Before anything is queued no worker is past its scan and no lock is taken.
LEMMA IInvInit == Init => IInv
<1> SUFFICES ASSUME Init PROVE IInv
  OBVIOUS
<1> USE QueueAssumption DEF Init
<1>1. TypeOK
  BY DEF TypeOK, Steps
<1>2. UnderLock /\ RoomKept /\ PickIsExclusive
  BY DEF UnderLock, RoomKept, PickIsExclusive
<1>3. CapHolds
  <2>1. \A a \in Agents : LiveOf(a) = {}
    BY DEF LiveOf
  <2>2. \A a \in Agents : Cardinality(LiveOf(a)) = 0
    BY <2>1, FS_EmptySet, Zenon
  <2>3. \A a \in Agents : Cap[a] \in Nat
    OBVIOUS
  <2> QED BY <2>2, <2>3 DEF CapHolds
<1> QED BY <1>1, <1>2, <1>3 DEF IInv

\* Every step, of a claimer or of another writer, preserves the invariant.
LEMMA IInvStep == IInv /\ [Next]_vars => IInv'
BY TypingStep, UnderLockStep, RoomStep, PickStep, CapStep DEF IInv

\* The claim transaction's invariant holds throughout.
THEOREM Invariance == Spec => []IInv
<1>1. Init => IInv
  BY IInvInit
<1>2. IInv /\ [Next]_vars => IInv'
  BY IInvStep
<1> QED BY <1>1, <1>2, PTL DEF Spec

\* Every variable keeps its type.
THEOREM TypeCorrect == Spec => []TypeOK
BY Invariance, PTL DEF IInv

\* Whatever the workers, the caps and the load, concurrent claimers never
\* take an agent over its max_concurrency.
THEOREM ClaimersKeepTheCap == Spec => []CapHolds
BY Invariance, PTL DEF IInv

\* A claimer that has counted holds the agent's advisory lock until it commits.
THEOREM CountsAreLocked == Spec => []UnderLock
BY Invariance, PTL DEF IInv

\* The room a claimer has counted is there until it commits: nobody else makes
\* a run of the agent live.
THEOREM CountsStayTrue == Spec => []RoomKept
BY Invariance, PTL DEF IInv

\* Two uncommitted claims never have the same row, whatever commits between a
\* claimer's scan and its choice.
THEOREM PicksAreExclusive == Spec => []PickIsExclusive
BY Invariance, PTL DEF IInv

-----------------------------------------------------------------------------
(* Refinement of RunQueue. *)

\* A row a transaction has locked is still queued or live, and a row that was
\* never claimed has no owner.
RowsInOrder ==
    /\ \A r \in held : status[r] \in {"queued", "live"}
    /\ \A r \in Runs : status[r] \in {"absent", "queued"} => owner[r] = NoWorker

\* What a step leaves alone or does to the rows, and which step of the queue
\* that is.
LEMMA QueueStep ==
    IInv /\ RowsInOrder /\ [Next]_vars => RowsInOrder' /\ [Queue!Next]_Queue!vars
<1> SUFFICES ASSUME IInv, RowsInOrder, [Next]_vars
             PROVE  RowsInOrder' /\ [Queue!Next]_Queue!vars
  OBVIOUS
<1> USE DEF IInv, TypeOK, RowsInOrder, Queue!vars
<1>1. CASE UNCHANGED <<status, owner, held>>
  BY <1>1
<1>2. ASSUME NEW w \in Workers, Commit(w) PROVE RowsInOrder' /\ [Queue!Next]_Queue!vars
  <2>1. PICK r \in Runs : r = picked[w]
    BY <1>2 DEF Commit, PickIsExclusive, Claimable
  <2>2. /\ AgentOf[r] = Head(todo[w]) /\ status[r] = "queued" /\ r \notin held
        /\ Cardinality(LiveOf(Head(todo[w]))) < Cap[Head(todo[w])]
    BY <1>2, <2>1 DEF Commit, PickIsExclusive, Claimable, RoomKept
  <2>3. /\ status' = [status EXCEPT ![r] = "live"]
        /\ owner' = [owner EXCEPT ![r] = w]
        /\ held' = held
    BY <1>2, <2>1 DEF Commit
  <2>4. Queue!Cardinality(Queue!LiveRuns(AgentOf[r])) < Cap[AgentOf[r]]
    <3>1. Queue!LiveRuns(AgentOf[r]) = LiveOf(AgentOf[r])
      BY DEF LiveOf, Queue!LiveRuns
    <3>2. Queue!Cardinality(LiveOf(AgentOf[r])) = Cardinality(LiveOf(AgentOf[r]))
      BY DEF Cardinality, Queue!Cardinality, IsFiniteSet, Queue!IsFiniteSet
    <3> QED BY <2>2, <3>1, <3>2
  <2>5. Queue!Take(w, r)
    BY <2>2, <2>3, <2>4 DEF Queue!Take
  <2> QED BY <2>2, <2>3, <2>5 DEF Queue!Next
<1>3. ASSUME NEW S \in SUBSET Runs, Insert(S) PROVE RowsInOrder' /\ [Queue!Next]_Queue!vars
  <2>1. Queue!Enqueue(S)
    BY <1>3 DEF Insert, Queue!Enqueue
  <2> QED BY <1>3, <2>1 DEF Insert, Queue!Next
<1>4. ASSUME NEW r \in Runs, LockRow(r) PROVE RowsInOrder' /\ [Queue!Next]_Queue!vars
  BY <1>4 DEF LockRow
<1>5. ASSUME NEW r \in Runs, EndRow(r) PROVE RowsInOrder' /\ [Queue!Next]_Queue!vars
  <2>1. Queue!Leave(r)
    BY <1>5 DEF EndRow, Queue!Leave
  <2> QED BY <1>5, <2>1 DEF EndRow, Queue!Next
<1> QED
  BY <1>1, <1>2, <1>3, <1>4, <1>5
  DEF Next, Claim, vars, Scan, GiveUp, TryLock, LockTaken, HasRoom, AtCap, Pick,
      NothingToPick, Skip, Abort, Return

\* Statement by statement and under any interleaving, claim_run is a queue
\* whose rows are taken whole, once each, and within the caps.
THEOREM ClaimsImplementTheQueue == Spec => ImplementsQueue
<1>1. Init => RowsInOrder /\ Queue!Init
  BY DEF Init, RowsInOrder, Queue!Init
<1>2. IInv /\ RowsInOrder /\ [Next]_vars => RowsInOrder' /\ [Queue!Next]_Queue!vars
  BY QueueStep
<1> QED
  BY <1>1, <1>2, Invariance, PTL DEF Spec, ImplementsQueue, Queue!Spec

-----------------------------------------------------------------------------
(* Claims go oldest first. *)

Made == {r \in Runs : status[r] # "absent"}

\* created_at grows: no row is younger than the number of rows there are.
AgesBounded == \A r \in Made : born[r] <= Cardinality(Made)

\* An uncommitted claim has a row that is the oldest claimable one of its agent
\* but for rows another transaction has locked.
OrderKept ==
    \A w \in Workers : pc[w] = "commit" =>
        \A q \in Claimable(AgentOf[picked[w]]) : born[q] < born[picked[w]] => q \in held

\* Every row a request inserts is younger than every row there was.
LEMMA InsertsAreYoungest ==
    ASSUME TypeOK, AgesBounded, NEW S \in SUBSET Runs, Insert(S)
    PROVE  /\ AgesBounded'
           /\ \A r \in Made, q \in S : born'[r] = born[r] /\ born[r] < born'[q]
<1> USE QueueAssumption DEF TypeOK
<1>1. Made \subseteq Runs /\ S \subseteq Runs /\ IsFiniteSet(Made) /\ Cardinality(Made) \in Nat
  BY FS_Subset, FS_CardinalityType DEF Made
<1>2. S # {} /\ S \intersect Made = {}
  BY <1>1 DEF Insert, Made
<1>3. born' = [r \in Runs |-> IF r \in S THEN 1 + Cardinality(Made) ELSE born[r]]
  BY DEF Insert, Made
<1>4. \A r \in Runs : status'[r] # "absent" <=> (r \in S \/ r \in Made)
  BY DEF Insert, Made
<1>5. PICK n \in Nat : n = Cardinality(Made)
  BY <1>1
<1>6. \A r \in Made : born'[r] = born[r] /\ born[r] <= n
  BY <1>1, <1>2, <1>3, <1>5 DEF AgesBounded
<1>7. \A q \in S : born'[q] = 1 + n
  BY <1>1, <1>3, <1>5
<1>8. Made' = Made \union S
  BY <1>1, <1>4 DEF Made
<1>9. 1 + n <= Cardinality(Made \union S) /\ Cardinality(Made \union S) \in Nat
  <2>1. PICK x \in S : TRUE
    BY <1>2
  <2>2. x \notin Made /\ IsFiniteSet(Made \union {x})
    BY <1>1, <1>2, FS_AddElement
  <2>3. Cardinality(Made \union {x}) = n + 1
    BY <1>1, <1>5, <2>2, FS_AddElement
  <2>4. IsFiniteSet(Made \union S) /\ Made \union {x} \subseteq Made \union S
    BY <1>1, FS_Subset
  <2>5. Cardinality(Made \union {x}) <= Cardinality(Made \union S)
    BY <2>4, FS_Subset
  <2>6. Cardinality(Made \union S) \in Nat
    BY <2>4, FS_CardinalityType
  <2> QED BY <2>3, <2>5, <2>6
<1>10. AgesBounded'
  <2>1. PICK m \in Nat : m = Cardinality(Made \union S) /\ 1 + n <= m
    BY <1>9
  <2>2. \A r \in Made \union S : born'[r] <= m
    <3>1. ASSUME NEW r \in Made PROVE born'[r] <= m
      <4>1. r \in Runs /\ born[r] \in Nat /\ born'[r] = born[r] /\ born[r] <= n
        BY <1>1, <1>6
      <4> QED BY <2>1, <4>1
    <3>2. ASSUME NEW r \in S PROVE born'[r] <= m
      BY <1>7, <2>1
    <3> QED BY <3>1, <3>2
  <2>3. Cardinality(Made') = m
    BY <1>8, <2>1
  <2> QED BY <1>8, <2>2, <2>3 DEF AgesBounded
<1> QED BY <1>1, <1>6, <1>7, <1>10

\* Nobody else makes or unmakes a row, or changes its age.
LEMMA OthersMakeNothing ==
    ASSUME IInv, RowsInOrder, [Next]_vars, \A S \in SUBSET Runs : ~Insert(S)
    PROVE  Made' = Made /\ born' = born
<1> USE QueueAssumption DEF IInv, TypeOK
<1>1. CASE UNCHANGED <<status, born>>
  BY <1>1 DEF Made
<1>2. ASSUME NEW w \in Workers, Commit(w) PROVE Made' = Made /\ born' = born
  <2>1. PICK r \in Runs : r = picked[w] /\ status[r] = "queued"
    BY <1>2 DEF Commit, PickIsExclusive, Claimable
  <2> QED BY <1>2, <2>1 DEF Commit, Made
<1>3. ASSUME NEW r \in Runs, EndRow(r) PROVE Made' = Made /\ born' = born
  BY <1>3 DEF EndRow, Made, RowsInOrder
<1> QED
  BY <1>1, <1>2, <1>3
  DEF Next, Claim, vars, Scan, GiveUp, TryLock, LockTaken, HasRoom, AtCap, Pick,
      NothingToPick, Skip, Abort, Return, LockRow

LEMMA AgesStep == IInv /\ RowsInOrder /\ AgesBounded /\ [Next]_vars => AgesBounded'
<1> SUFFICES ASSUME IInv, RowsInOrder, AgesBounded, [Next]_vars PROVE AgesBounded'
  OBVIOUS
<1>1. CASE \E S \in SUBSET Runs : Insert(S)
  BY <1>1, InsertsAreYoungest DEF IInv
<1>2. CASE \A S \in SUBSET Runs : ~Insert(S)
  <2>1. Made' = Made /\ born' = born
    BY <1>2, OthersMakeNothing
  <2> QED BY <2>1 DEF AgesBounded
<1> QED BY <1>1, <1>2

\* The row a claimer picks is the oldest of those not locked, and of its agent
\* no other claim has a row: the claimer has the agent's advisory lock.
LEMMA PicksTheOldest ==
    ASSUME IInv, OrderKept, NEW w \in Workers, Pick(w)
    PROVE  OrderKept'
<1> USE QueueAssumption DEF IInv, TypeOK
<1> DEFINE a == Head(todo[w])
<1>1. PICK r \in Free(a) : /\ \A q \in Free(a) : born[r] <= born[q]
                           /\ picked' = [picked EXCEPT ![w] = r]
  BY DEF Pick
<1>2. r \in Claimable(a) /\ r \in Runs /\ AgentOf[r] = a
  BY <1>1 DEF Free, Claimable
<1>3. pc[w] = "pick" /\ todo[w] # << >> /\ lock[a] = w
  BY DEF Pick, UnderLock
<1>4. ASSUME NEW q \in Claimable(a), born[q] < born[r] PROVE q \in held
  <2>1. q \in Runs /\ AgentOf[q] = a
    BY DEF Claimable
  <2>2. born[q] \in Nat /\ born[r] \in Nat
    BY <1>2, <2>1
  <2>3. q \notin Free(a)
    BY <1>1, <1>4, <2>2
  <2>4. Locked(q)
    BY <2>3 DEF Free
  <2>5. ASSUME NEW v \in Workers, pc[v] = "commit", picked[v] = q PROVE FALSE
    <3>1. lock[Head(todo[v])] = v
      BY <2>5 DEF UnderLock
    <3>2. AgentOf[q] = Head(todo[v])
      BY <2>5 DEF PickIsExclusive, Claimable
    <3> QED BY <1>3, <2>1, <2>5, <3>1, <3>2
  <2> QED BY <2>4, <2>5 DEF Locked
<1>5. UNCHANGED <<status, born, held>>
  BY DEF Pick
<1>6. \A v \in Workers : pc'[v] = "commit" => v = w \/ (pc[v] = "commit" /\ picked'[v] = picked[v])
  BY <1>1 DEF Pick
<1>7. picked'[w] = r
  BY <1>1
<1> HIDE DEF a
<1>8. ASSUME NEW v \in Workers, pc'[v] = "commit"
      PROVE  \A q \in Claimable(AgentOf[picked'[v]]) : born[q] < born[picked'[v]] => q \in held
  <2>1. CASE v = w
    BY <1>2, <1>4, <1>7, <2>1
  <2>2. CASE v # w
    BY <1>6, <1>8, <2>2 DEF OrderKept
  <2> QED BY <2>1, <2>2
<1> QED BY <1>5, <1>8 DEF OrderKept, Claimable

\* Between a pick and its commit rows leave the agent's queue, are locked, or
\* come in younger; a lock that goes takes its row out of the queue.
LEMMA OrderStep ==
    IInv /\ RowsInOrder /\ AgesBounded /\ OrderKept /\ [Next]_vars => OrderKept'
<1> SUFFICES ASSUME IInv, RowsInOrder, AgesBounded, OrderKept, [Next]_vars
             PROVE  OrderKept'
  OBVIOUS
<1> USE QueueAssumption DEF IInv, TypeOK
<1>1. ASSUME NEW w \in Workers, Pick(w) PROVE OrderKept'
  BY <1>1, PicksTheOldest
<1>2. ASSUME NEW S \in SUBSET Runs, Insert(S) PROVE OrderKept'
  <2>1. UNCHANGED <<held, pc, picked>>
    BY <1>2 DEF Insert
  <2>2. \A r \in Made, q \in S : born'[r] = born[r] /\ born[r] < born'[q]
    BY <1>2, InsertsAreYoungest
  <2>3. SUFFICES ASSUME NEW w \in Workers, pc[w] = "commit",
                        NEW q \in Runs, AgentOf[q] = AgentOf[picked[w]], status'[q] = "queued",
                        q \notin Parents, born'[q] < born'[picked[w]]
                 PROVE  q \in held
    BY <2>1 DEF OrderKept, Claimable
  <2>4. PICK r \in Made : r = picked[w]
    BY <2>3 DEF PickIsExclusive, Claimable, Made
  <2>5. r \in Runs /\ born'[r] = born[r] /\ born[r] \in Nat
    BY <1>2, <2>2, <2>4 DEF Made, Insert
  <2>6. born' \in [Runs -> Nat]
    BY <1>2, TypingStep
  <2>7. q \notin S
    BY <2>2, <2>3, <2>4, <2>5, <2>6
  <2>8. status[q] = "queued" /\ q \in Made /\ born'[q] = born[q]
    BY <1>2, <2>3, <2>7, <2>2, <2>4 DEF Insert, Made
  <2> QED BY <2>3, <2>4, <2>5, <2>8 DEF OrderKept, Claimable
<1>3. ASSUME NEW r \in Runs, LockRow(r) PROVE OrderKept'
  BY <1>3 DEF LockRow, OrderKept, Claimable
<1>4. ASSUME NEW r \in Runs, EndRow(r) PROVE OrderKept'
  <2>1. \A q \in Runs : status'[q] = "queued" => q # r /\ status[q] = "queued"
    BY <1>4 DEF EndRow
  <2>2. UNCHANGED <<born, pc, picked>> /\ held' = held \ {r}
    BY <1>4 DEF EndRow
  <2> QED BY <2>1, <2>2 DEF OrderKept, Claimable
<1>5. ASSUME NEW w \in Workers, Commit(w) PROVE OrderKept'
  <2>1. UNCHANGED <<born, held, picked>> /\ \A v \in Workers : pc'[v] = "commit" => pc[v] = "commit"
    BY <1>5 DEF Commit
  <2>2. \A q \in Runs : status'[q] = "queued" => status[q] = "queued"
    BY <1>5 DEF Commit
  <2> QED BY <2>1, <2>2 DEF OrderKept, Claimable
<1>6. ASSUME NEW w \in Workers,
             Scan(w) \/ GiveUp(w) \/ TryLock(w) \/ LockTaken(w) \/ HasRoom(w) \/ AtCap(w)
               \/ NothingToPick(w) \/ Abort(w) \/ Return(w)
      PROVE  OrderKept'
  <2>1. UNCHANGED <<status, born, held>>
    BY <1>6 DEF Scan, GiveUp, TryLock, LockTaken, HasRoom, AtCap, NothingToPick, Skip,
                Abort, Return
  <2>2. \A v \in Workers : pc'[v] = "commit" => (pc[v] = "commit" /\ picked'[v] = picked[v])
    BY <1>6 DEF Scan, GiveUp, TryLock, LockTaken, HasRoom, AtCap, NothingToPick, Skip,
                Abort, Return
  <2> QED BY <2>1, <2>2 DEF OrderKept, Claimable
<1>7. CASE UNCHANGED vars
  BY <1>7 DEF vars, OrderKept, Claimable
<1> QED
  BY <1>1, <1>2, <1>3, <1>4, <1>5, <1>6, <1>7 DEF Next, Claim

\* However scans, counts, picks and commits of the claimers interleave, an
\* agent's runs become live oldest first, but for a row that a cancel, a finish
\* or a reap has locked at that moment.
THEOREM OldestGoFirst == Spec => ClaimsInOrder
<1> DEFINE InOrder ==
      \A r \in Runs : (status[r] = "queued" /\ status'[r] = "live") =>
          \A q \in Claimable(AgentOf[r]) : born[q] < born[r] => q \in held
<1>1. Init => RowsInOrder /\ AgesBounded /\ OrderKept
  BY DEF Init, RowsInOrder, AgesBounded, Made, OrderKept
<1>2. IInv /\ RowsInOrder /\ AgesBounded /\ OrderKept /\ [Next]_vars
        => RowsInOrder' /\ AgesBounded' /\ OrderKept'
  BY QueueStep, AgesStep, OrderStep
<1>3. IInv /\ OrderKept /\ [Next]_vars => [InOrder]_vars
  <2> SUFFICES ASSUME IInv, OrderKept, [Next]_vars,
                      NEW r \in Runs, status[r] = "queued", status'[r] = "live",
                      NEW q \in Claimable(AgentOf[r]), born[q] < born[r]
               PROVE  q \in held
    OBVIOUS
  <2>1. PICK w \in Workers : Commit(w) /\ picked[w] = r
    <3>1. PICK w \in Workers : Commit(w)
      BY DEF Next, Claim, vars, Scan, GiveUp, TryLock, LockTaken, HasRoom, AtCap, Pick,
             NothingToPick, Skip, Abort, Return, Insert, LockRow, EndRow, IInv, TypeOK
    <3> QED BY <3>1 DEF Commit, IInv, TypeOK
  <2> QED BY <2>1 DEF Commit, OrderKept
<1> QED
  BY <1>1, <1>2, <1>3, Invariance, PTL DEF Spec, ClaimsInOrder

=============================================================================
