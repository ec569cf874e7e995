----------------------------- MODULE Calls_proofs -----------------------------
(***************************************************************************)
(* What is kept of a call, whatever its length: of a simulated call the    *)
(* log, the rows made of it and the run's page (JudgedCall); of a call     *)
(* that explores the agent, the discovery map that its page shows          *)
(* (ExplorerCall).                                                         *)
(***************************************************************************)
EXTENDS JudgedCall, ExplorerCall, PersonaCall_proofs, FiniteSetTheorems

-----------------------------------------------------------------------------
(* Sequences of the members of a set, and the last word on an assertion.   *)

\* Each member of the set is in the sequence, once.
LEMMA SeqsOfSet ==
  ASSUME NEW S, IsFiniteSet(S), NEW order \in SetToSeqs(S)
  PROVE  /\ order \in Seq(S) /\ Len(order) = Cardinality(S) /\ Cardinality(S) \in Nat
         /\ \A x \in S : \E i \in 1 .. Len(order) : order[i] = x
<1>1. PICK n \in Nat : n = Cardinality(S)
  BY FS_CardinalityType
<1>2. order \in [1 .. n -> S] /\ \A i, j \in 1 .. n : i # j => order[i] # order[j]
  BY <1>1 DEF SetToSeqs
<1>3. order \in Seq(S) /\ Len(order) = n
  BY <1>1, <1>2
<1>4. order \in Injection(1 .. n, S)
  BY <1>2 DEF Injection, IsInjective
<1>5. Cardinality(1 .. n) = n
  BY <1>1, FS_Interval
<1>6. order \in Surjection(1 .. n, S)
  BY <1>1, <1>4, <1>5, FS_Injection
<1> QED BY <1>1, <1>3, <1>6 DEF Surjection

\* A sequence with another one at its end.
Joins(s, t, S) ==
  /\ s \o t \in Seq(S) /\ Len(s \o t) = Len(s) + Len(t)
  /\ \A i \in 1 .. Len(s) : (s \o t)[i] = s[i]
  /\ \A i \in 1 .. Len(t) : (s \o t)[Len(s) + i] = t[i]

LEMMA Joined ==
  ASSUME NEW S, NEW U, U \subseteq S, NEW s \in Seq(S), NEW t \in Seq(U)
  PROVE  Joins(s, t, S)
<1>1. \A i \in 1 .. Len(t) : t[i] \in S
  OBVIOUS
<1>2. t = [i \in 1 .. Len(t) |-> t[i]] /\ Len(t) \in Nat
  OBVIOUS
<1>3. t \in Seq(S)
  BY <1>1, <1>2
<1> QED BY <1>3 DEF Joins

\* A set of places has a last one.
LEMMA LastPlace ==
  ASSUME NEW n \in Nat, NEW P, P \subseteq 1 .. n, P # {}
  PROVE  \E i \in P : \A j \in P : j <= i
<1>1. PICK R : R = {ss \in Nat \X Nat : ss[1] < ss[2]}
  OBVIOUS
<1>2. IsWellFoundedOn(R, Nat)
  BY <1>1, NatLessThanWellFounded DEF OpToRel
<1>3. PICK T : T = {n - i : i \in P}
  OBVIOUS
<1>4. T \subseteq Nat /\ T # {}
  <2>1. \A i \in P : n - i \in Nat /\ n - i \in T
    BY <1>3
  <2>2. \A y \in T : \E i \in P : y = n - i
    BY <1>3
  <2> QED BY <2>1, <2>2
<1>5. PICK y \in T : \A z \in T : <<z, y>> \notin R
  BY <1>2, <1>4, WFMin, Zenon
<1>6. PICK m \in P : y = n - m
  BY <1>3
<1>7. \A i \in P : i <= m
  <2>1. SUFFICES ASSUME NEW i \in P, i > m PROVE FALSE
    BY <1>6
  <2>2. n - i \in T /\ n - i \in Nat /\ y \in Nat /\ n - i < y
    BY <1>3, <1>4, <1>6, <2>1
  <2> QED BY <1>1, <1>5, <2>2
<1> QED BY <1>6, <1>7

\* The last word on a is the one at the last place of a.
LEMMA LastWordIsAt ==
  ASSUME NEW W, NEW words \in Seq(W), NEW i \in 1 .. Len(words),
         \A j \in 1 .. Len(words) : words[j].about = words[i].about => j <= i
  PROVE  /\ words[i].about \in DOMAIN LastWords(words)
         /\ LastWords(words)[words[i].about] = words[i].status
<1>1. PICK P : P = {j \in DOMAIN words : words[j].about = words[i].about}
  OBVIOUS
<1>2. P \subseteq 1 .. Len(words) /\ i \in P /\ \A j \in P : j <= i
  BY <1>1
<1>3. (CHOOSE k \in P : \A j \in P : j <= k) = i
  <2>1. \A k, l \in P : (\A j \in P : j <= k) /\ (\A j \in P : j <= l) => k = l
    BY <1>2
  <2> QED BY <1>2, <2>1
<1>4. PICK a : a = words[i].about
  OBVIOUS
<1>5. a \in Named(words)
  BY <1>4 DEF Named
<1>6. LastWords(words)[a] = words[CHOOSE k \in P : \A j \in P : j <= k].status
  BY <1>1, <1>4, <1>5 DEF LastWords
<1>7. a \in DOMAIN LastWords(words)
  BY <1>5 DEF LastWords
<1> QED BY <1>3, <1>4, <1>6, <1>7

\* ... and every assertion there is a word on has one.
LEMMA HasLastWord ==
  ASSUME NEW W, NEW words \in Seq(W), NEW a \in Named(words)
  PROVE  \E i \in 1 .. Len(words) :
           /\ words[i].about = a
           /\ \A j \in 1 .. Len(words) : words[j].about = a => j <= i
<1>1. PICK P : P = {j \in 1 .. Len(words) : words[j].about = a}
  OBVIOUS
<1>2. P \subseteq 1 .. Len(words) /\ P # {} /\ Len(words) \in Nat
  BY <1>1 DEF Named
<1>3. PICK i \in P : \A j \in P : j <= i
  BY <1>2, LastPlace
<1> QED BY <1>1, <1>2, <1>3

\* Words put at the end are the last ones on what they are about.
LEMMA LastWordsOfTheEnd ==
  ASSUME NEW W, NEW before \in Seq(W), NEW said, said \subseteq W, IsFiniteSet(said),
         \A v, w \in said : v.about = w.about => v = w,
         NEW words \in SetToSeqs(said), NEW w \in said
  PROVE  /\ w.about \in DOMAIN LastWords(before \o words)
         /\ LastWords(before \o words)[w.about] = w.status
<1>1. /\ words \in Seq(said) /\ words \in Seq(W) /\ before \o words \in Seq(W)
      /\ \E k \in 1 .. Len(words) : words[k] = w
  BY SeqsOfSet
<1>2. PICK all \in Seq(W) : all = before \o words
  BY <1>1
<1>3. PICK n \in Nat, m \in Nat : n = Len(before) /\ m = Len(words) /\ Len(all) = n + m
  BY <1>1, <1>2
<1>4. \A k \in 1 .. m : n + k \in 1 .. Len(all) /\ all[n + k] = words[k]
  BY <1>1, <1>2, <1>3
<1>5. PICK k \in 1 .. m : words[k] = w
  BY <1>1, <1>3
<1>6. w.about \in Named(all)
  <2>1. n + k \in DOMAIN all /\ all[n + k].about = w.about
    BY <1>2, <1>4, <1>5
  <2> QED BY <2>1 DEF Named
<1>7. PICK i \in 1 .. Len(all) :
         /\ all[i].about = w.about
         /\ \A j \in 1 .. Len(all) : all[j].about = w.about => j <= i
  BY <1>6, HasLastWord
<1>8. n + k <= i
  <2>1. n + k \in 1 .. Len(all) /\ all[n + k] = w
    BY <1>4, <1>5
  <2> QED BY <1>7, <2>1
<1>9. PICK j \in 1 .. m : i = n + j
  <2>1. i \in 1 .. n + m
    BY <1>3
  <2>2. i - n \in 1 .. m /\ i = n + (i - n)
    BY <1>8, <2>1
  <2> QED BY <2>2
<1>10. all[i] \in said
  BY <1>1, <1>3, <1>4, <1>9
<1>11. all[i] = w
  BY <1>7, <1>10
<1>12. /\ all[i].about \in DOMAIN LastWords(all)
       /\ LastWords(all)[all[i].about] = all[i].status
  BY <1>7, LastWordIsAt
<1> QED BY <1>2, <1>11, <1>12

\* Words about others do not change the last word on a.
LEMMA LastWordStays ==
  ASSUME NEW W, NEW words \in Seq(W), NEW n \in 0 .. Len(words), NEW a \in Named(words),
         \A i \in 1 .. Len(words) : words[i].about = a => i <= n
  PROVE  /\ a \in DOMAIN LastWords(SubSeq(words, 1, n))
         /\ LastWords(SubSeq(words, 1, n))[a] = LastWords(words)[a]
<1>1. PICK i \in 1 .. Len(words) :
         /\ words[i].about = a
         /\ \A j \in 1 .. Len(words) : words[j].about = a => j <= i
  BY HasLastWord
<1>2. PICK front : front = SubSeq(words, 1, n)
  OBVIOUS
<1>3. /\ front \in Seq(W) /\ Len(front) = n
      /\ \A j \in 1 .. n : front[j] = words[j] /\ j \in 1 .. Len(words)
  BY <1>2
<1>4. i \in 1 .. n
  BY <1>1
<1>5. a \in DOMAIN LastWords(front) /\ LastWords(front)[a] = words[i].status
  <2>1. i \in 1 .. Len(front) /\ front[i].about = a /\ front[i] = words[i]
    BY <1>1, <1>3, <1>4
  <2>2. \A j \in 1 .. Len(front) : front[j].about = front[i].about => j <= i
    BY <1>1, <1>3, <2>1
  <2>3. /\ front[i].about \in DOMAIN LastWords(front)
        /\ LastWords(front)[front[i].about] = front[i].status
    BY <1>3, <2>1, <2>2, LastWordIsAt
  <2> QED BY <2>1, <2>3
<1>6. LastWords(words)[a] = words[i].status
  BY <1>1, LastWordIsAt
<1> QED BY <1>2, <1>5, <1>6

-----------------------------------------------------------------------------
(* The lines of a call, as a step of it finds and leaves them.             *)

\* on_turn of line x is under way.
OnTurn(x) ==
  \/ frame # 0 /\ x = frame
  \/ \E t \in Tasks : task[t].at = "recording" /\ task[t].line = x

LEMMA InProgressIs == \A x : x \in InProgress <=> OnTurn(x)
BY DEF InProgress, OnTurn

LEMMA InProgressIsThen == \A x : x \in InProgress' <=> OnTurn(x)'
BY DEF InProgress, OnTurn

\* A step says one line at most, which is then in progress; it records only
\* lines that were in progress; nothing else comes into progress.
LineStep ==
  /\ recorded \subseteq recorded'
  /\ \A x \in recorded' : x \in recorded \/ OnTurn(x)
  /\ \/ /\ UNCHANGED transcript
        /\ \A x : OnTurn(x)' => OnTurn(x)
     \/ \E who \in {"agent", "caller"}, n \in Nat :
          /\ transcript' = Append(transcript, who) /\ n = Len(transcript')
          /\ OnTurn(n)' /\ \A x : OnTurn(x)' => OnTurn(x) \/ x = n

\* Nothing is under way once run_persona_call has returned.
AtRest == frame = 0 /\ \A t \in Tasks : task[t].at = "none"
ClosedAtRest == closed => AtRest

LEMMA SayLine ==
  ASSUME CallTypeOK, NEW t \in Tasks, NEW c \in BOOLEAN, Say(t, c),
         UNCHANGED <<recorded, frame>>
  PROVE  LineStep
<1>1. PICK n \in Nat : n = Len(transcript') /\ transcript' = Append(transcript, "caller")
  BY DEF Say, CallTypeOK
<1>2. /\ task'[t].at = "recording" /\ task'[t].line = n
      /\ \A u \in Tasks : u # t => task'[u] = task[u]
  BY <1>1 DEF Say, CallTypeOK, Recording
<1>3. OnTurn(n)'
  BY <1>2 DEF OnTurn
<1>4. \A x : OnTurn(x)' => OnTurn(x) \/ x = n
  BY <1>2 DEF OnTurn
<1>5. recorded \subseteq recorded' /\ \A x \in recorded' : x \in recorded \/ OnTurn(x)
  OBVIOUS
<1> QED BY <1>1, <1>3, <1>4, <1>5, Zenon DEF LineStep

LEMMA SpeakNextLine ==
  ASSUME CallTypeOK, NEW t \in Tasks, NEW reply \in Replies, SpeakNext(t, reply),
         UNCHANGED <<recorded, frame>>
  PROVE  LineStep
<1>1. CASE \E idle \in {Idle, Asking(Len(transcript))} :
             /\ task' = [task EXCEPT ![t] = idle] /\ UNCHANGED <<transcript, turnsTaken>>
  <2>1. /\ task'[t].at # "recording" /\ \A u \in Tasks : u # t => task'[u] = task[u]
        /\ UNCHANGED transcript
    BY <1>1 DEF CallTypeOK, Idle, Asking
  <2> QED BY <2>1 DEF LineStep, OnTurn
<1>2. ASSUME NEW c \in BOOLEAN, Say(t, c) PROVE LineStep
  BY <1>2, SayLine
<1> QED BY <1>1, <1>2, SpeakNextCases

LEMMA CallLines ==
  CallTypeOK /\ ClosedAtRest /\ AnyCallStep
    => LineStep /\ ~closed /\ ClosedAtRest'
<1> SUFFICES ASSUME CallTypeOK, ClosedAtRest, AnyCallStep
             PROVE  LineStep /\ ~closed /\ ClosedAtRest'
  OBVIOUS
<1> DEFINE Goal == LineStep /\ ~closed /\ ClosedAtRest'
<1> USE DEF CallTypeOK, Running, Tasks
<1>1. ASSUME Connect PROVE Goal
  BY <1>1 DEF Connect, LineStep, OnTurn, Sleeping, Idle, ClosedAtRest
<1>2. ASSUME Hear PROVE Goal
  <2>1. PICK n \in Nat : n = Len(transcript') /\ n # 0 /\ transcript' = Append(transcript, "agent")
    BY <1>2 DEF Hear
  <2>2. frame' = n /\ task' = [task EXCEPT !["silence"] = Idle]
    BY <1>2, <2>1 DEF Hear
  <2>3. OnTurn(n)' /\ \A x : OnTurn(x)' => OnTurn(x) \/ x = n
    BY <1>2, <2>1, <2>2 DEF Hear, OnTurn, Idle
  <2>4. recorded \subseteq recorded' /\ \A x \in recorded' : x \in recorded \/ OnTurn(x)
    BY <1>2 DEF Hear, CancelledRecording, OnTurn
  <2>5. LineStep
    BY <2>1, <2>3, <2>4, Zenon DEF LineStep
  <2> QED BY <1>2, <2>5 DEF Hear, ClosedAtRest
<1>3. ASSUME HeardRecorded PROVE Goal
  <2>1. recorded \subseteq recorded' /\ \A x \in recorded' : x \in recorded \/ OnTurn(x)
    BY <1>3 DEF HeardRecorded, CancelledRecording, OnTurn
  <2>2. \A x : OnTurn(x)' => OnTurn(x)
    BY <1>3 DEF HeardRecorded, OnTurn, Sleeping, Idle
  <2> QED BY <1>3, <2>1, <2>2 DEF HeardRecorded, LineStep, ClosedAtRest
<1>4. ASSUME HeardFails \/ Cancel PROVE Goal
  BY <1>4 DEF HeardFails, Cancel, LineStep, OnTurn, ClosedAtRest
<1>5. ASSUME NEW reply \in Replies, WakeAdvance(reply) PROVE Goal
  <2>1. LineStep
    BY <1>5, SpeakNextLine DEF WakeAdvance
  <2> QED BY <1>5, <2>1 DEF WakeAdvance, ClosedAtRest
<1>6. ASSUME NEW reply \in Replies, WakeSilence(reply) PROVE Goal
  <2>1. LineStep
    <3>1. CASE ~done /\ TooManyNudges
      BY <1>6, <3>1 DEF WakeSilence, LineStep, OnTurn, Idle
    <3>2. CASE ~(~done /\ TooManyNudges)
      BY <1>6, <3>2, SpeakNextLine DEF WakeSilence
    <3> QED BY <3>1, <3>2
  <2> QED BY <1>6, <2>1 DEF WakeSilence, ClosedAtRest
<1>7. ASSUME NEW t \in Tasks, NEW c \in BOOLEAN, Answer(t, c) PROVE Goal
  <2>1. LineStep
    BY <1>7, SayLine DEF Answer
  <2> QED BY <1>7, <2>1 DEF Answer, ClosedAtRest
<1>8. ASSUME NEW t \in Tasks, PlannerFails(t) \/ LineFails(t) PROVE Goal
  BY <1>8 DEF PlannerFails, LineFails, LineStep, OnTurn, Idle, ClosedAtRest
<1>9. ASSUME NEW t \in Tasks, LineRecorded(t) PROVE Goal
  <2>1. recorded \subseteq recorded' /\ \A x \in recorded' : x \in recorded \/ OnTurn(x)
    BY <1>9 DEF LineRecorded, CancelledRecording, OnTurn
  <2>2. \A x : OnTurn(x)' => OnTurn(x)
    BY <1>9 DEF LineRecorded, TasksAfter, OnTurn, Sleeping, Idle
  <2> QED BY <1>9, <2>1, <2>2 DEF LineRecorded, LineStep, ClosedAtRest
<1>10. ASSUME Stop PROVE Goal
  BY <1>10 DEF Stop, LineStep, OnTurn, Idle, ClosedAtRest, AtRest
<1> QED
  BY <1>1, <1>2, <1>3, <1>4, <1>5, <1>6, <1>7, <1>8, <1>9, <1>10
  DEF AnyCallStep, Call, Drain, TimeOut

-----------------------------------------------------------------------------
(* The log of the turns.  A line is in the transcript before it is         *)
(* recorded, and others may be said and recorded meanwhile; but then it is *)
(* disturbed.  The lines before the first disturbed one are in the log at  *)
(* their own places, but for the last line of the call, which may be under *)
(* way.                                                                    *)

Undisturbed(i) == (1 .. i) \intersect disturbed = {}

LinesInOrder ==
  /\ recorded \subseteq 1 .. Len(transcript)
  /\ InProgress \subseteq 1 .. Len(transcript)
  /\ turnLog \in Seq(Nat) /\ Len(turnLog) = Cardinality(recorded)
  /\ Cardinality(InProgress) > 1 => InProgress \subseteq disturbed
  /\ \A i \in 1 .. Len(transcript) : Undisturbed(i) =>
       \/ i \in recorded /\ i <= Len(turnLog) /\ turnLog[i] = i
       \/ i \notin recorded /\ i \in InProgress /\ i = Len(transcript)

\* Two members make a set larger than one.
LEMMA TwoAreMore ==
  ASSUME NEW S, IsFiniteSet(S), NEW x \in S, NEW y \in S, x # y
  PROVE  Cardinality(S) > 1
<1>1. Cardinality(S) \in Nat
  BY FS_CardinalityType
<1>2. Cardinality(S) # 0
  BY FS_EmptySet
<1>3. Cardinality(S) # 1
  BY FS_Singleton
<1> QED BY <1>1, <1>2, <1>3

\* The place at which the last, undisturbed line is recorded is its own: every
\* line before it is in the log, and no other is recorded with it.
LEMMA LastLineAtItsPlace ==
  ASSUME CallTypeOK, LinesInOrder, LineStep, NEW order \in SetToSeqs(recorded' \ recorded),
         NEW i \in 1 .. Len(transcript), i = Len(transcript), Undisturbed(i),
         i \notin recorded, i \in InProgress, i \in recorded'
  PROVE  i <= Len(turnLog \o order) /\ (turnLog \o order)[i] = i
<1>1. IsFiniteSet(InProgress) /\ Cardinality(1 .. i - 1) = i - 1
  <2>1. i \in Int /\ i - 1 \in Int /\ 1 \in Int /\ ~(1 > i)
    BY DEF CallTypeOK
  <2>2. IsFiniteSet(1 .. i) /\ InProgress \subseteq 1 .. i
    BY <2>1, FS_Interval DEF LinesInOrder
  <2>3. IsFiniteSet(InProgress)
    BY <2>2, FS_Subset, Zenon
  <2>4. Cardinality(1 .. i - 1) = IF 1 > i - 1 THEN 0 ELSE (i - 1) - 1 + 1
    BY <2>1, FS_Interval, Zenon
  <2> QED BY <2>1, <2>3, <2>4
<1>2. \A j \in 1 .. i - 1 : j \in recorded
  <2> SUFFICES ASSUME NEW j \in 1 .. i - 1 PROVE j \in recorded
    OBVIOUS
  <2>1. j \in 1 .. Len(transcript) /\ j # i /\ 1 .. j \subseteq 1 .. i
    BY DEF CallTypeOK
  <2>2. Undisturbed(j)
    BY <2>1 DEF Undisturbed
  <2> QED BY <2>1, <2>2 DEF LinesInOrder
<1>3. recorded = 1 .. i - 1
  <2>1. \A x \in recorded : x \in 1 .. i /\ x # i
    BY DEF LinesInOrder
  <2>2. \A x \in 1 .. i : x = i \/ x \in 1 .. i - 1
    BY DEF CallTypeOK
  <2> QED BY <1>2, <2>1, <2>2
<1>4. Len(turnLog) = i - 1
  BY <1>1, <1>3 DEF LinesInOrder
<1>5. \A x \in InProgress : x = i
  <2>1. i \notin disturbed
    BY DEF Undisturbed
  <2> QED BY <1>1, <2>1, TwoAreMore DEF LinesInOrder
<1>6. recorded' \ recorded = {i}
  BY <1>5, InProgressIs DEF LineStep
<1>7. order \in Seq({i}) /\ Len(order) = 1 /\ order[1] = i
  <2>1. IsFiniteSet({i}) /\ Cardinality({i}) = 1
    BY FS_Singleton
  <2>2. order \in SetToSeqs({i})
    BY <1>6
  <2>3. /\ order \in Seq({i}) /\ Len(order) = Cardinality({i})
        /\ \A x \in {i} : \E k \in 1 .. Len(order) : order[k] = x
    BY <2>1, <2>2, SeqsOfSet
  <2>4. Len(order) = 1 /\ \E k \in 1 .. 1 : order[k] = i
    BY <2>1, <2>3, Zenon
  <2> QED BY <2>1, <2>3, <2>4
<1>8. i \in Nat /\ turnLog \in Seq(Nat)
  BY DEF CallTypeOK, LinesInOrder
<1>9. {i} \subseteq Nat
  BY <1>8
<1>10. /\ Len(turnLog \o order) = Len(turnLog) + Len(order)
       /\ \A k \in 1 .. Len(order) : (turnLog \o order)[Len(turnLog) + k] = order[k]
  <2>1. Joins(turnLog, order, Nat)
    BY <1>7, <1>8, <1>9, Joined, Zenon
  <2> QED BY <2>1 DEF Joins
<1>11. Len(turnLog \o order) = i /\ (turnLog \o order)[i] = order[1]
  <2>1. (turnLog \o order)[Len(turnLog) + 1] = order[1]
    BY <1>7, <1>10
  <2> QED BY <1>4, <1>7, <1>8, <1>10, <2>1
<1> QED BY <1>7, <1>8, <1>11

LEMMA LinesStep ==
  ASSUME CallTypeOK, LinesInOrder, LineStep, JudgedCallStep
  PROVE  LinesInOrder'
<1>1. PICK order \in SetToSeqs(recorded' \ recorded) : turnLog' = turnLog \o order
  BY DEF JudgedCallStep
<1>2. /\ Cardinality(InProgress') > 1 => InProgress' \subseteq disturbed'
      /\ disturbed \subseteq disturbed'
      /\ InProgress \ (InProgress' \union recorded') \subseteq disturbed'
  BY DEF JudgedCallStep
<1>3. PICK n \in Nat, m \in Nat :
         /\ n = Len(transcript) /\ m = Len(transcript')
         /\ \/ m = n /\ InProgress' \subseteq InProgress
            \/ m = n + 1 /\ m \in InProgress' /\ InProgress' \subseteq InProgress \union {m}
  <2>1. CASE UNCHANGED transcript /\ \A x : OnTurn(x)' => OnTurn(x)
    <3>1. Len(transcript) \in Nat /\ Len(transcript') = Len(transcript)
      BY <2>1 DEF CallTypeOK
    <3>2. InProgress' \subseteq InProgress
      BY <2>1, InProgressIs, InProgressIsThen
    <3> QED BY <3>1, <3>2
  <2>2. ASSUME NEW who \in {"agent", "caller"}, NEW k \in Nat,
               transcript' = Append(transcript, who), k = Len(transcript'),
               OnTurn(k)', \A x : OnTurn(x)' => OnTurn(x) \/ x = k
        PROVE  /\ Len(transcript) \in Nat /\ k = Len(transcript) + 1
               /\ k \in InProgress' /\ InProgress' \subseteq InProgress \union {k}
    <3>1. Len(transcript) \in Nat /\ k = Len(transcript) + 1
      BY <2>2 DEF CallTypeOK
    <3>2. k \in InProgress' /\ InProgress' \subseteq InProgress \union {k}
      BY <2>2, InProgressIs, InProgressIsThen
    <3> QED BY <3>1, <3>2
  <2> QED BY <2>1, <2>2 DEF LineStep
<1>4. recorded \subseteq recorded' /\ recorded' \subseteq recorded \union InProgress
  BY InProgressIs DEF LineStep
<1>5. recorded \subseteq 1 .. n /\ InProgress \subseteq 1 .. n /\ recorded' \subseteq 1 .. n
  BY <1>3, <1>4 DEF LinesInOrder
<1>6. recorded' \subseteq 1 .. m /\ InProgress' \subseteq 1 .. m
  <2>1. 1 .. n \subseteq 1 .. m /\ (m = n + 1 => m \in 1 .. m)
    BY <1>3
  <2> QED BY <1>3, <1>5, <2>1, Zenon
<1>7. IsFiniteSet(recorded') /\ IsFiniteSet(recorded) /\ IsFiniteSet(InProgress')
  <2>1. IsFiniteSet(1 .. m)
    BY FS_Interval
  <2>2. IsFiniteSet(recorded') /\ IsFiniteSet(InProgress')
    BY <1>6, <2>1, FS_Subset, Zenon
  <2> QED BY <1>4, <2>2, FS_Subset, Zenon
<1>8. /\ order \in Seq(recorded' \ recorded)
      /\ Len(order) = Cardinality(recorded' \ recorded)
  <2>1. IsFiniteSet(recorded' \ recorded)
    BY <1>7, FS_Difference, Zenon
  <2> QED BY <1>1, <2>1, SeqsOfSet, Zenon
<1>10. recorded' \ recorded \subseteq Nat /\ turnLog \in Seq(Nat)
  BY <1>5 DEF LinesInOrder
<1>11. /\ turnLog \o order \in Seq(Nat)
       /\ Len(turnLog \o order) = Len(turnLog) + Len(order)
       /\ \A i \in 1 .. Len(turnLog) : (turnLog \o order)[i] = turnLog[i]
  <2>1. Joins(turnLog, order, Nat)
    BY <1>8, <1>10, Joined, Zenon
  <2> QED BY <2>1 DEF Joins
<1>12. turnLog' \in Seq(Nat) /\ Len(turnLog') = Cardinality(recorded')
  <2>1. PICK new, next, last : new = recorded' \ recorded /\ next = recorded' /\ last = recorded
    OBVIOUS
  <2>2. next \intersect last = last /\ new = next \ last
    BY <1>4, <2>1
  <2>3. IsFiniteSet(next) /\ IsFiniteSet(last)
    BY <1>7, <2>1
  <2>4. Cardinality(new) = Cardinality(next) - Cardinality(last)
    <3>1. Cardinality(next \ last) = Cardinality(next) - Cardinality(next \cap last)
      BY <2>3, FS_Difference, Zenon
    <3> QED BY <2>2, <3>1, Zenon
  <2>5. PICK a, b, c : a \in Nat /\ b \in Nat /\ a = Cardinality(last) /\ b = Cardinality(next) /\ c = Cardinality(new)
    BY <2>3, FS_CardinalityType
  <2>6. a + c = b
    BY <2>4, <2>5
  <2>7. Len(turnLog) = a /\ Len(order) = c
    BY <1>8, <2>1, <2>5 DEF LinesInOrder
  <2>8. Len(turnLog \o order) = Cardinality(next)
    BY <1>11, <2>5, <2>6, <2>7
  <2> QED BY <1>1, <1>11, <2>1, <2>8
<1>9. ASSUME NEW i \in 1 .. m, (1 .. i) \intersect disturbed' = {}
      PROVE  \/ i \in recorded' /\ i <= Len(turnLog') /\ turnLog'[i] = i
             \/ i \notin recorded' /\ i \in InProgress' /\ i = m
  <2>1. Undisturbed(i) /\ i \notin disturbed'
    BY <1>2, <1>9 DEF Undisturbed
  <2>2. CASE i \notin 1 .. n
    BY <1>3, <1>5, <2>2
  <2>3. CASE i \in 1 .. n /\ i \in recorded
    <3>1. i <= Len(turnLog) /\ turnLog[i] = i
      BY <1>3, <2>1, <2>3 DEF LinesInOrder
    <3>2. i \in 1 .. Len(turnLog) /\ Len(turnLog) \in Nat /\ Len(order) \in Nat
      BY <1>8, <1>10, <3>1
    <3> QED BY <1>1, <1>4, <1>11, <2>3, <3>1, <3>2
  <2>4. CASE i \in 1 .. n /\ i \notin recorded
    <3>1. i \in InProgress /\ i = n
      BY <1>3, <2>1, <2>4 DEF LinesInOrder
    <3>2. CASE i \in recorded'
      BY <1>1, <1>3, <2>1, <2>4, <3>1, <3>2, LastLineAtItsPlace
    <3>3. CASE i \notin recorded'
      <4>1. i \in InProgress'
        BY <1>2, <2>1, <3>1, <3>3
      <4>2. ~ (m = n + 1 /\ m \in InProgress')
        BY <1>2, <1>7, <2>1, <3>1, <4>1, TwoAreMore
      <4> QED BY <1>3, <3>1, <3>3, <4>1, <4>2
    <3> QED BY <3>2, <3>3
  <2> QED BY <2>2, <2>3, <2>4
<1> QED BY <1>2, <1>3, <1>6, <1>9, <1>12 DEF LinesInOrder, Undisturbed

-----------------------------------------------------------------------------
(* The rows made of the log, and the words that come after them.           *)

Words == UNION (LiveAnswers \union FinalAnswers)

\* The executor works on a call that is over, and the rows are made once, last.
Kept ==
  /\ stage \in {"call", "waiting", "scoring", "over"}
  /\ stage # "call" => closed
  /\ stage # "over" => ~tables.written /\ verdict = {}
  /\ row = "completed" => tables.written
  /\ tables.written => tables.turns = turnLog

\* The rows have the last words of the log as it was at done.
WordsKept ==
  /\ wordLog \in Seq(Words)
  /\ tables.written =>
       /\ atDone \in 0 .. Len(wordLog)
       /\ tables.assertions = LastWords(SubSeq(wordLog, 1, atDone))
       /\ \A w \in verdict : /\ w.about \in DOMAIN tables.assertions
                             /\ tables.assertions[w.about] = w.status

JudgedInv == CallTypeOK /\ ClosedAtRest /\ LinesInOrder /\ Kept /\ WordsKept

\* Whatever is put at the end of a sequence, its front stays.
LEMMA FrontStays ==
  ASSUME NEW S, NEW s \in Seq(S), NEW t \in Seq(S), NEW n \in 0 .. Len(s)
  PROVE  SubSeq(s \o t, 1, n) = SubSeq(s, 1, n) /\ n \in 0 .. Len(s \o t)
OBVIOUS

LEMMA WordsOfAnAnswer ==
  ASSUME NEW said \in LiveAnswers \union FinalAnswers, NEW words \in SetToSeqs(said)
  PROVE  words \in Seq(Words)
<1>1. words \in Seq(said) /\ said \subseteq Words
  BY SeqsOfSet, JudgedAssumption DEF Words
<1>2. \A i \in 1 .. Len(words) : words[i] \in Words
  BY <1>1
<1>3. words = [i \in 1 .. Len(words) |-> words[i]] /\ Len(words) \in Nat
  BY <1>1
<1> QED BY <1>2, <1>3

\* What leaves the call and its lines as they are.
LEMMA CallStays ==
  ASSUME CallTypeOK, ClosedAtRest, LinesInOrder, UNCHANGED <<callVars, turnLog, disturbed>>
  PROVE  CallTypeOK' /\ ClosedAtRest' /\ LinesInOrder'
<1>1. CallTypeOK' /\ ClosedAtRest' /\ InProgress' = InProgress
  BY DEF callVars, CallTypeOK, ClosedAtRest, AtRest, InProgress
<1> QED BY <1>1 DEF callVars, LinesInOrder, Undisturbed

LEMMA FinishKeeps ==
  ASSUME JudgedInv, NEW status, NEW accepted, NEW words \in Seq(Words),
         status # "completed" \/ accepted = {"running"},
         FinishAs(status, accepted, words),
         \A w \in verdict' : /\ w.about \in DOMAIN LastWords(wordLog \o words)
                             /\ LastWords(wordLog \o words)[w.about] = w.status
  PROVE  Kept' /\ WordsKept'
<1>1. stage = "scoring" /\ stage' = "over" /\ ~tables.written /\ UNCHANGED <<closed, turnLog>>
  BY DEF FinishAs, JudgedInv, Kept, callVars
<1>2. CASE row \in accepted
  <2>1. /\ wordLog' = wordLog \o words /\ atDone' = Len(wordLog')
        /\ tables' = [written |-> TRUE, turns |-> turnLog, assertions |-> LastWords(wordLog')]
    BY <1>2 DEF FinishAs, Materialized
  <2>2. PICK all \in Seq(Words) : all = wordLog \o words
    <3>1. wordLog \in Seq(Words)
      BY DEF JudgedInv, WordsKept
    <3>2. Joins(wordLog, words, Words)
      BY <3>1, Joined
    <3> QED BY <3>2 DEF Joins
  <2>3. Len(all) \in 0 .. Len(all) /\ SubSeq(all, 1, Len(all)) = all
    BY <2>2
  <2>4. Kept'
    BY <1>1, <2>1 DEF JudgedInv, Kept
  <2>5. WordsKept'
    BY <2>1, <2>2, <2>3 DEF WordsKept
  <2> QED BY <2>4, <2>5
<1>3. CASE row \notin accepted
  <2>1. UNCHANGED <<wordLog, atDone, tables, row>>
    BY <1>3 DEF FinishAs
  <2> QED BY <1>1, <2>1 DEF JudgedInv, Kept, WordsKept
<1> QED BY <1>2, <1>3

LEMMA JudgedStep == JudgedInv /\ [JudgedNext]_<<callVars, recordVars>> => JudgedInv'
<1> SUFFICES ASSUME JudgedInv, [JudgedNext]_<<callVars, recordVars>> PROVE JudgedInv'
  OBVIOUS
<1> USE DEF JudgedInv
<1>1. ASSUME JudgedCallStep PROVE JudgedInv'
  <2>1. AnyCallStep
    BY <1>1, CallNextIsAStep DEF JudgedCallStep
  <2>2. CallTypeOK' /\ LineStep /\ ClosedAtRest'
    BY <2>1, CallTyping, CallLines
  <2>3. LinesInOrder'
    BY <1>1, <2>2, LinesStep
  <2>4. stage = "call" /\ UNCHANGED <<wordLog, stage, verdict, tables>> /\ row' \in {"cancelled", row}
    BY <1>1 DEF JudgedCallStep
  <2>5. Kept' /\ WordsKept'
    BY <2>4 DEF Kept, WordsKept
  <2> QED BY <2>2, <2>3, <2>5
<1>2. ASSUME LiveVerdict PROVE JudgedInv'
  <2>1. PICK said \in LiveAnswers : \E words \in SetToSeqs(said) : wordLog' = wordLog \o words
    BY <1>2 DEF LiveVerdict
  <2>2. PICK words \in SetToSeqs(said) : wordLog' = wordLog \o words
    BY <2>1
  <2>3. words \in Seq(Words) /\ wordLog \in Seq(Words)
    BY WordsOfAnAnswer DEF WordsKept
  <2>4. UNCHANGED <<callVars, turnLog, atDone, row, stage, verdict, tables, disturbed>>
    BY <1>2 DEF LiveVerdict
  <2>5. Kept'
    BY <2>4 DEF Kept, callVars
  <2>6. wordLog' \in Seq(Words)
    BY <2>2, <2>3
  <2>7. tables.written =>
          atDone \in 0 .. Len(wordLog') /\ SubSeq(wordLog', 1, atDone) = SubSeq(wordLog, 1, atDone)
    BY <2>2, <2>3, FrontStays DEF WordsKept
  <2>8. WordsKept'
    BY <2>4, <2>6, <2>7 DEF WordsKept
  <2> QED BY <2>4, <2>5, <2>8, CallStays
<1>3. ASSUME LiveWriteFails \/ CallOver \/ Waited \/ RowChanges \/ JudgedCallFails PROVE JudgedInv'
  <2>1. UNCHANGED <<callVars, turnLog, wordLog, atDone, verdict, tables, disturbed>>
    BY <1>3 DEF LiveWriteFails, CallOver, Waited, RowChanges, JudgedCallFails
  <2>2. Kept'
    BY <1>3 DEF LiveWriteFails, CallOver, Waited, RowChanges, JudgedCallFails, Kept, callVars
  <2>3. WordsKept'
    BY <2>1 DEF WordsKept
  <2> QED BY <2>1, <2>2, <2>3, CallStays
<1>4. ASSUME FinishCancelledCall PROVE JudgedInv'
  <2>1. FinishAs("cancelled", {"running", "cancelled"}, << >>) /\ verdict' = {}
    BY <1>4 DEF FinishCancelledCall, FinishAs, Kept
  <2>2. << >> \in Seq(Words)
    OBVIOUS
  <2>3. Kept' /\ WordsKept'
    BY <2>1, <2>2, FinishKeeps
  <2> QED BY <2>1, <2>3, CallStays DEF FinishAs
<1>5. ASSUME FinishJudgedCall PROVE JudgedInv'
  <2>1. PICK said \in FinalAnswers : \E words \in SetToSeqs(said) :
          verdict' = said /\ FinishAs("completed", {"running"}, words)
    BY <1>5 DEF FinishJudgedCall
  <2>2. PICK words \in SetToSeqs(said) :
          verdict' = said /\ FinishAs("completed", {"running"}, words)
    BY <2>1
  <2>3. words \in Seq(Words) /\ wordLog \in Seq(Words) /\ said \subseteq Words
    BY WordsOfAnAnswer DEF WordsKept, Words
  <2>4. IsFiniteSet(said) /\ \A v, w \in said : v.about = w.about => v = w
    BY JudgedAssumption
  <2>5. \A w \in said : /\ w.about \in DOMAIN LastWords(wordLog \o words)
                        /\ LastWords(wordLog \o words)[w.about] = w.status
    BY <2>3, <2>4, LastWordsOfTheEnd
  <2>6. Kept' /\ WordsKept'
    BY <2>2, <2>3, <2>5, FinishKeeps
  <2> QED BY <2>2, <2>6, CallStays DEF FinishAs
<1>6. CASE UNCHANGED <<callVars, recordVars>>
  <2>1. Kept' /\ WordsKept'
    BY <1>6 DEF recordVars, callVars, Kept, WordsKept
  <2> QED BY <1>6, <2>1, CallStays DEF recordVars
<1> QED BY <1>1, <1>2, <1>3, <1>4, <1>5, <1>6 DEF JudgedNext

LEMMA JudgedStarts == CallInit /\ RecordInit => JudgedInv
<1> SUFFICES ASSUME CallInit, RecordInit PROVE JudgedInv
  OBVIOUS
<1>1. CallTypeOK
  BY CallStartsTyped
<1>2. ClosedAtRest /\ InProgress = {} /\ Len(transcript) = 0 /\ recorded = {}
  BY DEF CallInit, ClosedAtRest, InProgress, Idle
<1>3. Cardinality({}) = 0
  BY FS_EmptySet
<1>4. LinesInOrder
  BY <1>2, <1>3 DEF RecordInit, LinesInOrder
<1>5. Kept /\ WordsKept
  BY DEF RecordInit, Kept, WordsKept, NoRows
<1> QED BY <1>1, <1>2, <1>4, <1>5 DEF JudgedInv

LEMMA JudgedInvGivesTheRecord == JudgedInv => RecordIsTheCall
<1> SUFFICES ASSUME JudgedInv PROVE RecordIsTheCall
  OBVIOUS
<1> USE DEF JudgedInv
<1>1. row = "completed" => tables.written
  BY DEF Kept
<1>2. ASSUME tables.written PROVE tables.turns = turnLog
  BY <1>2 DEF Kept
<1>3. ASSUME tables.written, NEW w \in verdict
      PROVE  w.about \in DOMAIN tables.assertions /\ tables.assertions[w.about] = w.status
  BY <1>3 DEF WordsKept
<1>4. ASSUME tables.written, NEW a \in Named(wordLog), ~IsLate(a)
      PROVE  a \in DOMAIN tables.assertions /\ tables.assertions[a] = LastWords(wordLog)[a]
  <2>1. /\ wordLog \in Seq(Words) /\ atDone \in 0 .. Len(wordLog)
        /\ tables.assertions = LastWords(SubSeq(wordLog, 1, atDone))
    BY <1>4 DEF WordsKept
  <2>2. \A i \in 1 .. Len(wordLog) : wordLog[i].about = a => i <= atDone
    BY <1>4, <2>1 DEF IsLate
  <2> QED BY <1>4, <2>1, <2>2, LastWordStays
<1>5. ASSUME tables.written, NEW i \in DOMAIN transcript, (1 .. i) \intersect disturbed = {}
      PROVE  i \in DOMAIN tables.turns /\ tables.turns[i] = i
  <2>1. AtRest
    BY <1>5 DEF Kept, ClosedAtRest
  <2>2. i \notin InProgress
    BY <2>1 DEF AtRest, InProgress
  <2>3. i \in 1 .. Len(transcript)
    BY <1>5 DEF CallTypeOK
  <2>4. i <= Len(turnLog) /\ turnLog[i] = i
    BY <1>5, <2>2, <2>3 DEF LinesInOrder, Undisturbed
  <2>5. i \in DOMAIN turnLog
    BY <2>3, <2>4 DEF LinesInOrder, CallTypeOK
  <2> QED BY <1>2, <1>5, <2>4, <2>5
<1> QED BY <1>1, <1>2, <1>3, <1>4, <1>5 DEF RecordIsTheCall

\* Whatever the turns, the interruptions and the judges' words, a completed call
\* has rows, and they are those of the call: turn i is line i unless a line up to
\* it was disturbed, the final judge has the last word in them, and the run's page
\* differs from them only on what the incremental judge wrote after done.
THEOREM RowsAreTheCall == JudgedSpec => []RecordIsTheCall
<1>1. CallInit /\ RecordInit => JudgedInv
  BY JudgedStarts
<1>2. JudgedInv /\ [JudgedNext]_<<callVars, recordVars>> => JudgedInv'
  BY JudgedStep
<1>3. JudgedInv => RecordIsTheCall
  BY JudgedInvGivesTheRecord
<1> QED BY <1>1, <1>2, <1>3, PTL DEF JudgedSpec

-----------------------------------------------------------------------------
(* The discovery map: what an observation leaves of the graph it is made   *)
(* on.  Nodes stay, with their kind, and edges are only added.             *)

AllKeys == {o.key : o \in Observations} \union Topics \union {NoKey}

NodeType ==
  [key : AllKeys, kind : Kinds, depth : Nat, row : Nat, incoming : SUBSET AllKeys,
   passed : BOOLEAN, rejected : BOOLEAN, unresolved : BOOLEAN]

OneNodePerKey(nodes) ==
  \A i, j \in 1 .. Len(nodes) : nodes[i].key = nodes[j].key => i = j

GraphOK(g) ==
  /\ g \in [nodes : Seq(NodeType), current : AllKeys, lastGate : AllKeys]
  /\ OneNodePerKey(g.nodes)

Grows(g, h) ==
  /\ NodeKeys(g) \subseteq NodeKeys(h)
  /\ \A k \in NodeKeys(g) :
       /\ NodeAt(h, k).kind = NodeAt(g, k).kind
       /\ NodeAt(g, k).incoming \subseteq NodeAt(h, k).incoming

LEMMA KeysAreThoseOfNodes ==
  ASSUME NEW g, GraphOK(g)
  PROVE  \A k : k \in NodeKeys(g) <=> \E i \in 1 .. Len(g.nodes) : g.nodes[i].key = k
<1>1. g.nodes \in Seq(NodeType) /\ DOMAIN g.nodes = 1 .. Len(g.nodes)
  BY DEF GraphOK
<1> QED BY <1>1 DEF NodeKeys

\* The node of a key is the only one that has it.
LEMMA NodeOfKey ==
  ASSUME NEW g, GraphOK(g), NEW i \in 1 .. Len(g.nodes)
  PROVE  /\ g.nodes[i] \in NodeType /\ g.nodes[i].key \in NodeKeys(g)
         /\ NodeAt(g, g.nodes[i].key) = g.nodes[i]
<1>1. PICK nodes \in Seq(NodeType) : nodes = g.nodes
  BY DEF GraphOK
<1>2. DOMAIN nodes = 1 .. Len(nodes) /\ nodes[i] \in NodeType /\ i \in DOMAIN nodes
  BY <1>1
<1>3. PICK k : k = nodes[i].key
  OBVIOUS
<1>4. \A j \in DOMAIN nodes : nodes[j].key = k => j = i
  BY <1>1, <1>2, <1>3 DEF GraphOK, OneNodePerKey
<1>5. (CHOOSE j \in DOMAIN nodes : nodes[j].key = k) = i
  BY <1>2, <1>3, <1>4
<1>6. NodeAt(g, k) = nodes[i]
  BY <1>1, <1>5 DEF NodeAt
<1>7. k \in NodeKeys(g)
  BY <1>1, <1>2, <1>3 DEF NodeKeys
<1> QED BY <1>1, <1>2, <1>3, <1>6, <1>7

LEMMA NodeIsThere ==
  ASSUME NEW g, GraphOK(g), NEW k \in NodeKeys(g)
  PROVE  /\ \E i \in 1 .. Len(g.nodes) : g.nodes[i] = NodeAt(g, k)
         /\ NodeAt(g, k) \in NodeType /\ NodeAt(g, k).key = k
<1>1. PICK i \in 1 .. Len(g.nodes) : g.nodes[i].key = k
  BY KeysAreThoseOfNodes
<1>2. /\ g.nodes[i] \in NodeType
      /\ NodeAt(g, g.nodes[i].key) = g.nodes[i]
  BY NodeOfKey
<1> QED BY <1>1, <1>2

LEMMA GrowsOnce ==
  ASSUME NEW g, NEW h, NEW m, Grows(g, h), Grows(h, m) PROVE Grows(g, m)
BY DEF Grows

LEMMA SameGrows == ASSUME NEW g PROVE Grows(g, g)
BY DEF Grows

\* A graph whose nodes are those of g.
LEMMA SameNodes ==
  ASSUME NEW g, NEW h, GraphOK(g), h.nodes = g.nodes,
         h \in [nodes : Seq(NodeType), current : AllKeys, lastGate : AllKeys]
  PROVE  GraphOK(h) /\ Grows(g, h)
<1>1. NodeKeys(h) = NodeKeys(g) /\ \A k : NodeAt(h, k) = NodeAt(g, k)
  BY DEF NodeKeys, NodeAt
<1> QED BY <1>1 DEF GraphOK, Grows

\* A graph with the nodes of g at their places, each changed in what may change.
NodesChanged(g, h, new) ==
  /\ h = [g EXCEPT !.nodes = [i \in DOMAIN @ |-> new[i]]]
  /\ \A i \in 1 .. Len(g.nodes) :
       /\ new[i] \in NodeType
       /\ new[i].key = g.nodes[i].key /\ new[i].kind = g.nodes[i].kind
       /\ g.nodes[i].incoming \subseteq new[i].incoming

LEMMA ChangedNodes ==
  ASSUME NEW g, NEW h, GraphOK(g), NEW new, NodesChanged(g, h, new)
  PROVE  /\ GraphOK(h) /\ Grows(g, h) /\ NodeKeys(h) = NodeKeys(g)
         /\ \A i \in 1 .. Len(g.nodes) : NodeAt(h, g.nodes[i].key) = new[i]
<1>1. PICK nodes \in Seq(NodeType) : nodes = g.nodes
  BY DEF GraphOK
<1>2. PICK n \in Nat : n = Len(nodes) /\ DOMAIN nodes = 1 .. n
  BY <1>1
<1>3. h.nodes = [i \in 1 .. n |-> new[i]] /\ h.current = g.current /\ h.lastGate = g.lastGate
  BY <1>1, <1>2 DEF GraphOK, NodesChanged
<1>4. h.nodes \in Seq(NodeType) /\ Len(h.nodes) = n
  BY <1>1, <1>2, <1>3 DEF NodesChanged
<1>5. \A i \in 1 .. n : h.nodes[i] = new[i] /\ new[i].key = nodes[i].key
  BY <1>1, <1>2, <1>3 DEF NodesChanged
<1>6. GraphOK(h)
  <2>1. h \in [nodes : Seq(NodeType), current : AllKeys, lastGate : AllKeys]
    BY <1>3, <1>4 DEF GraphOK, NodesChanged
  <2>2. OneNodePerKey(h.nodes)
    BY <1>1, <1>2, <1>4, <1>5 DEF GraphOK, OneNodePerKey
  <2> QED BY <2>1, <2>2 DEF GraphOK
<1>7. NodeKeys(h) = NodeKeys(g)
  <2>1. \A k : k \in NodeKeys(g) <=> \E i \in 1 .. Len(g.nodes) : g.nodes[i].key = k
    BY KeysAreThoseOfNodes, Zenon
  <2>2. \A k : k \in NodeKeys(h) <=> \E i \in 1 .. Len(h.nodes) : h.nodes[i].key = k
    BY <1>6, KeysAreThoseOfNodes, Zenon
  <2>3. 1 .. Len(g.nodes) = 1 .. n /\ 1 .. Len(h.nodes) = 1 .. n
    BY <1>1, <1>2, <1>4
  <2>4. \A i \in 1 .. n : h.nodes[i].key = g.nodes[i].key
    BY <1>1, <1>5
  <2>5. \A k : k \in NodeKeys(g) <=> k \in NodeKeys(h)
    BY <2>1, <2>2, <2>3, <2>4, Zenon
  <2> QED BY <2>5
<1>8. \A i \in 1 .. n : NodeAt(h, nodes[i].key) = new[i] /\ NodeAt(g, nodes[i].key) = nodes[i]
  <2> SUFFICES ASSUME NEW i \in 1 .. n
               PROVE  NodeAt(h, nodes[i].key) = new[i] /\ NodeAt(g, nodes[i].key) = nodes[i]
    OBVIOUS
  <2>1. i \in 1 .. Len(g.nodes) /\ i \in 1 .. Len(h.nodes)
    BY <1>1, <1>2, <1>4
  <2>2. NodeAt(g, g.nodes[i].key) = g.nodes[i] /\ NodeAt(h, h.nodes[i].key) = h.nodes[i]
    BY <1>6, <2>1, NodeOfKey, Zenon
  <2> QED BY <1>1, <1>5, <2>2
<1>9. Grows(g, h)
  <2> SUFFICES ASSUME NEW k \in NodeKeys(g)
               PROVE  /\ NodeAt(h, k).kind = NodeAt(g, k).kind
                      /\ NodeAt(g, k).incoming \subseteq NodeAt(h, k).incoming
    BY <1>7 DEF Grows
  <2>1. PICK i \in 1 .. n : nodes[i].key = k
    BY <1>1, <1>2, KeysAreThoseOfNodes
  <2> QED BY <1>1, <1>2, <1>8, <2>1 DEF NodesChanged
<1> QED BY <1>1, <1>2, <1>6, <1>7, <1>8, <1>9

\* UpdateNode
LEMMA UpdateGrows ==
  ASSUME NEW g, GraphOK(g), NEW k \in NodeKeys(g), NEW node \in NodeType,
         node.key = k, node.kind = NodeAt(g, k).kind,
         NodeAt(g, k).incoming \subseteq node.incoming
  PROVE  /\ GraphOK(UpdateNode(g, k, node)) /\ Grows(g, UpdateNode(g, k, node))
         /\ NodeKeys(UpdateNode(g, k, node)) = NodeKeys(g)
<1>1. PICK new : new = [i \in 1 .. Len(g.nodes) |-> IF g.nodes[i].key = k THEN node ELSE g.nodes[i]]
  OBVIOUS
<1>2. \A i \in 1 .. Len(g.nodes) :
        new[i] = IF g.nodes[i].key = k THEN node ELSE g.nodes[i]
  BY <1>1
<1>3. DOMAIN g.nodes = 1 .. Len(g.nodes)
  BY DEF GraphOK
<1>4. UpdateNode(g, k, node) = [g EXCEPT !.nodes = [i \in DOMAIN @ |-> new[i]]]
  <2>1. [i \in DOMAIN g.nodes |-> new[i]]
          = [i \in DOMAIN g.nodes |-> IF g.nodes[i].key = k THEN node ELSE g.nodes[i]]
    BY <1>2, <1>3
  <2> QED BY <2>1 DEF UpdateNode
<1>5. ASSUME NEW i \in 1 .. Len(g.nodes)
      PROVE  /\ new[i] \in NodeType
             /\ new[i].key = g.nodes[i].key /\ new[i].kind = g.nodes[i].kind
             /\ g.nodes[i].incoming \subseteq new[i].incoming
  <2>1. g.nodes[i] \in NodeType /\ NodeAt(g, g.nodes[i].key) = g.nodes[i]
    BY NodeOfKey
  <2> QED BY <1>2, <2>1
<1>6. NodesChanged(g, UpdateNode(g, k, node), new)
  BY <1>4, <1>5 DEF NodesChanged
<1> QED BY <1>6, ChangedNodes, Zenon

\* _create and the visit of a node.
LEMMA NewNodeTyped ==
  ASSUME NEW g, GraphOK(g), NEW k \in AllKeys, NEW kind \in Kinds, NEW parent
  PROVE  NewNode(g, k, kind, parent) \in NodeType
<1>1. PICK depth \in Nat :
        depth = IF parent \in NodeKeys(g) THEN NodeAt(g, parent).depth + 1 ELSE 0
  <2>1. CASE parent \in NodeKeys(g)
    <3>1. NodeAt(g, parent) \in NodeType
      BY <2>1, NodeIsThere
    <3> QED BY <2>1, <3>1 DEF NodeType
  <2>2. CASE parent \notin NodeKeys(g)
    BY <2>2
  <2> QED BY <2>1, <2>2
<1>2. PICK row_ \in Nat : row_ = Cardinality({i \in DOMAIN g.nodes : g.nodes[i].depth = depth})
  <2>1. PICK n \in Nat : DOMAIN g.nodes = 1 .. n
    BY DEF GraphOK
  <2>2. IsFiniteSet(1 .. n)
    BY FS_Interval
  <2>3. IsFiniteSet({i \in DOMAIN g.nodes : g.nodes[i].depth = depth})
    BY <2>1, <2>2, FS_Subset
  <2> QED BY <2>3, FS_CardinalityType
<1>3. NewNode(g, k, kind, parent)
        = [key |-> k, kind |-> kind, depth |-> depth, row |-> row_, incoming |-> {},
           passed |-> FALSE, rejected |-> FALSE, unresolved |-> FALSE]
  BY <1>1, <1>2 DEF NewNode
<1> QED BY <1>3 DEF NodeType

LEMMA VisitedGrows ==
  ASSUME NEW g, GraphOK(g), NEW k \in AllKeys, NEW kind \in Kinds, NEW parent
  PROVE  /\ GraphOK(Visited(g, k, kind, parent)) /\ Grows(g, Visited(g, k, kind, parent))
         /\ k \in NodeKeys(Visited(g, k, kind, parent))
<1>1. CASE k \in NodeKeys(g)
  BY <1>1, SameGrows DEF Visited
<1>2. CASE k \notin NodeKeys(g)
  <2>1. PICK node \in NodeType : node = NewNode(g, k, kind, parent) /\ node.key = k
    <3>1. NewNode(g, k, kind, parent).key = k
      BY DEF NewNode
    <3> QED BY <3>1, NewNodeTyped
  <2>2. PICK nodes \in Seq(NodeType), n \in Nat :
          nodes = g.nodes /\ n = Len(nodes) /\ DOMAIN nodes = 1 .. n
    BY DEF GraphOK
  <2>3. PICK h : h = [g EXCEPT !.nodes = Append(nodes, node)]
    OBVIOUS
  <2>4. Visited(g, k, kind, parent) = h
    BY <1>2, <2>1, <2>2, <2>3 DEF Visited
  <2>5. /\ h.nodes = Append(nodes, node) /\ h.nodes \in Seq(NodeType) /\ Len(h.nodes) = n + 1
        /\ h.nodes[n + 1] = node /\ \A i \in 1 .. n : h.nodes[i] = nodes[i]
    BY <2>2, <2>3 DEF GraphOK
  <2>6. h \in [nodes : Seq(NodeType), current : AllKeys, lastGate : AllKeys]
    BY <2>3, <2>5 DEF GraphOK
  <2>7. \A i \in 1 .. n : nodes[i].key \in NodeKeys(g) /\ nodes[i].key # k
    BY <1>2, <2>2, NodeOfKey
  <2>8. OneNodePerKey(h.nodes)
    <3> SUFFICES ASSUME NEW i \in 1 .. n + 1, NEW j \in 1 .. n + 1,
                        h.nodes[i].key = h.nodes[j].key
                 PROVE  i = j
      BY <2>5 DEF OneNodePerKey
    <3>1. CASE i \in 1 .. n /\ j \in 1 .. n
      BY <2>2, <2>5, <3>1 DEF GraphOK, OneNodePerKey
    <3>2. CASE i = n + 1 /\ j \in 1 .. n
      BY <2>1, <2>5, <2>7, <3>2
    <3>3. CASE j = n + 1 /\ i \in 1 .. n
      BY <2>1, <2>5, <2>7, <3>3
    <3> QED BY <3>1, <3>2, <3>3
  <2>9. GraphOK(h)
    BY <2>6, <2>8 DEF GraphOK
  <2>10. \A i \in 1 .. n + 1 : h.nodes[i].key \in NodeKeys(h) /\ NodeAt(h, h.nodes[i].key) = h.nodes[i]
    BY <2>5, <2>9, NodeOfKey
  <2>11. k \in NodeKeys(h)
    BY <2>1, <2>5, <2>10
  <2>12. \A i \in 1 .. n : nodes[i].key \in NodeKeys(h) /\ NodeAt(h, nodes[i].key) = nodes[i]
    BY <2>5, <2>10
  <2>13. \A q \in NodeKeys(g) : q \in NodeKeys(h) /\ NodeAt(h, q) = NodeAt(g, q)
    <3> SUFFICES ASSUME NEW q \in NodeKeys(g)
                 PROVE  q \in NodeKeys(h) /\ NodeAt(h, q) = NodeAt(g, q)
      OBVIOUS
    <3>1. NodeAt(g, q).key = q /\ \E i \in 1 .. Len(g.nodes) : g.nodes[i] = NodeAt(g, q)
      BY NodeIsThere
    <3>2. PICK i \in 1 .. n : nodes[i] = NodeAt(g, q)
      BY <2>2, <3>1
    <3> QED BY <2>12, <3>1, <3>2
  <2>14. Grows(g, h)
    BY <2>13 DEF Grows
  <2> QED BY <2>4, <2>9, <2>11, <2>14
<1> QED BY <1>1, <1>2

LEMMA LinkedGrows ==
  ASSUME NEW g, GraphOK(g), NEW from \in AllKeys, NEW k
  PROVE  GraphOK(Linked(g, from, k)) /\ Grows(g, Linked(g, from, k))
<1>1. CASE from = NoKey \/ from = k \/ k \notin NodeKeys(g)
  BY <1>1, SameGrows DEF Linked
<1>2. CASE ~(from = NoKey \/ from = k \/ k \notin NodeKeys(g))
  <2>1. PICK old \in NodeType : old = NodeAt(g, k) /\ old.key = k
    BY <1>2, NodeIsThere
  <2>2. PICK node : node = [old EXCEPT !.incoming = @ \union {from}]
    OBVIOUS
  <2>3. node \in NodeType /\ node.key = k /\ node.kind = old.kind /\ old.incoming \subseteq node.incoming
    BY <2>1, <2>2 DEF NodeType
  <2>4. Linked(g, from, k) = UpdateNode(g, k, node)
    BY <1>2, <2>1, <2>2 DEF Linked
  <2> QED BY <1>2, <2>1, <2>3, <2>4, UpdateGrows
<1> QED BY <1>1, <1>2

LEMMA JudgedGrows ==
  ASSUME NEW g, GraphOK(g), NEW k, NEW result
  PROVE  GraphOK(Judged(g, k, result)) /\ Grows(g, Judged(g, k, result))
<1>1. PICK gate : gate = IF KindAt(g, k) = "gate" THEN k ELSE g.lastGate
  OBVIOUS
<1>2. CASE gate \notin NodeKeys(g) \/ result \notin {"passed", "rejected"}
  <2>1. Judged(g, k, result) = g
    BY <1>1, <1>2 DEF Judged
  <2> QED BY <2>1, SameGrows
<1>3. CASE gate \in NodeKeys(g) /\ result \in {"passed", "rejected"}
  <2>1. PICK old \in NodeType : old = NodeAt(g, gate) /\ old.key = gate
    BY <1>3, NodeIsThere
  <2>2. PICK node : node = IF result = "passed" THEN [old EXCEPT !.passed = TRUE]
                                                ELSE [old EXCEPT !.rejected = TRUE]
    OBVIOUS
  <2>3. node \in NodeType /\ node.key = gate /\ node.kind = old.kind /\ old.incoming \subseteq node.incoming
    BY <2>1, <2>2 DEF NodeType
  <2>4. Judged(g, k, result) = UpdateNode(g, gate, node)
    BY <1>1, <1>3, <2>1, <2>2 DEF Judged
  <2> QED BY <1>3, <2>1, <2>3, <2>4, UpdateGrows
<1> QED BY <1>2, <1>3

\* A set of places has a first one.
LEMMA FirstPlace ==
  ASSUME NEW n \in Nat, NEW P, P \subseteq 1 .. n, P # {}
  PROVE  \E i \in P : \A j \in P : i <= j
<1>1. PICK R : R = {ss \in Nat \X Nat : ss[1] < ss[2]}
  OBVIOUS
<1>2. IsWellFoundedOn(R, Nat)
  BY <1>1, NatLessThanWellFounded DEF OpToRel
<1>3. P \subseteq Nat
  OBVIOUS
<1>4. PICK i \in P : \A j \in P : <<j, i>> \notin R
  BY <1>2, <1>3, WFMin, Zenon
<1>5. ASSUME NEW j \in P PROVE i <= j
  <2>1. i \in Nat /\ j \in Nat /\ <<j, i>> \in Nat \X Nat
    BY <1>3
  <2>2. ~(j < i)
    BY <1>1, <1>4, <2>1
  <2> QED BY <2>1, <2>2
<1> QED BY <1>5

LEMMA FirstKeyIsAKey ==
  ASSUME NEW g, GraphOK(g), NEW P, P \subseteq DOMAIN g.nodes
  PROVE  \/ P = {} /\ FirstKey(g, P) = NoKey
         \/ \E i \in P : FirstKey(g, P) = g.nodes[i].key
<1>1. CASE P = {}
  BY <1>1 DEF FirstKey
<1>2. CASE P # {}
  <2>1. PICK n \in Nat : DOMAIN g.nodes = 1 .. n
    BY DEF GraphOK
  <2>2. \E i \in P : \A j \in P : i <= j
    BY <1>2, <2>1, FirstPlace
  <2>3. PICK i \in P : i = CHOOSE k \in P : \A j \in P : k <= j
    BY <2>2
  <2> QED BY <1>2, <2>3 DEF FirstKey
<1> QED BY <1>1, <1>2

LEMMA FirstKeyTyped ==
  ASSUME NEW g, GraphOK(g), NEW kind PROVE FirstKey(g, OfKind(g, kind)) \in AllKeys
<1>1. OfKind(g, kind) \subseteq DOMAIN g.nodes
  BY DEF OfKind
<1>2. \A i \in DOMAIN g.nodes : g.nodes[i] \in NodeType
  BY DEF GraphOK
<1>3. \A i \in DOMAIN g.nodes : g.nodes[i].key \in AllKeys
  BY <1>2 DEF NodeType
<1> QED BY <1>1, <1>3, FirstKeyIsAKey DEF AllKeys

ObsRecord == [key : AllKeys, kind : Kinds, result : GateResults]

\* observe adds nodes and edges, and takes none away.
LEMMA ObservedGrows ==
  ASSUME NEW g, GraphOK(g), NEW obs \in ObsRecord
  PROVE  GraphOK(Observed(g, obs)) /\ Grows(g, Observed(g, obs))
<1> DEFINE key == FoldedKey(g, obs)
           menu == FirstKey(g, OfKind(g, "menu"))
           prev == IF ViaMenu(g, obs) THEN menu ELSE g.current
           g1 == Visited(g, key, obs.kind, prev)
           g2 == IF ViaMenu(g, obs) THEN Linked(g1, g.current, menu) ELSE g1
           g3 == Linked(g2, prev, key)
           g4 == [g3 EXCEPT !.current = key,
                            !.lastGate = IF KindAt(g3, key) = "gate" THEN key ELSE @]
<1>1. Observed(g, obs) = Judged(g4, key, obs.result)
  BY DEF Observed
<1>2. g.current \in AllKeys /\ key \in AllKeys /\ obs.kind \in Kinds
  BY DEF GraphOK, FoldedKey, ObsRecord
<1>3. menu \in AllKeys /\ prev \in AllKeys
  BY <1>2, FirstKeyTyped
<1> HIDE DEF key, menu, prev
<1>4. GraphOK(g1) /\ Grows(g, g1)
  BY <1>2, VisitedGrows
<1> HIDE DEF g1
<1>5. GraphOK(g2) /\ Grows(g1, g2)
  BY <1>2, <1>4, LinkedGrows, SameGrows
<1> HIDE DEF g2
<1>6. GraphOK(g3) /\ Grows(g2, g3)
  BY <1>3, <1>5, LinkedGrows
<1> HIDE DEF g3
<1>7. /\ g4 \in [nodes : Seq(NodeType), current : AllKeys, lastGate : AllKeys]
      /\ g4.nodes = g3.nodes
  BY <1>2, <1>6 DEF GraphOK
<1>8. GraphOK(g4) /\ Grows(g3, g4)
  BY <1>6, <1>7, SameNodes
<1> HIDE DEF g4
<1>9. GraphOK(Judged(g4, key, obs.result)) /\ Grows(g4, Judged(g4, key, obs.result))
  BY <1>8, JudgedGrows
<1>10. Grows(g, g2)
  BY <1>4, <1>5, GrowsOnce, Zenon
<1>11. Grows(g, g3)
  BY <1>6, <1>10, GrowsOnce, Zenon
<1>12. Grows(g, g4)
  BY <1>8, <1>11, GrowsOnce, Zenon
<1>13. Grows(g, Judged(g4, key, obs.result))
  BY <1>9, <1>12, GrowsOnce, Zenon
<1> QED BY <1>1, <1>9, <1>13

\* finalize
LEMMA FinalizedGrows ==
  ASSUME NEW g, GraphOK(g)
  PROVE  GraphOK(Finalized(g)) /\ Grows(g, Finalized(g)) /\ NodeKeys(Finalized(g)) = NodeKeys(g)
<1>1. PICK new : new = [i \in 1 .. Len(g.nodes) |->
                          IF g.nodes[i].kind = "gate" /\ ~g.nodes[i].passed
                            THEN [g.nodes[i] EXCEPT !.unresolved = TRUE] ELSE g.nodes[i]]
  OBVIOUS
<1>2. DOMAIN g.nodes = 1 .. Len(g.nodes)
  BY DEF GraphOK
<1>3. \A i \in 1 .. Len(g.nodes) :
        new[i] = IF g.nodes[i].kind = "gate" /\ ~g.nodes[i].passed
                   THEN [g.nodes[i] EXCEPT !.unresolved = TRUE] ELSE g.nodes[i]
  BY <1>1
<1>4. Finalized(g) = [g EXCEPT !.nodes = [i \in DOMAIN @ |-> new[i]]]
  <2>1. [i \in DOMAIN g.nodes |-> new[i]]
          = [i \in DOMAIN g.nodes |-> IF g.nodes[i].kind = "gate" /\ ~g.nodes[i].passed
                            THEN [g.nodes[i] EXCEPT !.unresolved = TRUE] ELSE g.nodes[i]]
    BY <1>2, <1>3
  <2> QED BY <2>1 DEF Finalized
<1>5. ASSUME NEW i \in 1 .. Len(g.nodes)
      PROVE  /\ new[i] \in NodeType
             /\ new[i].key = g.nodes[i].key /\ new[i].kind = g.nodes[i].kind
             /\ g.nodes[i].incoming \subseteq new[i].incoming
  <2>1. PICK node \in NodeType : node = g.nodes[i]
    BY NodeOfKey
  <2>2. new[i] = IF node.kind = "gate" /\ ~node.passed THEN [node EXCEPT !.unresolved = TRUE] ELSE node
    BY <1>3, <2>1
  <2> QED BY <2>1, <2>2 DEF NodeType
<1>6. NodesChanged(g, Finalized(g), new)
  BY <1>4, <1>5 DEF NodesChanged
<1> QED BY <1>6, ChangedNodes, Zenon

\* What did not change looks as before.
LEMMA UnchangedNodes ==
  ASSUME NEW g, NEW h, NEW k \in NodeKeys(h), k \notin Changed(g, h)
  PROVE  k \in NodeKeys(g) /\ Frame(NodeAt(h, k)) = Frame(NodeAt(g, k))
BY DEF Changed

-----------------------------------------------------------------------------
(* The topics told of with a graph.                                        *)

TopicOf(g, k) == KindAt(g, k) \in {"intent", "handoff"}

LEMMA TopicsStay ==
  ASSUME NEW g, NEW h, Grows(g, h), NEW k \in NodeKeys(g)
  PROVE  TopicOf(h, k) <=> TopicOf(g, k)
BY DEF TopicOf, KindAt, Grows

\* A topic reached is told of as mapped; one that is missing, as behind the gate
\* that blocks it, and it was not carried out.
LEMMA IntentsOfAGraph ==
  ASSUME NEW g, GraphOK(g), NEW expected
  PROVE  /\ \A k : TopicOf(g, k) => /\ [name |-> k, behind |-> NoKey] \in Intents(g, expected)
                                    /\ \A i \in Intents(g, expected) :
                                         i.name = k => i.behind = NoKey
         /\ \A i \in Intents(g, expected) :
              i.behind = NoKey \/ (i.behind = BlockingGate(g) /\ ~TopicOf(g, i.name) /\ expected # {})
<1>1. PICK nodes \in Seq(NodeType) : nodes = g.nodes
  BY DEF GraphOK
<1>2. PICK reached_ : reached_ = {g.nodes[i] : i \in OfKind(g, "intent") \union OfKind(g, "handoff")}
  OBVIOUS
<1>3. PICK names : names = {n.key : n \in reached_}
  OBVIOUS
<1>4. Intents(g, expected) =
        {[name |-> n.key, behind |-> NoKey] : n \in reached_}
          \union (IF BlockingGate(g) = NoKey THEN {}
                  ELSE {[name |-> c, behind |-> BlockingGate(g)] : c \in expected \ names})
  BY <1>2, <1>3 DEF Intents
<1>5. \A k : TopicOf(g, k) => \E n \in reached_ : n.key = k
  <2> SUFFICES ASSUME NEW k, TopicOf(g, k) PROVE \E n \in reached_ : n.key = k
    OBVIOUS
  <2>1. k \in NodeKeys(g) /\ NodeAt(g, k).kind \in {"intent", "handoff"}
    BY DEF TopicOf, KindAt
  <2>2. NodeAt(g, k).key = k /\ \E i \in 1 .. Len(g.nodes) : g.nodes[i] = NodeAt(g, k)
    BY <2>1, NodeIsThere
  <2>3. PICK i \in DOMAIN g.nodes : g.nodes[i] = NodeAt(g, k)
    BY <1>1, <2>2
  <2>4. i \in OfKind(g, "intent") \union OfKind(g, "handoff")
    BY <2>1, <2>3 DEF OfKind
  <2> QED BY <1>2, <2>2, <2>3, <2>4
<1>6. \A k : TopicOf(g, k) => k \in names
  BY <1>3, <1>5
<1>7. ASSUME NEW k, TopicOf(g, k) PROVE [name |-> k, behind |-> NoKey] \in Intents(g, expected)
  BY <1>4, <1>5, <1>7
<1>8. ASSUME NEW i \in Intents(g, expected)
      PROVE  i.behind = NoKey \/ (i.behind = BlockingGate(g) /\ i.name \in expected \ names)
  BY <1>4
<1> QED BY <1>6, <1>7, <1>8

\* The gate a missing topic is behind is one the graph has as blocked.
LEMMA BlockingGateIsBlocked ==
  ASSUME NEW g, GraphOK(g), BlockingGate(g) # NoKey
  PROVE  /\ BlockingGate(g) \in NodeKeys(g)
         /\ Frame(NodeAt(g, BlockingGate(g))).state # "mapped"
<1>1. PICK P : P = {i \in OfKind(g, "gate") : StateOf(g.nodes[i]) # "mapped"}
  OBVIOUS
<1>2. P \subseteq DOMAIN g.nodes /\ BlockingGate(g) = FirstKey(g, P)
  BY <1>1 DEF OfKind, BlockingGate
<1>3. PICK i \in P : BlockingGate(g) = g.nodes[i].key
  BY <1>2, FirstKeyIsAKey
<1>4. i \in 1 .. Len(g.nodes) /\ StateOf(g.nodes[i]) # "mapped"
  BY <1>1, <1>2 DEF GraphOK
<1>5. g.nodes[i].key \in NodeKeys(g) /\ NodeAt(g, g.nodes[i].key) = g.nodes[i]
  BY <1>4, NodeOfKey
<1> QED BY <1>3, <1>4, <1>5 DEF Frame

-----------------------------------------------------------------------------
(* The map as the log shows it.                                            *)

ObsType ==
  [obs : [key : AllKeys, kind : Kinds \union {"none"}, result : GateResults],
   changed : SUBSET AllKeys, complete : BOOLEAN]

MapTyped ==
  /\ GraphOK(graph)
  /\ target \in Topics \union {NoTopic}
  /\ observing \in [Tasks -> ObsType]
  /\ finalized => closed

\* The log knows of no node and of no edge that the graph has not.
ShownFromGraph ==
  /\ \A t \in Tasks : observing[t].changed \subseteq NodeKeys(graph)
  /\ DOMAIN shown \subseteq NodeKeys(graph)
  /\ \A k \in DOMAIN shown : shown[k].incoming \subseteq NodeAt(graph, k).incoming

\* The log has the node, and if it is a topic it has it as mapped.
AsShown(g, key) ==
  /\ key \in DOMAIN shown /\ shown[key] = Frame(NodeAt(g, key))
  /\ TopicOf(g, key) => key \in DOMAIN told /\ told[key] = NoKey

Pending == InFlight \union lost
SettledIsShown == \A key \in NodeKeys(graph) \ Pending : AsShown(graph, key)

\* Until the call is over no topic is told to be behind a gate.
NoneBlocked == \A c \in DOMAIN told : told[c] = NoKey

BlockedIsBlocked ==
  \A c \in DOMAIN told : told[c] # NoKey =>
    /\ ~TopicOf(graph, c)
    /\ told[c] \in NodeKeys(graph) \ Pending => shown[told[c]].state # "mapped"

ExploreInv ==
  /\ MapTyped /\ ShownFromGraph
  /\ (finalized => ~cancelSet) => SettledIsShown /\ BlockedIsBlocked
  /\ ~finalized => NoneBlocked

\* What an emission writes.
Emitted(g, keys, expected) ==
  /\ DOMAIN shown' = DOMAIN shown \union keys
  /\ \A k \in DOMAIN shown' : shown'[k] = IF k \in keys THEN Frame(NodeAt(g, k)) ELSE shown[k]
  /\ \A k \in keys : TopicOf(g, k) => k \in DOMAIN told' /\ told'[k] = NoKey
  /\ \A c \in DOMAIN told : c \in DOMAIN told'
  /\ \A c \in DOMAIN told' :
       \/ c \in DOMAIN told /\ told'[c] = told[c]
       \/ told'[c] = NoKey
       \/ told'[c] = BlockingGate(g) /\ ~TopicOf(g, c) /\ expected # {}

LEMMA WhatIsEmitted ==
  ASSUME NEW g, GraphOK(g), NEW keys, NEW expected, NEW intents,
         intents \subseteq Intents(g, expected),
         \A k \in keys : TopicOf(g, k) => [name |-> k, behind |-> NoKey] \in intents,
         Emit(g, keys, intents)
  PROVE  Emitted(g, keys, expected)
<1>1. /\ shown' = [k \in DOMAIN shown \union keys |->
                     IF k \in keys THEN Frame(NodeAt(g, k)) ELSE shown[k]]
      /\ told' = [c \in DOMAIN told \union {i.name : i \in intents} |->
                     IF \E i \in intents : i.name = c
                       THEN (CHOOSE i \in intents : i.name = c).behind ELSE told[c]]
  BY DEF Emit
<1>2. \A c : (\E i \in intents : i.name = c) =>
        \E i \in intents : i.name = c /\ i = CHOOSE j \in intents : j.name = c
  OBVIOUS
<1>3. \A c \in DOMAIN told' : \/ \E i \in intents : i.name = c /\ told'[c] = i.behind
                              \/ c \in DOMAIN told /\ told'[c] = told[c]
  BY <1>1, <1>2, ZenonT(30)
<1>4. \A k : TopicOf(g, k) => \A i \in intents : i.name = k => i.behind = NoKey
  BY IntentsOfAGraph
<1>5. \A i \in intents :
        i.behind = NoKey \/ (i.behind = BlockingGate(g) /\ ~TopicOf(g, i.name) /\ expected # {})
  BY IntentsOfAGraph
<1>6. \A k \in keys : TopicOf(g, k) => k \in DOMAIN told' /\ told'[k] = NoKey
  <2> SUFFICES ASSUME NEW k \in keys, TopicOf(g, k) PROVE k \in DOMAIN told' /\ told'[k] = NoKey
    OBVIOUS
  <2>1. \E i \in intents : i.name = k
    <3>1. [name |-> k, behind |-> NoKey].name = k
      OBVIOUS
    <3> QED BY <3>1
  <2>2. PICK i \in intents : i.name = k /\ i = CHOOSE j \in intents : j.name = k
    BY <1>2, <2>1
  <2>3. k \in DOMAIN told' /\ told'[k] = i.behind
    BY <1>1, <2>1, <2>2
  <2> QED BY <1>4, <2>2, <2>3
<1>7. \A c \in DOMAIN told : c \in DOMAIN told'
  BY <1>1
<1>8. \A c \in DOMAIN told' :
         \/ c \in DOMAIN told /\ told'[c] = told[c]
         \/ told'[c] = NoKey
         \/ told'[c] = BlockingGate(g) /\ ~TopicOf(g, c) /\ expected # {}
  BY <1>3, <1>5
<1>9. /\ DOMAIN shown' = DOMAIN shown \union keys
       /\ \A k \in DOMAIN shown' : shown'[k] = IF k \in keys THEN Frame(NodeAt(g, k)) ELSE shown[k]
  BY <1>1
<1> QED BY <1>6, <1>7, <1>8, <1>9 DEF Emitted

\* An emission of nodes that were pending, from the graph as it is: they are
\* shown, and nothing that was shown stops being so.
LEMMA EmissionShows ==
  ASSUME ExploreInv, ~finalized, UNCHANGED <<graph, target, finalized>>,
         observing' \in [Tasks -> ObsType],
         \A t \in Tasks : observing'[t].changed \subseteq observing[t].changed,
         NEW keys, keys \subseteq InFlight, Emit(graph, keys, IntentsAmong(keys)),
         Pending \subseteq Pending' \union keys
  PROVE  ExploreInv'
<1>1. /\ GraphOK(graph) /\ ShownFromGraph /\ SettledIsShown /\ NoneBlocked
  BY DEF ExploreInv, MapTyped
<1>2. keys \subseteq NodeKeys(graph)
  BY <1>1 DEF ShownFromGraph, InFlight
<1>3. /\ IntentsAmong(keys) \subseteq Intents(graph, {})
      /\ \A k \in keys : TopicOf(graph, k) => [name |-> k, behind |-> NoKey] \in IntentsAmong(keys)
  BY <1>1, IntentsOfAGraph DEF IntentsAmong
<1>4. /\ DOMAIN shown' = DOMAIN shown \union keys
      /\ \A k \in DOMAIN shown' :
           shown'[k] = IF k \in keys THEN Frame(NodeAt(graph, k)) ELSE shown[k]
      /\ \A k \in keys : TopicOf(graph, k) => k \in DOMAIN told' /\ told'[k] = NoKey
      /\ \A c \in DOMAIN told : c \in DOMAIN told'
      /\ \A c \in DOMAIN told' : told'[c] = NoKey \/ (c \in DOMAIN told /\ told'[c] = told[c])
  <2>1. Emitted(graph, keys, {})
    BY <1>1, <1>3, WhatIsEmitted, Zenon
  <2> QED BY <2>1 DEF Emitted
<1>5. \A c \in DOMAIN told' : told'[c] = NoKey
  BY <1>1, <1>4 DEF NoneBlocked
<1>6. \A k \in NodeKeys(graph) : Frame(NodeAt(graph, k)).incoming = NodeAt(graph, k).incoming
  BY DEF Frame
<1>7. PICK g : g = graph
  OBVIOUS
<1>8. MapTyped'
  BY DEF ExploreInv, MapTyped
<1>9. ShownFromGraph'
  BY <1>1, <1>2, <1>4, <1>6 DEF ShownFromGraph
<1>10. ASSUME NEW k \in NodeKeys(graph), k \notin Pending'
       PROVE  /\ k \in DOMAIN shown' /\ shown'[k] = Frame(NodeAt(graph, k))
              /\ TopicOf(graph, k) => k \in DOMAIN told' /\ told'[k] = NoKey
  <2>1. CASE k \in keys
    BY <1>4, <2>1
  <2>2. CASE k \notin keys
    <3>1. AsShown(graph, k)
      BY <1>1, <1>10, <2>2 DEF SettledIsShown
    <3> QED BY <1>4, <1>5, <2>2, <3>1 DEF AsShown
  <2> QED BY <2>1, <2>2
<1>11. SettledIsShown' /\ BlockedIsBlocked' /\ NoneBlocked'
  BY <1>5, <1>10 DEF SettledIsShown, AsShown, BlockedIsBlocked, NoneBlocked
<1> QED BY <1>8, <1>9, <1>11 DEF ExploreInv

\* A graph that grows, and whose changed nodes are all pending: the rest is shown
\* as it is.
LEMMA GrowthStaysShown ==
  ASSUME ExploreInv, ~finalized, UNCHANGED <<shown, told, finalized, target>>,
         NEW h, graph' = h, GraphOK(h), Grows(graph, h),
         observing' \in [Tasks -> ObsType],
         \A t \in Tasks : observing'[t].changed \subseteq NodeKeys(h),
         Pending \union Changed(graph, h) \subseteq Pending'
  PROVE  ExploreInv'
<1>1. /\ GraphOK(graph) /\ ShownFromGraph /\ SettledIsShown /\ NoneBlocked
  BY DEF ExploreInv, MapTyped
<1>2. NodeKeys(graph) \subseteq NodeKeys(h)
      /\ \A k \in NodeKeys(graph) : NodeAt(graph, k).incoming \subseteq NodeAt(h, k).incoming
  BY DEF Grows
<1>3. MapTyped'
  BY DEF ExploreInv, MapTyped
<1>4. ShownFromGraph'
  BY <1>1, <1>2 DEF ShownFromGraph
<1>5. ASSUME NEW k \in NodeKeys(h), k \notin Pending' PROVE AsShown(h, k)
  <2>1. k \in NodeKeys(graph) /\ Frame(NodeAt(h, k)) = Frame(NodeAt(graph, k))
    BY <1>5, UnchangedNodes
  <2>2. AsShown(graph, k)
    BY <1>1, <1>5, <2>1 DEF SettledIsShown
  <2>3. TopicOf(h, k) <=> TopicOf(graph, k)
    BY <2>1, TopicsStay
  <2> QED BY <2>1, <2>2, <2>3 DEF AsShown
<1>6. \A k \in NodeKeys(h) : k \notin Pending' =>
        /\ k \in DOMAIN shown' /\ shown'[k] = Frame(NodeAt(h, k))
        /\ TopicOf(h, k) => k \in DOMAIN told' /\ told'[k] = NoKey
  BY <1>5 DEF AsShown
<1>7. SettledIsShown'
  BY <1>6 DEF SettledIsShown, AsShown
<1>8. BlockedIsBlocked' /\ NoneBlocked'
  BY <1>1 DEF BlockedIsBlocked, NoneBlocked
<1> QED BY <1>3, <1>4, <1>7, <1>8 DEF ExploreInv

\* A step of the call that leaves the map and its frames alone.
LEMMA MapLeftAlone ==
  ASSUME ExploreInv, ~finalized, target' \in Topics \union {NoTopic},
         UNCHANGED <<graph, observing, shown, told, lost, finalized>>
  PROVE  ExploreInv'
BY DEF ExploreInv, MapTyped, ShownFromGraph, SettledIsShown, AsShown, TopicOf,
       Pending, InFlight, BlockedIsBlocked, NoneBlocked

LEMMA RunningIsNotFinal == ASSUME ExploreInv, Running PROVE ~finalized
BY DEF ExploreInv, MapTyped, Running

LEMMA FirstOfThemIsATopic ==
  ASSUME NEW P, P \subseteq DOMAIN Candidates
  PROVE  FirstOfThem(P) \in Topics \union {NoTopic}
<1>1. CASE P = {}
  BY <1>1 DEF FirstOfThem
<1>2. CASE P # {}
  <2>1. PICK n \in Nat : DOMAIN Candidates = 1 .. n
    BY ExplorerAssumption
  <2>2. \E i \in P : \A j \in P : i <= j
    BY <1>2, <2>1, FirstPlace
  <2>3. PICK i \in P : i = CHOOSE k \in P : \A j \in P : k <= j
    BY <2>2
  <2> QED BY <1>2, <2>3 DEF FirstOfThem, Topics
<1> QED BY <1>1, <1>2

\* The explorer asks for one of its topics.
LEMMA TargetIsATopic ==
  ASSUME ExploreInv, NEW t, AskExplorer(t) PROVE target' \in Topics \union {NoTopic}
<1>1. Remaining(reached \union abandoned) \subseteq DOMAIN Candidates
  BY DEF Remaining
<1>2. FirstOfThem(Remaining(reached \union abandoned)) \in Topics \union {NoTopic}
  BY <1>1, FirstOfThemIsATopic
<1> QED BY <1>2 DEF AskExplorer, ExploreInv, MapTyped

\* What the explorer makes of an observation is one, of a key it may have.
LEMMA CanonicalTyped ==
  ASSUME target \in Topics \union {NoTopic},
         NEW seen \in Observations, NEW claimed \in Topics \union {NoTopic}
  PROVE  Canonical(seen, claimed) \in ObsRecord
<1>1. seen \in ObsRecord
  <2>1. seen \in [key : {seen.key}, kind : Kinds, result : GateResults]
    BY ExplorerAssumption
  <2>2. seen.key \in AllKeys
    BY DEF AllKeys
  <2> QED BY <2>1, <2>2 DEF ObsRecord
<1>2. Attributed(seen, claimed) \in Topics \union {NoTopic}
  <2>1. \A Q : FirstOfThem({i \in Remaining(reached \union abandoned) : Candidates[i] \in Q})
                 \in Topics \union {NoTopic}
    <3> SUFFICES ASSUME NEW Q
                 PROVE  FirstOfThem({i \in Remaining(reached \union abandoned) : Candidates[i] \in Q})
                          \in Topics \union {NoTopic}
      OBVIOUS
    <3>1. {i \in Remaining(reached \union abandoned) : Candidates[i] \in Q} \subseteq DOMAIN Candidates
      BY DEF Remaining
    <3> QED BY <3>1, FirstOfThemIsATopic, Zenon
  <2>2. PICK first \in Topics \union {NoTopic} :
          first = FirstOfThem({i \in Remaining(reached \union abandoned) : Candidates[i] \in Handoffs})
    BY <2>1
  <2>3. seen.kind \in Kinds
    BY <1>1 DEF ObsRecord
  <2> QED BY <2>2, <2>3 DEF Attributed
<1>3. CASE Attributed(seen, claimed) = NoTopic
  BY <1>1, <1>3 DEF Canonical
<1>4. CASE Attributed(seen, claimed) # NoTopic
  <2>1. PICK topic \in Topics : topic = Attributed(seen, claimed)
    BY <1>2, <1>4
  <2>2. Canonical(seen, claimed) =
          [seen EXCEPT !.key = topic,
                       !.kind = IF @ \in {"intent", "handoff"} THEN @ ELSE "intent"]
    BY <1>4, <2>1 DEF Canonical
  <2>3. topic \in AllKeys /\ "intent" \in Kinds
    BY DEF AllKeys, Kinds
  <2> QED BY <1>1, <2>2, <2>3 DEF ObsRecord
<1> QED BY <1>3, <1>4

LEMMA KeysOfAGraph == ASSUME NEW g, GraphOK(g) PROVE NodeKeys(g) \subseteq AllKeys
<1> SUFFICES ASSUME NEW k \in NodeKeys(g) PROVE k \in AllKeys
  OBVIOUS
<1>1. NodeAt(g, k) \in NodeType /\ NodeAt(g, k).key = k
  BY NodeIsThere
<1> QED BY <1>1 DEF NodeType

-----------------------------------------------------------------------------
(* The steps of a discovery call.                                          *)

LEMMA ExploredStep ==
  ASSUME ExploreInv, NEW t \in Tasks, NEW seen \in Observations,
         NEW claimed \in Topics \union {NoTopic}, NEW complete \in BOOLEAN,
         Explored(t, seen, claimed, complete)
  PROVE  ExploreInv'
<1>1. GraphOK(graph) /\ observing \in [Tasks -> ObsType] /\ target \in Topics \union {NoTopic}
      /\ ShownFromGraph
  BY DEF ExploreInv, MapTyped
<1>2. ~finalized
  BY RunningIsNotFinal DEF Explored
<1>3. PICK obs \in ObsRecord : obs = Canonical(seen, claimed)
  BY <1>1, CanonicalTyped
<1>4. PICK h : h = Observed(graph, obs)
  OBVIOUS
<1>5. GraphOK(h) /\ Grows(graph, h)
  BY <1>1, <1>4, ObservedGrows
<1>6. PICK changed : changed = Changed(graph, h)
  OBVIOUS
<1>7. changed \subseteq NodeKeys(h) /\ NodeKeys(graph) \subseteq NodeKeys(h)
  BY <1>5, <1>6 DEF Changed, Grows
<1>8. graph' = h /\ observing[t] = NoObs
  BY <1>3, <1>4 DEF Explored
<1>9. \A u \in Tasks : observing[u].changed \subseteq NodeKeys(h)
  BY <1>1, <1>7 DEF ShownFromGraph
<1>10. CASE changed = {}
  <2>1. UNCHANGED <<observing, shown, told, target, finalized, lost>>
    BY <1>3, <1>4, <1>6, <1>10 DEF Explored, Finish
  <2>2. Pending \union Changed(graph, h) \subseteq Pending'
    BY <1>6, <1>10, <2>1 DEF Pending, InFlight
  <2> QED BY <1>1, <1>2, <1>5, <1>8, <1>9, <2>1, <2>2, GrowthStaysShown
<1>11. CASE changed # {}
  <2>1. PICK o : o = [obs |-> obs, changed |-> changed, complete |-> complete]
    OBVIOUS
  <2>2. /\ observing' = [observing EXCEPT ![t] = o]
        /\ UNCHANGED <<shown, told, target, finalized, lost>>
    BY <1>3, <1>4, <1>6, <1>11, <2>1 DEF Explored
  <2>3. o \in ObsType /\ o.changed = changed
    <3>1. changed \subseteq AllKeys
      BY <1>5, <1>7, KeysOfAGraph
    <3>2. obs \in [key : AllKeys, kind : Kinds \union {"none"}, result : GateResults]
      BY DEF ObsRecord
    <3> QED BY <2>1, <3>1, <3>2 DEF ObsType
  <2>4. observing' \in [Tasks -> ObsType]
    BY <1>1, <2>2, <2>3
  <2>5. observing'[t].changed = changed /\ \A u \in Tasks : u # t => observing'[u] = observing[u]
    BY <1>1, <2>2, <2>3
  <2>6. \A u \in Tasks : observing'[u].changed \subseteq NodeKeys(h)
    BY <1>7, <1>9, <2>5
  <2>7. observing[t].changed = {}
    BY <1>8 DEF NoObs
  <2>8. Pending \union Changed(graph, h) \subseteq Pending'
    BY <1>6, <2>2, <2>5, <2>7 DEF Pending, InFlight
  <2> QED BY <1>2, <1>5, <1>8, <2>2, <2>4, <2>6, <2>8, GrowthStaysShown
<1> QED BY <1>10, <1>11

LEMMA NoObsTyped == NoObs \in ObsType /\ NoObs.changed = {}
<1>1. NoObs.obs \in [key : AllKeys, kind : Kinds \union {"none"}, result : GateResults]
  BY DEF NoObs, AllKeys, GateResults
<1> QED BY <1>1 DEF NoObs, ObsType

LEMMA StoredStep ==
  ASSUME ExploreInv, NEW t \in Tasks, ObservationStored(t) PROVE ExploreInv'
<1>1. observing \in [Tasks -> ObsType]
  BY DEF ExploreInv, MapTyped
<1>2. ~finalized
  BY RunningIsNotFinal DEF ObservationStored, Finish, Answer
<1>3. UNCHANGED <<graph, target, finalized, lost>>
  BY DEF ObservationStored, Finish
<1>4. PICK keys : keys = observing[t].changed
  OBVIOUS
<1>5. Emit(graph, keys, IntentsAmong(keys))
  BY <1>4 DEF ObservationStored
<1>6. /\ observing' \in [Tasks -> ObsType] /\ observing'[t].changed = {}
      /\ \A u \in Tasks : u # t => observing'[u] = observing[u]
  BY <1>1, NoObsTyped DEF ObservationStored
<1>7. \A u \in Tasks : observing'[u].changed \subseteq observing[u].changed
  BY <1>6
<1>8. keys \subseteq InFlight /\ Pending \subseteq Pending' \union keys
  BY <1>3, <1>4, <1>6 DEF InFlight, Pending
<1> QED BY <1>2, <1>3, <1>5, <1>6, <1>7, <1>8, EmissionShows

\* The tasks whose observation is dropped; of those in `kept' the frames were
\* written all the same.
Drops(dropped, kept) ==
  /\ observing' = [t \in Tasks |-> IF t \in dropped THEN NoObs ELSE observing[t]]
  /\ dropped \subseteq Tasks /\ kept \subseteq dropped
  /\ LET keys == UNION {observing[t].changed : t \in kept}
     IN Emit(graph, keys, IntentsAmong(keys))
  /\ lost' = lost \union UNION {observing[t].changed : t \in dropped \ kept}

LEMMA OthersStep == ASSUME ExploreInv, Others PROVE ExploreInv'
<1>1. observing \in [Tasks -> ObsType]
  BY DEF ExploreInv, MapTyped
<1>2. Running
  BY DEF Others, Connect, Hear, HeardRecorded, HeardFails, Cancel, Drain, TimeOut, Stop,
         LineRecorded, LineFails, PlannerFails
<1>3. ~finalized
  BY <1>2, RunningIsNotFinal
<1>4. UNCHANGED <<graph, target, finalized>>
  BY DEF Others
<1>5. \E dropped, kept : Drops(dropped, kept)
  <2>1. PICK dropped : dropped = {t \in Tasks : observing[t] # NoObs /\ task'[t].at # "asking"}
    OBVIOUS
  <2>2. PICK kept \in SUBSET dropped :
          /\ LET keys == UNION {observing[t].changed : t \in kept}
             IN Emit(graph, keys, IntentsAmong(keys))
          /\ lost' = lost \union UNION {observing[t].changed : t \in dropped \ kept}
    BY <2>1 DEF Others
  <2>3. observing' = [t \in Tasks |-> IF t \in dropped THEN NoObs ELSE observing[t]]
    BY <2>1 DEF Others
  <2> QED BY <2>1, <2>2, <2>3 DEF Drops
<1>6. PICK dropped, kept : Drops(dropped, kept)
  BY <1>5
<1>7. PICK keys : keys = UNION {observing[t].changed : t \in kept}
  OBVIOUS
<1>8. Emit(graph, keys, IntentsAmong(keys)) /\ keys \subseteq InFlight
  BY <1>6, <1>7 DEF Drops, InFlight
<1>9. /\ observing' \in [Tasks -> ObsType]
      /\ \A u \in Tasks : observing'[u].changed \subseteq observing[u].changed
      /\ \A u \in Tasks : u \notin dropped => observing'[u] = observing[u]
  BY <1>1, <1>6, NoObsTyped DEF Drops
<1>10. Pending \subseteq Pending' \union keys
  <2> SUFFICES ASSUME NEW k \in Pending PROVE k \in Pending' \union keys
    OBVIOUS
  <2>1. CASE k \in lost
    BY <1>6, <2>1 DEF Drops, Pending
  <2>2. ASSUME NEW u \in Tasks, k \in observing[u].changed PROVE k \in Pending' \union keys
    <3>1. CASE u \notin dropped
      BY <1>9, <2>2, <3>1 DEF Pending, InFlight
    <3>2. CASE u \in kept
      BY <1>7, <2>2, <3>2
    <3>3. CASE u \in dropped \ kept
      BY <1>6, <2>2, <3>3 DEF Drops, Pending
    <3> QED BY <3>1, <3>2, <3>3
  <2> QED BY <2>1, <2>2 DEF Pending, InFlight
<1> QED BY <1>3, <1>4, <1>8, <1>9, <1>10, EmissionShows

LEMMA FinalizeStep == ASSUME ExploreInv, Finalize PROVE ExploreInv'
<1>1. /\ GraphOK(graph) /\ ShownFromGraph /\ SettledIsShown /\ NoneBlocked
      /\ observing \in [Tasks -> ObsType] /\ target \in Topics \union {NoTopic}
  BY DEF ExploreInv, MapTyped, Finalize
<1>2. PICK h : h = Finalized(graph)
  OBVIOUS
<1>3. GraphOK(h) /\ Grows(graph, h) /\ NodeKeys(h) = NodeKeys(graph)
  BY <1>1, <1>2, FinalizedGrows
<1>4. /\ graph' = h /\ finalized' /\ closed' /\ UNCHANGED <<observing, lost, target, cancelSet>>
  BY <1>2 DEF Finalize, callVars
<1>5. MapTyped'
  BY <1>1, <1>3, <1>4 DEF MapTyped
<1>6. \A k \in NodeKeys(graph) : NodeAt(graph, k).incoming \subseteq NodeAt(h, k).incoming
  BY <1>3 DEF Grows
<1>7. Pending' = Pending
  BY <1>4 DEF Pending, InFlight
<1>8. CASE cancelSet
  <2>1. UNCHANGED <<shown, told>>
    BY <1>8 DEF Finalize
  <2>2. ShownFromGraph'
    BY <1>1, <1>3, <1>4, <1>6, <2>1 DEF ShownFromGraph
  <2> QED BY <1>4, <1>5, <1>8, <2>2 DEF ExploreInv
<1>9. CASE ~cancelSet
  <2>1. PICK keys : keys = Changed(graph, h)
    OBVIOUS
  <2>2. Emit(h, keys, Intents(h, Topics))
    BY <1>2, <1>4, <1>9, <2>1 DEF Finalize
  <2>3. \A k \in keys : TopicOf(h, k) => [name |-> k, behind |-> NoKey] \in Intents(h, Topics)
    BY <1>3, IntentsOfAGraph
  <2>4. Emitted(h, keys, Topics)
    BY <1>3, <2>2, <2>3, WhatIsEmitted, Zenon
  <2>5. /\ DOMAIN shown' = DOMAIN shown \union keys
        /\ \A k \in DOMAIN shown' :
             shown'[k] = IF k \in keys THEN Frame(NodeAt(h, k)) ELSE shown[k]
        /\ \A k \in keys : TopicOf(h, k) => k \in DOMAIN told' /\ told'[k] = NoKey
        /\ \A c \in DOMAIN told : c \in DOMAIN told'
        /\ \A c \in DOMAIN told' :
             \/ c \in DOMAIN told /\ told'[c] = told[c]
             \/ told'[c] = NoKey
             \/ told'[c] = BlockingGate(h) /\ ~TopicOf(h, c)
    BY <2>4 DEF Emitted
  <2>6. keys \subseteq NodeKeys(h)
    BY <2>1 DEF Changed
  <2>7. \A c \in DOMAIN told' : told'[c] # NoKey => told'[c] = BlockingGate(h) /\ ~TopicOf(h, c)
    BY <1>1, <2>5 DEF NoneBlocked
  <2>8. ShownFromGraph'
    <3>1. \A k \in DOMAIN shown' : k \in NodeKeys(h) /\ shown'[k].incoming \subseteq NodeAt(h, k).incoming
      <4> SUFFICES ASSUME NEW k \in DOMAIN shown'
                   PROVE  k \in NodeKeys(h) /\ shown'[k].incoming \subseteq NodeAt(h, k).incoming
        OBVIOUS
      <4>1. CASE k \in keys
        <5>1. shown'[k] = Frame(NodeAt(h, k)) /\ k \in NodeKeys(h)
          BY <2>5, <2>6, <4>1
        <5> QED BY <5>1 DEF Frame
      <4>2. CASE k \notin keys
        <5>1. k \in DOMAIN shown /\ shown'[k] = shown[k]
          BY <2>5, <4>2
        <5> QED BY <1>1, <1>3, <1>6, <5>1 DEF ShownFromGraph
      <4> QED BY <4>1, <4>2
    <3>2. \A t \in Tasks : observing[t].changed \subseteq NodeKeys(h)
      BY <1>1, <1>3 DEF ShownFromGraph
    <3> QED BY <1>4, <3>1, <3>2 DEF ShownFromGraph
  <2>9. ASSUME NEW k \in NodeKeys(h), k \notin Pending
        PROVE  /\ k \in DOMAIN shown' /\ shown'[k] = Frame(NodeAt(h, k))
               /\ TopicOf(h, k) => k \in DOMAIN told' /\ told'[k] = NoKey
    <3>1. CASE k \in keys
      BY <2>5, <3>1
    <3>2. CASE k \notin keys
      <4>1. k \in NodeKeys(graph) /\ Frame(NodeAt(h, k)) = Frame(NodeAt(graph, k))
        BY <2>1, <3>2, <2>9, UnchangedNodes
      <4>2. AsShown(graph, k)
        BY <1>1, <2>9, <4>1 DEF SettledIsShown
      <4>3. TopicOf(h, k) <=> TopicOf(graph, k)
        BY <1>3, <4>1, TopicsStay
      <4>4. k \in DOMAIN shown' /\ shown'[k] = Frame(NodeAt(h, k))
        BY <2>5, <3>2, <4>1, <4>2 DEF AsShown
      <4>5. TopicOf(h, k) => k \in DOMAIN told' /\ told'[k] = NoKey
        BY <2>5, <2>7, <4>2, <4>3 DEF AsShown
      <4> QED BY <4>4, <4>5
    <3> QED BY <3>1, <3>2
  <2>10. SettledIsShown'
    BY <1>4, <1>7, <2>9 DEF SettledIsShown, AsShown
  <2>11. ASSUME NEW c \in DOMAIN told', told'[c] # NoKey
         PROVE  /\ ~TopicOf(h, c)
                /\ told'[c] \in NodeKeys(h) \ Pending => shown'[told'[c]].state # "mapped"
    <3>1. PICK gate : gate = BlockingGate(h)
      OBVIOUS
    <3>2. told'[c] = gate /\ ~TopicOf(h, c) /\ gate # NoKey
      BY <2>7, <2>11, <3>1
    <3>3. Frame(NodeAt(h, gate)).state # "mapped"
      BY <1>3, <3>1, <3>2, BlockingGateIsBlocked
    <3>4. gate \in NodeKeys(h) \ Pending => shown'[gate] = Frame(NodeAt(h, gate))
      BY <2>9
    <3> QED BY <3>2, <3>3, <3>4
  <2>12. BlockedIsBlocked'
    BY <1>4, <1>7, <2>11 DEF BlockedIsBlocked
  <2> QED BY <1>4, <1>5, <2>8, <2>10, <2>12 DEF ExploreInv
<1> QED BY <1>8, <1>9

LEMMA ExploreStep ==
  ExploreInv /\ [ExploreNext]_<<callVars, exploreVars>> => ExploreInv'
<1> SUFFICES ASSUME ExploreInv, [ExploreNext]_<<callVars, exploreVars>> PROVE ExploreInv'
  OBVIOUS
<1>1. target \in Topics \union {NoTopic}
  BY DEF ExploreInv, MapTyped
<1>2. CASE ExplorerWakes
  <2>1. Running /\ UNCHANGED <<graph, observing, shown, told, lost, finalized>>
    BY <1>2 DEF ExplorerWakes, WakeAdvance, WakeSilence, AskExplorer, exploreVars
  <2>2. (\E t : AskExplorer(t)) \/ target' = target
    BY <1>2 DEF ExplorerWakes, exploreVars
  <2>3. target' \in Topics \union {NoTopic}
    BY <1>1, <2>2, TargetIsATopic
  <2> QED BY <2>1, <2>3, RunningIsNotFinal, MapLeftAlone
<1>3. ASSUME NEW t \in Tasks, ObservationStored(t) PROVE ExploreInv'
  BY <1>3, StoredStep
<1>4. ASSUME NEW t \in Tasks, ExplorerFails(t) PROVE ExploreInv'
  <2>1. Running /\ UNCHANGED <<graph, observing, shown, told, lost, finalized, target>>
    BY <1>4 DEF ExplorerFails, Answer
  <2> QED BY <1>1, <2>1, RunningIsNotFinal, MapLeftAlone
<1>5. ASSUME NEW t \in Tasks, NEW obs \in Observations,
             NEW c \in Topics \union {NoTopic}, NEW b \in BOOLEAN, Explored(t, obs, c, b)
      PROVE  ExploreInv'
  BY <1>5, ExploredStep
<1>6. CASE Others
  BY <1>6, OthersStep
<1>7. CASE Finalize
  BY <1>7, FinalizeStep
<1>8. CASE UNCHANGED <<callVars, exploreVars>>
  BY <1>8 DEF callVars, exploreVars, ExploreInv, MapTyped, ShownFromGraph, SettledIsShown,
              AsShown, TopicOf, Pending, InFlight, BlockedIsBlocked, NoneBlocked
<1> QED BY <1>2, <1>3, <1>4, <1>5, <1>6, <1>7, <1>8 DEF ExploreNext, Waiting

LEMMA ExploreStarts == CallInit /\ ExploreInit => ExploreInv
<1> SUFFICES ASSUME CallInit, ExploreInit PROVE ExploreInv
  OBVIOUS
<1>1. EmptyGraph.nodes = << >> /\ EmptyGraph.current = NoKey /\ EmptyGraph.lastGate = NoKey
  BY DEF EmptyGraph
<1>2. GraphOK(EmptyGraph) /\ NodeKeys(EmptyGraph) = {}
  <2>1. << >> \in Seq(NodeType) /\ NoKey \in AllKeys
    BY DEF AllKeys
  <2>2. EmptyGraph \in [nodes : Seq(NodeType), current : AllKeys, lastGate : AllKeys]
    BY <2>1 DEF EmptyGraph
  <2> QED BY <1>1, <2>2 DEF GraphOK, OneNodePerKey, NodeKeys
<1>3. observing \in [Tasks -> ObsType] /\ \A t \in Tasks : observing[t].changed = {}
  BY NoObsTyped DEF ExploreInit
<1>4. graph = EmptyGraph /\ target = NoTopic /\ DOMAIN shown = {} /\ DOMAIN told = {} /\ ~finalized
  BY DEF ExploreInit
<1>5. MapTyped /\ ShownFromGraph
  BY <1>2, <1>3, <1>4 DEF MapTyped, ShownFromGraph
<1>6. SettledIsShown /\ BlockedIsBlocked /\ NoneBlocked
  BY <1>2, <1>4 DEF SettledIsShown, BlockedIsBlocked, NoneBlocked
<1> QED BY <1>5, <1>6 DEF ExploreInv

LEMMA ExploreInvGivesTheMap == ExploreInv => ShownMapIsTheGraph
<1> SUFFICES ASSUME ExploreInv, finalized => ~cancelSet
             PROVE  LET settled == NodeKeys(graph) \ (InFlight \union lost)
                        topic(key) == KindAt(graph, key) \in {"intent", "handoff"}
                    IN /\ \A key \in settled :
                            /\ key \in DOMAIN shown /\ shown[key] = Frame(NodeAt(graph, key))
                            /\ topic(key) => key \in DOMAIN told /\ told[key] = NoKey
                       /\ StoredEdges \subseteq Edges(graph)
                       /\ Edges(graph) \intersect (settled \X settled) \subseteq StoredEdges
                       /\ \A c \in DOMAIN told : told[c] # NoKey =>
                            /\ ~topic(c)
                            /\ told[c] \in settled => shown[told[c]].state # "mapped"
  BY DEF ShownMapIsTheGraph
<1>1. ShownFromGraph /\ SettledIsShown /\ BlockedIsBlocked
  BY DEF ExploreInv
<1>2. PICK settled : settled = NodeKeys(graph) \ Pending
  OBVIOUS
<1>3. \A key \in settled : /\ key \in DOMAIN shown /\ shown[key] = Frame(NodeAt(graph, key))
                           /\ TopicOf(graph, key) => key \in DOMAIN told /\ told[key] = NoKey
  BY <1>1, <1>2 DEF SettledIsShown, AsShown
<1>4. StoredEdges \subseteq Edges(graph)
  <2> SUFFICES ASSUME NEW a \in DOMAIN shown, NEW b \in DOMAIN shown, a \in shown[b].incoming
               PROVE  <<a, b>> \in Edges(graph)
    BY DEF StoredEdges
  <2> QED BY <1>1 DEF ShownFromGraph, Edges
<1>5. Edges(graph) \intersect (settled \X settled) \subseteq StoredEdges
  <2> SUFFICES ASSUME NEW a \in settled, NEW b \in settled, a \in NodeAt(graph, b).incoming
               PROVE  <<a, b>> \in StoredEdges
    BY DEF Edges
  <2>1. a \in DOMAIN shown /\ b \in DOMAIN shown /\ shown[b] = Frame(NodeAt(graph, b))
    BY <1>3
  <2>2. a \in shown[b].incoming
    BY <2>1 DEF Frame
  <2> QED BY <2>1, <2>2 DEF StoredEdges
<1>6. \A c \in DOMAIN told : told[c] # NoKey =>
        /\ ~TopicOf(graph, c)
        /\ told[c] \in settled => shown[told[c]].state # "mapped"
  BY <1>1, <1>2 DEF BlockedIsBlocked
<1> QED BY <1>2, <1>3, <1>4, <1>5, <1>6 DEF Pending, TopicOf

\* Whatever an observation does to the map, and whatever is cancelled on the way,
\* the frames in the log are the explorer's graph: its nodes, its edges, its topics
\* and the gate a missing topic is behind, for any plan, any budget and any
\* observations (observe, on_observation, finalize, materialize_discovery).
THEOREM MapIsShown == ExploreSpec => []ShownMapIsTheGraph
<1>1. CallInit /\ ExploreInit => ExploreInv
  BY ExploreStarts
<1>2. ExploreInv /\ [ExploreNext]_<<callVars, exploreVars>> => ExploreInv'
  BY ExploreStep
<1>3. ExploreInv => ShownMapIsTheGraph
  BY ExploreInvGivesTheMap
<1> QED BY <1>1, <1>2, <1>3, PTL DEF ExploreSpec

==============================================================================
