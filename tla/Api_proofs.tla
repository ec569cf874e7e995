----------------------------- MODULE Api_proofs -----------------------------
(***************************************************************************)
(* What the API keeps in its tables, for any number of users, requests and *)
(* rows: runs and identities, suites and drafts, metrics and their scores, *)
(* polled pages, and the scripts of Python metrics.                        *)
(***************************************************************************)
EXTENDS MetricCatalog, Authoring, RunRequests, DeltaPolling, MetricSandbox,
        TLAPS, SequenceTheorems, FiniteSetTheorems, FunctionTheorems, WellFoundedInduction

-----------------------------------------------------------------------------
(* The requests that create runs: the invariant.                           *)

\* What a request without a source makes a call of each.
ItemsOf(kind) == IF kind \in Batch THEN SetToSeq(Items) ELSE << >>

RequestRows ==
    [kind : Single \cup Batch, key : Keys \cup {NoKey}, parent : Nat, item : Items \cup {Nothing},
     identity : Requests \cup {Nothing}, source : Nat, verdict : {"live", "pass", "fail"}]

AskedRequests ==
    [at : {"unasked", "identity", "insert", "reading", "dropping", "refused", "done", "dead"},
     kind : Single \cup Batch \cup {Nothing}, key : Keys \cup {NoKey}, mine : BOOLEAN,
     identity : Requests \cup {Nothing}, source : Nat, items : Seq(Items \cup {Nothing}),
     run : Nat, doubt : BOOLEAN]

RequestsTyped ==
    /\ launched \in Seq(RequestRows) /\ asked \in [Requests -> AskedRequests]
    /\ identities \subseteq Requests /\ erased \subseteq Requests /\ mishaps \in Nat

HasRow(i) == \E r \in RowIds : launched[r].identity = i

\* Its identity is stored, or why it is not.
Accounted(i) == i \in identities \cup erased \/ asked[i].doubt

RowOK(r) ==
    /\ launched[r].parent < r
    /\ launched[r].key # NoKey =>
          Cardinality(Calls(r)) = Len(ItemsOf(launched[r].kind))
    /\ launched[r].identity # Nothing => Accounted(launched[r].identity)

KeysOK == \A r, k \in RowIds :
    launched[r].key = launched[k].key => r = k \/ launched[r].key = NoKey

Early == {"unasked", "identity", "insert", "reading"}

\* What a request asks for.
AskOK(q) ==
    /\ asked[q].at \in Early => asked[q].run = 0 /\ ~asked[q].doubt
    /\ asked[q].at # "unasked" => asked[q].kind \in Single \cup Batch
    /\ asked[q].at = "identity" => asked[q].identity = q
    /\ asked[q].at = "reading" => asked[q].identity = Nothing /\ asked[q].source # 0
    /\ asked[q].key # NoKey => asked[q].source = 0
    /\ asked[q].at # "unasked" /\ asked[q].source = 0 => asked[q].items = ItemsOf(asked[q].kind)

\* What it is answered with.
AnswerOK(q) ==
    asked[q].run # 0 =>
        /\ asked[q].at \in {"done", "dropping", "dead"} /\ asked[q].run \in RowIds
        /\ launched[asked[q].run].key = asked[q].key
        /\ asked[q].kind = launched[asked[q].run].kind =>
              Cardinality(Calls(asked[q].run)) = Len(asked[q].items)

\* Its identity, or the one it copies.
IdentityOK(q) ==
    /\ asked[q].identity = q => asked[q].source = 0 /\ asked[q].kind \in {"discovery", "redteam"}
    /\ asked[q].identity \notin {q, Nothing} =>
          /\ asked[q].source \in RowIds
          /\ launched[asked[q].source].identity = asked[q].identity
    /\ q \in identities =>
          /\ asked[q].identity = q /\ asked[q].at \in {"insert", "dropping", "dead", "done"}
          /\ asked[q].at = "done" => asked[q].kind = "discovery" \/ HasRow(q)
    /\ asked[q].at = "insert" /\ asked[q].identity = q => q \in identities \cup erased
    /\ HasRow(q) => asked[q].doubt \/ asked[q].at \in {"done", "dead", "refused"}

RequestOK(q) == AskOK(q) /\ AnswerOK(q) /\ IdentityOK(q)

RequestInv ==
    /\ RequestsTyped /\ KeysOK
    /\ \A r \in RowIds : RowOK(r)
    /\ \A q \in Requests : RequestOK(q)

-----------------------------------------------------------------------------
(* What a batch makes calls of. *)

LEMMA FunctionIsASequence ==
    ASSUME NEW S, NEW n \in Nat, NEW f \in [1..n -> S]
    PROVE  f \in Seq(S) /\ Len(f) = n
BY SeqDef

LEMMA ItemsAreASequence ==
    SetToSeq(Items) \in Seq(Items) /\ SetToSeq(Items) # << >>
<1>1. IsFiniteSet(Items) /\ Items # {}
  BY RequestAssumption
<1>2. PICK n \in Nat : ExistsBijection(1..n, Items)
  BY <1>1, FS_NatBijection
<1>3. Cardinality(Items) = n
  <2>1. IsFiniteSet(1..n) /\ Cardinality(1..n) = n
    BY FS_Interval
  <2> QED BY <1>2, <2>1, FS_Bijection
<1>4. PICK f : f \in Bijection(1..n, Items)
  BY <1>2 DEF ExistsBijection
<1>5. f \in [1..n -> Items] /\ IsInjective(f)
  BY <1>4 DEF Bijection, Injection, IsInjective
<1>6. SetToSeq(Items) \in [1..n -> Items]
  BY <1>3, <1>5 DEF SetToSeq
<1>7. SetToSeq(Items) \in Seq(Items) /\ Len(SetToSeq(Items)) = n
  BY <1>6, FunctionIsASequence
<1>8. n # 0
  BY <1>1, <1>3, FS_EmptySet
<1> QED BY <1>7, <1>8

LEMMA ItemsOfKind ==
    ASSUME NEW kind
    PROVE  ItemsOf(kind) \in Seq(Items \cup {Nothing}) /\ (ItemsOf(kind) = << >> <=> kind \notin Batch)
<1>1. SetToSeq(Items) \in Seq(Items \cup {Nothing})
  BY ItemsAreASequence
<1> QED BY <1>1, ItemsAreASequence DEF ItemsOf

-----------------------------------------------------------------------------
(* The rows a request inserts. *)

NewRows(q) == IF asked[q].items = << >> THEN NewRun(q) ELSE NewBatch(q)

Extended(u, s, e, t) ==
    /\ Len(u) = Len(s) + 1 + Len(t) /\ u[Len(s) + 1] = e
    /\ \A r \in 1..Len(s) : u[r] = s[r]
    /\ \A r \in (Len(s) + 2)..Len(u) : r - (Len(s) + 1) \in 1..Len(t) /\ u[r] = t[r - (Len(s) + 1)]

LEMMA AppendedAndMore ==
    ASSUME NEW S, NEW s \in Seq(S), NEW e \in S, NEW t \in Seq(S)
    PROVE  Append(s, e) \o t \in Seq(S) /\ Extended(Append(s, e) \o t, s, e, t)
<1> DEFINE a == Append(s, e)
           u == a \o t
           n == Len(s)
           k == Len(t)
<1>1. /\ a \in Seq(S) /\ Len(a) = n + 1 /\ a[n + 1] = e /\ \A r \in 1..n : a[r] = s[r]
      /\ n \in Nat /\ k \in Nat
  OBVIOUS
<1>2. /\ u \in Seq(S) /\ Len(u) = Len(a) + k
      /\ \A i \in 1..Len(a) + k : u[i] = IF i <= Len(a) THEN a[i] ELSE t[i - Len(a)]
  <2> HIDE DEF a
  <2> QED BY <1>1, ConcatProperties
<1> HIDE DEF a, u, n, k
<1>3. /\ Len(u) = n + 1 + k
      /\ \A r \in 1..(n + 1 + k) : u[r] = IF r <= n + 1 THEN a[r] ELSE t[r - (n + 1)]
  BY <1>1, <1>2
<1>4. \A r \in (n + 2)..(n + 1 + k) : r - (n + 1) \in 1..k /\ u[r] = t[r - (n + 1)]
  BY <1>1, <1>3
<1>5. u[n + 1] = e /\ \A r \in 1..n : u[r] = s[r]
  BY <1>1, <1>3
<1>6. u \in Seq(S) /\ Extended(u, s, e, t)
  BY <1>2, <1>3, <1>4, <1>5 DEF Extended, n, k
<1> QED BY <1>6 DEF u, a

\* They come after the others, and one of them is the answer.
LEMMA RowsAdded ==
    ASSUME RequestInv, NEW q \in Requests, asked[q].at = "insert"
    PROVE  /\ NewRows(q) \in Seq(RequestRows)
           /\ Len(NewRows(q)) = Len(launched) + 1 + Len(asked[q].items)
           /\ \A r \in RowIds : NewRows(q)[r] = launched[r]
           /\ NewRows(q)[Len(launched) + 1].key = asked[q].key
           /\ NewRows(q)[Len(launched) + 1].kind = asked[q].kind
           /\ NewRows(q)[Len(launched) + 1].parent = 0
           /\ \A r \in (Len(launched) + 2)..Len(NewRows(q)) :
                 /\ NewRows(q)[r].parent = Len(launched) + 1
                 /\ NewRows(q)[r].key = NoKey
           /\ \A r \in (Len(launched) + 1)..Len(NewRows(q)) :
                 NewRows(q)[r].identity \in {asked[q].identity, Nothing}
           /\ NewRows(q)[Len(NewRows(q))].identity = asked[q].identity
<1> DEFINE n == Len(launched)
           k == Len(asked[q].items)
<1>1. /\ launched \in Seq(RequestRows) /\ asked[q] \in AskedRequests
      /\ asked[q].kind \in Single \cup Batch
  BY DEF RequestInv, RequestsTyped, RequestOK, AskOK
<1>2. n \in Nat /\ k \in Nat /\ asked[q].items \in Seq(Items \cup {Nothing})
  BY <1>1 DEF AskedRequests
<1>3. CASE asked[q].items = << >>
  <2> DEFINE new == Run(asked[q].kind, asked[q].key, 0, Nothing, asked[q].identity, asked[q].source)
  <2>1. NewRows(q) = Append(launched, new)
    BY <1>3 DEF NewRows, NewRun
  <2>2. /\ new \in RequestRows /\ new.kind = asked[q].kind /\ new.key = asked[q].key
        /\ new.parent = 0 /\ new.identity = asked[q].identity
    BY <1>1 DEF Run, RequestRows, AskedRequests
  <2>3. k = 0
    BY <1>3
  <2> HIDE DEF new
  <2>4. /\ NewRows(q) \in Seq(RequestRows) /\ Len(NewRows(q)) = n + 1
        /\ NewRows(q)[n + 1] = new /\ \A r \in 1..n : NewRows(q)[r] = launched[r]
    BY <1>1, <2>1, <2>2
  <2>5. \A r \in (n + 2)..(n + 1) : FALSE
    BY <1>2
  <2>6. \A r \in (n + 1)..(n + 1) : r = n + 1
    BY <1>2
  <2> QED BY <1>2, <2>2, <2>3, <2>4, <2>5, <2>6 DEF RowIds
<1>4. CASE asked[q].items # << >>
  <2> DEFINE kindOf == IF asked[q].source = 0 THEN CallKind(asked[q].kind) ELSE "simulation"
             head == Run(asked[q].kind, asked[q].key, 0, Nothing, Nothing, asked[q].source)
             call(i) == Run(kindOf, NoKey, n + 1, asked[q].items[i], asked[q].identity, 0)
             tail == [i \in 1..k |-> call(i)]
  <2>1. NewRows(q) = Append(launched, head) \o tail
    BY <1>4 DEF NewRows, NewBatch
  <2>2. /\ head \in RequestRows /\ head.kind = asked[q].kind /\ head.key = asked[q].key
        /\ head.parent = 0 /\ head.identity = Nothing
    BY <1>1 DEF Run, RequestRows, AskedRequests
  <2>3. ASSUME NEW i \in 1..k
        PROVE  /\ tail[i] \in RequestRows /\ tail[i].key = NoKey /\ tail[i].parent = n + 1
               /\ tail[i].identity = asked[q].identity
    <3>1. asked[q].items[i] \in Items \cup {Nothing}
      BY <1>2
    <3>2. kindOf \in Single \cup Batch
      BY DEF CallKind, Single, Batch
    <3> QED BY <1>1, <1>2, <3>1, <3>2 DEF Run, RequestRows, AskedRequests
  <2>4. tail \in Seq(RequestRows) /\ Len(tail) = k
    <3>1. tail \in [1..k -> RequestRows]
      BY <2>3
    <3> QED BY <1>2, <3>1, FunctionIsASequence
  <2>5. k # 0
    BY <1>2, <1>4, EmptySeq
  <2> HIDE DEF head, tail
  <2>6. NewRows(q) \in Seq(RequestRows) /\ Extended(NewRows(q), launched, head, tail)
    BY <1>1, <2>1, <2>2, <2>4, AppendedAndMore
  <2>7. /\ Len(NewRows(q)) = n + 1 + k
        /\ NewRows(q)[n + 1] = head /\ \A r \in 1..n : NewRows(q)[r] = launched[r]
        /\ \A r \in (n + 2)..Len(NewRows(q)) :
              r - (n + 1) \in 1..k /\ NewRows(q)[r] = tail[r - (n + 1)]
    BY <2>4, <2>6 DEF Extended
  <2> HIDE DEF n, k
  <2>8. ASSUME NEW r \in (n + 1)..Len(NewRows(q)) PROVE r = n + 1 \/ r \in (n + 2)..Len(NewRows(q))
    BY <1>2, <2>7
  <2>9. Len(NewRows(q)) \in (n + 2)..Len(NewRows(q))
    BY <1>2, <2>5, <2>7
  <2>10. /\ \A r \in (n + 2)..Len(NewRows(q)) :
               /\ NewRows(q)[r].parent = n + 1 /\ NewRows(q)[r].key = NoKey
               /\ NewRows(q)[r].identity = asked[q].identity
    BY <2>3, <2>7
  <2>11. \A r \in (n + 1)..Len(NewRows(q)) : NewRows(q)[r].identity \in {asked[q].identity, Nothing}
    BY <2>2, <2>7, <2>8, <2>10
  <2> QED BY <2>2, <2>6, <2>7, <2>9, <2>10, <2>11 DEF RowIds, n, k
<1> QED BY <1>3, <1>4

\* The requests' view of the rows is what it was, and there is one more run, p.
Inserts(q, p) ==
    /\ launched' \in Seq(RequestRows)
    /\ \A r \in RowIds : r \in RowIds' /\ launched'[r] = launched[r] /\ Calls(r)' = Calls(r)
    /\ p \in RowIds' \ RowIds
    /\ launched'[p].key = asked[q].key /\ launched'[p].kind = asked[q].kind
    /\ Cardinality(Calls(p)') = Len(asked[q].items)
    /\ \A r \in RowIds' \ RowIds :
          /\ launched'[r].parent < r
          /\ r # p => launched'[r].key = NoKey
          /\ launched'[r].identity \in {asked[q].identity, Nothing}
    /\ \E r \in RowIds' : launched'[r].identity = asked[q].identity

LEMMA InsertedRows ==
    ASSUME RequestInv, NEW q \in Requests, asked[q].at = "insert", launched' = NewRows(q),
           NEW p, p = Len(launched) + 1
    PROVE  Inserts(q, p)
<1> DEFINE n == Len(launched)
           k == Len(asked[q].items)
<1>1. /\ launched' \in Seq(RequestRows) /\ Len(launched') = n + 1 + k
      /\ \A r \in RowIds : launched'[r] = launched[r]
      /\ launched'[n + 1].key = asked[q].key /\ launched'[n + 1].kind = asked[q].kind
      /\ launched'[n + 1].parent = 0
      /\ \A r \in (n + 2)..Len(launched') : launched'[r].parent = n + 1 /\ launched'[r].key = NoKey
      /\ \A r \in (n + 1)..Len(launched') : launched'[r].identity \in {asked[q].identity, Nothing}
      /\ launched'[Len(launched')].identity = asked[q].identity
  BY RowsAdded
<1>2. n \in Nat /\ k \in Nat
  BY DEF RequestInv, RequestsTyped, AskedRequests
<1>3. \A r \in RowIds : launched[r].parent \in Nat /\ launched[r].parent < r
  <2>1. \A r \in RowIds : launched[r] \in RequestRows
    BY DEF RequestInv, RequestsTyped, RowIds
  <2> QED BY <2>1 DEF RequestInv, RequestRows, RowOK
<1> HIDE DEF k
<1> HIDE DEF n
<1>4. RowIds = 1..n /\ RowIds' = 1..(n + 1 + k)
  <2>1. RowIds = 1..n /\ RowIds' = 1..Len(launched')
    BY DEF RowIds, n
  <2> QED BY <1>1, <2>1
<1>5. ASSUME NEW r \in RowIds' \ RowIds PROVE r = n + 1 \/ r \in (n + 2)..Len(launched')
  BY <1>1, <1>2, <1>4
<1>6. ASSUME NEW r \in RowIds PROVE r \in RowIds' /\ Calls(r)' = Calls(r)
  <2>1. ASSUME NEW c \in RowIds' \ RowIds PROVE launched'[c].parent # r
    <3>1. r \in Nat /\ r # 0 /\ r <= n
      BY <1>2, <1>4
    <3>2. CASE c = n + 1
      BY <1>1, <3>1, <3>2
    <3>3. CASE c \in (n + 2)..Len(launched')
      <4>1. launched'[c].parent = n + 1
        BY <1>1, <3>3
      <4> QED BY <1>2, <3>1, <4>1
    <3> QED BY <1>5, <3>2, <3>3
  <2>2. RowIds \subseteq RowIds'
    BY <1>2, <1>4
  <2> QED BY <1>1, <2>1, <2>2 DEF Calls
<1>7. Cardinality(Calls(p)') = k
  <2>0. p = n + 1
    BY DEF n
  <2>1. Calls(p)' = (n + 2)..(n + 1 + k)
    <3>1. ASSUME NEW c \in RowIds PROVE launched'[c].parent # n + 1
      BY <1>1, <1>2, <1>3, <1>4
    <3>2. launched'[n + 1].parent # n + 1
      BY <1>1, <1>2
    <3>3. \A c \in (n + 2)..(n + 1 + k) : c \in RowIds' /\ launched'[c].parent = n + 1
      BY <1>1, <1>2, <1>4
    <3>4. \A c \in RowIds' : c \in RowIds \/ c = n + 1 \/ c \in (n + 2)..(n + 1 + k)
      BY <1>1, <1>5
    <3>5. Calls(p)' = {c \in RowIds' : launched'[c].parent = p}
      BY DEF Calls
    <3> QED BY <2>0, <3>1, <3>2, <3>3, <3>4, <3>5
  <2>2. n + 2 \in Int /\ n + 1 + k \in Int
    BY <1>2
  <2>3. Cardinality((n + 2)..(n + 1 + k)) = IF n + 2 > n + 1 + k THEN 0 ELSE (n + 1 + k) - (n + 2) + 1
    BY <2>2, FS_Interval
  <2> QED BY <1>2, <2>1, <2>3
<1>8. n + 1 \in RowIds' /\ Len(launched') \in RowIds'
  BY <1>1, <1>2, <1>4
<1>9. \E r \in RowIds' : launched'[r].identity = asked[q].identity
  BY <1>1, <1>8
<1>10. ASSUME NEW r \in RowIds' \ RowIds
      PROVE  /\ launched'[r].parent < r /\ (r # n + 1 => launched'[r].key = NoKey)
             /\ launched'[r].identity \in {asked[q].identity, Nothing}
  BY <1>1, <1>2, <1>4, <1>5
<1>11. p = n + 1 /\ p \notin RowIds
  BY <1>2, <1>4 DEF n
<1> QED BY <1>1, <1>6, <1>7, <1>8, <1>9, <1>10, <1>11 DEF Inserts, k

-----------------------------------------------------------------------------
(* What a step of request q means to the others and to their rows. *)

RequestFrame(q) ==
    /\ RequestsTyped'
    /\ \A p \in Requests \ {q} :
          /\ asked'[p] = asked[p]
          /\ (p \in identities' <=> p \in identities) /\ (p \in erased' <=> p \in erased)
    /\ \A r \in RowIds :
          /\ r \in RowIds' /\ Calls(r)' = Calls(r)
          /\ launched'[r].key = launched[r].key /\ launched'[r].kind = launched[r].kind
          /\ launched'[r].parent = launched[r].parent
          /\ launched'[r].identity = launched[r].identity
    /\ \A r \in RowIds' \ RowIds :
          launched'[r].identity \in {q, Nothing} \/ HasRow(launched'[r].identity)

LEMMA OtherRequests ==
    ASSUME RequestInv, NEW q, RequestFrame(q), NEW p \in Requests \ {q}
    PROVE  RequestOK(p)'
<1>1. /\ asked'[p] = asked[p]
      /\ (p \in identities' <=> p \in identities) /\ (p \in erased' <=> p \in erased)
  BY DEF RequestFrame
<1>2. AskOK(p) /\ AnswerOK(p) /\ IdentityOK(p)
  BY DEF RequestInv, RequestOK
<1>3. AskOK(p)'
  BY <1>1, <1>2 DEF AskOK
<1>4. AnswerOK(p)'
  <2> DEFINE r == asked[p].run
  <2>1. SUFFICES ASSUME r # 0
                 PROVE  /\ asked[p].at \in {"done", "dropping", "dead"} /\ r \in RowIds'
                        /\ launched'[r].key = asked[p].key
                        /\ asked[p].kind = launched'[r].kind =>
                              Cardinality({c \in RowIds' : launched'[c].parent = r}) = Len(asked[p].items)
    BY <1>1 DEF AnswerOK, Calls
  <2>2. /\ asked[p].at \in {"done", "dropping", "dead"} /\ r \in RowIds
        /\ launched[r].key = asked[p].key
        /\ asked[p].kind = launched[r].kind => Cardinality(Calls(r)) = Len(asked[p].items)
    BY <1>2, <2>1 DEF AnswerOK
  <2> HIDE DEF r
  <2>3. /\ r \in RowIds' /\ launched'[r].key = launched[r].key /\ launched'[r].kind = launched[r].kind
        /\ {c \in RowIds' : launched'[c].parent = r} = Calls(r)
    BY <2>2 DEF RequestFrame, Calls
  <2> QED BY <2>2, <2>3
<1>5. IdentityOK(p)'
  <2>1. HasRow(p)' <=> HasRow(p)
    <3>1. p # Nothing
      BY RequestAssumption
    <3> QED BY <3>1 DEF HasRow, RequestFrame
  <2> QED BY <1>1, <1>2, <2>1 DEF IdentityOK, RequestFrame
<1> QED BY <1>3, <1>4, <1>5 DEF RequestOK

\* What has to be shown of a step of request q; of a step of none of them, if q is none.
RequestPreserves(q) ==
    /\ RequestFrame(q) /\ KeysOK'
    /\ \A r \in RowIds' \ RowIds : RowOK(r)'
    /\ q \in Requests => RequestOK(q)' /\ (HasRow(q) => Accounted(q)')

LEMMA PreservesRequests ==
    ASSUME RequestInv, NEW q, RequestPreserves(q)
    PROVE  RequestInv'
<1>1. ASSUME NEW p \in Requests PROVE RequestOK(p)'
  BY OtherRequests DEF RequestPreserves
<1>2. ASSUME NEW r \in RowIds' PROVE RowOK(r)'
  <2>1. CASE r \notin RowIds
    BY <2>1 DEF RequestPreserves
  <2>2. CASE r \in RowIds
    <3>1. /\ Calls(r)' = Calls(r)
          /\ launched'[r].key = launched[r].key /\ launched'[r].kind = launched[r].kind
          /\ launched'[r].parent = launched[r].parent
          /\ launched'[r].identity = launched[r].identity
      BY <2>2 DEF RequestPreserves, RequestFrame
    <3>2. RowOK(r) /\ launched[r] \in RequestRows
      BY <2>2 DEF RequestInv, RequestsTyped, RowIds
    <3>3. ASSUME NEW i, i = launched[r].identity, i # Nothing PROVE Accounted(i)'
      <4>1. launched[r].identity \in Requests \cup {Nothing}
        BY <3>2 DEF RequestRows
      <4>2. ASSUME NEW j \in Requests \ {q}, Accounted(j) PROVE Accounted(j)'
        BY <4>2 DEF RequestPreserves, RequestFrame, Accounted
      <4>3. HasRow(launched[r].identity)
        BY <2>2 DEF HasRow
      <4> QED BY <3>2, <3>3, <4>1, <4>2, <4>3 DEF RowOK, RequestPreserves
    <3> QED BY <3>1, <3>2, <3>3 DEF RowOK, Accounted
  <2> QED BY <2>1, <2>2
<1> QED BY <1>1, <1>2 DEF RequestInv, RequestPreserves, RequestFrame

-----------------------------------------------------------------------------
(* The steps of a request that insert nothing. *)

LEMMA QuietFrame ==
    ASSUME RequestInv, NEW q, UNCHANGED launched, asked' \in [Requests -> AskedRequests],
           identities' \subseteq Requests, erased' \subseteq Requests, mishaps' \in Nat,
           \A p \in Requests \ {q} :
              /\ asked'[p] = asked[p]
              /\ (p \in identities' <=> p \in identities) /\ (p \in erased' <=> p \in erased)
    PROVE  /\ RequestFrame(q) /\ KeysOK' /\ \A r \in RowIds' \ RowIds : RowOK(r)'
           /\ \A p : HasRow(p)' <=> HasRow(p)
<1>1. RowIds' = RowIds
  BY DEF RowIds
<1>2. \A r \in RowIds : Calls(r)' = Calls(r)
  BY <1>1 DEF Calls
<1>3. RequestsTyped'
  BY DEF RequestInv, RequestsTyped
<1>4. KeysOK'
  BY <1>1 DEF RequestInv, KeysOK
<1>5. \A p : HasRow(p)' <=> HasRow(p)
  BY <1>1 DEF HasRow
<1> QED BY <1>1, <1>2, <1>3, <1>4, <1>5 DEF RequestFrame

\* The same, from the request as it is after the step.
LEMMA QuietStep ==
    ASSUME RequestInv, NEW q \in Requests, UNCHANGED launched,
           NEW body \in AskedRequests, asked' = [asked EXCEPT ![q] = body],
           identities' \subseteq Requests, erased' \subseteq Requests, mishaps' \in Nat,
           \A p \in Requests \ {q} :
              (p \in identities' <=> p \in identities) /\ (p \in erased' <=> p \in erased),
           RequestOK(q)', HasRow(q) => Accounted(q)'
    PROVE  RequestPreserves(q)
<1>1. /\ asked' \in [Requests -> AskedRequests]
      /\ \A p \in Requests \ {q} : asked'[p] = asked[p]
  BY DEF RequestInv, RequestsTyped
<1>2. /\ RequestFrame(q) /\ KeysOK' /\ \A r \in RowIds' \ RowIds : RowOK(r)'
  BY <1>1, QuietFrame
<1> QED BY <1>2 DEF RequestPreserves

LEMMA AskStep ==
    ASSUME RequestInv, NEW q \in Requests, NEW kind \in Single \cup Batch,
           NEW key \in Keys \cup {NoKey}, NEW mine_ \in BOOLEAN, NEW identity \in {q, Nothing},
           Ask(q, kind, key, mine_, identity)
    PROVE  RequestPreserves(q)
<1> DEFINE body == [Unasked EXCEPT !.at = IF identity = Nothing THEN "insert" ELSE "identity",
                                   !.kind = kind, !.key = key, !.mine = mine_,
                                   !.identity = identity,
                                   !.items = IF kind \in Batch THEN SetToSeq(Items) ELSE << >>]
<1>1. /\ asked[q].at = "unasked" /\ asked' = [asked EXCEPT ![q] = body]
      /\ UNCHANGED <<launched, identities, erased, mishaps>>
      /\ identity # Nothing => kind \in {"discovery", "redteam"}
  BY DEF Ask
<1>2. q # Nothing
  BY RequestAssumption
<1>3. body \in AskedRequests
  <2>1. ItemsOf(kind) \in Seq(Items \cup {Nothing})
    BY ItemsOfKind
  <2> QED BY <2>1, ZenonT(30) DEF Unasked, AskedRequests, ItemsOf
<1>4. /\ body.at = IF identity = Nothing THEN "insert" ELSE "identity"
      /\ body.kind = kind /\ body.identity = identity /\ body.source = 0 /\ body.run = 0
      /\ ~body.doubt /\ body.items = ItemsOf(kind)
  BY DEF Unasked, ItemsOf
<1> HIDE DEF body
<1>5. asked'[q] = body
  BY <1>1 DEF RequestInv, RequestsTyped
<1>6. q \notin identities /\ ~HasRow(q)
  BY <1>1 DEF RequestInv, RequestOK, IdentityOK, AskOK, Early
<1>7. ~HasRow(q)'
  BY <1>1, <1>6 DEF HasRow, RowIds
<1>8. RequestOK(q)'
  <2>1. AskOK(q)'
    BY <1>4, <1>5 DEF AskOK, Early
  <2>2. AnswerOK(q)'
    BY <1>4, <1>5 DEF AnswerOK
  <2>3. IdentityOK(q)'
    BY <1>1, <1>2, <1>4, <1>5, <1>6, <1>7 DEF IdentityOK
  <2> QED BY <2>1, <2>2, <2>3 DEF RequestOK
<1>9. /\ identities' = identities /\ erased' = erased /\ mishaps' = mishaps
      /\ identities \subseteq Requests /\ erased \subseteq Requests /\ mishaps \in Nat
  BY <1>1 DEF RequestInv, RequestsTyped
<1> QED BY <1>1, <1>3, <1>6, <1>8, <1>9, QuietStep

\* A request that only goes on to where `at' says.
LEMMA MoveStep ==
    ASSUME RequestInv, NEW q \in Requests, UNCHANGED <<launched, erased>>, mishaps' \in Nat,
           NEW at \in {"insert", "dropping", "refused", "done", "dead"}, Moves(q, at),
           identities' \subseteq Requests,
           \A p \in Requests \ {q} : p \in identities' <=> p \in identities,
           asked[q].at # "unasked", at = "insert" => asked[q].at = "identity",
           asked[q].run # 0 => at \in {"done", "dropping", "dead"},
           q \in identities' =>
              /\ asked[q].identity = q /\ at \in {"insert", "dropping", "dead"},
           at = "insert" => q \in identities',
           HasRow(q) => asked[q].doubt
    PROVE  RequestPreserves(q)
<1> DEFINE body == [asked[q] EXCEPT !.at = at]
<1>1. asked[q] \in AskedRequests /\ asked \in [Requests -> AskedRequests] /\ RequestOK(q)
      /\ erased \subseteq Requests
  BY DEF RequestInv, RequestsTyped
<1>2. /\ body \in AskedRequests /\ body.at = at /\ body.kind = asked[q].kind
      /\ body.key = asked[q].key /\ body.source = asked[q].source /\ body.run = asked[q].run
      /\ body.identity = asked[q].identity /\ body.items = asked[q].items
      /\ body.doubt = asked[q].doubt
  BY <1>1 DEF AskedRequests
<1>3. asked' = [asked EXCEPT ![q] = body]
  BY <1>1 DEF Moves
<1> HIDE DEF body
<1>4. asked'[q] = body
  BY <1>1, <1>3
<1>5. RowIds' = RowIds /\ (HasRow(q)' <=> HasRow(q))
  BY DEF RowIds, HasRow
<1>6. AskOK(q)'
  BY <1>1, <1>2, <1>4 DEF RequestOK, AskOK, Early
<1>7. AnswerOK(q)'
  BY <1>1, <1>2, <1>4, <1>5 DEF RequestOK, AnswerOK, Calls
<1>8. IdentityOK(q)'
  BY <1>1, <1>2, <1>4, <1>5 DEF RequestOK, IdentityOK
<1>9. HasRow(q) => Accounted(q)'
  BY <1>2, <1>4 DEF Accounted
<1> QED BY <1>1, <1>2, <1>3, <1>6, <1>7, <1>8, <1>9, QuietStep DEF RequestOK

\* What the invariant says of a request that has not been answered.
LEMMA EarlyRequest ==
    ASSUME RequestInv, NEW q \in Requests, asked[q].at \in Early
    PROVE  asked[q].run = 0 /\ ~asked[q].doubt /\ ~HasRow(q)
BY DEF RequestInv, RequestOK, AskOK, IdentityOK, Early

LEMMA StoreIdentityStep ==
    ASSUME RequestInv, NEW q \in Requests, StoreIdentity(q) PROVE RequestPreserves(q)
<1>1. /\ asked[q].at = "identity" /\ identities' = identities \cup {q} /\ Moves(q, "insert")
      /\ UNCHANGED <<launched, erased, mishaps>>
  BY DEF StoreIdentity
<1>2. asked[q].identity = q /\ identities \subseteq Requests /\ mishaps \in Nat
  BY <1>1 DEF RequestInv, RequestsTyped, RequestOK, AskOK
<1>3. asked[q].run = 0 /\ ~HasRow(q)
  BY <1>1, EarlyRequest DEF Early
<1> QED BY <1>1, <1>2, <1>3, MoveStep

LEMMA DropIdentityStep ==
    ASSUME RequestInv, NEW q \in Requests, DropIdentity(q) PROVE RequestPreserves(q)
<1>1. /\ asked[q].at = "dropping" /\ identities' = identities \ {q}
      /\ Moves(q, IF asked[q].run = 0 THEN "refused" ELSE "done")
      /\ UNCHANGED <<launched, erased, mishaps>>
  BY DEF DropIdentity
<1>2. identities \subseteq Requests /\ mishaps \in Nat /\ (HasRow(q) => asked[q].doubt)
  BY <1>1 DEF RequestInv, RequestsTyped, RequestOK, IdentityOK
<1>3. CASE asked[q].run = 0
  <2>1. Moves(q, "refused")
    BY <1>1, <1>3
  <2> QED BY <1>1, <1>2, <1>3, <2>1, MoveStep
<1>4. CASE asked[q].run # 0
  <2>1. Moves(q, "done")
    BY <1>1, <1>4
  <2> QED BY <1>1, <1>2, <1>4, <2>1, MoveStep
<1> QED BY <1>3, <1>4

LEMMA RequestCrashStep ==
    ASSUME RequestInv, NEW q \in Requests, Crash(q) PROVE RequestPreserves(q)
<1>1. /\ asked[q].at \in {"insert", "dropping", "reading"} /\ Moves(q, "dead")
      /\ mishaps' = mishaps + 1 /\ UNCHANGED <<launched, identities, erased>>
  BY DEF Crash, Fault
<1>2. identities \subseteq Requests /\ mishaps + 1 \in Nat /\ IdentityOK(q)
  BY <1>1 DEF RequestInv, RequestsTyped, RequestOK
<1>3. HasRow(q) => asked[q].doubt
  BY <1>1, <1>2 DEF IdentityOK
<1>4. q \in identities => asked[q].identity = q
  BY <1>2 DEF IdentityOK
<1> QED BY <1>1, <1>2, <1>3, <1>4, MoveStep

\* An insert that is refused, or raises before it commits.
LEMMA RaiseStep ==
    ASSUME RequestInv, NEW q \in Requests, asked[q].at = "insert", Moves(q, Raises(q)),
           UNCHANGED <<launched, identities, erased>>, mishaps' \in Nat
    PROVE  RequestPreserves(q)
<1>1. asked[q].run = 0 /\ ~HasRow(q)
  BY EarlyRequest DEF Early
<1>2. identities \subseteq Requests /\ (q \in identities => asked[q].identity = q)
  BY DEF RequestInv, RequestsTyped, RequestOK, IdentityOK
<1>3. Raises(q) \in {"dropping", "refused"} /\ (q \in identities => Raises(q) = "dropping")
  BY <1>2 DEF Raises, Stored
<1> QED BY <1>1, <1>2, <1>3, MoveStep

LEMMA AskRerunStep ==
    ASSUME RequestInv, NEW q \in Requests, NEW r \in RowIds, AskRerun(q, r)
    PROVE  RequestPreserves(q)
<1> DEFINE body == [Unasked EXCEPT !.at = IF Calls(r) = {} THEN "insert" ELSE "reading",
                                   !.kind = launched[r].kind, !.source = r,
                                   !.identity = IF Calls(r) = {} THEN launched[r].identity ELSE Nothing]
<1>1. /\ asked[q].at = "unasked" /\ asked' = [asked EXCEPT ![q] = body]
      /\ UNCHANGED <<launched, identities, erased, mishaps>>
  BY DEF AskRerun
<1>2. /\ launched[r] \in RequestRows /\ r \in Nat \ {0}
      /\ identities \subseteq Requests /\ erased \subseteq Requests /\ mishaps \in Nat
      /\ asked \in [Requests -> AskedRequests] /\ RequestOK(q)
  BY DEF RequestInv, RequestsTyped, RowIds
<1>3. body \in AskedRequests
  <2>1. << >> \in Seq(Items \cup {Nothing})
    OBVIOUS
  <2> QED BY <1>2, <2>1 DEF Unasked, AskedRequests, RequestRows
<1>4. /\ body.at \in {"insert", "reading"} /\ body.kind \in Single \cup Batch /\ body.source = r
      /\ body.identity \in {Nothing, launched[r].identity} /\ body.run = 0 /\ ~body.doubt
      /\ body.at = "reading" => body.identity = Nothing
      /\ body.key = NoKey
  BY <1>2 DEF Unasked, RequestRows
<1> HIDE DEF body
<1>5. asked'[q] = body
  BY <1>1, <1>2
<1>6. ~HasRow(q) /\ q \notin identities /\ q # Nothing
  BY <1>1, <1>2, EarlyRequest, RequestAssumption DEF Early, RequestOK, IdentityOK
<1>7. body.identity # q
  BY <1>4, <1>6 DEF HasRow
<1>8. RowIds' = RowIds /\ ~HasRow(q)'
  BY <1>1, <1>6 DEF HasRow, RowIds
<1>9. AskOK(q)' /\ AnswerOK(q)'
  BY <1>2, <1>4, <1>5 DEF AskOK, AnswerOK, Early
<1>10. IdentityOK(q)'
  BY <1>1, <1>4, <1>5, <1>6, <1>7, <1>8 DEF IdentityOK
<1> QED BY <1>1, <1>2, <1>3, <1>6, <1>9, <1>10, QuietStep DEF RequestOK

LEMMA ReadCallsStep ==
    ASSUME RequestInv, NEW q \in Requests, NEW only, ReadCalls(q, only)
    PROVE  RequestPreserves(q)
<1> DEFINE chosen == {c \in Calls(asked[q].source) : only = "all" \/ launched[c].verdict = "fail"}
           n == Cardinality(chosen)
           scenario(c) == IF launched[c].kind = "redteam" THEN Nothing ELSE launched[c].item
<1>1. /\ asked[q].at = "reading" /\ UNCHANGED <<launched, identities, erased, mishaps>>
      /\ \/ Moves(q, "refused")
         \/ \E order \in [1..n -> chosen] :
               asked' = [asked EXCEPT ![q].at = "insert",
                                      ![q].items = [i \in 1..n |-> scenario(order[i])]]
  BY DEF ReadCalls
<1>2. /\ launched \in Seq(RequestRows) /\ asked[q] \in AskedRequests
      /\ identities \subseteq Requests /\ erased \subseteq Requests /\ mishaps \in Nat
      /\ asked \in [Requests -> AskedRequests] /\ RequestOK(q)
  BY DEF RequestInv, RequestsTyped
<1>3. asked[q].run = 0 /\ ~asked[q].doubt /\ ~HasRow(q) /\ q # Nothing
  BY <1>1, EarlyRequest, RequestAssumption DEF Early
<1>4. asked[q].identity = Nothing /\ asked[q].source # 0 /\ q \notin identities
  BY <1>1, <1>2, <1>3 DEF RequestOK, AskOK, IdentityOK
<1>5. CASE Moves(q, "refused")
  BY <1>1, <1>2, <1>3, <1>4, <1>5, MoveStep
<1>6. ASSUME NEW order \in [1..n -> chosen],
             asked' = [asked EXCEPT ![q].at = "insert",
                                    ![q].items = [i \in 1..n |-> scenario(order[i])]]
      PROVE  RequestPreserves(q)
  <2>1. n \in Nat
    <3>1. chosen \subseteq RowIds /\ IsFiniteSet(RowIds)
      <4>1. IsFiniteSet(1..Len(launched))
        BY <1>2, FS_Interval
      <4> QED BY <4>1 DEF Calls, RowIds
    <3>2. IsFiniteSet(chosen)
      BY <3>1, FS_Subset
    <3> QED BY <3>2, FS_CardinalityType
  <2>2. \A c \in chosen : scenario(c) \in Items \cup {Nothing}
    <3>1. \A c \in chosen : launched[c] \in RequestRows
      BY <1>2 DEF Calls, RowIds
    <3> QED BY <3>1 DEF RequestRows
  <2> DEFINE items_ == [i \in 1..n |-> scenario(order[i])]
             body == [asked[q] EXCEPT !.at = "insert", !.items = items_]
  <2> HIDE DEF n, chosen, scenario
  <2>3. items_ \in Seq(Items \cup {Nothing})
    <3>1. items_ \in [1..n -> Items \cup {Nothing}]
      BY <2>2
    <3> QED BY <2>1, <3>1, FunctionIsASequence
  <2> HIDE DEF items_
  <2>4. /\ body \in AskedRequests /\ body.at = "insert" /\ body.kind = asked[q].kind
        /\ body.key = asked[q].key /\ body.source = asked[q].source /\ body.run = asked[q].run
        /\ body.identity = asked[q].identity /\ body.doubt = asked[q].doubt
    BY <1>2, <2>3 DEF AskedRequests
  <2>5. asked' = [asked EXCEPT ![q] = body]
    BY <1>2, <1>6 DEF items_
  <2> HIDE DEF body
  <2>6. asked'[q] = body
    BY <1>2, <2>5
  <2>7. ~HasRow(q)'
    BY <1>1, <1>3 DEF HasRow, RowIds
  <2>8. AskOK(q)' /\ AnswerOK(q)'
    BY <1>1, <1>2, <1>3, <1>4, <2>4, <2>6 DEF RequestOK, AskOK, AnswerOK, Early
  <2>9. IdentityOK(q)'
    BY <1>1, <1>3, <1>4, <2>4, <2>6, <2>7 DEF IdentityOK
  <2> QED BY <1>1, <1>2, <1>3, <2>4, <2>5, <2>8, <2>9, QuietStep DEF RequestOK
<1> QED BY <1>1, <1>5, <1>6

\* A request that is answered with the run that has its key.
LEMMA ReplayStep ==
    ASSUME RequestInv, NEW q \in Requests, asked[q].at = "insert", NEW r \in Named(asked[q].key),
           NEW at \in {"dropping", "done"},
           asked' = [asked EXCEPT ![q].at = at, ![q].run = r],
           q \in identities => at = "dropping" \/ asked[q].items = << >>,
           UNCHANGED <<launched, identities, erased, mishaps>>
    PROVE  RequestPreserves(q)
<1> DEFINE body == [asked[q] EXCEPT !.at = at, !.run = r]
<1>1. /\ launched \in Seq(RequestRows) /\ asked[q] \in AskedRequests
      /\ identities \subseteq Requests /\ erased \subseteq Requests /\ mishaps \in Nat
      /\ asked \in [Requests -> AskedRequests] /\ RequestOK(q)
  BY DEF RequestInv, RequestsTyped
<1>2. r \in RowIds /\ asked[q].key # NoKey /\ launched[r].key = asked[q].key /\ r \in Nat
  BY <1>1 DEF Named, RowIds
<1>3. /\ body \in AskedRequests /\ body.at = at /\ body.kind = asked[q].kind
      /\ body.key = asked[q].key /\ body.source = asked[q].source /\ body.run = r
      /\ body.identity = asked[q].identity /\ body.items = asked[q].items
      /\ body.doubt = asked[q].doubt
  BY <1>1, <1>2 DEF AskedRequests
<1>4. asked' = [asked EXCEPT ![q] = body]
  BY <1>1
<1> HIDE DEF body
<1>5. asked'[q] = body
  BY <1>1, <1>4
<1>6. asked[q].source = 0 /\ asked[q].items = ItemsOf(asked[q].kind) /\ ~HasRow(q)
  BY <1>1, <1>2, EarlyRequest DEF RequestOK, AskOK, Early
<1>7. RowIds' = RowIds /\ ~HasRow(q)' /\ Calls(r)' = Calls(r)
  BY <1>6 DEF RowIds, HasRow, Calls
<1>8. AskOK(q)'
  BY <1>1, <1>3, <1>5 DEF RequestOK, AskOK, Early
<1>9. AnswerOK(q)'
  <2>1. asked[q].kind = launched[r].kind => Cardinality(Calls(r)) = Len(asked[q].items)
    BY <1>2, <1>6 DEF RequestInv, RowOK
  <2>2. asked'[q].run = r
    BY <1>3, <1>5
  <2>3. Calls(asked[q].run)' = Calls(r)
    BY <1>7, <2>2 DEF Calls
  <2> QED BY <1>2, <1>3, <1>5, <1>7, <2>1, <2>2, <2>3 DEF AnswerOK
<1>10. IdentityOK(q)'
  <2>1. IdentityOK(q)
    BY <1>1 DEF RequestOK
  <2>2. q \in identities /\ at = "done" => asked[q].kind = "discovery"
    BY <1>6, <2>1, ItemsOfKind DEF IdentityOK, Batch
  <2> QED BY <1>3, <1>5, <1>7, <2>1, <2>2 DEF IdentityOK
<1> QED BY <1>1, <1>3, <1>4, <1>6, <1>8, <1>9, <1>10, QuietStep DEF RequestOK

LEMMA DeleteProfileStep ==
    ASSUME RequestInv, NEW i \in Requests, DeleteProfile(i) PROVE RequestPreserves(i)
<1>1. /\ i \in identities /\ identities' = identities \ {i} /\ erased' = erased \cup {i}
      /\ mishaps' = mishaps + 1 /\ UNCHANGED <<launched, asked>>
  BY DEF DeleteProfile, Fault
<1>2. /\ asked[i] \in AskedRequests /\ identities \subseteq Requests /\ erased \subseteq Requests
      /\ mishaps \in Nat /\ asked \in [Requests -> AskedRequests] /\ RequestOK(i)
  BY DEF RequestInv, RequestsTyped
<1>3. asked' = [asked EXCEPT ![i] = asked[i]]
  BY <1>1, <1>2
<1>4. RowIds' = RowIds /\ (HasRow(i)' <=> HasRow(i))
  BY <1>1 DEF RowIds, HasRow
<1>5. AskOK(i)' /\ AnswerOK(i)'
  BY <1>1, <1>2 DEF RequestOK, AskOK, AnswerOK, RowIds, Calls
<1>6. IdentityOK(i)'
  BY <1>1, <1>2, <1>4 DEF RequestOK, IdentityOK
<1>7. Accounted(i)'
  BY <1>1 DEF Accounted
<1>8. /\ UNCHANGED launched /\ identities' \subseteq Requests /\ erased' \subseteq Requests
      /\ mishaps' \in Nat
      /\ \A p \in Requests \ {i} :
            (p \in identities' <=> p \in identities) /\ (p \in erased' <=> p \in erased)
  BY <1>1, <1>2
<1>9. RequestOK(i)'
  BY <1>5, <1>6 DEF RequestOK
<1> QED BY <1>2, <1>3, <1>7, <1>8, <1>9, QuietStep

\* A run that ends is the run it was, to the requests.
LEMMA EndRunStep ==
    ASSUME RequestInv, NEW r \in RowIds, NEW verdict \in {"pass", "fail"}, EndRun(r, verdict)
    PROVE  RequestPreserves(Nothing)
<1>1. /\ launched' = [launched EXCEPT ![r].verdict = verdict]
      /\ UNCHANGED <<identities, erased, asked, mishaps>>
  BY DEF EndRun
<1>2. /\ launched \in Seq(RequestRows) /\ launched[r] \in RequestRows /\ RequestsTyped
  BY DEF RequestInv, RequestsTyped, RowIds
<1> DEFINE row == [launched[r] EXCEPT !.verdict = verdict]
<1>3. /\ row \in RequestRows /\ row.key = launched[r].key /\ row.kind = launched[r].kind
      /\ row.parent = launched[r].parent /\ row.identity = launched[r].identity
  BY <1>2 DEF RequestRows
<1>4. launched' = [launched EXCEPT ![r] = row]
  BY <1>1, <1>2
<1> HIDE DEF row
<1>5. launched' \in Seq(RequestRows) /\ Len(launched') = Len(launched)
  BY <1>2, <1>3, <1>4 DEF RowIds
<1>6. RowIds' = RowIds
  BY <1>5 DEF RowIds
<1>7. \A k \in RowIds : launched'[k] = IF k = r THEN row ELSE launched[k]
  BY <1>2, <1>4 DEF RowIds
<1>8. \A k \in RowIds :
         /\ launched'[k].key = launched[k].key /\ launched'[k].kind = launched[k].kind
         /\ launched'[k].parent = launched[k].parent
         /\ launched'[k].identity = launched[k].identity
  BY <1>3, <1>7
<1>9. \A k \in RowIds : Calls(k)' = Calls(k)
  BY <1>6, <1>8 DEF Calls
<1>10. KeysOK'
  BY <1>6, <1>8 DEF RequestInv, KeysOK
<1>11. RequestFrame(Nothing)
  BY <1>1, <1>2, <1>5, <1>6, <1>8, <1>9 DEF RequestFrame, RequestsTyped
<1>12. Nothing \notin Requests
  BY RequestAssumption
<1> QED BY <1>6, <1>10, <1>11, <1>12 DEF RequestPreserves

-----------------------------------------------------------------------------
(* The steps that insert. *)

\* The rows are committed; the request is answered with them, or its answer is lost.
LEMMA InsertStep ==
    ASSUME RequestInv, NEW q \in Requests, asked[q].at = "insert", launched' = NewRows(q),
           Named(asked[q].key) = {}, NEW body,
           \/ body = [asked[q] EXCEPT !.at = "done", !.run = Len(launched) + 1]
           \/ body = [asked[q] EXCEPT !.at = Raises(q), !.doubt = TRUE],
           asked' = [asked EXCEPT ![q] = body],
           UNCHANGED <<identities, erased>>, mishaps' \in Nat
    PROVE  RequestPreserves(q)
<1>1. /\ launched \in Seq(RequestRows) /\ asked[q] \in AskedRequests
      /\ identities \subseteq Requests /\ erased \subseteq Requests
      /\ asked \in [Requests -> AskedRequests] /\ RequestOK(q) /\ KeysOK
  BY DEF RequestInv, RequestsTyped
<1>2. PICK p : p = Len(launched) + 1
  OBVIOUS
<1>3. Inserts(q, p)
  BY <1>2, InsertedRows
<1>4. p \in Nat \ {0} /\ asked[q].run = 0 /\ ~asked[q].doubt /\ ~HasRow(q) /\ q # Nothing
  BY <1>1, <1>2, EarlyRequest, RequestAssumption DEF Early
<1>5. /\ body \in AskedRequests /\ body.kind = asked[q].kind
      /\ body.key = asked[q].key /\ body.source = asked[q].source
      /\ body.identity = asked[q].identity /\ body.items = asked[q].items
      /\ \/ body.at = "done" /\ body.run = p /\ ~body.doubt
         \/ body.at = Raises(q) /\ body.run = 0 /\ body.doubt
      /\ Raises(q) = IF asked[q].identity = q THEN "dropping" ELSE "refused"
  <2>1. Raises(q) = IF asked[q].identity = q THEN "dropping" ELSE "refused"
    BY <1>1, <1>4 DEF Raises, Stored
  <2>2. CASE body = [asked[q] EXCEPT !.at = "done", !.run = Len(launched) + 1]
    BY <1>1, <1>2, <1>4, <2>1, <2>2 DEF AskedRequests
  <2>3. CASE body = [asked[q] EXCEPT !.at = Raises(q), !.doubt = TRUE]
    BY <1>1, <1>4, <2>1, <2>3 DEF AskedRequests
  <2> QED BY <2>2, <2>3
<1>6. asked'[q] = body /\ \A u \in Requests \ {q} : asked'[u] = asked[u]
  BY <1>1
<1>7. RequestsTyped'
  BY <1>1, <1>3, <1>5 DEF RequestsTyped, Inserts
<1>8. KeysOK'
  <2>1. SUFFICES ASSUME NEW r \in RowIds', NEW k \in RowIds',
                        launched'[r].key = launched'[k].key, launched'[r].key # NoKey
                 PROVE  r = k
    BY DEF KeysOK
  <2>2. (r \in RowIds \/ r = p) /\ (k \in RowIds \/ k = p)
    BY <1>3, <2>1 DEF Inserts
  <2>3. \A u \in RowIds :
            \/ launched'[u].key = launched[u].key /\ launched[u].key # asked[q].key
            \/ asked[q].key = NoKey /\ launched'[u].key = launched[u].key
    BY <1>3 DEF Inserts, Named
  <2> QED BY <1>1, <1>3, <2>1, <2>2, <2>3 DEF KeysOK, Inserts
<1>9. ASSUME NEW i, i = asked[q].identity, i # Nothing PROVE Accounted(i)'
  <2>1. CASE i = q
    BY <1>1, <1>9, <2>1 DEF RequestOK, IdentityOK, Accounted
  <2>2. CASE i # q
    <3>1. i \in Requests
      BY <1>1, <1>9 DEF AskedRequests
    <3>2. PICK r \in RowIds : launched[r].identity = i
      BY <1>1, <1>9, <2>2 DEF RequestOK, IdentityOK
    <3>3. Accounted(i)
      BY <1>9, <3>2 DEF RequestInv, RowOK
    <3> QED BY <1>6, <2>2, <3>1, <3>3 DEF Accounted
  <2> QED BY <2>1, <2>2
<1>10. ASSUME NEW r \in RowIds' \ RowIds PROVE RowOK(r)'
  <2>1. /\ launched'[r].parent < r /\ (r # p => launched'[r].key = NoKey)
        /\ launched'[r].identity \in {asked[q].identity, Nothing}
    BY <1>3 DEF Inserts
  <2>2. launched'[r].key # NoKey =>
           Cardinality(Calls(r)') = Len(ItemsOf(launched'[r].kind))
    BY <1>1, <1>3, <2>1 DEF Inserts, RequestOK, AskOK
  <2>3. launched'[r].identity # Nothing => Accounted(launched[r].identity)'
    BY <1>9, <2>1 DEF Accounted
  <2> QED BY <2>1, <2>2, <2>3 DEF RowOK
<1>11. RequestFrame(q)
  <2>1. ASSUME NEW r \in RowIds' \ RowIds
        PROVE  launched'[r].identity \in {q, Nothing} \/ HasRow(launched'[r].identity)
    <3>1. launched'[r].identity \in {asked[q].identity, Nothing}
      BY <1>3 DEF Inserts
    <3>2. asked[q].identity \in {q, Nothing} \/ HasRow(asked[q].identity)
      BY <1>1 DEF RequestOK, IdentityOK, HasRow
    <3> QED BY <3>1, <3>2
  <2> QED BY <1>3, <1>6, <1>7, <2>1 DEF RequestFrame, Inserts
<1>12. AskOK(q)'
  BY <1>1, <1>5, <1>6 DEF RequestOK, AskOK, Early
<1>13. AnswerOK(q)'
  <2>1. Calls(asked[q].run)' = {c \in RowIds' : launched'[c].parent = asked'[q].run}
    BY DEF Calls
  <2>2. asked'[q].run = p => Calls(asked[q].run)' = Calls(p)'
    BY <2>1 DEF Calls
  <2> QED BY <1>3, <1>4, <1>5, <1>6, <2>2 DEF AnswerOK, Inserts
<1>14. IdentityOK(q)'
  <2>1. IdentityOK(q)
    BY <1>1 DEF RequestOK
  <2>2. asked[q].identity = q => HasRow(q)'
    BY <1>3 DEF Inserts, HasRow
  <2> QED BY <1>3, <1>5, <1>6, <2>1, <2>2 DEF IdentityOK, Inserts
<1> QED BY <1>4, <1>8, <1>10, <1>11, <1>12, <1>13, <1>14 DEF RequestPreserves, RequestOK

LEMMA CreateStep ==
    ASSUME RequestInv, NEW q \in Requests, CreateSingle(q) \/ CreateBatch(q)
    PROVE  RequestPreserves(q)
<1>1. asked[q].at = "insert" /\ UNCHANGED <<identities, erased, mishaps>>
  BY DEF CreateSingle, CreateBatch
<1>2. /\ mishaps' \in Nat /\ asked[q] \in AskedRequests /\ asked \in [Requests -> AskedRequests]
      /\ q \in identities => asked[q].identity = q
  BY <1>1 DEF RequestInv, RequestsTyped, RequestOK, IdentityOK
<1>3. \/ Moves(q, Raises(q)) /\ UNCHANGED launched
      \/ /\ \E r \in Named(asked[q].key), at \in {"dropping", "done"} :
               /\ asked' = [asked EXCEPT ![q].at = at, ![q].run = r]
               /\ q \in identities => at = "dropping" \/ asked[q].items = << >>
         /\ UNCHANGED launched
      \/ /\ Named(asked[q].key) = {} /\ launched' = NewRows(q)
         /\ asked' = [asked EXCEPT ![q].at = "done", ![q].run = Len(launched) + 1]
  <2>1. CASE CreateSingle(q)
    <3>1. asked[q].items = << >> /\ NewRows(q) = NewRun(q)
      BY <2>1 DEF CreateSingle, NewRows
    <3> QED BY <2>1, <3>1 DEF CreateSingle
  <2>2. CASE CreateBatch(q)
    <3>1. asked[q].items # << >> /\ NewRows(q) = NewBatch(q)
      BY <2>2 DEF CreateBatch, NewRows
    <3>2. /\ AfterReplay(q) \in {"dropping", "done"}
          /\ q \in identities => AfterReplay(q) = "dropping"
      BY <1>2 DEF AfterReplay, Stored
    <3> QED BY <2>2, <3>1, <3>2 DEF CreateBatch
  <2> QED BY <2>1, <2>2
<1>4. CASE Moves(q, Raises(q)) /\ UNCHANGED launched
  BY <1>1, <1>2, <1>4, RaiseStep
<1>5. ASSUME UNCHANGED launched, NEW r \in Named(asked[q].key), NEW at \in {"dropping", "done"},
             asked' = [asked EXCEPT ![q].at = at, ![q].run = r],
             q \in identities => at = "dropping" \/ asked[q].items = << >>
      PROVE  RequestPreserves(q)
  BY <1>1, <1>5, ReplayStep
<1>6. CASE /\ Named(asked[q].key) = {} /\ launched' = NewRows(q)
           /\ asked' = [asked EXCEPT ![q].at = "done", ![q].run = Len(launched) + 1]
  <2> DEFINE body == [asked[q] EXCEPT !.at = "done", !.run = Len(launched) + 1]
  <2>1. asked' = [asked EXCEPT ![q] = body]
    BY <1>2, <1>6
  <2> QED BY <1>1, <1>2, <1>6, <2>1, InsertStep
<1> QED BY <1>3, <1>4, <1>5, <1>6

LEMMA InsertBreaksStep ==
    ASSUME RequestInv, NEW q \in Requests, NEW committed \in BOOLEAN, InsertBreaks(q, committed)
    PROVE  RequestPreserves(q)
<1>1. /\ asked[q].at = "insert" /\ Named(asked[q].key) = {} /\ mishaps' = mishaps + 1
      /\ asked' = [asked EXCEPT ![q].at = Raises(q), ![q].doubt = committed]
      /\ launched' = IF committed THEN NewRows(q) ELSE launched
      /\ UNCHANGED <<identities, erased>>
  BY DEF InsertBreaks, Fault, NewRows
<1>2. mishaps' \in Nat /\ asked[q] \in AskedRequests /\ asked \in [Requests -> AskedRequests]
  BY <1>1 DEF RequestInv, RequestsTyped
<1>3. CASE committed
  <2> DEFINE body == [asked[q] EXCEPT !.at = Raises(q), !.doubt = TRUE]
  <2>1. asked' = [asked EXCEPT ![q] = body]
    BY <1>1, <1>2, <1>3
  <2> QED BY <1>1, <1>2, <1>3, <2>1, InsertStep
<1>4. CASE ~committed
  <2>1. ~asked[q].doubt
    BY <1>1, EarlyRequest DEF Early
  <2>2. Moves(q, Raises(q))
    BY <1>1, <1>2, <1>4, <2>1, ZenonT(30) DEF Moves, AskedRequests
  <2> QED BY <1>1, <1>2, <1>4, <2>2, RaiseStep
<1> QED BY <1>3, <1>4

-----------------------------------------------------------------------------
(* The theorem. *)

LEMMA RequestInvInit == RequestInit => RequestInv
<1> SUFFICES ASSUME RequestInit PROVE RequestInv
  OBVIOUS
<1>1. /\ launched = << >> /\ identities = {} /\ erased = {} /\ mishaps = 0
      /\ asked = [q \in Requests |-> Unasked]
  BY DEF RequestInit
<1>2. Unasked \in AskedRequests
  <2>1. << >> \in Seq(Items \cup {Nothing})
    OBVIOUS
  <2> QED BY <2>1 DEF Unasked, AskedRequests
<1>3. RequestsTyped
  BY <1>1, <1>2 DEF RequestsTyped
<1>4. RowIds = {}
  BY <1>1 DEF RowIds
<1>5. ASSUME NEW q \in Requests PROVE RequestOK(q)
  <2>1. /\ asked[q].at = "unasked" /\ asked[q].key = NoKey /\ asked[q].source = 0
        /\ asked[q].run = 0 /\ ~asked[q].doubt /\ asked[q].identity = Nothing
    BY <1>1 DEF Unasked
  <2>2. q # Nothing
    BY RequestAssumption
  <2> QED BY <1>1, <1>4, <2>1, <2>2
          DEF RequestOK, AskOK, AnswerOK, IdentityOK, HasRow, Early
<1> QED BY <1>3, <1>4, <1>5 DEF RequestInv, KeysOK

LEMMA RequestInvStep == RequestInv /\ [RequestNext]_requestVars => RequestInv'
<1> SUFFICES ASSUME RequestInv, [RequestNext]_requestVars PROVE RequestInv'
  OBVIOUS
<1>1. \E q : RequestPreserves(q)
  <2>1. CASE UNCHANGED requestVars
    <3>1. Nothing \notin Requests
      BY RequestAssumption
    <3>2. /\ RequestFrame(Nothing) /\ KeysOK' /\ \A r \in RowIds' \ RowIds : RowOK(r)'
      BY <2>1, QuietFrame DEF requestVars, RequestInv, RequestsTyped
    <3> QED BY <3>1, <3>2 DEF RequestPreserves
  <2>2. ASSUME NEW q \in Requests, NEW kind \in Single \cup Batch, NEW key \in Keys \cup {NoKey},
               NEW mine_ \in BOOLEAN, NEW identity \in {q, Nothing},
               Ask(q, kind, key, mine_, identity)
        PROVE  RequestPreserves(q)
    BY <2>2, AskStep
  <2>3. ASSUME NEW q \in Requests,
               \/ StoreIdentity(q) \/ CreateSingle(q) \/ CreateBatch(q) \/ DropIdentity(q)
               \/ \E only \in {"all", "failed"} : ReadCalls(q, only)
               \/ \E committed \in BOOLEAN : InsertBreaks(q, committed)
               \/ Crash(q) \/ DeleteProfile(q)
               \/ \E r \in RowIds : AskRerun(q, r)
        PROVE  RequestPreserves(q)
    BY <2>3, StoreIdentityStep, CreateStep, DropIdentityStep, ReadCallsStep, InsertBreaksStep,
       RequestCrashStep, DeleteProfileStep, AskRerunStep
  <2>4. ASSUME NEW r \in RowIds, NEW verdict \in {"pass", "fail"}, EndRun(r, verdict)
        PROVE  RequestPreserves(Nothing)
    BY <2>4, EndRunStep
  <2> QED BY <2>1, <2>2, <2>3, <2>4 DEF RequestNext
<1> QED BY <1>1, PreservesRequests

\* For any number of requests and any order of their steps, repetitions, lost
\* processes and lost answers: one run has a key, whoever repeats the request is
\* answered with it and with all its calls, and an identity is kept exactly for
\* the runs that use it, but for the cases RetriesAreSafe names.
THEOREM RequestsCanBeRepeated == RequestSpec => []RetriesAreSafe
<1>1. RequestInv => RetriesAreSafe
  <2> SUFFICES ASSUME RequestInv PROVE RetriesAreSafe
    OBVIOUS
  <2>1. KeyNamesOneRun
    <3>1. \A q \in Requests : AnswerOK(q)
      BY DEF RequestInv, RequestOK
    <3> QED BY <3>1 DEF RequestInv, KeyNamesOneRun, KeysOK, AnswerOK, Done
  <2>2. IdentitiesHaveRuns
    <3>1. \A i \in identities : i \in Requests /\ IdentityOK(i)
      BY DEF RequestInv, RequestsTyped, RequestOK
    <3>2. \A r \in RowIds : RowOK(r)
      BY DEF RequestInv
    <3> QED BY <3>1, <3>2 DEF IdentitiesHaveRuns, IdentityOK, RowOK, HasRow, Accounted
  <2> QED BY <2>1, <2>2 DEF RetriesAreSafe
<1> QED BY <1>1, RequestInvInit, RequestInvStep, PTL DEF RequestSpec


-----------------------------------------------------------------------------
(* The scripts of Python metrics: the invariant.                           *)

SandboxTyped ==
    /\ awaited \in [Scripts -> {"ready", "communicating", "reaping", "answered", "raised"}]
    /\ process \in [Scripts -> {"none", "starting", "executing", "writing", "gone"}]
    /\ pipe \in [Scripts -> {"empty", "partial", "whole"}]
    /\ DOMAIN answers = Scripts /\ DOMAIN response = Scripts

\* What a process may still do, and what it says, depends on how far the worker is.
ScriptOK(s) ==
    /\ awaited[s] \in {"ready", "raised"} => process[s] = "none"
    /\ process[s] = "none" => pipe[s] = "empty" /\ awaited[s] \in {"ready", "raised", "answered"}
    /\ pipe[s] # "empty" => process[s] = "gone"
    /\ response[s] \in Results => response[s] \in MayDo[s]
    /\ awaited[s] = "answered" =>
          /\ ~Alive(s)
          /\ answers[s] \in Results => pipe[s] = "whole" /\ answers[s] = response[s]

SandboxInv ==
    /\ SandboxTyped /\ \A s \in Scripts : ScriptOK(s)
    /\ scored = "scored" => \A s \in Scripts : awaited[s] = "answered"

LEMMA SandboxInvInit == SandboxInit => SandboxInv
  BY DEF SandboxInit, SandboxInv, SandboxTyped, ScriptOK, NothingSaid, Results, Alive

\* A process that ends without being done leaves less than its whole answer.
LEMMA DiesStep ==
    ASSUME SandboxInv, NEW s \in Scripts, Alive(s), Dies(s)
    PROVE  /\ process' = [process EXCEPT ![s] = "gone"] /\ UNCHANGED response
           /\ pipe' \in [Scripts -> {"empty", "partial", "whole"}]
           /\ pipe'[s] # "whole" /\ \A k \in Scripts \ {s} : pipe'[k] = pipe[k]
  BY DEF SandboxInv, SandboxTyped, ScriptOK, Dies, Alive

LEMMA RespondStep ==
    ASSUME SandboxInv, NEW s \in Scripts, Alive(s), NEW code, Respond(s, code),
           code \in Results => code \in MayDo[s],
           UNCHANGED <<awaited, answers, scored>>
    PROVE  SandboxInv'
<1> awaited[s] # "answered" /\ pipe[s] = "empty" /\ awaited[s] \notin {"ready", "raised"}
  BY DEF SandboxInv, SandboxTyped, ScriptOK, Alive
<1> QED BY DEF SandboxInv, SandboxTyped, ScriptOK, Alive, Respond

LEMMA ProcessStepKeeps ==
    ASSUME SandboxInv, NEW s \in Scripts, ProcessStep(s), UNCHANGED <<awaited, answers, scored>>
    PROVE  SandboxInv'
<1>1. ASSUME Alive(s), Dies(s) PROVE SandboxInv'
  <2>1. awaited[s] # "answered" /\ awaited[s] \notin {"ready", "raised"}
    BY <1>1 DEF SandboxInv, SandboxTyped, ScriptOK, Alive
  <2> QED BY <1>1, <2>1, DiesStep DEF SandboxInv, SandboxTyped, ScriptOK, Alive
<1>2. CASE Prepare(s)
  <2>1. Alive(s) /\ awaited[s] \notin {"ready", "raised", "answered"} /\ pipe[s] = "empty"
    BY <1>2 DEF Prepare, SandboxInv, SandboxTyped, ScriptOK, Alive
  <2>2. CASE Respond(s, "forbidden_syntax")
    BY <2>1, <2>2, RespondStep DEF Results
  <2>3. CASE process' = [process EXCEPT ![s] = "executing"] /\ UNCHANGED <<response, pipe>>
    BY <2>1, <2>3 DEF SandboxInv, SandboxTyped, ScriptOK, Alive
  <2> QED BY <1>2, <2>2, <2>3 DEF Prepare
<1>3. CASE Execute(s)
  <2>1. PICK what \in MayDo[s] : Respond(s, what)
    BY <1>3 DEF Execute
  <2> QED BY <1>3, <2>1, RespondStep DEF Execute, Alive
<1>4. CASE SoftLimit(s)
  <2>1. CASE Respond(s, "cpu_exceeded")
    BY <1>4, <2>1, RespondStep DEF SoftLimit, Results
  <2>2. CASE UNCHANGED <<process, response, pipe>>
    BY <2>2 DEF SandboxInv, SandboxTyped, ScriptOK, Alive
  <2> QED BY <1>1, <1>4, <2>1, <2>2 DEF SoftLimit
<1>5. CASE HardLimit(s)
  BY <1>1, <1>5 DEF HardLimit
<1>6. CASE Write(s)
  <2>1. Alive(s) /\ awaited[s] \notin {"ready", "raised", "answered"}
    BY <1>6 DEF Write, SandboxInv, SandboxTyped, ScriptOK, Alive
  <2>2. CASE /\ process' = [process EXCEPT ![s] = "gone"] /\ pipe' = [pipe EXCEPT ![s] = "whole"]
             /\ UNCHANGED response
    BY <2>1, <2>2 DEF SandboxInv, SandboxTyped, ScriptOK, Alive
  <2> QED BY <1>1, <1>6, <2>1, <2>2 DEF Write
<1> QED BY <1>2, <1>3, <1>4, <1>5, <1>6 DEF ProcessStep

LEMMA WorkerStepKeeps ==
    ASSUME SandboxInv, NEW s \in Scripts, WorkerStep(s), UNCHANGED scored
    PROVE  SandboxInv'
<1>1. awaited[s] # "answered"
  BY DEF WorkerStep, Spawn, SpawnFails, Communicated, TimedOut, Reaped
<1>2. scored # "scored"
  BY <1>1 DEF SandboxInv
<1>3. CASE Spawn(s)
  BY <1>2, <1>3 DEF Spawn, AnswerWith, SandboxInv, SandboxTyped, ScriptOK, Alive, Results
<1>4. CASE SpawnFails(s)
  BY <1>2, <1>4 DEF SpawnFails, SandboxInv, SandboxTyped, ScriptOK, Alive
<1>5. CASE Communicated(s)
  <2>1. Parsed(s) \in Results => pipe[s] = "whole" /\ Parsed(s) = response[s]
    BY DEF Parsed, Results, SandboxInv, SandboxTyped
  <2>2. process[s] # "none"
    BY <1>5 DEF Communicated, SandboxInv, ScriptOK
  <2> HIDE DEF Parsed
  <2> QED BY <1>2, <1>5, <2>1, <2>2
        DEF Communicated, AnswerWith, SandboxInv, SandboxTyped, ScriptOK, Alive
<1>6. CASE TimedOut(s)
  <2>1. process[s] # "none"
    BY <1>6 DEF TimedOut, SandboxInv, ScriptOK
  <2>2. CASE Alive(s)
    BY <1>2, <1>6, <2>2, DiesStep DEF TimedOut, SandboxInv, SandboxTyped, ScriptOK, Alive
  <2>3. CASE ~Alive(s)
    BY <1>2, <1>6, <2>1, <2>3 DEF TimedOut, SandboxInv, SandboxTyped, ScriptOK, Alive
  <2> QED BY <2>2, <2>3
<1>7. CASE Reaped(s)
  BY <1>2, <1>7 DEF Reaped, AnswerWith, SandboxInv, SandboxTyped, ScriptOK, Alive, Results
<1> QED BY <1>3, <1>4, <1>5, <1>6, <1>7 DEF WorkerStep

\* A script counts with the result it wrote in full and with nothing else, it leaves no
\* process behind, and a call is scored with all of its scripts (sandbox.py,
\* sandbox_worker.py), for any number of scripts and whatever cuts them off.
THEOREM SettledWhateverEndsThem == SandboxSpec => []ScriptsAreSettled
<1>1. SandboxInit => SandboxInv
  BY SandboxInvInit
<1>2. SandboxInv /\ [SandboxNext]_sandboxVars => SandboxInv'
  <2> SUFFICES ASSUME SandboxInv, [SandboxNext]_sandboxVars PROVE SandboxInv'
    OBVIOUS
  <2>1. CASE UNCHANGED sandboxVars
    BY <2>1 DEF sandboxVars, SandboxInv, SandboxTyped, ScriptOK, Alive
  <2>2. CASE Gather
    BY <2>2 DEF Gather, SandboxInv, SandboxTyped, ScriptOK, Alive
  <2> QED BY <2>1, <2>2, ProcessStepKeeps, WorkerStepKeeps DEF SandboxNext
<1>3. SandboxInv => ScriptsAreSettled
  BY DEF SandboxInv, SandboxTyped, ScriptOK, ScriptsAreSettled, OutcomeOf, Results
<1> QED BY <1>1, <1>2, <1>3, PTL DEF SandboxSpec

-----------------------------------------------------------------------------
(* Metrics, their versions and the calls scored with them: the invariant.  *)

MetricRows == [spec : Specs, status : Statuses, version : Nat]

CatalogTyped ==
    /\ DOMAIN metrics \subseteq Metrics /\ \A m \in DOMAIN metrics : metrics[m] \in MetricRows
    /\ DOMAIN patches = Editors /\ DOMAIN scoring = ScoredCalls
    /\ \A u \in Editors :
          \/ patches[u] = NoPatch
          \/ patches[u] \in [metric : Metrics, row : MetricRows, body : Bodies]
    /\ \A c \in ScoredCalls :
          /\ scoring[c].at \in {"queued", "started", "done", "failed"}
          /\ scoring[c].at \in {"started", "done"} => DOMAIN scoring[c].rows \subseteq Metrics

HasScored(c, m) == scoring[c].at \in {"started", "done"} /\ m \in DOMAIN scoring[c].rows

\* What a call was scored with is what is in force now, or a version before it.
SnapshotOK(c, m) ==
    m \notin raced /\ HasScored(c, m) =>
        /\ scoring[c].rows[m] \in MetricRows
        /\ ~Exists(m) => m \in retired
        /\ Exists(m) =>
              \/ scoring[c].rows[m].version < metrics[m].version
              \/ scoring[c].rows[m] = metrics[m] /\ metrics[m].status = "active"

SameSpec(c, d, m) ==
    m \notin raced /\ HasScored(c, m) /\ HasScored(d, m)
        /\ scoring[c].rows[m].version = scoring[d].rows[m].version
      => scoring[c].rows[m].spec = scoring[d].rows[m].spec

GateOK(c) ==
    scoring[c].at = "done" /\ scoring[c].badge = "pass" =>
      \A m \in scoring[c].gates \intersect DOMAIN scoring[c].rows :
        \/ scoring[c].outcomes[m] \in {"passed", "not_computable"}
        \/ <<c, m>> \in SampledOut /\ scoring[c].outcomes[m] = "not_sampled"

CatalogInv ==
    /\ CatalogTyped
    /\ \A c \in ScoredCalls, m \in Metrics : SnapshotOK(c, m)
    /\ \A c, d \in ScoredCalls, m \in Metrics : SameSpec(c, d, m)
    /\ \A c \in ScoredCalls : GateOK(c)

LEMMA CatalogInvInit == CatalogInit => CatalogInv
<1> SUFFICES ASSUME CatalogInit PROVE CatalogInv
  OBVIOUS
<1>1. CatalogTyped
  BY DEF CatalogInit, CatalogTyped, MetricRows, Statuses, Row, Unscored
<1>2. \A c \in ScoredCalls : scoring[c].at = "queued"
  BY DEF CatalogInit, Unscored
<1> QED BY <1>1, <1>2 DEF CatalogInv, SnapshotOK, SameSpec, GateOK, HasScored

\* A PATCH raises the version of a metric in force, or leaves the row alone; it never
\* raises the version of another.
LEMMA PatchedRow ==
    ASSUME NEW row \in MetricRows, NEW body \in Bodies, NEW held \in MetricRows
    PROVE  /\ Patched(held, row, body) \in MetricRows
           /\ row.status # "active" => Patched(row, row, body).version = row.version
           /\ row.status = "active" =>
                 Patched(row, row, body) = row \/ Patched(row, row, body).version = row.version + 1
<1>1. body \in [spec : Specs \union {Keep}, status : Statuses \union {Keep}]
  BY MetricAssumption
<1>2. body = NoChange => body.spec = Keep /\ body.status = Keep
  BY DEF NoChange
<1>3. Patched(held, row, body) \in MetricRows
  <2>1. PICK spec, status, version :
           /\ spec = IF body.spec = Keep THEN held.spec ELSE body.spec
           /\ status = IF body.status = Keep THEN held.status ELSE body.status
           /\ version = IF row.status = "active" /\ body # NoChange
                         THEN row.version + 1 ELSE held.version
    OBVIOUS
  <2>2. Patched(held, row, body) = [held EXCEPT !.spec = spec, !.status = status, !.version = version]
    BY <2>1 DEF Patched, MetricRows
  <2>3. spec \in Specs /\ status \in Statuses
    BY <1>1, <2>1 DEF MetricRows
  <2>4. version \in Nat
    BY <2>1 DEF MetricRows
  <2> QED BY <2>2, <2>3, <2>4 DEF MetricRows
<1>4. row.status # "active" => Patched(row, row, body).version = row.version
  BY DEF Patched, MetricRows
<1>5. row.status = "active" /\ body = NoChange => Patched(row, row, body) = row
  BY <1>2 DEF Patched, MetricRows
<1>6. row.status = "active" /\ body # NoChange => Patched(row, row, body).version = row.version + 1
  BY DEF Patched, MetricRows
<1> QED BY <1>3, <1>4, <1>5, <1>6

\* Steps that leave what the calls were scored with alone.
LEMMA CallsKept ==
    ASSUME CatalogInv, UNCHANGED scoring, raced \subseteq raced'
    PROVE  /\ \A c, d \in ScoredCalls, m \in Metrics : SameSpec(c, d, m)'
           /\ \A c \in ScoredCalls : GateOK(c)'
  BY DEF CatalogInv, SameSpec, GateOK, HasScored

LEMMA CreateMetricKeeps ==
    ASSUME CatalogInv, NEW m \in Metrics, NEW spec \in Specs, CreateMetric(m, spec)
    PROVE  CatalogInv'
<1>1. /\ DOMAIN metrics' = DOMAIN metrics \union {m} /\ m \notin DOMAIN metrics \union retired
      /\ metrics'[m] = Row(spec, "draft", 1)
      /\ \A k \in DOMAIN metrics : metrics'[k] = metrics[k]
      /\ UNCHANGED <<scoring, raced, retired, patches>>
  BY DEF CreateMetric, With
<1>2. CatalogTyped'
  BY <1>1 DEF CatalogInv, CatalogTyped, MetricRows, Row, Statuses
<1>3. ASSUME NEW c \in ScoredCalls, NEW k \in Metrics PROVE SnapshotOK(c, k)'
  <2>1. SnapshotOK(c, k)
    BY DEF CatalogInv
  <2> QED BY <1>1, <2>1 DEF SnapshotOK, HasScored, Exists
<1> QED BY <1>1, <1>2, <1>3, CallsKept DEF CatalogInv

LEMMA FinishPatchKeeps ==
    ASSUME CatalogInv, NEW u \in Editors, FinishPatch(u)
    PROVE  CatalogInv'
<1>1. PICK m, read, body : m = patches[u].metric /\ read = patches[u].row /\ body = patches[u].body
  OBVIOUS
<1>2. /\ m \in Metrics /\ read \in MetricRows /\ body \in Bodies
      /\ UNCHANGED <<retired, scoring>> /\ patches' = [patches EXCEPT ![u] = NoPatch]
      /\ IF ~Exists(m) THEN UNCHANGED <<metrics, raced>>
         ELSE /\ metrics' = With(m, Patched(metrics[m], read, body))
              /\ raced' = IF metrics[m] # read THEN raced \union {m} ELSE raced
  BY <1>1 DEF FinishPatch, CatalogInv, CatalogTyped
<1>3. CASE ~Exists(m)
  <2>1. CatalogTyped'
    BY <1>2, <1>3 DEF CatalogInv, CatalogTyped
  <2>2. \A c \in ScoredCalls, k \in Metrics : SnapshotOK(c, k)'
    BY <1>2, <1>3 DEF CatalogInv, SnapshotOK, HasScored, Exists
  <2> QED BY <1>2, <1>3, <2>1, <2>2, CallsKept DEF CatalogInv
<1>4. CASE Exists(m)
  <2>1. PICK new : new = Patched(metrics[m], read, body)
    OBVIOUS
  <2>2. /\ DOMAIN metrics' = DOMAIN metrics /\ metrics'[m] = new
        /\ \A k \in DOMAIN metrics \ {m} : metrics'[k] = metrics[k]
        /\ raced \subseteq raced' /\ metrics[m] \in MetricRows
        /\ m \notin raced' => metrics[m] = read
    BY <1>2, <1>4, <2>1 DEF With, Exists, CatalogInv, CatalogTyped
  <2>3. /\ new \in MetricRows
        /\ m \notin raced' /\ read.status # "active" => new.version = read.version
        /\ m \notin raced' /\ read.status = "active" => new = read \/ new.version = read.version + 1
    BY <1>2, <2>1, <2>2, PatchedRow
  <2>4. CatalogTyped'
    BY <1>2, <2>2, <2>3 DEF CatalogInv, CatalogTyped
  <2>5. ASSUME NEW c \in ScoredCalls, NEW k \in Metrics PROVE SnapshotOK(c, k)'
    <3>1. SnapshotOK(c, k) /\ (HasScored(c, k)' <=> HasScored(c, k))
      BY <1>2 DEF CatalogInv, HasScored
    <3>2. CASE k # m
      BY <1>2, <2>2, <3>1, <3>2 DEF SnapshotOK, Exists
    <3>3. CASE k = m
      <4>1. SUFFICES ASSUME m \notin raced', HasScored(c, m)
                     PROVE  scoring[c].rows[m].version < new.version
                            \/ (scoring[c].rows[m] = new /\ new.status = "active")
        BY <1>2, <1>4, <2>2, <3>1, <3>3 DEF SnapshotOK, Exists
      <4>2. /\ scoring[c].rows[m] \in MetricRows
            /\ \/ scoring[c].rows[m].version < read.version
               \/ scoring[c].rows[m] = read /\ read.status = "active"
        BY <1>4, <2>2, <3>1, <3>3, <4>1 DEF SnapshotOK
      <4> QED BY <1>2, <2>3, <4>1, <4>2 DEF MetricRows
    <3> QED BY <3>2, <3>3
  <2> QED BY <1>2, <2>2, <2>4, <2>5, CallsKept DEF CatalogInv
<1> QED BY <1>3, <1>4

LEMMA DeleteMetricKeeps ==
    ASSUME CatalogInv, NEW m \in Metrics, DeleteMetric(m)
    PROVE  CatalogInv'
<1>1. /\ DOMAIN metrics' = DOMAIN metrics \ {m} /\ retired' = retired \union {m}
      /\ \A k \in DOMAIN metrics \ {m} : metrics'[k] = metrics[k]
      /\ UNCHANGED <<scoring, raced, patches>>
  BY DEF DeleteMetric, Without
<1>2. CatalogTyped'
  BY <1>1 DEF CatalogInv, CatalogTyped
<1>3. ASSUME NEW c \in ScoredCalls, NEW k \in Metrics PROVE SnapshotOK(c, k)'
  <2>1. SnapshotOK(c, k)
    BY DEF CatalogInv
  <2> QED BY <1>1, <2>1 DEF SnapshotOK, HasScored, Exists
<1> QED BY <1>1, <1>2, <1>3, CallsKept DEF CatalogInv

LEMMA StartScoringKeeps ==
    ASSUME CatalogInv, NEW c \in ScoredCalls, StartScoring(c)
    PROVE  CatalogInv'
<1>1. PICK rows : rows = [m \in Resolved |-> metrics[m]]
  OBVIOUS
<1>2. /\ DOMAIN rows \subseteq DOMAIN metrics
      /\ \A m \in DOMAIN rows : rows[m] = metrics[m] /\ metrics[m].status = "active"
      /\ \A m \in DOMAIN rows : rows[m] \in MetricRows /\ m \in Metrics
  BY <1>1 DEF Resolved, Active, CatalogInv, CatalogTyped
<1>3. /\ scoring' = [scoring EXCEPT ![c] = [at |-> "started", rows |-> rows]]
      /\ UNCHANGED <<metrics, retired, patches, raced>>
  BY <1>1 DEF StartScoring
<1>4. /\ DOMAIN scoring' = ScoredCalls /\ scoring'[c] = [at |-> "started", rows |-> rows]
      /\ \A d \in ScoredCalls \ {c} : scoring'[d] = scoring[d]
  BY <1>3 DEF CatalogInv, CatalogTyped
<1>5. scoring'[c].at = "started" /\ scoring'[c].rows = rows
  BY <1>4
<1>6. CatalogTyped'
  BY <1>2, <1>3, <1>4, <1>5 DEF CatalogInv, CatalogTyped
<1>7. ASSUME NEW d \in ScoredCalls, NEW m \in Metrics PROVE SnapshotOK(d, m)'
  <2>1. SnapshotOK(d, m)
    BY DEF CatalogInv
  <2> QED BY <1>2, <1>3, <1>4, <1>5, <2>1 DEF SnapshotOK, HasScored, Exists
<1>8. ASSUME NEW d \in ScoredCalls, NEW e \in ScoredCalls, NEW m \in Metrics PROVE SameSpec(d, e, m)'
  <2>1. SameSpec(d, e, m) /\ SnapshotOK(d, m) /\ SnapshotOK(e, m)
    BY DEF CatalogInv
  <2>2. d # c /\ e # c => SameSpec(d, e, m)'
    BY <1>3, <1>4, <2>1 DEF SameSpec, HasScored
  <2>3. ASSUME NEW k \in ScoredCalls \ {c}, SnapshotOK(k, m), m \in DOMAIN rows, m \notin raced,
               HasScored(k, m), scoring[k].rows[m].version = rows[m].version
        PROVE  scoring[k].rows[m].spec = rows[m].spec
    <3>1. Exists(m) /\ rows[m] = metrics[m]
      BY <1>2, <2>3 DEF Exists
    <3>2. scoring[k].rows[m] \in MetricRows /\ metrics[m] \in MetricRows
      BY <1>2, <2>3, <3>1 DEF SnapshotOK
    <3> QED BY <2>3, <3>1, <3>2 DEF SnapshotOK, MetricRows
  <2> QED BY <1>3, <1>4, <1>5, <2>1, <2>2, <2>3 DEF SameSpec, HasScored
<1>9. \A d \in ScoredCalls : GateOK(d)'
  BY <1>4, <1>5 DEF CatalogInv, GateOK
<1> QED BY <1>6, <1>7, <1>8, <1>9 DEF CatalogInv

\* What a badge that passes says of the gates.
LEMMA BadgePasses ==
    ASSUME NEW gating, NEW byScore, Badge(gating, byScore) = "pass"
    PROVE  "failed" \notin gating /\ "error" \notin gating /\ "warn" \notin gating
  BY DEF Badge

LEMMA FinishScoringKeeps ==
    ASSUME CatalogInv, NEW c \in ScoredCalls, scoring[c].at = "started", NEW byScore,
           NEW v \in VerdictSets(c, DOMAIN scoring[c].rows), FinishScoring(c, v, byScore)
    PROVE  CatalogInv'
<1>1. PICK ms, outcomes, badge, body :
         /\ ms = DOMAIN scoring[c].rows /\ outcomes = OutcomesOf(c, ms, v)
         /\ badge = Badge({outcomes[m] : m \in ms \intersect gates}, byScore)
         /\ body = IF ms \subseteq DOMAIN metrics
                   THEN [at |-> "done", rows |-> scoring[c].rows, outcomes |-> outcomes,
                         gates |-> gates, badge |-> badge]
                   ELSE [at |-> "failed"]
  OBVIOUS
<1>2. scoring' = [scoring EXCEPT ![c] = body] /\ UNCHANGED <<metrics, retired, patches, raced>>
  BY <1>1 DEF FinishScoring
<1>3. /\ DOMAIN scoring' = ScoredCalls /\ scoring'[c] = body
      /\ \A d \in ScoredCalls \ {c} : scoring'[d] = scoring[d]
      /\ ms \subseteq Metrics
  BY <1>1, <1>2 DEF CatalogInv, CatalogTyped
<1>4. /\ body.at \in {"done", "failed"}
      /\ body.at = "done" => /\ body.rows = scoring[c].rows /\ body.outcomes = outcomes
                             /\ body.gates = gates /\ body.badge = badge
  BY <1>1
<1>5. \A d \in ScoredCalls, m \in Metrics :
         HasScored(d, m)' => HasScored(d, m) /\ scoring'[d].rows = scoring[d].rows
  BY <1>3, <1>4 DEF HasScored
<1>6. CatalogTyped'
  BY <1>1, <1>2, <1>3, <1>4 DEF CatalogInv, CatalogTyped
<1>7. ASSUME NEW d \in ScoredCalls, NEW m \in Metrics PROVE SnapshotOK(d, m)'
  <2>1. SnapshotOK(d, m)
    BY DEF CatalogInv
  <2> QED BY <1>2, <1>5, <2>1 DEF SnapshotOK, Exists
<1>8. ASSUME NEW d \in ScoredCalls, NEW e \in ScoredCalls, NEW m \in Metrics PROVE SameSpec(d, e, m)'
  <2>1. SameSpec(d, e, m)
    BY DEF CatalogInv
  <2> QED BY <1>2, <1>5, <2>1 DEF SameSpec
<1>9. GateOK(c)'
  <2>1. SUFFICES ASSUME body.at = "done", badge = "pass", NEW m \in gates \intersect ms
                 PROVE  \/ outcomes[m] \in {"passed", "not_computable"}
                        \/ <<c, m>> \in SampledOut /\ outcomes[m] = "not_sampled"
    BY <1>1, <1>3, <1>4 DEF GateOK
  <2>2. outcomes[m] \in {outcomes[k] : k \in ms \intersect gates}
    OBVIOUS
  <2>3. outcomes[m] \notin {"failed", "error", "warn"}
    BY <1>1, <2>1, <2>2, BadgePasses, ZenonT(30)
  <2>4. /\ m \in Sampled(c, ms) <=> <<c, m>> \notin SampledOut
        /\ outcomes[m] = IF m \notin Sampled(c, ms) THEN "not_sampled"
                         ELSE IF m \in DOMAIN v THEN v[m] ELSE "error"
    BY <1>1 DEF OutcomesOf, Sampled
  <2>5. m \in DOMAIN v => v[m] \in Possible(m)
    BY DEF VerdictSets
  <2>6. Possible(m) \subseteq {"passed", "failed", "warn", "not_computable", "error"}
    BY <1>3, MetricAssumption DEF Possible
  <2> QED BY <2>3, <2>4, <2>5, <2>6
<1>10. \A d \in ScoredCalls : GateOK(d)'
  BY <1>3, <1>9 DEF CatalogInv, GateOK
<1> QED BY <1>6, <1>7, <1>8, <1>10 DEF CatalogInv

LEMMA CatalogInvStep == CatalogInv /\ [CatalogNext]_catalogVars => CatalogInv'
<1> SUFFICES ASSUME CatalogInv, [CatalogNext]_catalogVars PROVE CatalogInv'
  OBVIOUS
<1>1. ASSUME UNCHANGED <<metrics, retired, patches, scoring, raced>> PROVE CatalogInv'
  BY <1>1 DEF CatalogInv, CatalogTyped, SnapshotOK, SameSpec, GateOK, HasScored, Exists
<1>2. CASE UNCHANGED catalogVars
  BY <1>1, <1>2 DEF catalogVars
<1>3. ASSUME NEW m \in Metrics, NEW spec \in Specs, CreateMetric(m, spec) PROVE CatalogInv'
  BY <1>3, CreateMetricKeeps
<1>4. ASSUME NEW u \in Editors, NEW m \in Metrics, NEW body \in Bodies, StartPatch(u, m, body)
      PROVE  CatalogInv'
  <2>1. PICK patch : patch = [metric |-> m, row |-> metrics[m], body |-> body]
    OBVIOUS
  <2>2. /\ patches' = [patches EXCEPT ![u] = patch] /\ Exists(m)
        /\ UNCHANGED <<metrics, retired, scoring, raced>>
    BY <1>4, <2>1 DEF StartPatch
  <2>3. patch \in [metric : Metrics, row : MetricRows, body : Bodies]
    BY <2>1, <2>2 DEF CatalogInv, CatalogTyped, Exists
  <2>4. CatalogTyped'
    BY <2>2, <2>3 DEF CatalogInv, CatalogTyped
  <2> QED BY <2>2, <2>4 DEF CatalogInv, SnapshotOK, SameSpec, GateOK, HasScored, Exists
<1>5. ASSUME NEW u \in Editors, FinishPatch(u) PROVE CatalogInv'
  BY <1>5, FinishPatchKeeps
<1>6. ASSUME NEW m \in Metrics, StartBacktest(m) PROVE CatalogInv'
  BY <1>1, <1>6 DEF StartBacktest
<1>7. ASSUME NEW m \in Metrics, DeleteMetric(m) PROVE CatalogInv'
  BY <1>7, DeleteMetricKeeps
<1>8. ASSUME NEW test \in testing, FinishBacktest(test) PROVE CatalogInv'
  BY <1>1, <1>8 DEF FinishBacktest
<1>9. ASSUME NEW ms \in Attachments, AttachGates(ms) PROVE CatalogInv'
  BY <1>1, <1>9 DEF AttachGates
<1>10. ASSUME NEW c \in ScoredCalls, StartScoring(c) PROVE CatalogInv'
  BY <1>10, StartScoringKeeps
<1>11. ASSUME NEW c \in ScoredCalls, NEW byScore, scoring[c].at = "started",
              NEW v \in VerdictSets(c, DOMAIN scoring[c].rows), FinishScoring(c, v, byScore)
       PROVE  CatalogInv'
  BY <1>11, FinishScoringKeeps
<1> QED BY <1>2, <1>3, <1>4, <1>5, <1>6, <1>7, <1>8, <1>9, <1>10, <1>11 DEF CatalogNext

LEMMA CatalogInvHolds == CatalogSpec => []CatalogInv
  BY CatalogInvInit, CatalogInvStep, PTL DEF CatalogSpec

\* Two results of one version of a metric come from one spec, unless PATCHes overlapped
\* (update_metric in app/api/metrics.py), for any number of edits and of scored calls.
THEOREM VersionsCanBeCompared == CatalogSpec => []VersionNamesSpec
<1>1. CatalogInv => VersionNamesSpec
  <2> SUFFICES ASSUME CatalogInv PROVE VersionNamesSpec
    OBVIOUS
  <2>1. \A c, d \in ScoredCalls, m \in Metrics : SameSpec(c, d, m)
    BY DEF CatalogInv
  <2>2. \A c \in DoneCalls : c \in ScoredCalls /\ scoring[c].at = "done"
                            /\ DOMAIN scoring[c].rows \subseteq Metrics
    BY DEF DoneCalls, CatalogInv, CatalogTyped
  <2> QED BY <2>1, <2>2 DEF VersionNamesSpec, SameSpec, HasScored
<1> QED BY <1>1, CatalogInvHolds, PTL

\* A call whose badge passes has a good answer of each gate in force when it began
\* (outcomes_from_judge_verdicts, evaluate_call), however many metrics there are and
\* whatever became of them meanwhile.
THEOREM GatesDecideTheBadge == CatalogSpec => []GatesAnswered
<1>1. CatalogInv => GatesAnswered
  BY DEF CatalogInv, GateOK, GatesAnswered, DoneCalls
<1> QED BY <1>1, CatalogInvHolds, PTL

-----------------------------------------------------------------------------
(* Authoring: the invariant.                                               *)

MetricSets == SUBSET DOMAIN MetricProject
SuiteRows == [project : Projects, agent : Agents]
ScenarioRows == [suite : Suites, persona : Personas, profile : Profiles \cup {None},
                 draft : Drafts \cup {None}, metrics : MetricSets]
DraftRows == [suite : Suites, persona : Personas, metrics : MetricSets,
              added : Scenarios \cup {None}]
LaunchRows == [project : Projects, agent : Agents, scenario : Scenarios \cup {None}]
Acceptances == [suite : Suites, draft : Drafts, persona : Personas, metrics : MetricSets]

AuthorTyped ==
    /\ projects \subseteq Projects /\ DOMAIN accepting = Authors
    /\ DOMAIN personas \subseteq Personas /\ DOMAIN profiles \subseteq Profiles
    /\ DOMAIN scenarios \subseteq Scenarios /\ DOMAIN drafts \subseteq Drafts
    /\ \A s \in DOMAIN suites : suites[s] \in SuiteRows
    /\ \A c \in DOMAIN scenarios : scenarios[c] \in ScenarioRows
    /\ \A d \in DOMAIN drafts : drafts[d] \in DraftRows
    /\ \A r \in DOMAIN authored : authored[r] \in LaunchRows
    /\ \A u \in Authors : accepting[u] = Idling \/ accepting[u] \in Acceptances

\* What a row of the suite may refer to.
FitsSuite(s, x, ms) ==
    /\ s \in DOMAIN suites /\ VisiblePersona(suites[s].project, x)
    /\ ms \subseteq VisibleMetrics(suites[s].project)

SuitesOK == \A s \in DOMAIN suites : MyAgent(suites[s].project, suites[s].agent)

ScenariosOK == \A c \in DOMAIN scenarios :
    FitsSuite(scenarios[c].suite, scenarios[c].persona, scenarios[c].metrics)

DraftsOK == \A d \in DOMAIN drafts :
    FitsSuite(drafts[d].suite, drafts[d].persona, drafts[d].metrics)

LaunchesOK == \A r \in DOMAIN authored :
    /\ MyAgent(authored[r].project, authored[r].agent)
    /\ authored[r].scenario # None =>
          /\ authored[r].scenario \in DOMAIN scenarios
          /\ ProjectOf(authored[r].scenario) = authored[r].project

\* An acceptance under way names rows that fit, if they are still there; no id is
\* ever used again.
PendingOK == \A u \in Authors : accepting[u] # Idling =>
    LET new == accepting[u]
    IN /\ new.suite \in DOMAIN suites \cup used /\ new.persona \in DOMAIN personas \cup used
       /\ new.draft \in DOMAIN drafts \cup used
       /\ new.suite \in DOMAIN suites =>
             /\ new.metrics \subseteq VisibleMetrics(suites[new.suite].project)
             /\ new.persona \in DOMAIN personas =>
                   VisiblePersona(suites[new.suite].project, new.persona)

\* A draft that a scenario came from is there, or its id is used up.
SourcesKnown == \A c \in DOMAIN scenarios : scenarios[c].draft \in DOMAIN drafts \cup used \cup {None}

OneScenario == \A c, k \in DOMAIN scenarios :
    scenarios[c].draft = scenarios[k].draft => c = k \/ scenarios[c].draft = None

DraftsLinked == \A d \in DOMAIN drafts, c \in Scenarios :
    drafts[d].added = c <=> c \in DOMAIN scenarios /\ scenarios[c].draft = d

AuthorInv ==
    /\ AuthorTyped /\ SuitesOK /\ ScenariosOK /\ DraftsOK /\ LaunchesOK /\ PendingOK
    /\ SourcesKnown /\ OneScenario /\ DraftsLinked /\ trespasses = {}

LEMMA AuthorInvInit == AuthorInit => AuthorInv
<1> SUFFICES ASSUME AuthorInit PROVE AuthorInv
  OBVIOUS
<1>1. PICK owner \in [Suites -> Agents] :
         suites = [s \in Suites |-> [project |-> agents[owner[s]], agent |-> owner[s]]]
  BY DEF AuthorInit
<1>2. agents \in [Agents -> Projects] /\ DOMAIN suites = Suites
  BY <1>1 DEF AuthorInit
<1>3. \A s \in Suites : suites[s].project = agents[owner[s]] /\ suites[s].agent = owner[s]
                         /\ suites[s] \in SuiteRows
  BY <1>1, <1>2 DEF SuiteRows
<1>4. DOMAIN personas \subseteq Personas
  BY DEF AuthorInit
<1>5. /\ DOMAIN profiles = {} /\ DOMAIN scenarios = {} /\ DOMAIN drafts = {} /\ DOMAIN authored = {}
  BY DEF AuthorInit
<1>6. AuthorTyped
  BY <1>2, <1>3, <1>4, <1>5 DEF AuthorInit, AuthorTyped
<1>7. SuitesOK
  BY <1>2, <1>3 DEF SuitesOK, MyAgent
<1>8. PendingOK /\ trespasses = {}
  BY DEF AuthorInit, PendingOK
<1> QED BY <1>5, <1>6, <1>7, <1>8
      DEF AuthorInv, ScenariosOK, DraftsOK, LaunchesOK, SourcesKnown, OneScenario, DraftsLinked

\* What a step that leaves a table alone leaves alone.
LEMMA AuthorFrame ==
    ASSUME AuthorInv
    PROVE  /\ UNCHANGED <<suites, agents>> => SuitesOK'
           /\ UNCHANGED <<suites, personas, scenarios>> => ScenariosOK'
           /\ UNCHANGED <<suites, personas, drafts>> => DraftsOK'
           /\ UNCHANGED <<suites, agents, scenarios, authored>> => LaunchesOK'
           /\ UNCHANGED <<suites, personas, drafts, used, accepting>> => PendingOK'
           /\ UNCHANGED <<scenarios, drafts, used>> => SourcesKnown'
           /\ UNCHANGED scenarios => OneScenario'
           /\ UNCHANGED <<scenarios, drafts>> => DraftsLinked'
<1>1. UNCHANGED <<suites, agents>> => SuitesOK'
  BY DEF AuthorInv, SuitesOK, MyAgent
<1>2. UNCHANGED <<suites, personas, scenarios>> => ScenariosOK'
  BY DEF AuthorInv, ScenariosOK, FitsSuite, VisiblePersona, VisibleMetrics
<1>3. UNCHANGED <<suites, personas, drafts>> => DraftsOK'
  BY DEF AuthorInv, DraftsOK, FitsSuite, VisiblePersona, VisibleMetrics
<1>4. UNCHANGED <<suites, agents, scenarios, authored>> => LaunchesOK'
  BY DEF AuthorInv, LaunchesOK, MyAgent, ProjectOf
<1>5. UNCHANGED <<suites, personas, drafts, used, accepting>> => PendingOK'
  BY DEF AuthorInv, PendingOK, VisiblePersona, VisibleMetrics
<1>6. /\ UNCHANGED <<scenarios, drafts, used>> => SourcesKnown'
      /\ UNCHANGED scenarios => OneScenario'
      /\ UNCHANGED <<scenarios, drafts>> => DraftsLinked'
  BY DEF AuthorInv, SourcesKnown, OneScenario, DraftsLinked
<1> QED BY <1>1, <1>2, <1>3, <1>4, <1>5, <1>6

\* Steps by which nothing that others refer to goes away, and no id comes back.
TablesGrow ==
    /\ DOMAIN suites \subseteq DOMAIN suites' /\ DOMAIN suites' \cap used \subseteq DOMAIN suites
    /\ \A s \in DOMAIN suites : suites'[s].project = suites[s].project
    /\ DOMAIN personas \subseteq DOMAIN personas' /\ DOMAIN personas' \cap used \subseteq DOMAIN personas
    /\ \A x \in DOMAIN personas : personas'[x] = personas[x]
    /\ DOMAIN drafts \subseteq DOMAIN drafts' /\ used \subseteq used'

LEMMA FitsWhenTablesGrow ==
    ASSUME TablesGrow, NEW s, NEW x, NEW ms, FitsSuite(s, x, ms)
    PROVE  FitsSuite(s, x, ms)'
  BY DEF TablesGrow, FitsSuite, VisiblePersona, VisibleMetrics

LEMMA WhenTablesGrow ==
    ASSUME AuthorInv, TablesGrow
    PROVE  /\ UNCHANGED scenarios => ScenariosOK' /\ SourcesKnown'
           /\ UNCHANGED drafts => DraftsOK'
           /\ UNCHANGED accepting => PendingOK'
           /\ UNCHANGED <<agents, scenarios, authored>> => LaunchesOK'
<1>1. ASSUME UNCHANGED scenarios PROVE ScenariosOK'
  <2>1. SUFFICES ASSUME NEW c \in DOMAIN scenarios, NEW s, NEW x, NEW ms, s = scenarios[c].suite,
                        x = scenarios[c].persona, ms = scenarios[c].metrics
                 PROVE  FitsSuite(s, x, ms)'
    BY <1>1 DEF ScenariosOK, FitsSuite, VisiblePersona, VisibleMetrics
  <2>2. FitsSuite(s, x, ms)
    BY <2>1 DEF AuthorInv, ScenariosOK
  <2> QED BY <2>2, FitsWhenTablesGrow
<1>2. ASSUME UNCHANGED drafts PROVE DraftsOK'
  <2>1. SUFFICES ASSUME NEW d \in DOMAIN drafts, NEW s, NEW x, NEW ms, s = drafts[d].suite,
                        x = drafts[d].persona, ms = drafts[d].metrics
                 PROVE  FitsSuite(s, x, ms)'
    BY <1>2 DEF DraftsOK, FitsSuite, VisiblePersona, VisibleMetrics
  <2>2. FitsSuite(s, x, ms)
    BY <2>1 DEF AuthorInv, DraftsOK
  <2> QED BY <2>2, FitsWhenTablesGrow
<1>3. ASSUME UNCHANGED accepting PROVE PendingOK'
  BY <1>3 DEF AuthorInv, PendingOK, TablesGrow, VisiblePersona, VisibleMetrics
<1>4. ASSUME UNCHANGED scenarios PROVE SourcesKnown'
  BY <1>4 DEF AuthorInv, SourcesKnown, TablesGrow
<1>5. ASSUME UNCHANGED <<agents, scenarios, authored>> PROVE LaunchesOK'
  BY <1>5 DEF AuthorInv, LaunchesOK, ScenariosOK, FitsSuite, MyAgent, ProjectOf, TablesGrow
<1> QED BY <1>1, <1>2, <1>3, <1>4, <1>5

\* Scenarios that are added belong to no draft, and the others stay where they are.
LEMMA ScenarioStep ==
    ASSUME AuthorInv, DOMAIN scenarios \subseteq DOMAIN scenarios',
           \A c \in DOMAIN scenarios : /\ scenarios'[c].suite = scenarios[c].suite
                                       /\ scenarios'[c].draft = scenarios[c].draft,
           \A c \in DOMAIN scenarios' \ DOMAIN scenarios : scenarios'[c].draft = None,
           UNCHANGED <<suites, agents, drafts, authored>>, used \subseteq used'
    PROVE  LaunchesOK' /\ SourcesKnown' /\ OneScenario' /\ DraftsLinked'
<1>1. LaunchesOK'
  BY DEF AuthorInv, LaunchesOK, MyAgent, ProjectOf
<1>2. SourcesKnown' /\ OneScenario'
  BY DEF AuthorInv, SourcesKnown, OneScenario
<1>3. None \notin DOMAIN drafts
  BY AuthoringAssumption DEF AuthorInv, AuthorTyped
<1>4. DraftsLinked'
  BY <1>3 DEF AuthorInv, DraftsLinked
<1> QED BY <1>1, <1>2, <1>4

-----------------------------------------------------------------------------
(* The requests, one by one. *)

LEMMA AgentSteps ==
    ASSUME AuthorInv, UNCHANGED trespasses, NEW p \in projects, NEW a \in Agents,
           CreateAgent(p, a) \/ DeleteAgent(p, a)
    PROVE  AuthorInv'
<1>1. UNCHANGED <<projects, suites, personas, profiles, scenarios, drafts, authored, accepting>>
  BY DEF CreateAgent, DeleteAgent
<1>2. \A b \in DOMAIN agents :
          \/ b \in DOMAIN agents' /\ agents'[b] = agents[b]
          \/ /\ \A s \in DOMAIN suites : suites[s].agent # b
             /\ \A r \in DOMAIN authored : authored[r].agent # b
  BY DEF CreateAgent, DeleteAgent, Fresh, Put, Drop
<1>3. TablesGrow
  BY <1>1 DEF TablesGrow, CreateAgent, DeleteAgent
<1>4. AuthorTyped'
  BY <1>1 DEF AuthorInv, AuthorTyped
<1>5. SuitesOK'
  BY <1>1, <1>2 DEF AuthorInv, SuitesOK, MyAgent
<1>6. LaunchesOK'
  BY <1>1, <1>2 DEF AuthorInv, LaunchesOK, MyAgent, ProjectOf
<1> QED BY <1>1, <1>3, <1>4, <1>5, <1>6, AuthorFrame, WhenTablesGrow DEF AuthorInv

LEMMA CreatePersonaStep ==
    ASSUME AuthorInv, UNCHANGED trespasses, NEW p \in projects, NEW x \in Personas, CreatePersona(p, x)
    PROVE  AuthorInv'
<1>1. UNCHANGED <<projects, agents, suites, profiles, scenarios, drafts, authored, accepting, used>>
  BY DEF CreatePersona
<1>2. TablesGrow
  BY <1>1 DEF CreatePersona, Fresh, Put, TablesGrow
<1>3. AuthorTyped'
  BY <1>1 DEF CreatePersona, Put, AuthorInv, AuthorTyped
<1> QED BY <1>1, <1>2, <1>3, AuthorFrame, WhenTablesGrow DEF AuthorInv

LEMMA DeletePersonaStep ==
    ASSUME AuthorInv, UNCHANGED trespasses, NEW p \in projects, NEW x \in Personas, DeletePersona(p, x)
    PROVE  AuthorInv'
<1>1. /\ UNCHANGED <<projects, agents, suites, profiles, scenarios, drafts, authored, accepting>>
      /\ used' = used \cup {x} /\ DOMAIN personas' = DOMAIN personas \ {x}
      /\ \A y \in DOMAIN personas \ {x} : personas'[y] = personas[y]
  BY DEF DeletePersona, Drop
<1>2. AuthorTyped'
  BY <1>1 DEF AuthorInv, AuthorTyped
<1>3. ScenariosOK'
  BY <1>1 DEF DeletePersona, AuthorInv, ScenariosOK, FitsSuite, VisiblePersona, VisibleMetrics
<1>4. DraftsOK'
  BY <1>1 DEF DeletePersona, AuthorInv, DraftsOK, FitsSuite, VisiblePersona, VisibleMetrics
<1>5. PendingOK'
  BY <1>1 DEF AuthorInv, PendingOK, VisiblePersona, VisibleMetrics
<1>6. SourcesKnown'
  BY <1>1 DEF AuthorInv, SourcesKnown
<1> QED BY <1>1, <1>2, <1>3, <1>4, <1>5, <1>6, AuthorFrame DEF AuthorInv

LEMMA ProfileSteps ==
    ASSUME AuthorInv, UNCHANGED trespasses, NEW p \in projects, NEW t \in Profiles,
           CreateTestProfile(p, t) \/ DeleteTestProfile(p, t)
    PROVE  AuthorInv'
<1>1. UNCHANGED <<projects, agents, suites, personas, drafts, authored, accepting>> /\ used \subseteq used'
  BY DEF CreateTestProfile, DeleteTestProfile
<1>2. DOMAIN profiles' \subseteq Profiles
  BY DEF AuthorInv, AuthorTyped, CreateTestProfile, DeleteTestProfile, Put, Drop
<1>3. /\ DOMAIN scenarios' = DOMAIN scenarios
      /\ \A c \in DOMAIN scenarios :
            /\ scenarios'[c] \in ScenarioRows
            /\ scenarios'[c].suite = scenarios[c].suite /\ scenarios'[c].draft = scenarios[c].draft
            /\ scenarios'[c].persona = scenarios[c].persona
            /\ scenarios'[c].metrics = scenarios[c].metrics
  BY DEF AuthorInv, AuthorTyped, ScenarioRows, CreateTestProfile, DeleteTestProfile
<1>4. AuthorTyped'
  BY <1>1, <1>2, <1>3 DEF AuthorInv, AuthorTyped
<1>5. ScenariosOK'
  BY <1>1, <1>3 DEF AuthorInv, ScenariosOK, FitsSuite, VisiblePersona, VisibleMetrics
<1>6. TablesGrow
  BY <1>1 DEF TablesGrow
<1> QED BY <1>1, <1>3, <1>4, <1>5, <1>6, AuthorFrame, WhenTablesGrow, ScenarioStep DEF AuthorInv

LEMMA SuiteSteps ==
    ASSUME AuthorInv, UNCHANGED trespasses, NEW p \in projects, NEW s \in Suites, NEW a \in Agents,
           CreateSuite(p, s, a) \/ UpdateSuite(p, s, a)
    PROVE  AuthorInv'
<1>1. UNCHANGED <<projects, agents, personas, profiles, scenarios, drafts, authored, accepting, used>>
  BY DEF CreateSuite, UpdateSuite
<1>2. p \in Projects /\ MyAgent(p, a)
  BY DEF AuthorInv, AuthorTyped, CreateSuite, UpdateSuite
<1>3. /\ DOMAIN suites' = DOMAIN suites \cup {s} /\ suites'[s].project = p /\ suites'[s].agent = a
      /\ suites'[s] \in SuiteRows
      /\ \A k \in DOMAIN suites \ {s} : suites'[k] = suites[k]
      /\ s \in DOMAIN suites => suites[s].project = p
      /\ s \notin DOMAIN suites => s \notin used
  <2>1. CASE CreateSuite(p, s, a)
    BY <1>2, <2>1 DEF CreateSuite, Put, Fresh, SuiteRows
  <2>2. CASE UpdateSuite(p, s, a)
    BY <1>2, <2>2 DEF UpdateSuite, MySuite, SuiteRows, AuthorInv, AuthorTyped
  <2> QED BY <2>1, <2>2
<1>4. TablesGrow
  BY <1>1, <1>3 DEF TablesGrow
<1>5. AuthorTyped'
  BY <1>1, <1>3 DEF AuthorInv, AuthorTyped
<1>6. SuitesOK'
  BY <1>1, <1>2, <1>3 DEF AuthorInv, SuitesOK, MyAgent
<1> QED BY <1>1, <1>4, <1>5, <1>6, AuthorFrame, WhenTablesGrow DEF AuthorInv

\* A draft's row, its scenario forgotten.
LEMMA UnacceptedRow ==
    ASSUME NEW row \in DraftRows
    PROVE  /\ [row EXCEPT !.added = None] \in DraftRows
           /\ [row EXCEPT !.added = None].suite = row.suite
           /\ [row EXCEPT !.added = None].persona = row.persona
           /\ [row EXCEPT !.added = None].metrics = row.metrics
           /\ [row EXCEPT !.added = None].added = None
  BY DEF DraftRows

\* Scenarios are deleted, and perhaps a suite with its drafts: what is left of the
\* tables is as it was, but for the references to the scenarios.
Deletes(cs, ds, gone, kept) ==
    /\ cs \subseteq DOMAIN scenarios /\ ds \subseteq DOMAIN drafts
    /\ DOMAIN kept = DOMAIN drafts \ ds /\ \A d \in DOMAIN kept : kept[d] = drafts[d]
    /\ scenarios' = Drop(scenarios, cs) /\ drafts' = Unaccepted(kept, cs)
    /\ DOMAIN suites' = DOMAIN suites \ gone /\ \A s \in DOMAIN suites' : suites'[s] = suites[s]
    /\ ForgetScenarios(cs)
    /\ \A c \in DOMAIN scenarios \ cs : scenarios[c].suite \notin gone
    /\ \A d \in DOMAIN drafts \ ds : drafts[d].suite \notin gone
    /\ used' = used \cup gone \cup cs \cup ds
    /\ UNCHANGED <<projects, agents, personas, profiles, accepting, trespasses>>

LEMMA ScenariosDeleted ==
    ASSUME AuthorInv, NEW cs, NEW ds, NEW gone, NEW kept, Deletes(cs, ds, gone, kept)
    PROVE  AuthorInv'
<1> USE DEF Deletes
<1>1. /\ DOMAIN scenarios' = DOMAIN scenarios \ cs
      /\ \A c \in DOMAIN scenarios' : scenarios'[c] = scenarios[c]
  BY DEF Drop
<1>2. /\ DOMAIN drafts' = DOMAIN drafts \ ds
      /\ \A d \in DOMAIN drafts' :
            /\ drafts'[d] \in DraftRows /\ drafts'[d].suite = drafts[d].suite
            /\ drafts'[d].persona = drafts[d].persona /\ drafts'[d].metrics = drafts[d].metrics
            /\ drafts'[d].added = IF drafts[d].added \in cs THEN None ELSE drafts[d].added
  <2>1. /\ DOMAIN drafts' = DOMAIN drafts \ ds
        /\ \A d \in DOMAIN drafts' : drafts'[d] = IF drafts[d].added \in cs
                                               THEN [drafts[d] EXCEPT !.added = None] ELSE drafts[d]
    BY DEF Unaccepted
  <2>2. \A d \in DOMAIN drafts' : drafts[d] \in DraftRows
    BY <2>1 DEF AuthorInv, AuthorTyped
  <2>3. ASSUME NEW d \in DOMAIN drafts'
        PROVE  /\ drafts'[d] \in DraftRows /\ drafts'[d].suite = drafts[d].suite
               /\ drafts'[d].persona = drafts[d].persona /\ drafts'[d].metrics = drafts[d].metrics
               /\ drafts'[d].added = IF drafts[d].added \in cs THEN None ELSE drafts[d].added
    <3>1. CASE drafts[d].added \in cs
      <4>1. drafts'[d] = [drafts[d] EXCEPT !.added = None] /\ drafts[d] \in DraftRows
        BY <2>1, <2>2, <2>3, <3>1
      <4> QED BY <3>1, <4>1, UnacceptedRow
    <3>2. CASE drafts[d].added \notin cs
      BY <2>1, <2>2, <2>3, <3>2
    <3> QED BY <3>1, <3>2
  <2> QED BY <2>1, <2>3
<1>3. /\ DOMAIN authored' = DOMAIN authored
      /\ \A r \in DOMAIN authored :
            /\ authored'[r] \in LaunchRows
            /\ authored'[r].project = authored[r].project /\ authored'[r].agent = authored[r].agent
            /\ authored'[r].scenario = IF authored[r].scenario \in cs THEN None ELSE authored[r].scenario
  <2>1. /\ DOMAIN authored' = DOMAIN authored
        /\ \A r \in DOMAIN authored : authored'[r] = IF authored[r].scenario \in cs
                                    THEN [authored[r] EXCEPT !.scenario = None] ELSE authored[r]
    BY DEF ForgetScenarios
  <2>2. \A r \in DOMAIN authored : authored[r] \in LaunchRows
    BY DEF AuthorInv, AuthorTyped
  <2> QED BY <2>1, <2>2 DEF LaunchRows
<1>4. AuthorTyped'
  BY <1>1, <1>2, <1>3 DEF AuthorInv, AuthorTyped
<1>5. SuitesOK'
  BY DEF AuthorInv, SuitesOK, MyAgent
<1>6. ScenariosOK'
  BY <1>1 DEF AuthorInv, ScenariosOK, FitsSuite, VisiblePersona, VisibleMetrics
<1>7. DraftsOK'
  BY <1>2 DEF AuthorInv, DraftsOK, FitsSuite, VisiblePersona, VisibleMetrics
<1>8. LaunchesOK'
  BY <1>1, <1>3 DEF AuthorInv, LaunchesOK, ScenariosOK, FitsSuite, MyAgent, ProjectOf
<1>9. PendingOK'
  BY <1>1, <1>2 DEF AuthorInv, PendingOK, VisiblePersona, VisibleMetrics
<1>10. SourcesKnown' /\ OneScenario'
  BY <1>1, <1>2 DEF AuthorInv, SourcesKnown, OneScenario
<1>11. DraftsLinked'
  <2>1. cs \subseteq Scenarios /\ None \notin Scenarios
    BY AuthoringAssumption DEF AuthorInv, AuthorTyped
  <2> QED BY <1>1, <1>2, <2>1 DEF AuthorInv, DraftsLinked
<1> QED BY <1>4, <1>5, <1>6, <1>7, <1>8, <1>9, <1>10, <1>11 DEF AuthorInv

LEMMA DeleteSteps ==
    ASSUME AuthorInv, UNCHANGED trespasses, NEW p \in projects,
           \/ \E s \in Suites : DeleteSuite(p, s)
           \/ \E c \in Scenarios : DeleteScenario(p, c)
    PROVE  AuthorInv'
<1>1. ASSUME NEW s \in Suites, DeleteSuite(p, s) PROVE AuthorInv'
  <2>1. PICK cs, ds : cs = {c \in DOMAIN scenarios : scenarios[c].suite = s}
                      /\ ds = {d \in DOMAIN drafts : drafts[d].suite = s}
    OBVIOUS
  <2>2. /\ suites' = Drop(suites, {s}) /\ scenarios' = Drop(scenarios, cs)
        /\ drafts' = Unaccepted(Drop(drafts, ds), cs) /\ used' = used \cup {s} \cup cs \cup ds
        /\ ForgetScenarios(cs) /\ UNCHANGED <<projects, agents, personas, profiles, accepting>>
    BY <1>1, <2>1 DEF DeleteSuite
  <2>3. /\ DOMAIN Drop(drafts, ds) = DOMAIN drafts \ ds
        /\ \A d \in DOMAIN Drop(drafts, ds) : Drop(drafts, ds)[d] = drafts[d]
        /\ DOMAIN suites' = DOMAIN suites \ {s} /\ \A k \in DOMAIN suites' : suites'[k] = suites[k]
    BY <2>2 DEF Drop
  <2>4. Deletes(cs, ds, {s}, Drop(drafts, ds))
    BY <2>1, <2>2, <2>3 DEF Deletes
  <2> QED BY <2>4, ScenariosDeleted, Zenon
<1>2. ASSUME NEW c \in Scenarios, DeleteScenario(p, c) PROVE AuthorInv'
  <2>1. /\ scenarios' = Drop(scenarios, {c}) /\ drafts' = Unaccepted(drafts, {c})
        /\ used' = used \cup {} \cup {c} \cup {} /\ ForgetScenarios({c}) /\ c \in DOMAIN scenarios
        /\ UNCHANGED <<projects, agents, suites, personas, profiles, accepting>>
    BY <1>2 DEF DeleteScenario, MyScenario
  <2>2. DOMAIN drafts = DOMAIN drafts \ {} /\ DOMAIN suites' = DOMAIN suites \ {}
    BY <2>1
  <2>3. Deletes({c}, {}, {}, drafts)
    BY <2>1, <2>2 DEF Deletes
  <2> QED BY <2>3, ScenariosDeleted, Zenon
<1> QED BY <1>1, <1>2

LEMMA GenerateDraftStep ==
    ASSUME AuthorInv, UNCHANGED trespasses, NEW p \in projects, NEW s \in Suites, NEW d \in Drafts,
           NEW x \in Personas, NEW ms, GenerateDraft(p, s, d, x, ms)
    PROVE  AuthorInv'
<1>1. PICK row : row = [suite |-> s, persona |-> x, metrics |-> ms, added |-> None]
  OBVIOUS
<1>2. /\ UNCHANGED <<projects, agents, suites, personas, profiles, scenarios, authored, accepting, used>>
      /\ DOMAIN drafts' = DOMAIN drafts \cup {d} /\ d \notin DOMAIN drafts \cup used
      /\ drafts'[d] = row /\ \A k \in DOMAIN drafts : drafts'[k] = drafts[k]
      /\ FitsSuite(s, x, ms) /\ ms \in MetricSets
  BY <1>1 DEF GenerateDraft, Fresh, Put, MySuite, FitsSuite, VisibleMetrics, MetricSets
<1>3. row \in DraftRows
  BY <1>1, <1>2 DEF DraftRows
<1>4. TablesGrow
  BY <1>2 DEF TablesGrow
<1>5. AuthorTyped'
  BY <1>2, <1>3 DEF AuthorInv, AuthorTyped
<1>6. DraftsOK'
  BY <1>1, <1>2 DEF AuthorInv, DraftsOK, FitsSuite, VisiblePersona, VisibleMetrics
<1>7. DraftsLinked'
  <2>1. \A c \in DOMAIN scenarios : scenarios[c].draft # d
    BY <1>2, AuthoringAssumption DEF AuthorInv, SourcesKnown
  <2>2. row.added \notin Scenarios
    BY <1>1, AuthoringAssumption
  <2> QED BY <1>2, <2>1, <2>2 DEF AuthorInv, DraftsLinked
<1> QED BY <1>2, <1>4, <1>5, <1>6, <1>7, AuthorFrame, WhenTablesGrow DEF AuthorInv

\* A scenario's row as it is written.
LEMMA ScenarioRow ==
    ASSUME NEW s \in Suites, NEW x \in Personas, NEW t \in Profiles \cup {None},
           NEW d \in Drafts \cup {None}, NEW ms \in MetricSets
    PROVE  /\ Scenario(s, x, t, d, ms) \in ScenarioRows
           /\ Scenario(s, x, t, d, ms).suite = s /\ Scenario(s, x, t, d, ms).persona = x
           /\ Scenario(s, x, t, d, ms).draft = d /\ Scenario(s, x, t, d, ms).metrics = ms
  BY DEF Scenario, ScenarioRows

LEMMA AddScenarioStep ==
    ASSUME AuthorInv, UNCHANGED trespasses, NEW p \in projects, NEW s \in Suites,
           NEW c \in Scenarios, NEW x \in Personas, NEW t \in SomeProfile, NEW ms,
           AddScenario(p, s, c, x, t, ms)
    PROVE  AuthorInv'
<1>1. PICK row : row = Scenario(s, x, t, None, ms)
  OBVIOUS
<1>2. /\ UNCHANGED <<projects, agents, suites, personas, profiles, drafts, authored, accepting, used>>
      /\ DOMAIN scenarios' = DOMAIN scenarios \cup {c} /\ c \notin DOMAIN scenarios
      /\ scenarios'[c] = row /\ \A k \in DOMAIN scenarios : scenarios'[k] = scenarios[k]
      /\ FitsSuite(s, x, ms) /\ ms \in MetricSets
  BY <1>1 DEF AddScenario, Fresh, Put, MySuite, FitsSuite, VisibleMetrics, MetricSets
<1>3. /\ row \in ScenarioRows /\ row.suite = s /\ row.persona = x /\ row.draft = None
      /\ row.metrics = ms
  <2>1. t \in Profiles \cup {None}
    BY DEF SomeProfile, AuthorInv, AuthorTyped
  <2> QED BY <1>1, <1>2, <2>1, ScenarioRow
<1>4. AuthorTyped'
  BY <1>2, <1>3 DEF AuthorInv, AuthorTyped
<1>5. ScenariosOK'
  BY <1>2, <1>3 DEF AuthorInv, ScenariosOK, FitsSuite, VisiblePersona, VisibleMetrics
<1>6. LaunchesOK' /\ SourcesKnown' /\ OneScenario' /\ DraftsLinked'
  BY <1>2, <1>3, ScenarioStep
<1> QED BY <1>2, <1>4, <1>5, <1>6, AuthorFrame DEF AuthorInv

LEMMA UpdateScenarioStep ==
    ASSUME AuthorInv, UNCHANGED trespasses, NEW p \in projects, NEW c \in Scenarios,
           NEW x \in Personas, NEW t \in SomeProfile, NEW ms, UpdateScenario(p, c, x, t, ms)
    PROVE  AuthorInv'
<1>1. PICK row : row = [scenarios[c] EXCEPT !.persona = x, !.profile = t, !.metrics = ms]
  OBVIOUS
<1>2. scenarios' = [scenarios EXCEPT ![c] = row]
  BY <1>1 DEF UpdateScenario
<1>3. /\ UNCHANGED <<projects, agents, suites, personas, profiles, drafts, authored, accepting, used>>
      /\ c \in DOMAIN scenarios /\ scenarios[c] \in ScenarioRows
      /\ FitsSuite(scenarios[c].suite, x, ms) /\ ms \in MetricSets
  BY DEF UpdateScenario, MyScenario, MySuite, FitsSuite, VisibleMetrics, MetricSets, AuthorInv, AuthorTyped
<1>4. t \in Profiles \cup {None}
  BY DEF SomeProfile, AuthorInv, AuthorTyped
<1>5. /\ row \in ScenarioRows /\ row.suite = scenarios[c].suite /\ row.draft = scenarios[c].draft
      /\ row.persona = x /\ row.metrics = ms
  BY <1>1, <1>3, <1>4 DEF ScenarioRows
<1>6. /\ DOMAIN scenarios' = DOMAIN scenarios /\ scenarios'[c] = row
      /\ \A k \in DOMAIN scenarios \ {c} : scenarios'[k] = scenarios[k]
  BY <1>2, <1>3
<1>7. AuthorTyped'
  BY <1>3, <1>5, <1>6 DEF AuthorInv, AuthorTyped
<1>8. ScenariosOK'
  BY <1>3, <1>5, <1>6 DEF AuthorInv, ScenariosOK, FitsSuite, VisiblePersona, VisibleMetrics
<1>9. LaunchesOK' /\ SourcesKnown' /\ OneScenario' /\ DraftsLinked'
  BY <1>3, <1>5, <1>6, ScenarioStep
<1> QED BY <1>3, <1>7, <1>8, <1>9, AuthorFrame DEF AuthorInv

\* What a copy in another project refers to is that project's, or shared.
LEMMA CopiedPersona ==
    ASSUME NEW ref \in DOMAIN personas, ref # None, NEW q, NEW x \in Personas,
           DOMAIN personas \subseteq Personas, x \notin DOMAIN personas,
           NEW copied, copied = CopiedRef(personas, ref, q, x)
    PROVE  /\ copied.id \in DOMAIN copied.rows /\ copied.rows[copied.id] \in {Shared, q}
           /\ copied.id \in Personas
           /\ DOMAIN personas \subseteq DOMAIN copied.rows
           /\ DOMAIN copied.rows \subseteq DOMAIN personas \cup {x}
           /\ \A y \in DOMAIN personas : copied.rows[y] = personas[y]
  BY DEF CopiedRef, Put

LEMMA CopiedProfile ==
    ASSUME NEW ref \in Profiles \cup {None}, NEW q, NEW t \in Profiles, DOMAIN profiles \subseteq Profiles
    PROVE  /\ CopiedRef(profiles, ref, q, t).id \in Profiles \cup {None}
           /\ DOMAIN CopiedRef(profiles, ref, q, t).rows \subseteq Profiles
  BY DEF CopiedRef, Put

LEMMA DuplicateScenarioStep ==
    ASSUME AuthorInv, UNCHANGED trespasses, NEW p \in projects, NEW c \in Scenarios, NEW s \in Suites,
           NEW copy \in Scenarios, NEW x \in Personas, NEW t \in Profiles,
           DuplicateScenario(p, c, s, copy, x, t)
    PROVE  AuthorInv'
<1>1. PICK q, persona, profile, ms, row :
         /\ q = suites[s].project
         /\ persona = CopiedRef(personas, scenarios[c].persona, q, x)
         /\ profile = CopiedRef(profiles, scenarios[c].profile, q, t)
         /\ ms = scenarios[c].metrics \intersect VisibleMetrics(q)
         /\ row = Scenario(s, persona.id, profile.id, None, ms)
  OBVIOUS
<1>2. /\ UNCHANGED <<projects, agents, suites, drafts, authored, accepting, used>>
      /\ personas' = persona.rows /\ profiles' = profile.rows
      /\ x \notin DOMAIN personas \cup used /\ copy \notin DOMAIN scenarios
      /\ scenarios' = Put(scenarios, copy, row)
      /\ c \in DOMAIN scenarios /\ s \in DOMAIN suites
  BY <1>1 DEF DuplicateScenario, MyScenario, Fresh
<1>3. /\ DOMAIN scenarios' = DOMAIN scenarios \cup {copy} /\ scenarios'[copy] = row
      /\ \A k \in DOMAIN scenarios : scenarios'[k] = scenarios[k]
  BY <1>2 DEF Put
<1>4. /\ scenarios[c] \in ScenarioRows /\ scenarios[c].persona \in DOMAIN personas
      /\ DOMAIN personas \subseteq Personas /\ DOMAIN profiles \subseteq Profiles
  BY <1>2 DEF AuthorInv, AuthorTyped, ScenariosOK, FitsSuite, VisiblePersona
<1>5. scenarios[c].persona # None /\ scenarios[c].profile \in Profiles \cup {None}
  BY <1>4, AuthoringAssumption DEF ScenarioRows
<1>6. /\ persona.id \in DOMAIN personas' /\ personas'[persona.id] \in {Shared, q}
      /\ persona.id \in Personas /\ DOMAIN personas \subseteq DOMAIN personas'
      /\ DOMAIN personas' \subseteq DOMAIN personas \cup {x}
      /\ \A y \in DOMAIN personas : personas'[y] = personas[y]
  BY <1>1, <1>2, <1>4, <1>5, CopiedPersona
<1>7. profile.id \in Profiles \cup {None} /\ DOMAIN profiles' \subseteq Profiles
  BY <1>1, <1>2, <1>4, <1>5, CopiedProfile
<1>8. ms \in MetricSets
  BY <1>1 DEF MetricSets, VisibleMetrics
<1>9. /\ row \in ScenarioRows /\ row.suite = s /\ row.persona = persona.id /\ row.draft = None
      /\ row.metrics = ms
  <2>1. PICK y, z : y = persona.id /\ z = profile.id
    OBVIOUS
  <2>2. row = Scenario(s, y, z, None, ms) /\ y \in Personas /\ z \in Profiles \cup {None}
    BY <1>1, <1>6, <1>7, <2>1
  <2>3. /\ Scenario(s, y, z, None, ms) \in ScenarioRows
        /\ Scenario(s, y, z, None, ms).suite = s /\ Scenario(s, y, z, None, ms).persona = y
        /\ Scenario(s, y, z, None, ms).draft = None /\ Scenario(s, y, z, None, ms).metrics = ms
    <3>1. None \in Drafts \cup {None}
      OBVIOUS
    <3> QED BY <1>8, <2>2, <3>1, ScenarioRow
  <2> QED BY <2>1, <2>2, <2>3
<1>10. TablesGrow
  BY <1>2, <1>6 DEF TablesGrow
<1>11. AuthorTyped'
  BY <1>2, <1>3, <1>6, <1>7, <1>9 DEF AuthorInv, AuthorTyped
<1>12. ScenariosOK'
  <2>1. FitsSuite(s, row.persona, row.metrics)'
    BY <1>1, <1>2, <1>6, <1>9 DEF FitsSuite, VisiblePersona, VisibleMetrics
  <2>2. ASSUME NEW k \in DOMAIN scenarios
        PROVE  FitsSuite(scenarios[k].suite, scenarios[k].persona, scenarios[k].metrics)'
    BY <1>2, <1>3, <1>6 DEF AuthorInv, ScenariosOK, FitsSuite, VisiblePersona, VisibleMetrics
  <2> QED BY <1>3, <1>9, <2>1, <2>2, SMTT(20) DEF ScenariosOK
<1>13. LaunchesOK' /\ SourcesKnown' /\ OneScenario' /\ DraftsLinked'
  BY <1>2, <1>3, <1>9, ScenarioStep
<1> QED BY <1>2, <1>10, <1>11, <1>12, <1>13, AuthorFrame, WhenTablesGrow DEF AuthorInv

LEMMA AcceptDraftStep ==
    ASSUME AuthorInv, UNCHANGED trespasses, NEW u \in Authors, NEW p \in projects, NEW s \in Suites,
           NEW d \in Drafts, NEW x \in Personas, NEW ms, AcceptDraft(u, p, s, d, x, ms)
    PROVE  AuthorInv'
<1>1. PICK new : new = [suite |-> s, draft |-> d, persona |-> x, metrics |-> ms]
  OBVIOUS
<1>2. /\ UNCHANGED <<projects, agents, suites, personas, profiles, scenarios, drafts, authored, used>>
      /\ accepting' = [accepting EXCEPT ![u] = new] /\ d \in DOMAIN drafts
      /\ FitsSuite(s, x, ms) /\ ms \in MetricSets
  BY <1>1 DEF AcceptDraft, MySuite, FitsSuite, VisibleMetrics, MetricSets
<1>3. new \in Acceptances
  BY <1>1, <1>2 DEF Acceptances
<1>4. /\ DOMAIN accepting' = Authors /\ accepting'[u] = new
      /\ \A k \in Authors \ {u} : accepting'[k] = accepting[k]
  BY <1>2 DEF AuthorInv, AuthorTyped
<1>5. AuthorTyped'
  BY <1>2, <1>3, <1>4 DEF AuthorInv, AuthorTyped
<1>6. PendingOK'
  <2>1. /\ new.suite = s /\ new.persona = x /\ new.draft = d /\ new.metrics = ms
        /\ s \in DOMAIN suites /\ x \in DOMAIN personas
    BY <1>1, <1>2 DEF FitsSuite, VisiblePersona
  <2>2. PendingOK
    BY DEF AuthorInv
  <2> QED BY <1>2, <1>4, <2>1, <2>2 DEF PendingOK, FitsSuite, VisiblePersona, VisibleMetrics
<1> QED BY <1>2, <1>5, <1>6, AuthorFrame DEF AuthorInv

LEMMA LaunchScenarioStep ==
    ASSUME AuthorInv, UNCHANGED trespasses, NEW p \in projects, NEW r \in AuthoredRuns,
           NEW c \in Scenarios, NEW a \in Agents, LaunchScenario(p, r, c, a)
    PROVE  AuthorInv'
<1>1. PICK row : row = [project |-> p, agent |-> a, scenario |-> c]
  OBVIOUS
<1>2. /\ UNCHANGED <<projects, agents, suites, personas, profiles, scenarios, drafts, accepting, used>>
      /\ DOMAIN authored' = DOMAIN authored \cup {r} /\ authored'[r] = row
      /\ \A k \in DOMAIN authored \ {r} : authored'[k] = authored[k]
      /\ MyAgent(p, a) /\ c \in DOMAIN scenarios /\ ProjectOf(c) = p
  BY <1>1 DEF LaunchScenario, Put, MyScenario, MySuite, ProjectOf
<1>3. p \in Projects /\ row \in LaunchRows
  BY <1>1 DEF LaunchRows, AuthorInv, AuthorTyped
<1>4. AuthorTyped'
  BY <1>2, <1>3 DEF AuthorInv, AuthorTyped
<1>5. LaunchesOK'
  BY <1>1, <1>2 DEF AuthorInv, LaunchesOK, MyAgent, ProjectOf
<1> QED BY <1>2, <1>4, <1>5, AuthorFrame DEF AuthorInv

LEMMA AcceptCommitsStep ==
    ASSUME AuthorInv, UNCHANGED trespasses, NEW u \in Authors, NEW c \in Scenarios,
           NEW t \in SomeProfile, AcceptCommits(u, c, t)
    PROVE  AuthorInv'
<1>1. PICK new : new = accepting[u]
  OBVIOUS
<1>2. /\ new \in Acceptances /\ t \in Profiles \cup {None} /\ c \notin DOMAIN scenarios
      /\ UNCHANGED <<projects, agents, suites, personas, profiles, authored, used>>
      /\ accepting' = [accepting EXCEPT ![u] = Idling]
      /\ \/ UNCHANGED <<scenarios, drafts>>
         \/ /\ ~Taken(new.draft) /\ new.suite \in DOMAIN suites /\ new.persona \in DOMAIN personas
            /\ scenarios' = Put(scenarios, c,
                   Scenario(new.suite, new.persona, t, new.draft, new.metrics))
            /\ drafts' = IF new.draft \in DOMAIN drafts
                           THEN [drafts EXCEPT ![new.draft].added = c] ELSE drafts
  BY <1>1 DEF AcceptCommits, Fresh, SomeProfile, AuthorInv, AuthorTyped
<1>3. /\ DOMAIN accepting' = Authors /\ accepting'[u] = Idling
      /\ \A k \in Authors \ {u} : accepting'[k] = accepting[k]
  BY <1>2 DEF AuthorInv, AuthorTyped
<1>4. ASSUME DOMAIN drafts' = DOMAIN drafts PROVE PendingOK'
  BY <1>2, <1>3, <1>4 DEF AuthorInv, PendingOK, VisiblePersona, VisibleMetrics
<1>5. CASE UNCHANGED <<scenarios, drafts>>
  <2>1. AuthorTyped'
    BY <1>2, <1>3, <1>5 DEF AuthorInv, AuthorTyped
  <2> QED BY <1>2, <1>4, <1>5, <2>1, AuthorFrame DEF AuthorInv
<1>6. CASE /\ ~Taken(new.draft) /\ new.suite \in DOMAIN suites /\ new.persona \in DOMAIN personas
           /\ scenarios' = Put(scenarios, c,
                  Scenario(new.suite, new.persona, t, new.draft, new.metrics))
           /\ drafts' = IF new.draft \in DOMAIN drafts
                          THEN [drafts EXCEPT ![new.draft].added = c] ELSE drafts
  <2>1. PICK row : row = Scenario(new.suite, new.persona, t, new.draft, new.metrics)
    OBVIOUS
  <2>2. /\ row \in ScenarioRows /\ row.suite = new.suite /\ row.persona = new.persona
        /\ row.draft = new.draft /\ row.metrics = new.metrics
    BY <1>2, <2>1, ScenarioRow DEF Acceptances
  <2>3. /\ DOMAIN scenarios' = DOMAIN scenarios \cup {c} /\ scenarios'[c] = row
        /\ \A k \in DOMAIN scenarios : scenarios'[k] = scenarios[k]
    BY <1>2, <1>6, <2>1 DEF Put
  <2>4. /\ DOMAIN drafts' = DOMAIN drafts
        /\ \A d \in DOMAIN drafts :
              /\ drafts'[d] \in DraftRows /\ drafts'[d].suite = drafts[d].suite
              /\ drafts'[d].persona = drafts[d].persona /\ drafts'[d].metrics = drafts[d].metrics
              /\ drafts'[d].added = IF d = new.draft THEN c ELSE drafts[d].added
    <3>1. \A d \in DOMAIN drafts : drafts[d] \in DraftRows
      BY DEF AuthorInv, AuthorTyped
    <3> QED BY <1>6, <3>1 DEF DraftRows
  <2>5. /\ new.draft \in Drafts /\ new.draft # None /\ new.draft \in DOMAIN drafts \cup used
        /\ FitsSuite(new.suite, new.persona, new.metrics)
    <3>1. new # Idling /\ new.draft \in Drafts
      BY <1>1, <1>2 DEF AcceptCommits, Acceptances
    <3> QED BY <1>1, <1>6, <3>1, AuthoringAssumption DEF AuthorInv, PendingOK, FitsSuite
  <2>6. AuthorTyped'
    BY <1>2, <1>3, <2>2, <2>3, <2>4 DEF AuthorInv, AuthorTyped
  <2>7. ScenariosOK'
    BY <1>2, <2>2, <2>3, <2>5 DEF AuthorInv, ScenariosOK, FitsSuite, VisiblePersona, VisibleMetrics
  <2>8. DraftsOK'
    BY <1>2, <2>4 DEF AuthorInv, DraftsOK, FitsSuite, VisiblePersona, VisibleMetrics
  <2>9. LaunchesOK'
    BY <1>2, <2>3 DEF AuthorInv, LaunchesOK, MyAgent, ProjectOf
  <2>10. SourcesKnown'
    BY <1>2, <2>2, <2>3, <2>4, <2>5 DEF AuthorInv, SourcesKnown
  <2>11. OneScenario'
    BY <1>6, <2>2, <2>3 DEF AuthorInv, OneScenario, Taken
  <2>12. DraftsLinked'
    BY <1>2, <1>6, <2>2, <2>3, <2>4 DEF AuthorInv, DraftsLinked, Taken
  <2> QED BY <1>2, <1>4, <2>4, <2>6, <2>7, <2>8, <2>9, <2>10, <2>11, <2>12, AuthorFrame DEF AuthorInv
<1> QED BY <1>2, <1>5, <1>6

\* A PATCH changes rows of the project that asks for it only.
LEMMA EditStep ==
    ASSUME AuthorInv, NEW p \in projects, EditRequest(p)
    PROVE  AuthorInv'
<1>1. PICK owners : Edit(p, owners) /\ owners \subseteq {p}
  <2>1. ASSUME NEW x \in Personas, UpdatePersona(p, x)
        PROVE  Edit(p, {personas[x]}) /\ {personas[x]} \subseteq {p}
    BY <2>1 DEF UpdatePersona, VisiblePersona
  <2>2. ASSUME NEW t \in Profiles, UpdateTestProfile(p, t)
        PROVE  Edit(p, {profiles[t]}) /\ {profiles[t]} \subseteq {p}
    BY <2>2 DEF UpdateTestProfile
  <2>3. ASSUME NEW a \in Agents, UpdateAgent(p, a)
        PROVE  Edit(p, {agents[a]}) /\ {agents[a]} \subseteq {p}
    BY <2>3 DEF UpdateAgent, MyAgent
  <2>4. ASSUME NEW ss \in SUBSET Suites, MoveSuites(p, ss)
        PROVE  /\ Edit(p, {suites[s].project : s \in ss})
               /\ {suites[s].project : s \in ss} \subseteq {p}
    BY <2>4 DEF MoveSuites, MySuite
  <2> QED BY <2>1, <2>2, <2>3, <2>4, Zenon DEF EditRequest
<1>2. /\ UNCHANGED <<projects, agents, suites, personas, profiles, scenarios, drafts, authored,
                     accepting, used>>
      /\ trespasses' = trespasses
  BY <1>1 DEF Edit
<1>3. AuthorTyped'
  BY <1>2 DEF AuthorInv, AuthorTyped
<1> QED BY <1>2, <1>3, AuthorFrame DEF AuthorInv

LEMMA ProjectRequestStep ==
    ASSUME AuthorInv, UNCHANGED trespasses, NEW p \in projects, ProjectRequest(p)
    PROVE  AuthorInv'
<1>1. CASE \E a \in Agents : CreateAgent(p, a) \/ DeleteAgent(p, a)
  BY <1>1, AgentSteps
<1>2. CASE \E x \in Personas :
             \/ CreatePersona(p, x) \/ DeletePersona(p, x)
             \/ \E y \in Personas : DuplicatePersona(p, y, x)
  BY <1>2, CreatePersonaStep, DeletePersonaStep DEF DuplicatePersona
<1>3. CASE \E t \in Profiles : CreateTestProfile(p, t) \/ DeleteTestProfile(p, t)
  BY <1>3, ProfileSteps
<1>4. CASE DeleteProject(p)
  <2>1. AuthorTyped'
    BY <1>4 DEF DeleteProject, AuthorInv, AuthorTyped
  <2> QED BY <1>4, <2>1, AuthorFrame DEF AuthorInv, DeleteProject
<1>5. CASE \E s \in Suites, a \in Agents : CreateSuite(p, s, a) \/ UpdateSuite(p, s, a)
  BY <1>5, SuiteSteps
<1>6. CASE (\E s \in Suites : DeleteSuite(p, s)) \/ (\E c \in Scenarios : DeleteScenario(p, c))
  BY <1>6, DeleteSteps
<1>7. CASE \E s \in Suites, x \in Personas, ms \in Proposals :
             \/ \E d \in Drafts : GenerateDraft(p, s, d, x, ms)
             \/ \E c \in Scenarios, t \in SomeProfile : AddScenario(p, s, c, x, t, ms)
  BY <1>7, GenerateDraftStep, AddScenarioStep
<1>8. CASE \E u \in Authors, s \in Suites, d \in Drafts, x \in Personas, ms \in Proposals :
             AcceptDraft(u, p, s, d, x, ms)
  BY <1>8, AcceptDraftStep
<1>9. CASE \E c \in Scenarios, x \in Personas, t \in SomeProfile, ms \in Proposals :
             UpdateScenario(p, c, x, t, ms)
  BY <1>9, UpdateScenarioStep
<1>10. CASE \E c, copy \in Scenarios, s \in Suites, x \in Personas, t \in Profiles :
              DuplicateScenario(p, c, s, copy, x, t)
  BY <1>10, DuplicateScenarioStep
<1>11. CASE \E r \in AuthoredRuns, c \in Scenarios, a \in Agents : LaunchScenario(p, r, c, a)
  BY <1>11, LaunchScenarioStep
<1> QED BY <1>1, <1>2, <1>3, <1>4, <1>5, <1>6, <1>7, <1>8, <1>9, <1>10, <1>11, Zenon DEF ProjectRequest

LEMMA AuthorInvStep == AuthorInv /\ [AuthorNext]_authorVars => AuthorInv'
<1> SUFFICES ASSUME AuthorInv, [AuthorNext]_authorVars PROVE AuthorInv'
  OBVIOUS
<1>1. CASE UNCHANGED authorVars
  <2>1. AuthorTyped'
    BY <1>1 DEF authorVars, AuthorInv, AuthorTyped
  <2> QED BY <1>1, <2>1, AuthorFrame DEF authorVars, AuthorInv
<1> QED BY <1>1, ProjectRequestStep, EditStep, AcceptCommitsStep DEF AuthorNext

LEMMA AuthorInvHolds == AuthorSpec => []AuthorInv
  BY AuthorInvInit, AuthorInvStep, PTL DEF AuthorSpec

\* What a suite, scenario, draft or run of a project is made of is of that project or
\* shared, and no request changes another project's rows (app/api/suites.py, agents.py,
\* personas.py, test_profiles.py), for any number of projects, users and requests.
THEOREM ProjectsAreApart == AuthorSpec => []TenantsKeptApart
<1>1. AuthorInv => TenantsKeptApart
  <2> SUFFICES ASSUME AuthorInv PROVE TenantsKeptApart
    OBVIOUS
  <2>1. \A c \in DOMAIN scenarios :
           /\ scenarios[c].suite \in DOMAIN suites
           /\ VisiblePersona(ProjectOf(c), scenarios[c].persona)
           /\ scenarios[c].metrics \subseteq VisibleMetrics(ProjectOf(c))
    BY DEF AuthorInv, ScenariosOK, FitsSuite, ProjectOf
  <2>2. \A d \in DOMAIN drafts :
           /\ VisiblePersona(suites[drafts[d].suite].project, drafts[d].persona)
           /\ drafts[d].metrics \subseteq VisibleMetrics(suites[drafts[d].suite].project)
    BY DEF AuthorInv, DraftsOK, FitsSuite
  <2> QED BY <2>1, <2>2 DEF TenantsKeptApart, AuthorInv, SuitesOK, LaunchesOK
<1> QED BY <1>1, AuthorInvHolds, PTL

\* A draft becomes one scenario at most, however its acceptances overlap, and names it
\* (add_scenario, delete_scenario in app/api/suites.py).
THEOREM OneAcceptance == AuthorSpec => []DraftAcceptedOnce
<1>1. AuthorInv => DraftAcceptedOnce
  BY DEF AuthorInv, OneScenario, DraftsLinked, DraftAcceptedOnce
<1> QED BY <1>1, AuthorInvHolds, PTL

-----------------------------------------------------------------------------
(* The polled page: the invariant.                                         *)

\* A poll between its statements.
PollOK ==
    /\ poll = [at |-> poll.at, since |-> poll.since, etag |-> poll.etag, sent |-> poll.sent,
               aggregate |-> poll.aggregate, writing |-> poll.writing]
    /\ poll.at \in {"aggregate", "rows"} /\ poll.since \in {0, page.since}
    /\ poll.sent \in Nat /\ poll.sent <= now /\ poll.etag \in Nat /\ poll.etag <= poll.sent
    /\ poll.writing \subseteq Polled

DeltaTyped ==
    /\ now \in Nat /\ DOMAIN calls = Polled /\ \A c \in Polled : calls[c].updated \in 1..now
    /\ DOMAIN open = Transactions
    /\ \A t \in Transactions :
          open[t] = Closed \/ (open[t].call \in Polled /\ open[t].began \in 1..now)
    /\ page.since \in Nat /\ page.etag \in Nat /\ page.etag <= page.since /\ page.since <= now
    /\ poll = NoPoll \/ PollOK

PageShows(c) == page.rows[c] = Shown(c) \/ c \in late \union cut

\* The page shows the calls that the cursor has passed.
CursorOK == \A c \in Polled : calls[c].updated <= page.since => PageShows(c)

\* A transaction that may yet commit behind the cursor is known.
LateOK ==
    \A t \in Transactions : open[t] # Closed =>
      /\ open[t].began <= page.since => open[t].call \in late
      /\ poll # NoPoll /\ open[t].began <= poll.sent => open[t].call \in poll.writing

Past(time) == \E c \in Polled : calls[c].updated > time

\* The aggregate is that of now, or what is later than it can be told.
AggregateOK ==
    /\ page.aggregate = Aggregate \/ late # {} \/ Past(page.since)
    /\ poll.at = "rows" => poll.aggregate = Aggregate \/ poll.writing # {} \/ Past(poll.sent)
    /\ poll # NoPoll /\ current => ~Past(poll.sent)

DeltaInv == DeltaTyped /\ CursorOK /\ LateOK /\ AggregateOK /\ PageSettles

\* A bounded set of numbers has a greatest one.
LEMMA MaxOfBounded ==
    ASSUME NEW S \in SUBSET Nat, S # {}, NEW b \in Nat, \A x \in S : x <= b
    PROVE  Max(S) \in S /\ \A x \in S : x <= Max(S)
<1>1. PICK R : R = {ss \in Nat \X Nat : ss[1] < ss[2]}
  OBVIOUS
<1>2. IsWellFoundedOn(R, Nat)
  BY <1>1, NatLessThanWellFounded DEF OpToRel
<1>3. PICK T : T = {b - x : x \in S}
  OBVIOUS
<1>4. T \subseteq Nat /\ T # {}
  <2>1. \A x \in S : b - x \in Nat /\ b - x \in T
    BY <1>3
  <2>2. \A y \in T : \E x \in S : y = b - x
    BY <1>3
  <2> QED BY <2>1, <2>2
<1>5. PICK y \in T : \A z \in T : <<z, y>> \notin R
  BY <1>2, <1>4, WFMin, Zenon
<1>6. PICK m \in S : y = b - m
  BY <1>3
<1>7. \A x \in S : x <= m
  <2>1. SUFFICES ASSUME NEW x \in S, x > m PROVE FALSE
    BY <1>6
  <2>2. b - x \in T /\ b - x \in Nat /\ y \in Nat /\ b - x < y
    BY <1>3, <1>4, <1>6, <2>1
  <2> QED BY <1>1, <1>5, <2>2
<1> QED BY <1>6, <1>7 DEF Max

\* The ETag is the time of the newest change.
LEMMA ETagIsNewest ==
    ASSUME DeltaTyped
    PROVE  ETag \in Nat /\ ETag <= now /\ \A c \in Polled : calls[c].updated <= ETag
<1>1. PICK S : S = {calls[c].updated : c \in Polled}
  OBVIOUS
<1>2. /\ \A c \in Polled : calls[c].updated \in S /\ calls[c].updated \in Nat /\ calls[c].updated <= now
      /\ \A x \in S : \E c \in Polled : x = calls[c].updated
      /\ now \in Nat
  BY <1>1 DEF DeltaTyped
<1>3. S \in SUBSET Nat /\ S # {} /\ \A x \in S : x <= now
  BY <1>2, DeltaAssumption
<1>4. Max(S) \in S /\ \A x \in S : x <= Max(S)
  BY <1>2, <1>3, MaxOfBounded
<1>5. ETag = Max(S)
  BY <1>1 DEF ETag
<1> QED BY <1>2, <1>3, <1>4, <1>5

LEMMA DeltaInvInit == DeltaInit => DeltaInv
<1> SUFFICES ASSUME DeltaInit PROVE DeltaInv
  OBVIOUS
<1>1. DeltaTyped
  BY DEF DeltaInit, DeltaTyped
<1>2. \A c \in Polled : calls[c].updated = 1
  BY DEF DeltaInit
<1>3. page.since = 0 /\ poll = NoPoll /\ ~current /\ \A t \in Transactions : open[t] = Closed
  BY DEF DeltaInit
<1>4. Past(page.since)
  BY <1>2, <1>3, DeltaAssumption DEF Past
<1>5. CursorOK /\ LateOK /\ PageSettles
  BY <1>2, <1>3 DEF CursorOK, LateOK, PageSettles
<1>6. AggregateOK
  BY <1>3, <1>4 DEF AggregateOK, NoPoll
<1> QED BY <1>1, <1>5, <1>6 DEF DeltaInv

LEMMA SameAggregate == UNCHANGED calls => Aggregate' = Aggregate
  BY DEF Aggregate, VerdictOf

\* Steps that leave the rows, the page and the poll alone.
LEMMA DeltaFrame ==
    ASSUME DeltaInv, UNCHANGED <<calls, poll, page, late, cut, current>>
    PROVE  CursorOK' /\ AggregateOK' /\ PageSettles'
<1>1. Aggregate' = Aggregate
  BY SameAggregate
<1>2. \A time : Past(time)' <=> Past(time)
  BY DEF Past
<1>3. CursorOK'
  BY DEF DeltaInv, CursorOK, PageShows, Shown
<1>4. AggregateOK'
  BY <1>1 DEF DeltaInv, AggregateOK, Past
<1>5. PageSettles'
  BY <1>1 DEF DeltaInv, PageSettles, Shown
<1> QED BY <1>3, <1>4, <1>5

LEMMA BeginChangeStep ==
    ASSUME DeltaInv, NEW t \in Transactions, NEW c \in Polled, BeginChange(t, c)
    PROVE  DeltaInv'
<1>1. PICK new : new = [call |-> c, began |-> now + 1]
  OBVIOUS
<1>2. /\ now' = now + 1 /\ open' = [open EXCEPT ![t] = new]
      /\ UNCHANGED <<calls, poll, page, late, cut, current>>
  BY <1>1 DEF BeginChange
<1>3. /\ DOMAIN open' = Transactions /\ open'[t] = new
      /\ \A u \in Transactions \ {t} : open'[u] = open[u]
      /\ new.call = c /\ new.began = now + 1 /\ now \in Nat
  BY <1>1, <1>2 DEF DeltaInv, DeltaTyped
<1>4. DeltaTyped'
  BY <1>2, <1>3 DEF DeltaInv, DeltaTyped, PollOK
<1>5. LateOK'
  BY <1>2, <1>3 DEF DeltaInv, DeltaTyped, PollOK, LateOK
<1> QED BY <1>2, <1>4, <1>5, DeltaFrame DEF DeltaInv

LEMMA RollBackStep ==
    ASSUME DeltaInv, NEW t \in Transactions, RollBack(t)
    PROVE  DeltaInv'
<1>1. /\ open' = [open EXCEPT ![t] = Closed] /\ UNCHANGED <<now, calls, poll, page, late, cut, current>>
  BY DEF RollBack
<1>2. /\ DOMAIN open' = Transactions /\ open'[t] = Closed
      /\ \A u \in Transactions \ {t} : open'[u] = open[u]
  BY <1>1 DEF DeltaInv, DeltaTyped
<1>3. DeltaTyped'
  BY <1>1, <1>2 DEF DeltaInv, DeltaTyped, PollOK
<1>4. LateOK'
  BY <1>1, <1>2 DEF DeltaInv, LateOK
<1> QED BY <1>1, <1>3, <1>4, DeltaFrame DEF DeltaInv

\* A change that commits is later than what was read, or was known to be late.
LEMMA CommitChangeStep ==
    ASSUME DeltaInv, NEW t \in Transactions, CommitChange(t)
    PROVE  DeltaInv'
<1>1. PICK c, began : c = open[t].call /\ began = open[t].began
  OBVIOUS
<1>2. PICK row : /\ calls' = [calls EXCEPT ![c] = row] /\ row.updated = began
  <2>1. PICK next : calls' = [calls EXCEPT ![c] = [status |-> next[1], badge |-> next[2],
                                                  updated |-> began]]
    BY <1>1 DEF CommitChange
  <2>2. [status |-> next[1], badge |-> next[2], updated |-> began].updated = began
    OBVIOUS
  <2> QED BY <2>1, <2>2, Zenon
<1>3. /\ open[t] # Closed /\ open' = [open EXCEPT ![t] = Closed] /\ ~current'
      /\ UNCHANGED <<now, poll, page, late, cut>>
  BY DEF CommitChange
<1>4. c \in Polled /\ began \in 1..now /\ now \in Nat
  BY <1>1, <1>3 DEF DeltaInv, DeltaTyped
<1>5. /\ DOMAIN calls' = Polled /\ calls'[c] = row
      /\ \A d \in Polled \ {c} : calls'[d] = calls[d]
      /\ DOMAIN open' = Transactions /\ open'[t] = Closed
      /\ \A u \in Transactions \ {t} : open'[u] = open[u]
  BY <1>2, <1>3, <1>4 DEF DeltaInv, DeltaTyped
<1>6. DeltaTyped'
  BY <1>2, <1>3, <1>4, <1>5 DEF DeltaInv, DeltaTyped, PollOK
<1>7. /\ began <= page.since => c \in late
      /\ poll # NoPoll /\ began <= poll.sent => c \in poll.writing
  BY <1>1, <1>3 DEF DeltaInv, LateOK
<1>8. CursorOK'
  BY <1>2, <1>3, <1>5, <1>7 DEF DeltaInv, CursorOK, PageShows, Shown
<1>9. LateOK'
  BY <1>3, <1>5 DEF DeltaInv, LateOK
<1>10. AggregateOK'
  <2>1. began > page.since => Past(page.since)'
    BY <1>2, <1>3, <1>4, <1>5 DEF Past
  <2>2. poll # NoPoll /\ began > poll.sent => Past(poll.sent)'
    BY <1>2, <1>3, <1>4, <1>5 DEF Past
  <2>3. page.since \in Nat /\ (poll.at = "rows" => poll # NoPoll)
        /\ (poll # NoPoll => poll.sent \in Nat) /\ began \in Nat
    BY <1>4 DEF DeltaInv, DeltaTyped, PollOK, NoPoll
  <2> QED BY <1>3, <1>7, <2>1, <2>2, <2>3 DEF AggregateOK
<1> QED BY <1>3, <1>6, <1>8, <1>9, <1>10 DEF DeltaInv, PageSettles

\* Not modified: the newest change is one that the page has.
LEMMA PollStateStep ==
    ASSUME DeltaInv, NEW since, PollState(since)
    PROVE  DeltaInv'
<1>1. /\ poll = NoPoll /\ since \in {0, page.since} /\ current' = TRUE
      /\ UNCHANGED <<now, calls, open, page, cut>>
  BY DEF PollState
<1>2. /\ DeltaTyped /\ ETag \in Nat /\ ETag <= now /\ \A c \in Polled : calls[c].updated <= ETag
      /\ page.since \in Nat /\ page.etag \in Nat /\ page.etag <= page.since /\ now \in Nat
      /\ \A c \in Polled : calls[c].updated \in Nat
  BY ETagIsNewest DEF DeltaInv, DeltaTyped
<1>3. Aggregate' = Aggregate
  BY <1>1, SameAggregate
<1>4. BeingWritten \subseteq Polled
      /\ \A t \in Transactions : open[t] # Closed => open[t].call \in BeingWritten
  BY DEF BeingWritten, Writing, DeltaInv, DeltaTyped
<1>5. CASE ETag = page.etag /\ late' = late \union BeingWritten /\ UNCHANGED poll
  <2>1. DeltaTyped'
    BY <1>1, <1>5 DEF DeltaInv, DeltaTyped, PollOK
  <2>2. LateOK'
    BY <1>1, <1>4, <1>5 DEF DeltaInv, LateOK
  <2>3. CursorOK'
    BY <1>1, <1>5 DEF DeltaInv, CursorOK, PageShows, Shown
  <2>4. \A c \in Polled : calls[c].updated <= page.since
    BY <1>2, <1>5
  <2>5. ~Past(page.since)
    BY <1>2, <2>4 DEF Past
  <2>6. page.aggregate = Aggregate \/ late # {}
    BY <2>5 DEF DeltaInv, AggregateOK
  <2>7. AggregateOK'
    BY <1>1, <1>3, <1>5, <2>6 DEF AggregateOK, NoPoll
  <2>8. PageSettles'
    BY <1>1, <1>3, <1>5, <2>4, <2>6 DEF PageSettles, DeltaInv, CursorOK, PageShows, Shown
  <2> QED BY <2>1, <2>2, <2>3, <2>7, <2>8 DEF DeltaInv
<1>6. CASE /\ poll' = [at |-> "aggregate", since |-> since, etag |-> ETag, sent |-> now,
                       aggregate |-> NoAggregate, writing |-> BeingWritten]
           /\ UNCHANGED late
  <2>1. /\ poll'.at = "aggregate" /\ poll'.since = since /\ poll'.etag = ETag /\ poll'.sent = now
        /\ poll'.aggregate = NoAggregate /\ poll'.writing = BeingWritten /\ poll' # NoPoll
    BY <1>6 DEF NoPoll
  <2>2. PollOK'
    BY <1>1, <1>2, <1>4, <1>6, <2>1 DEF PollOK
  <2>3. DeltaTyped'
    BY <1>1, <1>2, <2>2 DEF DeltaTyped
  <2>4. CursorOK'
    BY <1>1, <1>6 DEF DeltaInv, CursorOK, PageShows, Shown
  <2>5. LateOK'
    BY <1>1, <1>4, <1>6, <2>1 DEF DeltaInv, LateOK
  <2>6. ~Past(now)
    BY <1>2 DEF Past
  <2>7. AggregateOK'
    BY <1>1, <1>3, <1>6, <2>1, <2>6 DEF DeltaInv, AggregateOK, Past
  <2> QED BY <2>1, <2>3, <2>4, <2>5, <2>7 DEF DeltaInv, PageSettles
<1> QED BY <1>5, <1>6 DEF PollState

LEMMA PollAggregateStep ==
    ASSUME DeltaInv, PollAggregate
    PROVE  DeltaInv'
<1>1. /\ poll.at = "aggregate" /\ poll' = [poll EXCEPT !.at = "rows", !.aggregate = Aggregate]
      /\ UNCHANGED <<now, calls, open, page, late, cut, current>>
  BY DEF PollAggregate
<1>2. poll # NoPoll /\ PollOK
  BY <1>1 DEF NoPoll, DeltaInv, DeltaTyped
<1>3. poll' = [at |-> "rows", since |-> poll.since, etag |-> poll.etag, sent |-> poll.sent,
               aggregate |-> Aggregate, writing |-> poll.writing]
  BY <1>1, <1>2 DEF PollOK
<1>4. /\ poll'.at = "rows" /\ poll'.since = poll.since /\ poll'.etag = poll.etag
      /\ poll'.sent = poll.sent /\ poll'.aggregate = Aggregate /\ poll'.writing = poll.writing
      /\ poll' # NoPoll
  BY <1>3 DEF NoPoll
<1>5. Aggregate' = Aggregate
  BY <1>1, SameAggregate
<1>6. DeltaTyped'
  <2>1. PollOK'
    BY <1>1, <1>2, <1>3, <1>4 DEF PollOK
  <2> QED BY <1>1, <2>1 DEF DeltaInv, DeltaTyped
<1>7. CursorOK'
  BY <1>1 DEF DeltaInv, CursorOK, PageShows, Shown
<1>8. LateOK'
  BY <1>1, <1>2, <1>4 DEF DeltaInv, LateOK
<1>9. AggregateOK'
  BY <1>1, <1>2, <1>4, <1>5 DEF DeltaInv, AggregateOK, Past
<1> QED BY <1>4, <1>6, <1>7, <1>8, <1>9 DEF DeltaInv, PageSettles

\* The answer: what it leaves out is behind the cursor it was asked with, or cut off.
LEMMA PollRowsStep ==
    ASSUME DeltaInv, PollRows
    PROVE  DeltaInv'
<1>1. PICK answer :
         /\ answer \subseteq Newest(Changed(poll.since))
         /\ page' = [rows |-> [c \in Polled |-> IF c \in answer THEN Shown(c) ELSE page.rows[c]],
                     aggregate |-> poll.aggregate, etag |-> AnswerTag, since |-> poll.sent]
         /\ late' = (late \ answer) \union poll.writing
         /\ cut' = (cut \ answer) \union (Changed(poll.since) \ answer)
  BY DEF PollRows, kSubset
<1>2. poll.at = "rows" /\ poll' = NoPoll /\ UNCHANGED <<now, calls, open, current>>
  BY DEF PollRows
<1>3. poll # NoPoll /\ PollOK /\ poll'.at = "idle"
  BY <1>2 DEF NoPoll, DeltaInv, DeltaTyped
<1>4. /\ page'.since = poll.sent /\ page'.etag = poll.etag /\ page'.aggregate = poll.aggregate
      /\ \A c \in Polled : page'.rows[c] = IF c \in answer THEN Shown(c) ELSE page.rows[c]
  BY <1>1 DEF AnswerTag
<1>5. Aggregate' = Aggregate
  BY <1>2, SameAggregate
<1>6. DeltaTyped'
  BY <1>2, <1>3, <1>4 DEF DeltaInv, DeltaTyped, PollOK
<1>7. ASSUME NEW c \in Polled PROVE PageShows(c)'
  <2>1. CASE c \in answer
    BY <1>2, <1>4, <2>1 DEF PageShows, Shown
  <2>2. CASE c \notin answer /\ c \in Changed(poll.since)
    BY <1>1, <2>2 DEF PageShows
  <2>3. CASE c \notin answer /\ c \notin Changed(poll.since)
    <3>1. poll.since = page.since /\ calls[c].updated <= page.since
      BY <1>3, <2>3 DEF Changed, PollOK, DeltaInv, DeltaTyped
    <3>2. PageShows(c)
      BY <3>1 DEF DeltaInv, CursorOK
    <3> QED BY <1>1, <1>2, <1>4, <2>3, <3>2 DEF PageShows, Shown
  <2> QED BY <2>1, <2>2, <2>3
<1>8. CursorOK'
  BY <1>7 DEF CursorOK
<1>9. LateOK'
  BY <1>1, <1>2, <1>3, <1>4 DEF DeltaInv, LateOK
<1>10. AggregateOK'
  BY <1>1, <1>2, <1>3, <1>4, <1>5 DEF DeltaInv, AggregateOK, Past
<1>11. PageSettles'
  BY <1>1, <1>2, <1>3, <1>4, <1>5, <1>7 DEF DeltaInv, AggregateOK, Past, PageSettles, PageShows
<1> QED BY <1>6, <1>8, <1>9, <1>10, <1>11 DEF DeltaInv

\* After an answer, and until something commits, the page shows the calls as they are,
\* but for what was being written while a poll read and what the cap cut off
\* (_run_delta in app/api/runs.py, updated_at of migration 007), for any number of calls,
\* of transactions and of polls.
THEOREM PollsCatchUp == DeltaSpec => []PageSettles
<1>1. DeltaInv /\ [DeltaNext]_deltaVars => DeltaInv'
  <2> SUFFICES ASSUME DeltaInv, [DeltaNext]_deltaVars PROVE DeltaInv'
    OBVIOUS
  <2>1. CASE UNCHANGED deltaVars
    <3>1. DeltaTyped' /\ LateOK'
      BY <2>1 DEF deltaVars, DeltaInv, DeltaTyped, PollOK, LateOK
    <3> QED BY <2>1, <3>1, DeltaFrame DEF deltaVars, DeltaInv
  <2> QED BY <2>1, BeginChangeStep, RollBackStep, CommitChangeStep, PollStateStep,
             PollAggregateStep, PollRowsStep DEF DeltaNext
<1>2. DeltaInv => PageSettles
  BY DEF DeltaInv
<1> QED BY <1>1, <1>2, DeltaInvInit, PTL DEF DeltaSpec
=============================================================================
