------------------------- MODULE EventStream_proofs -------------------------
(***************************************************************************)
(* That the log of a run is numbered by position and its emits never       *)
(* collide, for any number of writers, and that every client is shown a    *)
(* prefix of it that ends with the first terminal event, through any       *)
(* number of lost connections: the stream implements EventFeed.            *)
(***************************************************************************)
EXTENDS EventStream, TLAPS

-----------------------------------------------------------------------------
(* The log. *)

\* What the numbering rests on: a transaction between its lock and its end
\* holds the lock, and its rows continue the committed ones.
WritersInTurn ==
    \A w \in Writers :
        /\ wpc[w] = "locked" \/ own[w] # << >> => lock = w
        /\ \A i \in DOMAIN own[w] : own[w][i].seq = Len(rows) + i

LogInv == LogTypeOK /\ SeqIsPosition /\ WritersInTurn

\* MAX(seq) + 1 is the next position: the writer's rows follow the committed.
LEMMA NextSeqIsNext ==
    ASSUME LogInv, NEW w \in Writers
    PROVE  NextSeq(w) = Len(rows) + Len(own[w]) + 1
<1> DEFINE R == {rows[i].seq : i \in DOMAIN rows}
           O == {own[w][i].seq : i \in DOMAIN own[w]}
           S == {0} \cup R \cup O
           n == Len(rows)
           m == Len(own[w])
<1>1. rows \in Seq(Events) /\ own[w] \in Seq(Events)
  BY DEF LogInv, LogTypeOK
<1>2. n \in Nat /\ m \in Nat /\ DOMAIN rows = 1..n /\ DOMAIN own[w] = 1..m
  BY <1>1
<1>3. R = 1..n
  <2>1. \A i \in 1..n : rows[i].seq = i
    BY <1>2 DEF LogInv, SeqIsPosition
  <2> QED BY <1>2, <2>1
<1>4. O = {n + i : i \in 1..m}
  <2>1. \A i \in 1..m : own[w][i].seq = n + i
    BY <1>2 DEF LogInv, WritersInTurn
  <2> QED BY <1>2, <2>1
<1>5. NextSeq(w) = Max(S) + 1
  BY DEF NextSeq
<1>6. S = {0} \cup R \cup O
  OBVIOUS
<1> HIDE DEF R, O, S, n, m
<1>7. Max(S) = n + m
  <2>1. \A y \in S : y \in Nat /\ n + m >= y
    BY <1>2, <1>3, <1>4, <1>6
  <2>2. n + m \in S
    <3>1. CASE m = 0
      BY <1>2, <1>3, <1>6, <3>1
    <3>2. CASE m # 0
      BY <1>2, <1>4, <1>6, <3>2
    <3> QED BY <3>1, <3>2
  <2>3. \A x \in S : (\A y \in S : x >= y) => x = n + m
    BY <1>2, <2>1, <2>2
  <2> QED BY <2>1, <2>2, <2>3 DEF Max
<1> QED BY <1>2, <1>5, <1>7 DEF n, m

\* The holder of the lock is the only one with rows that are not committed.
LEMMA NoCollision == LogInv => EmitsNeverCollide
<1> SUFFICES ASSUME LogInv, NEW w \in Writers, wpc[w] = "locked" PROVE ~Collides(w)
  BY DEF EmitsNeverCollide
<1>1. lock = w
  BY DEF LogInv, WritersInTurn
<1>2. \A v \in Writers \ {w} : own[v] = << >>
  BY <1>1 DEF LogInv, WritersInTurn
<1> QED BY <1>2 DEF Collides

\* A step of a writer keeps the log in order.
LEMMA LockStep == ASSUME LogInv, NEW w \in Writers, Lock(w) PROVE LogInv'
BY LogAssumption DEF LogInv, LogTypeOK, SeqIsPosition, WritersInTurn, Lock

\* An insert extends the writer's own rows by the next position.
LEMMA InsertStep ==
    ASSUME LogInv, NEW w \in Writers, NEW kind \in Kinds, Insert(w, kind)
    PROVE  LogInv'
<1> DEFINE e == [seq |-> NextSeq(w), kind |-> kind]
<1> USE DEF LogInv
<1>1. NextSeq(w) = Len(rows) + Len(own[w]) + 1
  BY NextSeqIsNext
<1>2. rows \in Seq(Events) /\ own[w] \in Seq(Events) /\ Len(rows) \in Nat /\ Len(own[w]) \in Nat
  BY DEF LogTypeOK
<1>3. e \in Events /\ e.seq = Len(rows) + Len(own[w]) + 1
  BY <1>1, <1>2 DEF Events
<1>4. own' = [own EXCEPT ![w] = Append(@, e)] /\ rows' = rows /\ lock' = lock
  BY DEF Insert
<1> HIDE DEF e
<1>5. own'[w] = Append(own[w], e) /\ \A v \in Writers \ {w} : own'[v] = own[v]
  BY <1>4 DEF LogTypeOK
<1>6. LogTypeOK'
  <2>1. Append(own[w], e) \in Seq(Events)
    BY <1>2, <1>3
  <2>2. own' \in [Writers -> Seq(Events)]
    BY <1>4, <2>1 DEF LogTypeOK
  <2> QED BY <1>4, <2>2 DEF LogTypeOK, Insert
<1>7. SeqIsPosition'
  BY <1>4 DEF SeqIsPosition
<1>8. WritersInTurn'
  <2> SUFFICES ASSUME NEW v \in Writers
               PROVE  /\ wpc'[v] = "locked" \/ own'[v] # << >> => lock' = v
                      /\ \A i \in DOMAIN own'[v] : own'[v][i].seq = Len(rows') + i
    BY DEF WritersInTurn
  <2>1. CASE v = w
    <3>1. lock = w
      BY DEF Insert, WritersInTurn
    <3>2. \A i \in 1..Len(own[w]) : own[w][i].seq = Len(rows) + i
      BY <1>2 DEF WritersInTurn
    <3>3. \A i \in 1..(Len(own[w]) + 1) :
             Append(own[w], e)[i] = IF i = Len(own[w]) + 1 THEN e ELSE own[w][i]
      BY <1>2, <1>3
    <3>4. DOMAIN Append(own[w], e) = 1..(Len(own[w]) + 1)
      BY <1>2, <1>3
    <3>5. \A i \in DOMAIN Append(own[w], e) : Append(own[w], e)[i].seq = Len(rows) + i
      <4> SUFFICES ASSUME NEW i \in 1..(Len(own[w]) + 1)
                   PROVE  Append(own[w], e)[i].seq = Len(rows) + i
        BY <3>4
      <4>1. CASE i = Len(own[w]) + 1
        <5>1. Append(own[w], e)[i] = e
          BY <3>3, <4>1
        <5> QED BY <1>2, <1>3, <4>1, <5>1
      <4>2. CASE i # Len(own[w]) + 1
        <5>1. i \in 1..Len(own[w]) /\ Append(own[w], e)[i] = own[w][i]
          BY <1>2, <3>3, <4>2
        <5> QED BY <3>2, <5>1
      <4> QED BY <4>1, <4>2
    <3> QED BY <1>4, <1>5, <2>1, <3>1, <3>5
  <2>2. CASE v # w
    BY <1>4, <1>5, <2>2 DEF WritersInTurn, Insert, LogTypeOK
  <2> QED BY <2>1, <2>2
<1> QED BY <1>6, <1>7, <1>8

\* The committed rows stay, and the new ones come after them.
LEMMA CommitExtends ==
    ASSUME LogInv, NEW w \in Writers, CommitRows(w)
    PROVE  /\ Len(rows') > Len(rows)
           /\ \A i \in 1..Len(rows) : rows'[i] = rows[i]
<1>1. rows \in Seq(Events) /\ own[w] \in Seq(Events) /\ own[w] # << >>
  BY DEF LogInv, LogTypeOK, CommitRows
<1>2. rows' = rows \o own[w]
  BY DEF CommitRows
<1> QED BY <1>1, <1>2

\* A commit appends rows that carry on the numbering, and frees the lock.
LEMMA CommitStep == ASSUME LogInv, NEW w \in Writers, CommitRows(w) PROVE LogInv'
<1> USE DEF LogInv
<1>1. rows \in Seq(Events) /\ own[w] \in Seq(Events) /\ Len(rows) \in Nat /\ Len(own[w]) \in Nat
  BY DEF LogTypeOK
<1>2. rows' = rows \o own[w] /\ own' = [own EXCEPT ![w] = << >>] /\ wpc' = wpc
  BY DEF CommitRows
<1>3. lock = w /\ lock' = NoWriter
  BY DEF CommitRows, WritersInTurn, Unlock
<1>4. LogTypeOK'
  <2>1. rows' \in Seq(Events)
    BY <1>1, <1>2
  <2>2. own' \in [Writers -> Seq(Events)]
    BY <1>2 DEF LogTypeOK
  <2> QED BY <1>2, <1>3, <2>1, <2>2 DEF LogTypeOK
<1>5. SeqIsPosition'
  <2> SUFFICES ASSUME NEW i \in DOMAIN rows' PROVE rows'[i].seq = i
    BY DEF SeqIsPosition
  <2>1. i \in 1..(Len(rows) + Len(own[w]))
    BY <1>1, <1>2
  <2>2. CASE i <= Len(rows)
    BY <1>1, <1>2, <2>1, <2>2 DEF SeqIsPosition
  <2>3. CASE i > Len(rows)
    <3>1. rows'[i] = own[w][i - Len(rows)] /\ i - Len(rows) \in 1..Len(own[w])
      BY <1>1, <1>2, <2>1, <2>3
    <3>2. own[w][i - Len(rows)].seq = Len(rows) + (i - Len(rows))
      BY <1>1, <3>1 DEF WritersInTurn
    <3> QED BY <1>1, <2>1, <3>1, <3>2
  <2> QED BY <1>1, <2>1, <2>2, <2>3
<1>6. WritersInTurn'
  <2>1. \A v \in Writers : wpc[v] = "locked" \/ own[v] # << >> => v = w
    BY <1>3 DEF WritersInTurn
  <2>2. \A v \in Writers : wpc'[v] = "open" /\ own'[v] = << >>
    BY <1>2, <2>1 DEF LogTypeOK, CommitRows
  <2> QED BY <2>2 DEF WritersInTurn
<1> QED BY <1>4, <1>5, <1>6

\* A rollback forgets what was not committed, and frees the lock.
LEMMA RollbackStep == ASSUME LogInv, NEW w \in Writers, Rollback(w) PROVE LogInv'
<1> USE DEF LogInv
<1>1. /\ rows' = rows
      /\ own' = [own EXCEPT ![w] = << >>]
      /\ wpc' = [wpc EXCEPT ![w] = "open"]
  BY DEF Rollback
<1>2. lock = w /\ lock' = NoWriter
  BY DEF Rollback, WritersInTurn, Unlock
<1>3. LogTypeOK'
  <2>1. own' \in [Writers -> Seq(Events)] /\ wpc' \in [Writers -> {"open", "locked"}]
    BY <1>1 DEF LogTypeOK
  <2> QED BY <1>1, <1>2, <2>1 DEF LogTypeOK
<1>4. SeqIsPosition'
  BY <1>1 DEF SeqIsPosition
<1>5. WritersInTurn'
  <2>1. \A v \in Writers : wpc[v] = "locked" \/ own[v] # << >> => v = w
    BY <1>2 DEF WritersInTurn
  <2>2. \A v \in Writers : wpc'[v] = "open" /\ own'[v] = << >>
    BY <1>1, <2>1 DEF LogTypeOK
  <2> QED BY <2>2 DEF WritersInTurn
<1> QED BY <1>3, <1>4, <1>5

-----------------------------------------------------------------------------
(* One client. *)

\* What is sent is the log from its first row on, without a gap.
ShownPrefix(c) ==
    /\ Len(got[c]) + Len(wire[c]) <= Len(rows)
    /\ \A i \in 1..Len(got[c]) : got[c][i] = rows[i]
    /\ \A i \in 1..Len(wire[c]) : wire[c][i] = rows[Len(got[c]) + i]
    /\ Listening(c) => last[c] = Len(got[c]) + Len(wire[c])
    /\ spc[c] = "off" => wire[c] = << >>

\* A terminal event ends what is sent.
EndsAtTerminal(c) ==
    /\ spc[c] # "closed" => ~HasTerminal(got[c]) /\ ~HasTerminal(wire[c])
    /\ wire[c] # << >> => ~HasTerminal(got[c])
    /\ \A i \in 1..Len(wire[c]) : wire[c][i].kind = "terminal" => i = Len(wire[c])

\* What is fetched and not sent are the rows that follow, down to the next.
BatchIsNext(c) ==
    spc[c] = "send" =>
        /\ \A e \in batch[c] : \E i \in 1..Len(rows) : i > last[c] /\ e = rows[i]
        /\ \A e \in batch[c], i \in 1..Len(rows) : last[c] < i /\ i <= e.seq => rows[i] \in batch[c]

ClientInv(c) == ShownPrefix(c) /\ EndsAtTerminal(c) /\ BatchIsNext(c)

ClientVars(c) == <<spc[c], last[c], batch[c], wire[c], got[c]>>

IInv == TypeOK /\ LogInv /\ \A c \in Clients : ClientInv(c)

\* A client is not disturbed by rows that come after those it knows.
LEMMA ClientFrame ==
    ASSUME TypeOK, LogInv, LogInv', NEW c \in Clients, ClientInv(c),
           ClientVars(c)' = ClientVars(c),
           Len(rows') >= Len(rows), \A i \in 1..Len(rows) : rows'[i] = rows[i]
    PROVE  ClientInv(c)'
<1>1. /\ spc'[c] = spc[c] /\ last'[c] = last[c] /\ batch'[c] = batch[c]
      /\ wire'[c] = wire[c] /\ got'[c] = got[c]
  BY DEF ClientVars
<1>2. /\ Len(rows) \in Nat /\ Len(rows') \in Nat /\ Len(got[c]) \in Nat /\ Len(wire[c]) \in Nat
      /\ last[c] \in Nat
  BY DEF TypeOK, LogInv, LogTypeOK
<1>3. ShownPrefix(c)'
  <2>1. ShownPrefix(c)
    BY DEF ClientInv
  <2> DEFINE g == Len(got[c])
             x == Len(wire[c])
             n == Len(rows)
             m == Len(rows')
  <2>2. g \in Nat /\ x \in Nat /\ n \in Nat /\ m \in Nat /\ m >= n
    BY <1>2
  <2>3. /\ g + x <= n
        /\ \A i \in 1..g : got[c][i] = rows[i]
        /\ \A i \in 1..x : wire[c][i] = rows[g + i]
        /\ \A i \in 1..n : rows'[i] = rows[i]
    BY <2>1 DEF ShownPrefix
  <2> HIDE DEF g, x, n, m
  <2>4. g + x <= m
    BY <2>2, <2>3
  <2>5. \A i \in 1..g : i \in 1..n
    BY <2>2, <2>3
  <2>6. \A i \in 1..x : g + i \in 1..n
    BY <2>2, <2>3
  <2>7. Len(got[c]) + Len(wire[c]) <= Len(rows')
    BY <2>4 DEF g, x, m
  <2>8. \A i \in 1..Len(got[c]) : got[c][i] = rows'[i]
    BY <2>3, <2>5 DEF g
  <2>9. \A i \in 1..Len(wire[c]) : wire[c][i] = rows'[Len(got[c]) + i]
    BY <2>3, <2>6 DEF g, x
  <2> QED BY <1>1, <2>1, <2>7, <2>8, <2>9 DEF ShownPrefix, Listening
<1>4. EndsAtTerminal(c)'
  BY <1>1 DEF ClientInv, EndsAtTerminal, HasTerminal
<1>5. BatchIsNext(c)'
  <2> SUFFICES ASSUME spc[c] = "send"
               PROVE  /\ \A e \in batch[c] : \E i \in 1..Len(rows') : i > last[c] /\ e = rows'[i]
                      /\ \A e \in batch[c], i \in 1..Len(rows') :
                            last[c] < i /\ i <= e.seq => rows'[i] \in batch[c]
    BY <1>1 DEF BatchIsNext
  <2>1. \A e \in batch[c] : \E i \in 1..Len(rows) : i > last[c] /\ e = rows[i]
    BY DEF ClientInv, BatchIsNext
  <2>2. \A e \in batch[c] : \E i \in 1..Len(rows') : i > last[c] /\ e = rows'[i]
    BY <1>2, <2>1
  <2>3. \A e \in batch[c] : e.seq \in 1..Len(rows)
    BY <1>2, <2>1, SMTT(20) DEF LogInv, SeqIsPosition, LogTypeOK
  <2>4. \A e \in batch[c], i \in 1..Len(rows') :
           last[c] < i /\ i <= e.seq => rows'[i] \in batch[c]
    <3> SUFFICES ASSUME NEW e \in batch[c], NEW i \in 1..Len(rows'), last[c] < i, i <= e.seq
                 PROVE  rows'[i] \in batch[c]
      OBVIOUS
    <3>1. i \in 1..Len(rows)
      BY <1>2, <2>3
    <3> QED BY <3>1 DEF ClientInv, BatchIsNext
  <2> QED BY <2>2, <2>4
<1> QED BY <1>3, <1>4, <1>5 DEF ClientInv

\* What a client action does to the other clients: nothing.
LEMMA OtherClients ==
    ASSUME IInv, LogInv', UNCHANGED rows, NEW c \in Clients,
           \A d \in Clients \ {c} : ClientVars(d)' = ClientVars(d),
           ClientInv(c)'
    PROVE  \A d \in Clients : ClientInv(d)'
<1> SUFFICES ASSUME NEW d \in Clients, d # c PROVE ClientInv(d)'
  OBVIOUS
<1>1. Len(rows) \in Nat
  BY DEF IInv, LogInv, LogTypeOK
<1>2. Len(rows') >= Len(rows) /\ \A i \in 1..Len(rows) : rows'[i] = rows[i]
  BY <1>1
<1>3. ClientVars(d)' = ClientVars(d)
  OBVIOUS
<1> HIDE DEF ClientVars
<1> QED BY <1>2, <1>3, ClientFrame DEF IInv

\* A connection starts after the last event the client received.
LEMMA ConnectStep ==
    ASSUME IInv, NEW c \in Clients, Connect(c)
    PROVE  ClientInv(c)'
<1> USE DEF IInv, TypeOK, LogInv, LogTypeOK
<1>1. /\ spc'[c] = "fetch" /\ last'[c] = LastEventId(c)
      /\ got' = got /\ wire' = wire /\ rows' = rows
  BY DEF Connect, Open
<1>2. ShownPrefix(c) /\ EndsAtTerminal(c) /\ spc[c] = "off"
  BY DEF ClientInv, Connect
<1>3. wire[c] = << >> /\ Len(wire[c]) = 0
  BY <1>2 DEF ShownPrefix
<1>4. Len(got[c]) \in Nat /\ Len(got[c]) <= Len(rows) /\ Len(rows) \in Nat
  BY <1>2, <1>3 DEF ShownPrefix
<1>5. LastEventId(c) = Len(got[c])
  <2>1. CASE got[c] = << >>
    BY <2>1 DEF LastEventId
  <2>2. CASE got[c] # << >>
    <3>1. Len(got[c]) \in 1..Len(got[c]) /\ Len(got[c]) \in DOMAIN rows
      BY <1>4, <2>2
    <3>2. got[c][Len(got[c])] = rows[Len(got[c])]
      BY <1>2, <3>1 DEF ShownPrefix
    <3> QED BY <2>2, <3>1, <3>2 DEF LastEventId, SeqIsPosition
  <2> QED BY <2>1, <2>2
<1>6. ShownPrefix(c)'
  <2>1. last'[c] = Len(got[c]) + Len(wire[c])
    BY <1>1, <1>3, <1>4, <1>5
  <2> QED BY <1>1, <1>2, <2>1 DEF ShownPrefix
<1>7. EndsAtTerminal(c)'
  BY <1>1, <1>2 DEF EndsAtTerminal, HasTerminal
<1>8. BatchIsNext(c)'
  BY <1>1 DEF BatchIsNext
<1> QED BY <1>6, <1>7, <1>8 DEF ClientInv

\* What is fetched are the committed rows after the last one sent.
LEMMA FetchStep ==
    ASSUME IInv, NEW c \in Clients, Fetch(c)
    PROVE  ClientInv(c)'
<1> DEFINE new == {rows[i] : i \in {j \in DOMAIN rows : rows[j].seq > last[c]}}
<1>1. /\ spc[c] = "fetch" /\ spc'[c] = "send" /\ batch'[c] = new
      /\ last' = last /\ got' = got /\ wire' = wire /\ rows' = rows
  BY DEF Fetch, IInv, TypeOK
<1>2. DOMAIN rows = 1..Len(rows) /\ \A j \in DOMAIN rows : rows[j].seq = j
  BY DEF IInv, LogInv, LogTypeOK, SeqIsPosition
<1>3. /\ \A e \in new : \E i \in 1..Len(rows) : i > last[c] /\ e = rows[i]
      /\ \A i \in 1..Len(rows) : last[c] < i => rows[i] \in new
  BY <1>2
<1> HIDE DEF new
<1>4. BatchIsNext(c)'
  BY <1>1, <1>3 DEF BatchIsNext
<1>5. ShownPrefix(c)'
  BY <1>1 DEF IInv, ClientInv, ShownPrefix, Listening
<1>6. EndsAtTerminal(c)'
  BY <1>1 DEF IInv, ClientInv, EndsAtTerminal, HasTerminal
<1> QED BY <1>4, <1>5, <1>6 DEF ClientInv

\* The row with the least seq of those fetched is the next of the log.
LEMMA LeastIsNext ==
    ASSUME IInv, NEW c \in Clients, spc[c] = "send", NEW e \in batch[c], Least(e, c)
    PROVE  /\ last[c] + 1 \in 1..Len(rows)
           /\ e = rows[last[c] + 1]
           /\ e.seq = last[c] + 1
<1>1. BatchIsNext(c)
  BY DEF IInv, ClientInv
<1>2. last[c] \in Nat /\ Len(rows) \in Nat /\ DOMAIN rows = 1..Len(rows)
  BY DEF IInv, TypeOK, LogInv, LogTypeOK
<1>3. \A j \in 1..Len(rows) : rows[j].seq = j
  BY <1>2 DEF IInv, LogInv, SeqIsPosition
<1>4. PICK i \in 1..Len(rows) : i > last[c] /\ e = rows[i]
  BY <1>1 DEF BatchIsNext
<1>5. last[c] + 1 \in 1..Len(rows) /\ last[c] < last[c] + 1 /\ last[c] + 1 <= i /\ e.seq = i
  BY <1>2, <1>3, <1>4
<1>6. rows[last[c] + 1] \in batch[c]
  BY <1>1, <1>5 DEF BatchIsNext
<1>7. e.seq <= last[c] + 1
  BY <1>3, <1>5, <1>6 DEF Least
<1>8. i = last[c] + 1
  BY <1>2, <1>5, <1>7
<1> QED BY <1>3, <1>4, <1>5, <1>8

\* One event more on the wire, the next of the log; a terminal one closes.
LEMMA SendStep ==
    ASSUME IInv, NEW c \in Clients, Send(c)
    PROVE  ClientInv(c)'
<1>1. PICK e \in batch[c] :
        /\ Least(e, c)
        /\ last' = [last EXCEPT ![c] = e.seq]
        /\ wire' = [wire EXCEPT ![c] = Append(@, e)]
        /\ \/ /\ e.kind = "terminal"
              /\ spc' = [spc EXCEPT ![c] = "closed"]
              /\ batch' = [batch EXCEPT ![c] = {}]
           \/ /\ e.kind = "frame"
              /\ batch' = [batch EXCEPT ![c] = @ \ {e}]
              /\ UNCHANGED spc
  BY DEF Send
<1>2. spc[c] = "send" /\ got' = got /\ rows' = rows
  BY DEF Send
<1>3. /\ last[c] + 1 \in 1..Len(rows)
      /\ e = rows[last[c] + 1]
      /\ e.seq = last[c] + 1
  BY <1>1, <1>2, LeastIsNext
<1>4. /\ last'[c] = last[c] + 1
      /\ wire'[c] = Append(wire[c], e)
      /\ \/ e.kind = "terminal" /\ spc'[c] = "closed"
         \/ e.kind = "frame" /\ spc'[c] = "send" /\ batch'[c] = batch[c] \ {e}
  BY <1>1, <1>2, <1>3 DEF IInv, TypeOK
<1>5. ShownPrefix(c) /\ EndsAtTerminal(c) /\ BatchIsNext(c)
  BY DEF IInv, ClientInv
<1>6. /\ Len(got[c]) \in Nat /\ Len(wire[c]) \in Nat /\ Len(rows) \in Nat
      /\ got[c] \in Seq(Events) /\ wire[c] \in Seq(Events) /\ rows \in Seq(Events)
      /\ e \in Events
  BY DEF IInv, TypeOK, LogTypeOK
<1>7. last[c] = Len(got[c]) + Len(wire[c])
  BY <1>2, <1>5 DEF ShownPrefix, Listening
<1>8. /\ Len(wire'[c]) = Len(wire[c]) + 1
      /\ \A i \in 1..(Len(wire[c]) + 1) :
            wire'[c][i] = IF i = Len(wire[c]) + 1 THEN e ELSE wire[c][i]
  BY <1>4, <1>6
<1>9. ShownPrefix(c)'
  <2>1. \A i \in 1..Len(wire'[c]) : wire'[c][i] = rows[Len(got[c]) + i]
    <3> SUFFICES ASSUME NEW i \in 1..(Len(wire[c]) + 1)
                 PROVE  wire'[c][i] = rows[Len(got[c]) + i]
      BY <1>8
    <3>1. CASE i = Len(wire[c]) + 1
      <4> DEFINE g == Len(got[c])
                 x == Len(wire[c])
      <4>1. g \in Nat /\ x \in Nat /\ last[c] = g + x /\ i = x + 1
        BY <1>6, <1>7, <3>1
      <4> HIDE DEF g, x
      <4>2. g + i = last[c] + 1
        BY <4>1
      <4>3. Len(got[c]) + i = last[c] + 1
        BY <4>2 DEF g
      <4> QED BY <1>3, <1>8, <3>1, <4>3
    <3>2. CASE i # Len(wire[c]) + 1
      <4>1. i \in 1..Len(wire[c])
        BY <1>6, <3>2
      <4> QED BY <1>5, <1>8, <3>2, <4>1 DEF ShownPrefix
    <3> QED BY <3>1, <3>2
  <2>2. Len(got[c]) + Len(wire'[c]) <= Len(rows) /\ last'[c] = Len(got[c]) + Len(wire'[c])
    <3> DEFINE g == Len(got[c])
               x == Len(wire[c])
               y == Len(wire'[c])
               n == Len(rows)
    <3>1. /\ g \in Nat /\ x \in Nat /\ n \in Nat
          /\ last[c] = g + x /\ y = x + 1 /\ last'[c] = last[c] + 1 /\ last[c] + 1 \in 1..n
      BY <1>3, <1>4, <1>6, <1>7, <1>8
    <3> HIDE DEF g, x, y, n
    <3>2. g + y <= n /\ last'[c] = g + y
      BY <3>1
    <3> QED BY <3>2 DEF g, y, n
  <2>3. spc'[c] # "off"
    BY <1>4
  <2> QED BY <1>2, <1>5, <2>1, <2>2, <2>3 DEF ShownPrefix
<1>10. EndsAtTerminal(c)'
  <2>1. ~HasTerminal(got[c]) /\ ~HasTerminal(wire[c])
    BY <1>2, <1>5 DEF EndsAtTerminal
  <2>2. \A i \in 1..Len(wire[c]) : wire[c][i].kind # "terminal"
    BY <1>6, <2>1 DEF HasTerminal
  <2>3. \A i \in 1..Len(wire'[c]) : wire'[c][i].kind = "terminal" =>
           i = Len(wire'[c]) /\ e.kind = "terminal"
    <3> SUFFICES ASSUME NEW i \in 1..(Len(wire[c]) + 1), wire'[c][i].kind = "terminal"
                 PROVE  i = Len(wire[c]) + 1 /\ e.kind = "terminal"
      BY <1>8
    <3>1. CASE i = Len(wire[c]) + 1
      BY <1>8, <3>1
    <3>2. CASE i # Len(wire[c]) + 1
      <4>1. i \in 1..Len(wire[c])
        BY <1>6, <3>2
      <4> QED BY <1>8, <2>2, <3>2, <4>1
    <3> QED BY <3>1, <3>2
  <2>4. DOMAIN wire'[c] = 1..Len(wire'[c])
    BY <1>4, <1>6
  <2>5. spc'[c] # "closed" => ~HasTerminal(wire'[c])
    BY <1>4, <2>3, <2>4 DEF HasTerminal
  <2> QED BY <1>2, <2>1, <2>3, <2>5 DEF EndsAtTerminal, HasTerminal
<1>11. BatchIsNext(c)'
  <2> SUFFICES ASSUME spc'[c] = "send"
               PROVE  /\ \A f \in batch'[c] : \E i \in 1..Len(rows) : i > last'[c] /\ f = rows[i]
                      /\ \A f \in batch'[c], i \in 1..Len(rows) :
                            last'[c] < i /\ i <= f.seq => rows[i] \in batch'[c]
    BY <1>2 DEF BatchIsNext
  <2>1. batch'[c] = batch[c] \ {e} /\ last[c] \in Nat
    BY <1>4 DEF IInv, TypeOK
  <2>2. \A j \in 1..Len(rows) : rows[j].seq = j
    BY <1>6 DEF IInv, LogInv, SeqIsPosition
  <2>3. ASSUME NEW f \in batch'[c]
        PROVE  \E i \in 1..Len(rows) : i > last'[c] /\ f = rows[i]
    <3>1. PICK i \in 1..Len(rows) : i > last[c] /\ f = rows[i]
      BY <1>2, <1>5, <2>1 DEF BatchIsNext
    <3>2. i # last[c] + 1
      BY <1>3, <2>1, <3>1
    <3>3. i > last[c] + 1
      BY <2>1, <3>1, <3>2
    <3> QED BY <1>4, <3>1, <3>3
  <2>4. ASSUME NEW f \in batch'[c], NEW i \in 1..Len(rows), last'[c] < i, i <= f.seq
        PROVE  rows[i] \in batch'[c]
    <3>1. last[c] < i /\ i # last[c] + 1
      BY <1>4, <2>1, <2>4
    <3>2. rows[i] \in batch[c]
      BY <1>2, <1>5, <2>1, <2>4, <3>1 DEF BatchIsNext
    <3>3. rows[i].seq # e.seq
      BY <1>3, <2>2, <3>1
    <3> QED BY <2>1, <3>2, <3>3
  <2> QED BY <2>3, <2>4
<1> QED BY <1>9, <1>10, <1>11 DEF ClientInv

\* A reader that waits, or stops waiting, has sent all it fetched.
LEMMA WaitStep ==
    ASSUME IInv, NEW c \in Clients, Arm(c) \/ Wake(c) \/ Poll(c) \/ NotifyOther(c)
    PROVE  ClientInv(c)'
<1>1. /\ last' = last /\ batch' = batch /\ got' = got /\ wire' = wire /\ rows' = rows
      /\ \/ spc'[c] = spc[c]
         \/ spc[c] = "send" /\ spc'[c] = "wait"
         \/ spc[c] = "wait" /\ spc'[c] = "fetch"
  BY DEF Arm, Wake, Poll, NotifyOther, IInv, TypeOK
<1>2. ClientInv(c)
  BY DEF IInv
<1>3. ShownPrefix(c)'
  BY <1>1, <1>2 DEF ClientInv, ShownPrefix, Listening
<1>4. EndsAtTerminal(c)'
  BY <1>1, <1>2 DEF ClientInv, EndsAtTerminal, HasTerminal
<1>5. BatchIsNext(c)'
  BY <1>1, <1>2 DEF ClientInv, BatchIsNext
<1> QED BY <1>3, <1>4, <1>5 DEF ClientInv

\* The oldest event on the wire is the next that the client receives.
LEMMA ReceiveStep ==
    ASSUME IInv, NEW c \in Clients, Receive(c)
    PROVE  ClientInv(c)'
<1> DEFINE e == Head(wire[c])
<1>1. /\ wire[c] # << >> /\ got'[c] = Append(got[c], e) /\ wire'[c] = Tail(wire[c])
      /\ spc' = spc /\ last' = last /\ batch' = batch /\ rows' = rows
  BY DEF Receive, IInv, TypeOK
<1>2. ShownPrefix(c) /\ EndsAtTerminal(c) /\ BatchIsNext(c)
  BY DEF IInv, ClientInv
<1>3. /\ Len(got[c]) \in Nat /\ Len(wire[c]) \in Nat /\ Len(rows) \in Nat /\ last[c] \in Nat
      /\ got[c] \in Seq(Events) /\ wire[c] \in Seq(Events)
  BY DEF IInv, TypeOK, LogTypeOK
<1>4. Len(wire[c]) >= 1 /\ e = wire[c][1] /\ e \in Events
  BY <1>1, <1>3
<1> HIDE DEF e
<1>5. /\ Len(got'[c]) = Len(got[c]) + 1
      /\ \A i \in 1..(Len(got[c]) + 1) :
            got'[c][i] = IF i = Len(got[c]) + 1 THEN e ELSE got[c][i]
  BY <1>1, <1>3, <1>4
<1>6. /\ Len(wire'[c]) = Len(wire[c]) - 1
      /\ \A i \in 1..(Len(wire[c]) - 1) : wire'[c][i] = wire[c][i + 1]
  BY <1>1, <1>3
<1>7. ShownPrefix(c)'
  <2>1. Len(got'[c]) + Len(wire'[c]) = Len(got[c]) + Len(wire[c])
    <3> DEFINE g == Len(got[c])
               x == Len(wire[c])
               h == Len(got'[c])
               y == Len(wire'[c])
    <3>1. g \in Nat /\ x \in Nat /\ h = g + 1 /\ y = x - 1
      BY <1>3, <1>5, <1>6
    <3> HIDE DEF g, x, h, y
    <3>2. h + y = g + x
      BY <3>1
    <3> QED BY <3>2 DEF g, x, h, y
  <2>2. \A i \in 1..Len(got'[c]) : got'[c][i] = rows[i]
    <3> SUFFICES ASSUME NEW i \in 1..(Len(got[c]) + 1) PROVE got'[c][i] = rows[i]
      BY <1>5
    <3>1. CASE i = Len(got[c]) + 1
      <4>1. wire[c][1] = rows[Len(got[c]) + 1]
        BY <1>2, <1>3, <1>4 DEF ShownPrefix
      <4> QED BY <1>4, <1>5, <3>1, <4>1
    <3>2. CASE i # Len(got[c]) + 1
      <4>1. i \in 1..Len(got[c])
        BY <1>3, <3>2
      <4> QED BY <1>2, <1>5, <3>2, <4>1 DEF ShownPrefix
    <3> QED BY <3>1, <3>2
  <2>3. \A i \in 1..Len(wire'[c]) : wire'[c][i] = rows[Len(got'[c]) + i]
    <3> SUFFICES ASSUME NEW i \in 1..(Len(wire[c]) - 1)
                 PROVE  wire'[c][i] = rows[Len(got[c]) + 1 + i]
      BY <1>5, <1>6
    <3>1. i + 1 \in 1..Len(wire[c]) /\ Len(got[c]) + (i + 1) = Len(got[c]) + 1 + i
      <4> DEFINE g == Len(got[c])
                 x == Len(wire[c])
      <4>1. g \in Nat /\ x \in Nat /\ i \in 1..(x - 1)
        BY <1>3
      <4> HIDE DEF g, x
      <4>2. i + 1 \in 1..x /\ g + (i + 1) = g + 1 + i
        BY <4>1
      <4> QED BY <4>2 DEF g, x
    <3>2. wire[c][i + 1] = rows[Len(got[c]) + (i + 1)]
      BY <1>2, <3>1 DEF ShownPrefix
    <3> QED BY <1>6, <3>1, <3>2
  <2>4. spc[c] # "off"
    BY <1>1, <1>2 DEF ShownPrefix
  <2> QED BY <1>1, <1>2, <2>1, <2>2, <2>3, <2>4 DEF ShownPrefix, Listening
<1>8. EndsAtTerminal(c)'
  <2>1. ~HasTerminal(got[c])
    BY <1>1, <1>2 DEF EndsAtTerminal
  <2>2. DOMAIN got[c] = 1..Len(got[c]) /\ DOMAIN got'[c] = 1..(Len(got[c]) + 1)
    BY <1>1, <1>3, <1>4
  <2>3. DOMAIN wire[c] = 1..Len(wire[c]) /\ DOMAIN wire'[c] = 1..(Len(wire[c]) - 1)
    BY <1>1, <1>3
  <2>4. \A i \in 1..Len(got[c]) : got[c][i].kind # "terminal"
    BY <2>1, <2>2 DEF HasTerminal
  <2>5. e.kind # "terminal" => ~HasTerminal(got'[c])
    BY <1>3, <1>5, <2>2, <2>4, SMTT(20) DEF HasTerminal
  <2>6. e.kind = "terminal" => Len(wire[c]) = 1
    <3>1. 1 \in 1..Len(wire[c])
      BY <1>3, <1>4
    <3> QED BY <1>2, <1>4, <3>1 DEF EndsAtTerminal
  <2>7. wire'[c] # << >> => e.kind # "terminal"
    <3> SUFFICES ASSUME e.kind = "terminal" PROVE wire'[c] = << >>
      OBVIOUS
    <3>1. Tail(wire[c]) \in Seq(Events)
      BY <1>1, <1>3
    <3>2. Len(wire'[c]) = 0
      BY <1>6, <2>6
    <3>3. \A s \in Seq(Events) : Len(s) = 0 => s = << >>
      OBVIOUS
    <3>4. wire'[c] \in Seq(Events)
      BY <1>1, <3>1
    <3> QED BY <3>2, <3>3, <3>4
  <2>8. spc[c] # "closed" => ~HasTerminal(wire[c])
    BY <1>2 DEF EndsAtTerminal
  <2>9. spc[c] # "closed" => e.kind # "terminal" /\ ~HasTerminal(wire'[c])
    <3> SUFFICES ASSUME spc[c] # "closed"
                 PROVE  e.kind # "terminal" /\ ~HasTerminal(wire'[c])
      OBVIOUS
    <3>1. \A i \in 1..Len(wire[c]) : wire[c][i].kind # "terminal"
      BY <2>3, <2>8 DEF HasTerminal
    <3>2. \A i \in 1..(Len(wire[c]) - 1) : wire'[c][i].kind # "terminal"
      BY <1>3, <1>6, <3>1, SMTT(20)
    <3> QED BY <1>3, <1>4, <2>3, <3>1, <3>2 DEF HasTerminal
  <2>10. \A i \in 1..Len(wire'[c]) : wire'[c][i].kind = "terminal" => i = Len(wire'[c])
    <3> SUFFICES ASSUME NEW i \in 1..(Len(wire[c]) - 1), wire'[c][i].kind = "terminal"
                 PROVE  i = Len(wire[c]) - 1
      BY <1>6
    <3>1. i + 1 \in 1..Len(wire[c]) /\ wire[c][i + 1].kind = "terminal"
      BY <1>3, <1>6
    <3>2. i + 1 = Len(wire[c])
      BY <1>2, <3>1 DEF EndsAtTerminal
    <3> QED BY <1>3, <3>2
  <2> QED BY <1>1, <2>5, <2>7, <2>9, <2>10 DEF EndsAtTerminal, HasTerminal
<1>9. BatchIsNext(c)'
  BY <1>1, <1>2 DEF BatchIsNext
<1> QED BY <1>7, <1>8, <1>9 DEF ClientInv

\* What was on the wire is lost, and what was received is kept.
LEMMA DropStep ==
    ASSUME IInv, NEW c \in Clients, Drop(c)
    PROVE  ClientInv(c)'
<1>1. /\ spc'[c] = "off" /\ wire'[c] = << >> /\ got' = got /\ rows' = rows
      /\ Listening(c) \/ wire[c] # << >>
  BY DEF Drop, IInv, TypeOK
<1>2. ShownPrefix(c) /\ EndsAtTerminal(c)
  BY DEF IInv, ClientInv
<1>3. Len(got[c]) \in Nat /\ Len(wire[c]) \in Nat /\ Len(rows) \in Nat
  BY DEF IInv, TypeOK, LogTypeOK
<1>4. Len(wire'[c]) = 0 /\ DOMAIN wire'[c] = {}
  BY <1>1
<1>5. Len(got[c]) + 0 <= Len(rows)
  <2> DEFINE g == Len(got[c])
             x == Len(wire[c])
             n == Len(rows)
  <2>1. g \in Nat /\ x \in Nat /\ n \in Nat /\ g + x <= n
    BY <1>2, <1>3 DEF ShownPrefix
  <2> HIDE DEF g, x, n
  <2>2. g + 0 <= n
    BY <2>1
  <2> QED BY <2>2 DEF g, n
<1>6. ShownPrefix(c)'
  BY <1>1, <1>2, <1>4, <1>5 DEF ShownPrefix, Listening
<1>7. ~HasTerminal(got[c])
  BY <1>1, <1>2 DEF EndsAtTerminal, Listening
<1>8. EndsAtTerminal(c)'
  BY <1>1, <1>4, <1>7 DEF EndsAtTerminal, HasTerminal
<1>9. BatchIsNext(c)'
  BY <1>1 DEF BatchIsNext
<1> QED BY <1>6, <1>8, <1>9 DEF ClientInv

\* The transactions of the writers do not touch what a client has been sent.
LEMMA WriterStep ==
    ASSUME IInv, NEW w \in Writers, Begin(w) \/ Write(w) \/ Undo(w) \/ Commit(w)
    PROVE  LogInv' /\ \A c \in Clients : ClientInv(c)'
<1>1. \A c \in Clients : ClientVars(c)' = ClientVars(c)
  BY DEF Begin, Write, Undo, Commit, streamVars, ClientVars
<1>2. LogInv /\ TypeOK /\ Len(rows) \in Nat
  BY DEF IInv, LogInv, LogTypeOK
<1>3. LogInv'
  <2>1. CASE Begin(w)
    BY <1>2, <2>1, LockStep DEF Begin
  <2>2. CASE Write(w)
    BY <1>2, <2>2, InsertStep DEF Write
  <2>3. CASE Undo(w)
    BY <1>2, <2>3, RollbackStep DEF Undo
  <2>4. CASE Commit(w)
    BY <1>2, <2>4, CommitStep DEF Commit
  <2> QED BY <2>1, <2>2, <2>3, <2>4
<1>4. Len(rows') >= Len(rows) /\ \A i \in 1..Len(rows) : rows'[i] = rows[i]
  <2>1. CASE Commit(w)
    <3>1. Len(rows') > Len(rows) /\ \A i \in 1..Len(rows) : rows'[i] = rows[i]
      BY <1>2, <2>1, CommitExtends DEF Commit
    <3>2. Len(rows') \in Nat
      BY <1>3 DEF LogInv, LogTypeOK
    <3> QED BY <1>2, <3>1, <3>2
  <2>2. CASE ~Commit(w)
    <3>1. rows' = rows
      BY <2>2 DEF Begin, Write, Undo, Lock, Insert, Rollback
    <3> QED BY <1>2, <3>1
  <2> QED BY <2>1, <2>2
<1> HIDE DEF ClientVars
<1>5. ASSUME NEW c \in Clients PROVE ClientInv(c)'
  BY <1>1, <1>2, <1>3, <1>4, ClientFrame DEF IInv
<1> QED BY <1>3, <1>5

\* An action of a client moves that client only.
LEMMA ClientStep ==
    ASSUME IInv, NEW c \in Clients,
           Connect(c) \/ Stream(c) \/ NotifyOther(c) \/ Receive(c) \/ Drop(c)
    PROVE  LogInv' /\ \A d \in Clients : ClientInv(d)'
<1>1. UNCHANGED <<rows, own, lock, wpc>>
  BY DEF Connect, Open, Stream, Fetch, Send, Arm, Wake, Poll, NotifyOther, Receive, Drop
<1>2. LogInv'
  BY <1>1 DEF IInv, LogInv, LogTypeOK, SeqIsPosition, WritersInTurn
<1>3. ClientInv(c)'
  BY ConnectStep, FetchStep, SendStep, WaitStep, ReceiveStep, DropStep DEF Stream
<1>4. \A d \in Clients \ {c} : ClientVars(d)' = ClientVars(d)
  <2> SUFFICES ASSUME NEW d \in Clients, d # c PROVE ClientVars(d)' = ClientVars(d)
    OBVIOUS
  <2> USE DEF IInv, TypeOK, ClientVars
  <2>1. CASE Connect(c)
    BY <2>1 DEF Connect, Open
  <2>2. CASE Fetch(c)
    BY <2>2 DEF Fetch
  <2>3. CASE Send(c)
    BY <2>3 DEF Send
  <2>4. CASE Arm(c) \/ Wake(c) \/ Poll(c) \/ NotifyOther(c)
    BY <2>4 DEF Arm, Wake, Poll, NotifyOther
  <2>5. CASE Receive(c)
    BY <2>5 DEF Receive
  <2>6. CASE Drop(c)
    BY <2>6 DEF Drop
  <2> QED BY <2>1, <2>2, <2>3, <2>4, <2>5, <2>6 DEF Stream
<1> HIDE DEF ClientVars
<1> QED BY <1>1, <1>2, <1>3, <1>4, OtherClients

-----------------------------------------------------------------------------
(* The invariant. *)

\* Every step keeps every variable in its type.
LEMMA TypingStep == IInv /\ [Next]_vars => TypeOK'
<1> SUFFICES ASSUME IInv, [Next]_vars PROVE TypeOK'
  OBVIOUS
<1>1. TypeOK
  BY DEF IInv
<1>2. ASSUME NEW w \in Writers, Begin(w) \/ Write(w) \/ Undo(w) \/ Commit(w) PROVE TypeOK'
  <2>1. LogTypeOK'
    BY <1>2, WriterStep DEF LogInv
  <2>2. UNCHANGED <<spc, last, batch, wire, got, drops>> /\ notified' \in [Clients -> BOOLEAN]
    BY <1>1, <1>2 DEF Begin, Write, Undo, Commit, streamVars, Listening, TypeOK
  <2> QED BY <1>1, <2>1, <2>2 DEF TypeOK
<1>3. ASSUME NEW c \in Clients, Connect(c) PROVE TypeOK'
  <2>1. LastEventId(c) \in Nat
    <3>1. got[c] \in Seq(Events)
      BY <1>1 DEF TypeOK
    <3>2. got[c] # << >> => got[c][Len(got[c])] \in Events
      BY <3>1
    <3>3. \A e \in Events : e.seq \in Nat
      BY DEF Events
    <3> QED BY <3>2, <3>3 DEF LastEventId
  <2> QED BY <1>1, <1>3, <2>1 DEF Connect, Open, TypeOK, LogTypeOK, Places
<1>4. ASSUME NEW c \in Clients, Fetch(c) PROVE TypeOK'
  <2>1. {rows[i] : i \in {j \in DOMAIN rows : rows[j].seq > last[c]}} \subseteq Events
    BY <1>1 DEF TypeOK, LogTypeOK
  <2> QED BY <1>1, <1>4, <2>1 DEF Fetch, TypeOK, LogTypeOK, Places
<1>5. ASSUME NEW c \in Clients, Send(c) PROVE TypeOK'
  <2>1. PICK e \in batch[c] :
          /\ last' = [last EXCEPT ![c] = e.seq]
          /\ wire' = [wire EXCEPT ![c] = Append(@, e)]
          /\ \/ /\ spc' = [spc EXCEPT ![c] = "closed"]
                /\ batch' = [batch EXCEPT ![c] = {}]
             \/ /\ batch' = [batch EXCEPT ![c] = @ \ {e}]
                /\ UNCHANGED spc
    BY <1>5 DEF Send
  <2>2. e \in Events
    BY <1>1 DEF TypeOK
  <2>3. e.seq \in Nat
    BY <2>2 DEF Events
  <2>4. last' \in [Clients -> Nat]
    BY <1>1, <2>1, <2>3 DEF TypeOK
  <2>7. wire' \in [Clients -> Seq(Events)]
    <3>1. Append(wire[c], e) \in Seq(Events)
      BY <1>1, <2>2 DEF TypeOK
    <3> QED BY <1>1, <2>1, <3>1 DEF TypeOK
  <2>5. batch' \in [Clients -> SUBSET Events]
    BY <1>1, <2>1 DEF TypeOK
  <2>6. spc' \in [Clients -> Places]
    BY <1>1, <2>1 DEF TypeOK, Places
  <2> QED BY <1>1, <1>5, <2>4, <2>5, <2>6, <2>7 DEF Send, TypeOK, LogTypeOK
<1>6. ASSUME NEW c \in Clients, Arm(c) \/ Wake(c) \/ Poll(c) \/ NotifyOther(c) PROVE TypeOK'
  BY <1>1, <1>6 DEF Arm, Wake, Poll, NotifyOther, TypeOK, LogTypeOK, Places
<1>7. ASSUME NEW c \in Clients, Receive(c) PROVE TypeOK'
  <2>1. /\ Append(got[c], Head(wire[c])) \in Seq(Events)
        /\ Tail(wire[c]) \in Seq(Events)
    BY <1>1, <1>7 DEF Receive, TypeOK
  <2>2. got' \in [Clients -> Seq(Events)]
    BY <1>1, <1>7, <2>1 DEF Receive, TypeOK
  <2>3. wire' \in [Clients -> Seq(Events)]
    BY <1>1, <1>7, <2>1 DEF Receive, TypeOK
  <2> QED BY <1>1, <1>7, <2>2, <2>3 DEF Receive, TypeOK, LogTypeOK
<1>8. ASSUME NEW c \in Clients, Drop(c) PROVE TypeOK'
  <2>1. wire' \in [Clients -> Seq(Events)]
    BY <1>1, <1>8 DEF Drop, TypeOK
  <2> QED BY <1>1, <1>8, <2>1 DEF Drop, TypeOK, LogTypeOK, Places
<1>9. CASE UNCHANGED vars
  BY <1>1, <1>9 DEF vars, TypeOK, LogTypeOK
<1> QED BY <1>2, <1>3, <1>4, <1>5, <1>6, <1>7, <1>8, <1>9 DEF Next, Stream

\* At the start nothing is logged and nobody is connected.
LEMMA IInvInit == Init => IInv
<1> SUFFICES ASSUME Init PROVE IInv
  OBVIOUS
<1> USE LogAssumption
<1>1. TypeOK
  BY DEF Init, LogInit, TypeOK, LogTypeOK, Places
<1>2. LogInv
  BY DEF Init, LogInit, LogInv, LogTypeOK, SeqIsPosition, WritersInTurn
<1>3. ASSUME NEW c \in Clients PROVE ClientInv(c)
  <2>1. /\ rows = << >> /\ wire[c] = << >> /\ got[c] = << >> /\ spc[c] = "off"
        /\ Len(rows) = 0 /\ Len(wire[c]) = 0 /\ Len(got[c]) = 0
    BY DEF Init, LogInit
  <2>2. ShownPrefix(c)
    BY <2>1 DEF ShownPrefix, Listening
  <2>3. EndsAtTerminal(c)
    BY <2>1 DEF EndsAtTerminal, HasTerminal
  <2> QED BY <2>1, <2>2, <2>3 DEF ClientInv, BatchIsNext
<1> QED BY <1>1, <1>2, <1>3 DEF IInv

\* Every step, of a writer or of a client, preserves the invariant.
LEMMA IInvStep == IInv /\ [Next]_vars => IInv'
<1> SUFFICES ASSUME IInv, [Next]_vars PROVE IInv'
  OBVIOUS
<1>1. TypeOK'
  BY TypingStep
<1>2. ASSUME NEW w \in Writers, Begin(w) \/ Write(w) \/ Undo(w) \/ Commit(w) PROVE IInv'
  BY <1>1, <1>2, WriterStep DEF IInv
<1>3. ASSUME NEW c \in Clients,
             Connect(c) \/ Stream(c) \/ NotifyOther(c) \/ Receive(c) \/ Drop(c)
      PROVE  IInv'
  BY <1>1, <1>3, ClientStep DEF IInv
<1>4. CASE UNCHANGED vars
  <2>1. LogInv'
    BY <1>4 DEF vars, IInv, LogInv, LogTypeOK, SeqIsPosition, WritersInTurn
  <2>2. ASSUME NEW c \in Clients PROVE ClientInv(c)'
    <3>1. ClientInv(c)
      BY DEF IInv
    <3> QED BY <1>4, <3>1 DEF vars, ClientInv, ShownPrefix, EndsAtTerminal, BatchIsNext,
                             Listening, HasTerminal
  <2> QED BY <1>1, <2>1, <2>2 DEF IInv
<1> QED BY <1>2, <1>3, <1>4 DEF Next

\* The strengthened invariant of the log and of every client's position.
THEOREM Invariance == Spec => []IInv
BY IInvInit, IInvStep, PTL DEF Spec

\* Every variable keeps its type.
THEOREM TypeCorrect == Spec => []TypeOK
<1>1. IInv => TypeOK
  BY DEF IInv
<1> QED BY Invariance, <1>1, PTL

\* The promise of emit's docstring: the log is gapless, free of duplicates
\* and committed in order, whatever the writers' interleaving and rollbacks.
THEOREM LogIsInOrder == Spec => []SeqIsPosition
<1>1. IInv => SeqIsPosition
  BY DEF IInv, LogInv
<1> QED BY Invariance, <1>1, PTL

\* No emit is ever lost to the primary key of run_events.
THEOREM EmitsDoNotCollide == Spec => []EmitsNeverCollide
<1>1. IInv => EmitsNeverCollide
  BY NoCollision DEF IInv
<1> QED BY Invariance, <1>1, PTL

-----------------------------------------------------------------------------
(* The refinement. *)

\* A reception is a delivery of the next event of the log.
LEMMA ReceiveDelivers ==
    ASSUME IInv, NEW c \in Clients, Receive(c)
    PROVE  Feed!Deliver(c)
<1>1. wire[c] # << >> /\ got' = [got EXCEPT ![c] = Append(@, Head(wire[c]))] /\ rows' = rows
  BY DEF Receive
<1>2. ShownPrefix(c) /\ EndsAtTerminal(c)
  BY DEF IInv, ClientInv
<1> DEFINE g == Len(got[c])
           x == Len(wire[c])
           n == Len(rows)
<1>3. /\ g \in Nat /\ x \in Nat /\ n \in Nat /\ x >= 1 /\ Head(wire[c]) = wire[c][1]
  BY <1>1 DEF IInv, TypeOK, LogTypeOK
<1>4. g + x <= n /\ \A i \in 1..x : wire[c][i] = rows[g + i]
  BY <1>2 DEF ShownPrefix
<1>5. DOMAIN got[c] = 1..g
  BY DEF IInv, TypeOK
<1> HIDE DEF g, x, n
<1>6. g < n /\ Head(wire[c]) = rows[g + 1]
  BY <1>3, <1>4
<1>7. \A i \in DOMAIN got[c] : got[c][i].kind # "terminal"
  BY <1>1, <1>2 DEF EndsAtTerminal, HasTerminal
<1>8. Len(got[c]) < Len(rows) /\ Head(wire[c]) = rows[Len(got[c]) + 1]
  BY <1>6 DEF g, n
<1>9. got' = [got EXCEPT ![c] = Append(@, rows[Len(@) + 1])]
  BY <1>1, <1>8 DEF IInv, TypeOK
<1> QED BY <1>1, <1>7, <1>8, <1>9 DEF Feed!Deliver

\* Every step is a publication, a delivery or invisible.
LEMMA FeedStep == IInv /\ [Next]_vars => [Feed!Next]_(Feed!vars)
<1> SUFFICES ASSUME IInv, [Next]_vars PROVE [Feed!Next]_(Feed!vars)
  OBVIOUS
<1>1. ASSUME NEW w \in Writers, Commit(w) PROVE Feed!Publish
  BY <1>1, CommitExtends DEF Commit, IInv, Feed!Publish
<1>2. ASSUME NEW w \in Writers, Begin(w) \/ Write(w) \/ Undo(w) PROVE UNCHANGED Feed!vars
  BY <1>2 DEF Begin, Write, Undo, Lock, Insert, Rollback, streamVars, Feed!vars
<1>3. ASSUME NEW c \in Clients, Receive(c) PROVE Feed!Deliver(c)
  BY <1>3, ReceiveDelivers
<1>4. ASSUME NEW c \in Clients, Connect(c) \/ Stream(c) \/ NotifyOther(c) \/ Drop(c)
      PROVE  UNCHANGED Feed!vars
  BY <1>4 DEF Connect, Open, Stream, Fetch, Send, Arm, Wake, Poll, NotifyOther, Drop, Feed!vars
<1>5. CASE UNCHANGED vars
  BY <1>5 DEF vars, Feed!vars
<1> QED BY <1>1, <1>2, <1>3, <1>4, <1>5 DEF Next, Feed!Next

\* The stream implements the feed: through any number of writers, clients,
\* disconnections and resumptions every client receives the log in order,
\* each event once, up to the first terminal one.
THEOREM StreamImplementsTheFeed == Spec => ImplementsFeed
<1>1. Init => Feed!Init
  BY DEF Init, LogInit, Feed!Init
<1> QED BY Invariance, <1>1, FeedStep, PTL DEF Spec, ImplementsFeed, Feed!Spec

=============================================================================
