------------------------- MODULE RollupLocks_proofs -------------------------
(***************************************************************************)
(* The transactions that end the calls of a batch, for any number of calls *)
(* and of transactions: what they commit is the atomic rollup, and which   *)
(* of them can be in a deadlock.                                           *)
(***************************************************************************)
EXTENDS RollupLocks, TLAPS, SequenceTheorems, FiniteSetTheorems

-----------------------------------------------------------------------------
(* What is left of a plan. *)

EmitRest(c) == {EmitPlan(c), <<Ask("share", c)>>, << >>}

FinishRest(c) ==
    {FinishPlan(c), <<Ask("log", c), Ask("roll", c)>>, <<Ask("roll", c)>>, << >>}

FailRest(c) ==
    {FailPlan(c), <<Ask("share", c), Ask("write", c), Ask("roll", c)>>,
     <<Ask("write", c), Ask("roll", c)>>, <<Ask("roll", c)>>, << >>}

CancelRest(c) == {CancelPlan(c), <<Ask("roll", c)>>, << >>}

EndsInRoll(s) == s # << >> => s[Len(s)].do = "roll"

BatchRest ==
    {s \in Seq(Requests) :
        /\ EndsInRoll(s)
        /\ \A i \in 1..Len(s) :
              \/ s[i].do = "write" /\ s[i].to \in Children
              \/ s[i].do \in {"hold", "roll"} /\ s[i].to = Parent}

ReapRest ==
    {s \in Seq(Requests) :
        /\ EndsInRoll(s)
        /\ \A i \in 1..Len(s) : s[i].do \in {"log", "roll"} /\ s[i].to \in Children}

CallOps == {"emit", "complete", "acknowledge", "fail", "cancel"}

Finishes == {"complete", "acknowledge"}

\* s is what an operation on the call c may still have to do.
PlanFor(what, c, s) ==
    /\ what \in CallOps => c \in Children
    /\ what \notin Ops => s = << >>
    /\ what = "emit" => s \in EmitRest(c)
    /\ what \in Finishes => s \in FinishRest(c)
    /\ what = "fail" => s \in FailRest(c)
    /\ what = "cancel" => s \in CancelRest(c)
    /\ what = "cancel_batch" => s \in BatchRest
    /\ what = "reap" => s \in ReapRest

PlanOK == \A t \in Txs : PlanFor(op[t], t[2], todo[t])

(* What a transaction has locked, from what it is doing. *)

Awaits(t, what) == todo[t] # << >> /\ Head(todo[t]).do = what

HoldsRows(t) ==
    /\ op[t] \in {"none", "over", "emit"} => \A x \in Rows : row[x] # t
    /\ op[t] \in Finishes \cup {"cancel"} /\ Awaits(t, "hold") => \A x \in Rows : row[x] # t
    /\ op[t] \in Finishes \cup {"cancel"} /\ todo[t] # << >> => row[Parent] # t
    /\ op[t] \in Finishes /\ Awaits(t, "log") => row[t[2]] = t
    /\ op[t] = "reap" => \A i \in 1..Len(todo[t]) : row[todo[t][i].to] = t

HoldsLogs(t) ==
    \A c \in Children : logs[c] = t =>
        /\ op[t] \in Finishes \cup {"emit", "fail", "reap"}
        /\ op[t] \in Finishes \cup {"reap"} => row[c] = t

HoldsShares(t) == \A c \in Children : t \in share[c] => op[t] \in {"emit", "fail"}

(* What a transaction is about to commit. *)

Settles(t) ==
    /\ op[t] \notin Ops \ {"emit"} => wrote[t] = {} /\ closes[t] = "open"
    /\ closes[t] # "open" => row[Parent] = t /\ parent = "open"
    /\ op[t] \in Ops \ {"emit"} /\ todo[t] = << >> =>
          /\ row[Parent] = t
          /\ parent = "open" => closes[t] = Tally(View(t, wrote[t]))

IInv ==
    /\ TypeOK /\ PlanOK
    /\ \A t \in Txs : HoldsRows(t) /\ HoldsLogs(t) /\ HoldsShares(t) /\ Settles(t)

-----------------------------------------------------------------------------
(* Plans. *)

LEMMA FunctionIsASequence ==
    ASSUME NEW S, NEW n \in Nat, NEW f \in [1..n -> S]
    PROVE  f \in Seq(S) /\ Len(f) = n
BY SeqDef

LEMMA OpNames ==
    Ops = {"complete", "acknowledge", "fail", "cancel", "cancel_batch", "reap", "emit"}
BY DEF Ops, EndsAs

LEMMA AskType ==
    ASSUME NEW x \in Rows, NEW what \in {"log", "share", "hold", "write", "roll"}
    PROVE  Ask(what, x) \in Requests
BY DEF Ask, Requests

\* The plans are plans.
LEMMA CallPlansFit ==
    ASSUME NEW c \in Children
    PROVE  /\ PlanFor("emit", c, EmitPlan(c))
           /\ \A what \in Finishes : PlanFor(what, c, FinishPlan(c))
           /\ PlanFor("fail", c, FailPlan(c))
           /\ PlanFor("cancel", c, CancelPlan(c))
BY OpNames DEF PlanFor, EmitRest, FinishRest, FailRest, CancelRest, CallOps, Finishes

LEMMA RestTypes ==
    ASSUME NEW c \in Children
    PROVE  /\ EmitRest(c) \subseteq Seq(Requests)
           /\ FinishRest(c) \subseteq Seq(Requests)
           /\ FailRest(c) \subseteq Seq(Requests)
           /\ CancelRest(c) \subseteq Seq(Requests)
<1>1. \A what \in {"log", "share", "hold", "write", "roll"} : Ask(what, c) \in Requests
  BY AskType DEF Rows
<1>2. EmitRest(c) \subseteq Seq(Requests)
  BY <1>1 DEF EmitRest, EmitPlan
<1>3. FinishRest(c) \subseteq Seq(Requests)
  BY <1>1 DEF FinishRest, FinishPlan
<1>4. FailRest(c) \subseteq Seq(Requests)
  BY <1>1 DEF FailRest, FailPlan
<1>5. CancelRest(c) \subseteq Seq(Requests)
  BY <1>1 DEF CancelRest, CancelPlan
<1> QED BY <1>2, <1>3, <1>4, <1>5

LEMMA PlanType ==
    ASSUME NEW what \in Ops \cup {"none", "over"}, NEW c, NEW s, PlanFor(what, c, s)
    PROVE  s \in Seq(Requests)
<1>1. CASE what \in CallOps
  BY <1>1, RestTypes DEF PlanFor, CallOps, Finishes
<1>2. CASE what \in {"cancel_batch", "reap"}
  BY <1>2 DEF PlanFor, BatchRest, ReapRest
<1>3. CASE what \in {"none", "over"}
  <2>1. s = << >>
    BY <1>3, OpNames DEF PlanFor
  <2> QED BY <2>1
<1> QED BY <1>1, <1>2, <1>3, OpNames DEF CallOps

\* A step of a plan of four kinds of calls: the request, and what is left.
LEMMA EmitSteps ==
    ASSUME NEW c, NEW s \in EmitRest(c), s # << >>
    PROVE  /\ Tail(s) \in EmitRest(c) /\ Head(s).to = c
           /\ Head(s).do \in {"log", "share"}
<1>1. CASE s = EmitPlan(c)
  BY <1>1 DEF EmitRest, EmitPlan, Ask
<1>2. CASE s = <<Ask("share", c)>>
  BY <1>2 DEF EmitRest, Ask
<1> QED BY <1>1, <1>2 DEF EmitRest

LEMMA FinishSteps ==
    ASSUME NEW c, NEW s \in FinishRest(c), s # << >>
    PROVE  /\ Tail(s) \in FinishRest(c) /\ Head(s).to = c
           /\ \/ Head(s).do = "hold" /\ Tail(s) # << >> /\ Head(Tail(s)).do = "log"
              \/ Head(s).do = "log" /\ Tail(s) # << >> /\ Head(Tail(s)).do = "roll"
              \/ Head(s).do = "roll" /\ Tail(s) = << >>
<1>1. CASE s = FinishPlan(c)
  BY <1>1 DEF FinishRest, FinishPlan, Ask
<1>2. CASE s = <<Ask("log", c), Ask("roll", c)>>
  BY <1>2 DEF FinishRest, Ask
<1>3. CASE s = <<Ask("roll", c)>>
  BY <1>3 DEF FinishRest, Ask
<1> QED BY <1>1, <1>2, <1>3 DEF FinishRest

LEMMA FailSteps ==
    ASSUME NEW c, NEW s \in FailRest(c), s # << >>
    PROVE  /\ Tail(s) \in FailRest(c) /\ Head(s).to = c
           /\ \/ Head(s).do \in {"log", "share", "write"} /\ Tail(s) # << >>
              \/ Head(s).do = "roll" /\ Tail(s) = << >>
<1>1. CASE s = FailPlan(c)
  BY <1>1 DEF FailRest, FailPlan, Ask
<1>2. CASE s = <<Ask("share", c), Ask("write", c), Ask("roll", c)>>
  BY <1>2 DEF FailRest, Ask
<1>3. CASE s = <<Ask("write", c), Ask("roll", c)>>
  BY <1>3 DEF FailRest, Ask
<1>4. CASE s = <<Ask("roll", c)>>
  BY <1>4 DEF FailRest, Ask
<1> QED BY <1>1, <1>2, <1>3, <1>4 DEF FailRest

LEMMA CancelSteps ==
    ASSUME NEW c, NEW s \in CancelRest(c), s # << >>
    PROVE  /\ Tail(s) \in CancelRest(c) /\ Head(s).to = c
           /\ \/ Head(s).do = "hold" /\ Tail(s) # << >> /\ Head(Tail(s)).do = "roll"
              \/ Head(s).do = "roll" /\ Tail(s) = << >>
<1>1. CASE s = CancelPlan(c)
  BY <1>1 DEF CancelRest, CancelPlan, Ask
<1>2. CASE s = <<Ask("roll", c)>>
  BY <1>2 DEF CancelRest, Ask
<1> QED BY <1>1, <1>2 DEF CancelRest

LEMMA RollStaysLast ==
    ASSUME NEW s \in Seq(Requests), s # << >>, EndsInRoll(s)
    PROVE  /\ EndsInRoll(Tail(s))
           /\ Tail(s) = << >> => Head(s).do = "roll"
           /\ Tail(s) \in Seq(Requests) /\ Len(s) \in Nat \ {0} /\ Len(Tail(s)) = Len(s) - 1
           /\ Head(s) = s[1]
           /\ \A i \in 1..Len(Tail(s)) : i + 1 \in 1..Len(s) /\ Tail(s)[i] = s[i + 1]
<1>1. /\ Tail(s) \in Seq(Requests) /\ Len(Tail(s)) = Len(s) - 1
      /\ \A i \in 1..Len(Tail(s)) : Tail(s)[i] = s[i + 1]
  BY HeadTailProperties
<1>2. Len(s) \in Nat \ {0} /\ Head(s) = s[1]
  BY EmptySeq
<1>3. EndsInRoll(Tail(s))
  <2> SUFFICES ASSUME Tail(s) # << >> PROVE Tail(s)[Len(Tail(s))].do = "roll"
    BY DEF EndsInRoll
  <2>1. Len(Tail(s)) \in 1..Len(Tail(s))
    BY <1>1, EmptySeq
  <2> QED BY <1>1, <1>2, <2>1 DEF EndsInRoll
<1>4. Tail(s) = << >> => Head(s).do = "roll"
  <2> SUFFICES ASSUME Tail(s) = << >> PROVE Head(s).do = "roll"
    OBVIOUS
  <2>1. Len(s) - 1 = 0
    BY <1>1
  <2> QED BY <1>2, <2>1, SMTT(20) DEF EndsInRoll
<1>5. \A i \in 1..Len(Tail(s)) : i + 1 \in 1..Len(s)
  BY <1>1, <1>2
<1> QED BY <1>1, <1>2, <1>3, <1>4, <1>5

LEMMA BatchSteps ==
    ASSUME NEW s \in BatchRest, s # << >>
    PROVE  /\ Tail(s) \in BatchRest
           /\ Tail(s) = << >> => Head(s).do = "roll"
           /\ \/ Head(s).do = "write" /\ Head(s).to \in Children
              \/ Head(s).do \in {"hold", "roll"} /\ Head(s).to = Parent
<1>1. s \in Seq(Requests) /\ EndsInRoll(s)
  BY DEF BatchRest
<1>2. \A i \in 1..Len(Tail(s)) : i + 1 \in 1..Len(s) /\ Tail(s)[i] = s[i + 1]
  BY <1>1, RollStaysLast
<1>3. Tail(s) \in BatchRest
  <2>1. Tail(s) \in Seq(Requests) /\ EndsInRoll(Tail(s))
    BY <1>1, RollStaysLast
  <2>2. \A i \in 1..Len(Tail(s)) :
           \/ Tail(s)[i].do = "write" /\ Tail(s)[i].to \in Children
           \/ Tail(s)[i].do \in {"hold", "roll"} /\ Tail(s)[i].to = Parent
    BY <1>2 DEF BatchRest
  <2> QED BY <2>1, <2>2, Zenon DEF BatchRest
<1>4. 1 \in 1..Len(s) /\ Head(s) = s[1]
  BY <1>1, RollStaysLast
<1> QED BY <1>1, <1>3, <1>4, RollStaysLast, Zenon DEF BatchRest

LEMMA ReapSteps ==
    ASSUME NEW s \in ReapRest, s # << >>
    PROVE  /\ Tail(s) \in ReapRest
           /\ Tail(s) = << >> => Head(s).do = "roll"
           /\ Head(s).do \in {"log", "roll"} /\ Head(s).to \in Children
           /\ Len(s) \in Nat \ {0} /\ Head(s) = s[1]
           /\ \A i \in 1..Len(Tail(s)) : i + 1 \in 1..Len(s) /\ Tail(s)[i] = s[i + 1]
<1>1. s \in Seq(Requests) /\ EndsInRoll(s)
  BY DEF ReapRest
<1>2. \A i \in 1..Len(Tail(s)) : i + 1 \in 1..Len(s) /\ Tail(s)[i] = s[i + 1]
  BY <1>1, RollStaysLast
<1>3. Tail(s) \in ReapRest
  BY <1>1, <1>2, RollStaysLast, Zenon DEF ReapRest
<1>4. 1 \in 1..Len(s) /\ Head(s) = s[1] /\ Len(s) \in Nat \ {0}
  BY <1>1, RollStaysLast
<1> QED BY <1>1, <1>2, <1>3, <1>4, RollStaysLast, Zenon DEF ReapRest

\* What the next request of an operation can be, and that the rest is a plan too.
RequestFits(what, c, s) ==
    /\ what \in Ops
    /\ PlanFor(what, c, Tail(s))
    /\ Head(s).to \in Rows
    /\ Tail(s) = << >> /\ what # "emit" => Head(s).do = "roll"
    /\ Head(s).do = "log" =>
          /\ what \in Finishes \cup {"emit", "fail", "reap"}
          /\ Head(s).to \in Children /\ (what \in Finishes => Head(s).to = c)
    /\ Head(s).do = "share" => what \in {"emit", "fail"} /\ Head(s).to \in Children
    /\ Head(s).do = "hold" =>
          \/ what \in Finishes \cup {"cancel"} /\ Head(s).to = c /\ c \in Children
          \/ what = "cancel_batch" /\ Head(s).to = Parent
    /\ Head(s).do = "write" => what \in {"fail", "cancel_batch"} /\ Head(s).to \in Children
    /\ Head(s).do = "roll" => what \in Ops \ {"emit"}
    /\ what \in Finishes \cup {"cancel"} =>
          \/ /\ Head(s).do = "hold" /\ Tail(s) # << >>
             /\ Head(Tail(s)).do = IF what = "cancel" THEN "roll" ELSE "log"
          \/ /\ Head(s).do = "log" /\ what \in Finishes /\ Tail(s) # << >>
             /\ Head(Tail(s)).do = "roll"
          \/ Head(s).do = "roll" /\ Tail(s) = << >>

LEMMA WhoSharesAndWrites ==
    ASSUME NEW what, NEW c, NEW s, RequestFits(what, c, s)
    PROVE  /\ Head(s).do = "share" => what \in {"emit", "fail"}
           /\ Head(s).do = "write" => what \in {"fail", "cancel_batch"}
<1>1. PICK next : next = Head(s)
  OBVIOUS
<1>2. /\ next.do = "share" => what \in {"emit", "fail"} /\ next.to \in Children
      /\ next.do = "write" => what \in {"fail", "cancel_batch"} /\ next.to \in Children
  BY <1>1 DEF RequestFits
<1> QED BY <1>1, <1>2, Zenon

LEMMA PlanSteps ==
    ASSUME NEW what \in Ops \cup {"none", "over"}, NEW c, NEW s, PlanFor(what, c, s),
           s # << >>
    PROVE  RequestFits(what, c, s)
<1> USE OpNames DEF PlanFor, CallOps, Finishes, Rows, RequestFits
<1>1. CASE what = "emit"
  BY <1>1, EmitSteps
<1>2. CASE what \in Finishes
  BY <1>2, FinishSteps
<1>3. CASE what = "fail"
  BY <1>3, FailSteps
<1>4. CASE what = "cancel"
  BY <1>4, CancelSteps
<1>5. CASE what = "cancel_batch"
  BY <1>5, BatchSteps
<1>6. CASE what = "reap"
  BY <1>6, ReapSteps
<1> QED BY <1>1, <1>2, <1>3, <1>4, <1>5, <1>6

\* The plan of a batch cancel, and of a reaper.
LEMMA BatchPlanFits ==
    ASSUME NEW n \in Nat, NEW order \in [1..n -> Children], NEW c
    PROVE  /\ PlanFor("cancel_batch", c,
                   <<Ask("hold", Parent)>>
                   \o [i \in DOMAIN order |-> Ask("write", order[i])]
                   \o <<Ask("roll", Parent)>>)
           /\ <<Ask("hold", Parent)>>
              \o [i \in DOMAIN order |-> Ask("write", order[i])]
              \o <<Ask("roll", Parent)>> # << >>
<1> DEFINE writes == [i \in DOMAIN order |-> Ask("write", order[i])]
           s == <<Ask("hold", Parent)>> \o writes \o <<Ask("roll", Parent)>>
<1>1. /\ Ask("hold", Parent) \in Requests /\ Ask("roll", Parent) \in Requests
      /\ \A x \in Children : Ask("write", x) \in Requests
  BY AskType DEF Rows
<1>2. writes \in [1..n -> Requests]
  BY <1>1
<1>3. writes \in Seq(Requests) /\ Len(writes) = n
  BY <1>2, FunctionIsASequence
<1>4. /\ s \in Seq(Requests) /\ Len(s) = n + 2
      /\ \A i \in 1..(n + 2) :
            s[i] = IF i = 1 THEN Ask("hold", Parent)
                   ELSE IF i <= n + 1 THEN Ask("write", order[i - 1]) ELSE Ask("roll", Parent)
  BY <1>1, <1>3
<1>5. EndsInRoll(s)
  <2>1. n + 2 \in 1..(n + 2) /\ n + 2 # 1 /\ ~(n + 2 <= n + 1)
    OBVIOUS
  <2> QED BY <1>4, <2>1 DEF EndsInRoll, Ask
<1>6. \A i \in 1..Len(s) : \/ s[i].do = "write" /\ s[i].to \in Children
                           \/ s[i].do \in {"hold", "roll"} /\ s[i].to = Parent
  <2> SUFFICES ASSUME NEW i \in 1..(n + 2)
               PROVE  \/ s[i].do = "write" /\ s[i].to \in Children
                      \/ s[i].do \in {"hold", "roll"} /\ s[i].to = Parent
    BY <1>4
  <2>1. CASE i # 1 /\ i <= n + 1
    <3>1. order[i - 1] \in Children
      BY <2>1
    <3> QED BY <1>4, <2>1, <3>1 DEF Ask
  <2> QED BY <1>4, <2>1 DEF Ask
<1>7. s \in BatchRest
  BY <1>4, <1>5, <1>6 DEF BatchRest
<1>8. s # << >>
  BY <1>4
<1> QED BY <1>7, <1>8, OpNames DEF PlanFor, CallOps, Finishes

LEMMA ReapPlanFits ==
    ASSUME NEW n \in Nat \ {0}, NEW order \in [1..n -> Children], NEW c,
           NEW s, s = [i \in 1..(2 * n) |->
                          Ask(IF i % 2 = 1 THEN "log" ELSE "roll", order[(i + 1) \div 2])]
    PROVE  PlanFor("reap", c, s) /\ s # << >>
<1>1. \A i \in 1..(2 * n) : (i + 1) \div 2 \in 1..n
  OBVIOUS
<1>2. \A i \in 1..(2 * n) : /\ s[i].do \in {"log", "roll"} /\ s[i].to \in Children
                            /\ s[i] \in Requests
  BY <1>1, AskType DEF Ask, Rows
<1>3. s \in Seq(Requests) /\ Len(s) = 2 * n
  <2>1. 2 * n \in Nat
    OBVIOUS
  <2>2. s \in [1..(2 * n) -> Requests]
    BY <1>2, Zenon
  <2>3. \A m \in Nat : s \in [1..m -> Requests] => s \in Seq(Requests) /\ Len(s) = m
    <3>1. ASSUME NEW m \in Nat, s \in [1..m -> Requests] PROVE s \in Seq(Requests) /\ Len(s) = m
      BY <3>1, FunctionIsASequence, Zenon
    <3> QED BY <3>1, Zenon
  <2> QED BY <2>1, <2>2, <2>3, Zenon
<1>4. EndsInRoll(s)
  <2>1. 2 * n \in 1..(2 * n)
    OBVIOUS
  <2>2. (2 * n) % 2 = 0
    OBVIOUS
  <2>3. s[2 * n] = Ask("roll", order[(2 * n + 1) \div 2])
    <3>1. s[2 * n] = Ask(IF (2 * n) % 2 = 1 THEN "log" ELSE "roll", order[(2 * n + 1) \div 2])
      BY <2>1, Zenon
    <3> QED BY <2>2, <3>1
  <2> QED BY <1>3, <2>3 DEF EndsInRoll, Ask
<1>5. s \in ReapRest
  BY <1>2, <1>3, <1>4 DEF ReapRest
<1>6. s # << >>
  <2>1. 2 * n # 0 /\ Len(<< >>) = 0
    OBVIOUS
  <2> QED BY <1>3, <2>1, Zenon
<1> QED BY <1>5, <1>6, OpNames DEF PlanFor, CallOps, Finishes

-----------------------------------------------------------------------------
(* What a step of t means to the others: no lock of theirs is taken or lost. *)

OthersKeep(t) ==
    \A u \in Txs \ {t} :
       /\ op'[u] = op[u] /\ todo'[u] = todo[u] /\ wrote'[u] = wrote[u] /\ closes'[u] = closes[u]
       /\ \A x \in Rows : row'[x] = u <=> row[x] = u
       /\ \A c \in Children : logs'[c] = u <=> logs[c] = u
       /\ \A c \in Children : u \in share'[c] <=> u \in share[c]

\* What t holds when its transaction has ended.
HoldsNothing(t) ==
    /\ \A x \in Rows : row[x] # t
    /\ \A c \in Children : logs[c] # t /\ t \notin share[c]
    /\ wrote[t] = {} /\ closes[t] = "open"

SelfOK(t) == HoldsRows(t) /\ HoldsLogs(t) /\ HoldsShares(t) /\ Settles(t)

\* A lock is granted only when nobody else has one that conflicts.
LEMMA Granted ==
    ASSUME NEW t \in Txs, NEW what, Asks(t, what)
    PROVE  /\ todo[t] # << >> /\ Head(todo[t]).do = what
           /\ what = "log" => logs[Target(t)] \in {t, NoTx}
           /\ what \in {"hold", "write"} => row[Target(t)] \in {t, NoTx}
           /\ what = "roll" => row[Parent] \in {t, NoTx}
BY DEF Asks, Blockers, Target

\* The end of a transaction.
LEMMA Freed ==
    ASSUME TypeOK, NEW t \in Txs, Free(t)
    PROVE  /\ HoldsNothing(t)'
           /\ row' \in [Rows -> Txs \cup {NoTx}] /\ strong' \in SUBSET Rows
           /\ share' \in [Children -> SUBSET Txs] /\ logs' \in [Children -> Txs \cup {NoTx}]
           /\ wrote' \in [Txs -> SUBSET Children]
           /\ closes' \in [Txs -> {"open", "completed", "cancelled"}]
           /\ \A u \in Txs \ {t} :
                 /\ wrote'[u] = wrote[u] /\ closes'[u] = closes[u]
                 /\ \A x \in Rows : row'[x] = u <=> row[x] = u
                 /\ \A c \in Children : logs'[c] = u <=> logs[c] = u
                 /\ \A c \in Children : u \in share'[c] <=> u \in share[c]
BY LocksAssumption DEF TypeOK, Free, HoldsNothing

\* One that holds nothing and is to do nothing, or has the failure to record.
LEMMA FreshIsOK ==
    ASSUME NEW t \in Txs, HoldsNothing(t)',
           \/ op'[t] \in {"none", "over"} /\ todo'[t] = << >>
           \/ /\ op'[t] \in Ops \ {"reap"} /\ todo'[t] # << >>
              /\ op'[t] \in Finishes => Head(todo'[t]).do # "log"
    PROVE  SelfOK(t)'
<1> USE DEF HoldsNothing, SelfOK
<1>1. HoldsRows(t)'
  BY OpNames DEF HoldsRows, Rows, Finishes, Awaits
<1>2. HoldsLogs(t)' /\ HoldsShares(t)'
  BY DEF HoldsLogs, HoldsShares
<1>3. Settles(t)'
  BY OpNames DEF Settles
<1> QED BY <1>1, <1>2, <1>3

\* The invariant of the others goes through any step that keeps what they hold.
LEMMA OthersHold ==
    ASSUME IInv, NEW t \in Txs, OthersKeep(t), NEW u \in Txs \ {t}
    PROVE  /\ PlanFor(op'[u], u[2], todo'[u])
           /\ HoldsRows(u)' /\ HoldsLogs(u)' /\ HoldsShares(u)'
<1>1. /\ op'[u] = op[u] /\ todo'[u] = todo[u]
      /\ \A x \in Rows : row'[x] = u <=> row[x] = u
      /\ \A c \in Children : logs'[c] = u <=> logs[c] = u
      /\ \A c \in Children : u \in share'[c] <=> u \in share[c]
  BY DEF OthersKeep
<1>2. PlanFor(op[u], u[2], todo[u])
  BY DEF IInv, PlanOK
<1>3. PlanFor(op'[u], u[2], todo'[u])
  BY <1>1, <1>2
<1>4. op[u] \in Finishes => u[2] \in Rows
  BY <1>2 DEF PlanFor, CallOps, Finishes, Rows
<1>5. op[u] = "reap" => \A i \in 1..Len(todo[u]) : todo[u][i].to \in Rows
  BY <1>2 DEF PlanFor, ReapRest, Rows
<1>6. Parent \in Rows
  BY DEF Rows
<1>7. HoldsRows(u)'
  <2>1. HoldsRows(u)
    BY DEF IInv
  <2>2. \A what : Awaits(u, what)' <=> Awaits(u, what)
    BY <1>1 DEF Awaits
  <2> QED BY <1>1, <1>4, <1>5, <1>6, <2>1, <2>2 DEF HoldsRows
<1>8. HoldsLogs(u)' /\ HoldsShares(u)'
  <2>1. HoldsLogs(u) /\ HoldsShares(u)
    BY DEF IInv
  <2> QED BY <1>1, <2>1 DEF HoldsLogs, HoldsShares, Rows
<1> QED BY <1>3, <1>7, <1>8

LEMMA OthersSettle ==
    ASSUME IInv, NEW t \in Txs, OthersKeep(t), NEW u \in Txs \ {t},
           UNCHANGED <<status, parent>> \/ row[Parent] = t
    PROVE  Settles(u)'
<1>1. /\ op'[u] = op[u] /\ todo'[u] = todo[u] /\ wrote'[u] = wrote[u] /\ closes'[u] = closes[u]
      /\ row'[Parent] = u <=> row[Parent] = u
  BY DEF OthersKeep, Rows
<1>2. Settles(u)
  BY DEF IInv
<1>3. CASE row[Parent] = t
  <2>1. row[Parent] # u
    BY <1>3
  <2> QED BY <1>1, <1>2, <2>1 DEF Settles
<1>4. CASE UNCHANGED <<status, parent>>
  <2>1. Tally(View(u, wrote[u]))' = Tally(View(u, wrote[u]))
    BY <1>1, <1>4 DEF Tally, View
  <2> QED BY <1>1, <1>2, <1>4, <2>1 DEF Settles
<1> QED BY <1>3, <1>4

-----------------------------------------------------------------------------
(* Each operation, for the transaction that takes the step. *)

\* What has to be shown of a step.
Preserves(t) ==
    /\ TypeOK' /\ OthersKeep(t) /\ PlanFor(op'[t], t[2], todo'[t]) /\ SelfOK(t)'
    /\ UNCHANGED <<status, parent>> \/ row[Parent] = t

LEMMA PreservesInvariant ==
    ASSUME IInv, NEW t \in Txs, Preserves(t) PROVE IInv'
<1>1. ASSUME NEW u \in Txs PROVE PlanFor(op'[u], u[2], todo'[u])
  BY OthersHold DEF Preserves
<1>2. ASSUME NEW u \in Txs
      PROVE  HoldsRows(u)' /\ HoldsLogs(u)' /\ HoldsShares(u)' /\ Settles(u)'
  <2>1. CASE u = t
    BY <2>1 DEF Preserves, SelfOK
  <2>2. CASE u # t
    BY <2>2, OthersHold, OthersSettle DEF Preserves
  <2> QED BY <2>1, <2>2
<1>3. PlanOK'
  BY <1>1 DEF PlanOK
<1> QED BY <1>2, <1>3 DEF IInv, Preserves

\* A transaction that begins holds nothing, and locks nothing by that.
LEMMA BeginStep ==
    ASSUME IInv, NEW t \in Txs, NEW what \in Ops \ {"reap"}, NEW plan, Begin(t, what, plan),
           PlanFor(what, t[2], plan), plan # << >>, what \in Finishes => Head(plan).do # "log",
           UNCHANGED <<status, parent, row, strong, share, logs, wrote, closes>>
    PROVE  Preserves(t)
<1>1. op[t] = "none" /\ op' = [op EXCEPT ![t] = what] /\ todo' = [todo EXCEPT ![t] = plan]
  BY DEF Begin
<1>2. TypeOK
  BY DEF IInv
<1>3. plan \in Seq(Requests)
  BY PlanType
<1>4. TypeOK'
  BY <1>1, <1>2, <1>3 DEF TypeOK
<1>5. op'[t] = what /\ todo'[t] = plan
  BY <1>1, <1>2 DEF TypeOK
<1>6. HoldsNothing(t)'
  <2>1. HoldsRows(t) /\ HoldsLogs(t) /\ HoldsShares(t) /\ Settles(t)
    BY DEF IInv
  <2>2. op[t] \notin Ops \ {"emit"}
    BY <1>1, OpNames
  <2> QED BY <1>1, <2>1, <2>2
          DEF HoldsNothing, HoldsRows, HoldsLogs, HoldsShares, Settles, Finishes
<1>7. SelfOK(t)'
  BY <1>5, <1>6, FreshIsOK
<1>8. OthersKeep(t)
  BY <1>1, <1>2 DEF OthersKeep, TypeOK
<1> QED BY <1>4, <1>5, <1>7, <1>8 DEF Preserves

LEMMA CallRole ==
    ASSUME NEW t \in Txs, t[1] \in CallRoles PROVE t[2] \in Children
BY LocksAssumption DEF CallRoles, BatchRoles

LEMMA StartStep ==
    ASSUME IInv, NEW t \in Txs,
           Work(t) \/ JudgeEmits(t) \/ CancelRun(t) \/ CancelBatch(t)
    PROVE  Preserves(t)
<1>1. CASE Work(t)
  <2>1. t[2] \in Children
    BY <1>1, CallRole DEF Work, CallRoles
  <2> QED BY <1>1, <2>1, BeginStep, CallPlansFit, OpNames
          DEF Work, EmitPlan, FinishPlan, FailPlan, Finishes, Ask
<1>2. CASE JudgeEmits(t)
  <2>1. t[2] \in Children
    BY <1>2, CallRole DEF JudgeEmits, CallRoles
  <2> QED BY <1>2, <2>1, BeginStep, CallPlansFit, OpNames DEF JudgeEmits, EmitPlan, Finishes
<1>3. CASE CancelRun(t)
  <2>1. t[2] \in Children
    BY <1>3, CallRole DEF CancelRun, CallRoles
  <2> QED BY <1>3, <2>1, BeginStep, CallPlansFit, OpNames DEF CancelRun, CancelPlan, Finishes
<1>4. CASE CancelBatch(t)
  <2>1. PICK order \in [1..Cardinality(Children) -> Children] :
           Begin(t, "cancel_batch",
                 <<Ask("hold", Parent)>>
                 \o [i \in DOMAIN order |-> Ask("write", order[i])]
                 \o <<Ask("roll", Parent)>>)
    BY <1>4 DEF CancelBatch
  <2> DEFINE plan == <<Ask("hold", Parent)>>
                     \o [i \in DOMAIN order |-> Ask("write", order[i])]
                     \o <<Ask("roll", Parent)>>
  <2>2. Cardinality(Children) \in Nat
    BY LocksAssumption, FS_CardinalityType
  <2>3. PlanFor("cancel_batch", t[2], plan)
    BY <2>2, BatchPlanFits
  <2>4. plan # << >>
    BY <2>2, BatchPlanFits
  <2> QED BY <1>4, <2>1, <2>3, <2>4, BeginStep, OpNames DEF CancelBatch, Finishes
<1> QED BY <1>1, <1>2, <1>3, <1>4

LEMMA ReapStep ==
    ASSUME IInv, NEW t \in Txs, Reap(t) PROVE Preserves(t)
<1>1. PICK S \in (SUBSET Lockable) \ {{}} : \E order \in [1..Cardinality(S) -> S] :
          /\ \A c \in S : \E i \in DOMAIN order : order[i] = c
          /\ Begin(t, "reap",
                   [i \in 1..(2 * Cardinality(S)) |->
                       Ask(IF i % 2 = 1 THEN "log" ELSE "roll", order[(i + 1) \div 2])])
          /\ row' = [x \in Rows |-> IF x \in S THEN t ELSE row[x]]
          /\ strong' = strong \cup S
  BY DEF Reap
<1>2. PICK order \in [1..Cardinality(S) -> S] :
          Begin(t, "reap",
                [i \in 1..(2 * Cardinality(S)) |->
                    Ask(IF i % 2 = 1 THEN "log" ELSE "roll", order[(i + 1) \div 2])])
  BY <1>1
<1> DEFINE n == Cardinality(S)
           plan == [i \in 1..(2 * n) |->
                       Ask(IF i % 2 = 1 THEN "log" ELSE "roll", order[(i + 1) \div 2])]
<1>3. /\ op[t] = "none" /\ op' = [op EXCEPT ![t] = "reap"]
      /\ todo' = [todo EXCEPT ![t] = plan]
  BY <1>2 DEF Begin
<1>4. TypeOK /\ HoldsRows(t) /\ HoldsLogs(t) /\ HoldsShares(t) /\ Settles(t)
  BY DEF IInv
<1>5. S \subseteq Children /\ \A c \in S : row[c] = NoTx
  BY DEF Lockable
<1>6. n \in Nat \ {0} /\ order \in [1..n -> Children]
  <2>1. IsFiniteSet(S)
    BY <1>5, LocksAssumption, FS_Subset
  <2>2. Cardinality(S) \in Nat
    BY <2>1, FS_CardinalityType
  <2>3. Cardinality(S) # 0
    <3>1. S # {}
      OBVIOUS
    <3> QED BY <2>1, <3>1, FS_EmptySet, Zenon
  <2>4. order \in [1..Cardinality(S) -> Children]
    BY <1>5
  <2> QED BY <2>2, <2>3, <2>4
<1>7. PlanFor("reap", t[2], plan) /\ plan # << >>
  BY <1>6, ReapPlanFits
<1>8. plan \in Seq(Requests) /\ \A i \in 1..Len(plan) : plan[i].to \in S
  <2>1. plan \in Seq(Requests)
    BY <1>7, PlanType, OpNames
  <2>2. \A i \in 1..(2 * n) : (i + 1) \div 2 \in 1..n
    BY <1>6
  <2>3. \A i \in 1..(2 * n) : order[(i + 1) \div 2] \in S
    BY <2>2
  <2>4. \A i \in 1..(2 * n) : plan[i].to \in S
    BY <2>3 DEF Ask
  <2>5. 1..Len(plan) = DOMAIN plan
    BY <2>1, LenProperties
  <2>6. DOMAIN plan = 1..(2 * n)
    OBVIOUS
  <2> QED BY <2>1, <2>4, <2>5, <2>6
<1> HIDE DEF plan, n
<1>9. op'[t] = "reap" /\ todo'[t] = plan
  BY <1>3, <1>4 DEF TypeOK
<1>10. UNCHANGED <<status, parent, share, logs, wrote, closes>>
  BY DEF Reap
<1>11. TypeOK'
  <2>1. row' \in [Rows -> Txs \cup {NoTx}] /\ strong' \in SUBSET Rows
    BY <1>1, <1>4, <1>5 DEF TypeOK, Rows
  <2>2. op' \in [Txs -> Ops \cup {"none", "over"}] /\ todo' \in [Txs -> Seq(Requests)]
    BY <1>3, <1>4, <1>8, OpNames DEF TypeOK
  <2> QED BY <1>4, <1>10, <2>1, <2>2 DEF TypeOK
<1>12. OthersKeep(t)
  <2>1. \A u \in Txs \ {t}, x \in Rows : row'[x] = u <=> row[x] = u
    BY <1>1, <1>5, LocksAssumption
  <2> QED BY <1>3, <1>4, <1>10, <2>1 DEF OthersKeep, TypeOK
<1>13. SelfOK(t)'
  <2>1. HoldsRows(t)'
    <3>1. \A i \in 1..Len(todo'[t]) : row'[todo'[t][i].to] = t
      BY <1>1, <1>5, <1>8, <1>9 DEF Rows
    <3> QED BY <1>9, <3>1 DEF HoldsRows, Finishes
  <2>2. HoldsLogs(t)' /\ HoldsShares(t)'
    BY <1>3, <1>4, <1>10 DEF HoldsLogs, HoldsShares, Finishes
  <2>3. Settles(t)'
    <3>1. wrote[t] = {} /\ closes[t] = "open"
      BY <1>3, <1>4, OpNames DEF Settles
    <3> QED BY <1>7, <1>9, <1>10, <3>1 DEF Settles
  <2> QED BY <2>1, <2>2, <2>3 DEF SelfOK
<1> QED BY <1>7, <1>9, <1>10, <1>11, <1>12, <1>13 DEF Preserves

\* PlanSteps, for a transaction under way.
LEMMA Requested ==
    ASSUME IInv, NEW t \in Txs, todo[t] # << >>
    PROVE  RequestFits(op[t], t[2], todo[t])
<1>1. op[t] \in Ops \cup {"none", "over"} /\ PlanFor(op[t], t[2], todo[t])
  BY DEF IInv, TypeOK, PlanOK
<1> QED BY <1>1, PlanSteps

\* What a granted request leaves to do.
LEMMA Proceeds ==
    ASSUME IInv, NEW t \in Txs, NEW what, Asks(t, what), Proceed(t)
    PROVE  /\ todo'[t] = Tail(todo[t]) /\ PlanFor(op[t], t[2], todo'[t])
           /\ todo' \in [Txs -> Seq(Requests)]
           /\ \A u \in Txs \ {t} : todo'[u] = todo[u]
           /\ PlanFor(op[t], t[2], todo[t]) /\ op[t] \in Ops
<1>1. PlanFor(op[t], t[2], todo[t]) /\ todo[t] # << >> /\ op[t] \in Ops \cup {"none", "over"}
  BY OpNames, Granted DEF IInv, PlanOK, TypeOK
<1>2. PlanFor(op[t], t[2], Tail(todo[t])) /\ op[t] \in Ops
  BY <1>1, Requested DEF RequestFits
<1>3. Tail(todo[t]) \in Seq(Requests)
  BY <1>1, <1>2, PlanType
<1> QED BY <1>1, <1>2, <1>3 DEF Proceed, IInv, TypeOK

\* The rest of a reaper's rows are locked as they were.
LEMMA ReaperKeepsRows ==
    ASSUME IInv, NEW t \in Txs, NEW what, Asks(t, what), Proceed(t), op[t] = "reap"
    PROVE  /\ \A i \in 1..Len(todo'[t]) : todo'[t][i].to \in Children /\ row[todo'[t][i].to] = t
           /\ row[Target(t)] = t
<1>1. PlanFor(op[t], t[2], todo[t]) /\ todo[t] # << >> /\ todo'[t] = Tail(todo[t])
  BY Proceeds, Granted
<1>2. todo[t] \in ReapRest /\ Tail(todo[t]) \in ReapRest
  BY <1>1, ReapSteps DEF PlanFor
<1>3. \A i \in 1..Len(todo[t]) : row[todo[t][i].to] = t
  BY DEF IInv, HoldsRows
<1>4. \A i \in 1..Len(Tail(todo[t])) : i + 1 \in 1..Len(todo[t]) /\ Tail(todo[t])[i] = todo[t][i + 1]
  BY <1>1, <1>2, ReapSteps
<1>5. 1 \in 1..Len(todo[t]) /\ Head(todo[t]) = todo[t][1]
  BY <1>1, <1>2, ReapSteps
<1>6. \A i \in 1..Len(Tail(todo[t])) : Tail(todo[t])[i].to \in Children
  BY <1>2 DEF ReapRest
<1> QED BY <1>1, <1>3, <1>4, <1>5, <1>6 DEF Target

LEMMA TakeLogStep ==
    ASSUME IInv, NEW t \in Txs, TakeLog(t) PROVE Preserves(t)
<1>1. /\ Asks(t, "log") /\ Proceed(t) /\ logs' = [logs EXCEPT ![Target(t)] = t]
      /\ UNCHANGED <<status, parent, row, strong, share, op, wrote, closes>>
  BY DEF TakeLog
<1>2. TypeOK /\ HoldsRows(t) /\ HoldsLogs(t) /\ HoldsShares(t) /\ Settles(t)
  BY DEF IInv
<1>3. /\ todo'[t] = Tail(todo[t]) /\ PlanFor(op[t], t[2], todo'[t])
      /\ todo' \in [Txs -> Seq(Requests)] /\ \A u \in Txs \ {t} : todo'[u] = todo[u]
      /\ PlanFor(op[t], t[2], todo[t]) /\ op[t] \in Ops
  BY <1>1, Proceeds
<1>4. todo[t] # << >> /\ Awaits(t, "log") /\ logs[Target(t)] \in {t, NoTx}
  BY <1>1, Granted DEF Awaits
<1>5. /\ op[t] \in Finishes \cup {"emit", "fail", "reap"} /\ Target(t) \in Children
      /\ op[t] \in Finishes => Target(t) = t[2]
      /\ Tail(todo[t]) = << >> => op[t] = "emit"
      /\ op[t] \in Finishes \cup {"cancel"} =>
            Tail(todo[t]) # << >> /\ Head(Tail(todo[t])).do = "roll"
  BY <1>4, Requested DEF RequestFits, Target, Awaits, Finishes
<1>6. TypeOK'
  BY <1>1, <1>2, <1>3 DEF TypeOK
<1>7. OthersKeep(t)
  BY <1>1, <1>2, <1>3, <1>4, LocksAssumption DEF OthersKeep, TypeOK
<1>8. HoldsRows(t)'
  <2>1. op[t] = "reap" => \A i \in 1..Len(todo'[t]) : row[todo'[t][i].to] = t
    BY <1>1, ReaperKeepsRows
  <2> QED BY <1>1, <1>2, <1>3, <1>4, <1>5, <2>1 DEF HoldsRows, Awaits, Finishes
<1>9. HoldsLogs(t)'
  <2>1. op[t] \in Finishes \cup {"reap"} => row[Target(t)] = t
    BY <1>1, <1>2, <1>4, <1>5, ReaperKeepsRows DEF HoldsRows, Awaits
  <2> QED BY <1>1, <1>2, <1>5, <2>1 DEF HoldsLogs, TypeOK
<1>10. HoldsShares(t)'
  BY <1>1, <1>2 DEF HoldsShares
<1>11. Settles(t)'
  BY <1>1, <1>2, <1>3, <1>5 DEF Settles, Finishes
<1> QED BY <1>1, <1>3, <1>6, <1>7, <1>8, <1>9, <1>10, <1>11 DEF Preserves, SelfOK

LEMMA TakeShareStep ==
    ASSUME IInv, NEW t \in Txs, TakeShare(t) PROVE Preserves(t)
<1>1. /\ Asks(t, "share") /\ Proceed(t) /\ share' = [share EXCEPT ![Target(t)] = @ \cup {t}]
      /\ UNCHANGED <<status, parent, row, strong, logs, op, wrote, closes>>
  BY DEF TakeShare
<1>2. TypeOK /\ HoldsRows(t) /\ HoldsLogs(t) /\ HoldsShares(t) /\ Settles(t)
  BY DEF IInv
<1>3. /\ todo'[t] = Tail(todo[t]) /\ PlanFor(op[t], t[2], todo'[t])
      /\ todo' \in [Txs -> Seq(Requests)] /\ \A u \in Txs \ {t} : todo'[u] = todo[u]
      /\ PlanFor(op[t], t[2], todo[t]) /\ op[t] \in Ops
  BY <1>1, Proceeds
<1>4. todo[t] # << >> /\ Awaits(t, "share")
  BY <1>1, Granted DEF Awaits
<1>5. /\ op[t] \in {"emit", "fail"} /\ Target(t) \in Children
      /\ Tail(todo[t]) = << >> => op[t] = "emit"
  BY <1>4, Requested DEF RequestFits, Target, Awaits, Finishes
<1>6. TypeOK'
  BY <1>1, <1>2, <1>3, <1>5 DEF TypeOK
<1>7. OthersKeep(t)
  BY <1>1, <1>2, <1>3, <1>5 DEF OthersKeep, TypeOK
<1>8. HoldsRows(t)'
  BY <1>1, <1>2, <1>5 DEF HoldsRows, Finishes
<1>9. HoldsLogs(t)' /\ HoldsShares(t)'
  BY <1>1, <1>2, <1>5 DEF HoldsLogs, HoldsShares, TypeOK
<1>10. Settles(t)'
  BY <1>1, <1>2, <1>3, <1>5 DEF Settles
<1> QED BY <1>1, <1>3, <1>6, <1>7, <1>8, <1>9, <1>10 DEF Preserves, SelfOK

LEMMA HoldStep ==
    ASSUME IInv, NEW t \in Txs, Hold(t) PROVE Preserves(t)
<1>1. /\ Asks(t, "hold") /\ Proceed(t) /\ row' = [row EXCEPT ![Target(t)] = t]
      /\ strong' = strong \cup {Target(t)}
      /\ UNCHANGED <<status, parent, share, logs, op, wrote, closes>>
  BY DEF Hold
<1>2. TypeOK /\ HoldsRows(t) /\ HoldsLogs(t) /\ HoldsShares(t) /\ Settles(t)
  BY DEF IInv
<1>3. /\ todo'[t] = Tail(todo[t]) /\ PlanFor(op[t], t[2], todo'[t])
      /\ todo' \in [Txs -> Seq(Requests)] /\ \A u \in Txs \ {t} : todo'[u] = todo[u]
  BY <1>1, Proceeds
<1>4. todo[t] # << >> /\ Awaits(t, "hold") /\ row[Target(t)] \in {t, NoTx}
  BY <1>1, Granted DEF Awaits
<1>5. /\ \/ op[t] \in Finishes \cup {"cancel"} /\ Target(t) = t[2] /\ t[2] \in Children
         \/ op[t] = "cancel_batch" /\ Target(t) = Parent
      /\ Tail(todo[t]) # << >>
      /\ op[t] \in Finishes \cup {"cancel"} => Head(Tail(todo[t])).do # "hold"
  BY <1>4, Requested DEF RequestFits, Target, Awaits, Finishes
<1>6. Target(t) \in Rows /\ t # NoTx /\ Parent \notin Children
  BY <1>5, LocksAssumption DEF Rows
<1>7. TypeOK'
  BY <1>1, <1>2, <1>3, <1>6 DEF TypeOK
<1>8. OthersKeep(t)
  BY <1>1, <1>2, <1>3, <1>4, <1>6, LocksAssumption DEF OthersKeep, TypeOK
<1>9. \A x \in Rows : row'[x] = IF x = Target(t) THEN t ELSE row[x]
  BY <1>1, <1>2 DEF TypeOK
<1>10. HoldsRows(t)'
  <2>1. CASE op[t] = "cancel_batch"
    BY <1>1, <2>1 DEF HoldsRows, Finishes
  <2>2. CASE op[t] \in Finishes \cup {"cancel"}
    <3>1. row'[Parent] # t /\ row'[t[2]] = t
      BY <1>2, <1>4, <1>5, <1>6, <1>9, <2>2 DEF HoldsRows, Rows, Finishes
    <3> QED BY <1>1, <1>3, <1>5, <2>2, <3>1 DEF HoldsRows, Awaits, Finishes
  <2> QED BY <1>5, <2>1, <2>2
<1>11. HoldsLogs(t)' /\ HoldsShares(t)'
  BY <1>1, <1>2, <1>9 DEF HoldsLogs, HoldsShares, Rows
<1>12. Settles(t)'
  BY <1>1, <1>2, <1>3, <1>5, <1>9 DEF Settles, Rows
<1> QED BY <1>1, <1>3, <1>7, <1>8, <1>10, <1>11, <1>12 DEF Preserves, SelfOK

LEMMA WriteStep ==
    ASSUME IInv, NEW t \in Txs, Write(t) PROVE Preserves(t)
<1>1. /\ Asks(t, "write") /\ Proceed(t)
      /\ \/ /\ row' = [row EXCEPT ![Target(t)] = t]
            /\ wrote' = [wrote EXCEPT ![t] = @ \cup {Target(t)}]
         \/ UNCHANGED <<row, wrote>>
      /\ UNCHANGED <<status, parent, strong, share, logs, op, closes>>
  BY DEF Write
<1>2. TypeOK /\ HoldsRows(t) /\ HoldsLogs(t) /\ HoldsShares(t) /\ Settles(t)
  BY DEF IInv
<1>3. /\ todo'[t] = Tail(todo[t]) /\ PlanFor(op[t], t[2], todo'[t])
      /\ todo' \in [Txs -> Seq(Requests)] /\ \A u \in Txs \ {t} : todo'[u] = todo[u]
  BY <1>1, Proceeds
<1>4. todo[t] # << >> /\ Awaits(t, "write") /\ row[Target(t)] \in {t, NoTx}
  BY <1>1, Granted DEF Awaits
<1>5. op[t] \in {"fail", "cancel_batch"} /\ Target(t) \in Children /\ Tail(todo[t]) # << >>
  BY <1>4, Requested DEF RequestFits, Target, Awaits
<1>6. t # NoTx /\ Parent \notin Children /\ Target(t) \in Rows
  BY <1>5, LocksAssumption DEF Rows
<1>7. TypeOK'
  <2>1. row' \in [Rows -> Txs \cup {NoTx}]
    BY <1>1, <1>2 DEF TypeOK
  <2>2. wrote \in [Txs -> SUBSET Children] /\ wrote[t] \cup {Target(t)} \in SUBSET Children
    BY <1>2, <1>5 DEF TypeOK
  <2>3. wrote' \in [Txs -> SUBSET Children]
    BY <1>1, <2>2
  <2> QED BY <1>1, <1>2, <1>3, <2>1, <2>3 DEF TypeOK
<1>8. OthersKeep(t)
  BY <1>1, <1>2, <1>3, <1>4, <1>6, LocksAssumption DEF OthersKeep, TypeOK
<1>9. \A x \in Rows : row[x] = t => row'[x] = t
  BY <1>1, <1>2 DEF TypeOK
<1>10. HoldsRows(t)'
  BY <1>1, <1>5 DEF HoldsRows, Finishes
<1>11. HoldsLogs(t)' /\ HoldsShares(t)'
  BY <1>1, <1>2, <1>9 DEF HoldsLogs, HoldsShares, Rows
<1>12. Settles(t)'
  BY <1>1, <1>2, <1>3, <1>5, <1>9, OpNames DEF Settles, Rows
<1> QED BY <1>1, <1>3, <1>7, <1>8, <1>10, <1>11, <1>12 DEF Preserves, SelfOK

LEMMA TallyType == ASSUME NEW view PROVE Tally(view) \in {"open", "completed", "cancelled"}
BY DEF Tally

LEMMA RollUpStep ==
    ASSUME IInv, NEW t \in Txs, RollUp(t) PROVE Preserves(t)
<1> DEFINE mine == wrote[t] \cup ({Target(t)} \cap Children)
<1>1. /\ Asks(t, "roll") /\ Proceed(t)
      /\ wrote' = [wrote EXCEPT ![t] = mine]
      /\ closes' = [closes EXCEPT ![t] = IF parent = "open" THEN Tally(View(t, mine)) ELSE @]
      /\ row' = [row EXCEPT ![Parent] = t]
      /\ strong' = strong \cup {Parent}
      /\ UNCHANGED <<status, parent, share, logs, op>>
  BY DEF RollUp
<1>2. TypeOK /\ HoldsRows(t) /\ HoldsLogs(t) /\ HoldsShares(t) /\ Settles(t)
  BY DEF IInv
<1>3. /\ todo'[t] = Tail(todo[t]) /\ PlanFor(op[t], t[2], todo'[t])
      /\ todo' \in [Txs -> Seq(Requests)] /\ \A u \in Txs \ {t} : todo'[u] = todo[u]
  BY <1>1, Proceeds
<1>4. todo[t] # << >> /\ Awaits(t, "roll") /\ row[Parent] \in {t, NoTx}
  BY <1>1, Granted DEF Awaits
<1>5. /\ op[t] \in Ops \ {"emit"}
      /\ op[t] \in Finishes \cup {"cancel"} => Tail(todo[t]) = << >>
  BY <1>4, Requested DEF RequestFits, Awaits
<1>6. mine \subseteq Children
  BY <1>2 DEF TypeOK
<1>7. t # NoTx /\ Parent \in Rows
  BY LocksAssumption DEF Rows
<1>8. TypeOK'
  <2>1. closes' \in [Txs -> {"open", "completed", "cancelled"}]
    BY <1>1, <1>2, TallyType DEF TypeOK
  <2>2. wrote' \in [Txs -> SUBSET Children]
    BY <1>1, <1>2, <1>6 DEF TypeOK
  <2> QED BY <1>1, <1>2, <1>3, <1>7, <2>1, <2>2 DEF TypeOK
<1>9. OthersKeep(t)
  BY <1>1, <1>2, <1>3, <1>4, <1>7, LocksAssumption DEF OthersKeep, TypeOK
<1>10. row'[Parent] = t /\ \A x \in Rows : row[x] = t => row'[x] = t
  BY <1>1, <1>2, <1>7 DEF TypeOK
<1>11. HoldsRows(t)'
  <2>1. op[t] = "reap" => \A i \in 1..Len(todo'[t]) : row'[todo'[t][i].to] = t
    BY <1>1, <1>10, ReaperKeepsRows DEF Rows
  <2> QED BY <1>1, <1>3, <1>5, <2>1, OpNames DEF HoldsRows, Awaits, Finishes
<1>12. HoldsLogs(t)' /\ HoldsShares(t)'
  BY <1>1, <1>2, <1>10 DEF HoldsLogs, HoldsShares, Rows
<1>13. Settles(t)'
  <2>1. wrote'[t] = mine /\ closes'[t] = IF parent = "open" THEN Tally(View(t, mine)) ELSE closes[t]
    BY <1>1, <1>2 DEF TypeOK
  <2>2. Tally(View(t, wrote[t]))' = Tally(View(t, mine))
    BY <1>1, <2>1 DEF View, Tally
  <2> QED BY <1>1, <1>2, <1>5, <1>10, <2>1, <2>2 DEF Settles
<1> QED BY <1>1, <1>3, <1>8, <1>9, <1>11, <1>12, <1>13 DEF Preserves, SelfOK

\* A transaction that ends, or begins again with the failure to record.
LEMMA EndStep ==
    ASSUME IInv, NEW t \in Txs, Free(t),
           \/ \E what \in {"none", "over"} : /\ op' = [op EXCEPT ![t] = what]
                                             /\ todo' = [todo EXCEPT ![t] = << >>]
           \/ /\ op[t] \in Finishes
              /\ op' = [op EXCEPT ![t] = "fail"]
              /\ todo' = [todo EXCEPT ![t] = FailPlan(t[2])],
           status' \in [Children -> Ended \cup {"live"}],
           parent' \in {"open", "completed", "cancelled"},
           UNCHANGED <<status, parent>> \/ row[Parent] = t
    PROVE  Preserves(t)
<1>1. TypeOK /\ PlanFor(op[t], t[2], todo[t])
  BY DEF IInv, PlanOK
<1>2. /\ HoldsNothing(t)'
      /\ row' \in [Rows -> Txs \cup {NoTx}] /\ strong' \in SUBSET Rows
      /\ share' \in [Children -> SUBSET Txs] /\ logs' \in [Children -> Txs \cup {NoTx}]
      /\ wrote' \in [Txs -> SUBSET Children]
      /\ closes' \in [Txs -> {"open", "completed", "cancelled"}]
      /\ \A u \in Txs \ {t} :
            /\ wrote'[u] = wrote[u] /\ closes'[u] = closes[u]
            /\ \A x \in Rows : row'[x] = u <=> row[x] = u
            /\ \A c \in Children : logs'[c] = u <=> logs[c] = u
            /\ \A c \in Children : u \in share'[c] <=> u \in share[c]
  BY <1>1, Freed
<1>3. PICK what, plan : /\ op' = [op EXCEPT ![t] = what]
                        /\ todo' = [todo EXCEPT ![t] = plan]
                        /\ \/ what \in {"none", "over"} /\ plan = << >>
                           \/ op[t] \in Finishes /\ what = "fail" /\ plan = FailPlan(t[2])
  OBVIOUS
<1>4. /\ PlanFor(what, t[2], plan) /\ what \in Ops \cup {"none", "over"}
      /\ \/ what \in {"none", "over"} /\ plan = << >>
         \/ what \in Ops \ {"reap"} /\ plan # << >> /\ what \notin Finishes
  <2>1. CASE what \in {"none", "over"} /\ plan = << >>
    BY <2>1, OpNames DEF PlanFor, CallOps, Finishes
  <2>2. CASE op[t] \in Finishes /\ what = "fail" /\ plan = FailPlan(t[2])
    <3>1. t[2] \in Children
      BY <1>1, <2>2 DEF PlanFor, CallOps, Finishes
    <3> QED BY <2>2, <3>1, CallPlansFit, OpNames DEF FailPlan, Finishes
  <2> QED BY <1>3, <2>1, <2>2
<1>5. plan \in Seq(Requests)
  BY <1>4, PlanType
<1>6. op'[t] = what /\ todo'[t] = plan
  BY <1>1, <1>3 DEF TypeOK
<1>7. TypeOK'
  <2>1. op' \in [Txs -> Ops \cup {"none", "over"}] /\ todo' \in [Txs -> Seq(Requests)]
    BY <1>1, <1>3, <1>4, <1>5 DEF TypeOK
  <2> QED BY <1>2, <2>1 DEF TypeOK
<1>8. OthersKeep(t)
  BY <1>1, <1>2, <1>3 DEF OthersKeep, TypeOK
<1>9. SelfOK(t)'
  BY <1>2, <1>4, <1>6, FreshIsOK
<1> QED BY <1>4, <1>6, <1>7, <1>8, <1>9 DEF Preserves

\* What a transaction commits was tallied under the lock of the parent row.
LEMMA Commits ==
    ASSUME IInv, NEW t \in Txs, Commit(t)
    PROVE  \/ op[t] = "emit" /\ wrote[t] = {} /\ closes[t] = "open"
           \/ /\ op[t] \in Ops \ {"emit"} /\ EndsAs[op[t]] \in Ended /\ row[Parent] = t
              /\ wrote[t] \subseteq Children
              /\ parent = "open" => closes[t] = Tally(View(t, wrote[t]))
              /\ parent # "open" => closes[t] = "open"
BY OpNames DEF IInv, TypeOK, Settles, Commit, EndsAs, Ended

LEMMA CommitStep ==
    ASSUME IInv, NEW t \in Txs, Commit(t) PROVE Preserves(t)
<1>1. /\ status' = [c \in Children |-> IF c \in wrote[t] THEN EndsAs[op[t]] ELSE status[c]]
      /\ parent' = IF closes[t] # "open" THEN closes[t] ELSE parent
      /\ Free(t) /\ Done(t)
  BY DEF Commit
<1>2. TypeOK
  BY DEF IInv
<1>3. UNCHANGED <<status, parent>> \/ row[Parent] = t
  <2>1. CASE wrote[t] = {} /\ closes[t] = "open"
    BY <1>1, <1>2, <2>1 DEF TypeOK
  <2> QED BY <2>1, Commits
<1>4. status' \in [Children -> Ended \cup {"live"}]
  BY <1>1, <1>2, Commits DEF TypeOK
<1>5. parent' \in {"open", "completed", "cancelled"}
  BY <1>1, <1>2 DEF TypeOK
<1>6. \E what \in {"none", "over"} : /\ op' = [op EXCEPT ![t] = what]
                                     /\ todo' = [todo EXCEPT ![t] = << >>]
  BY <1>1 DEF Done
<1> QED BY <1>1, <1>3, <1>4, <1>5, <1>6, EndStep

LEMMA RollbackStep ==
    ASSUME IInv, NEW t \in Txs, GiveUp(t) \/ Victim(t) \/ Crash(t)
    PROVE  Preserves(t) /\ UNCHANGED <<status, parent>>
<1>1. Free(t) /\ UNCHANGED <<status, parent>>
  BY DEF GiveUp, Victim, Crash
<1>2. \/ \E what \in {"none", "over"} : /\ op' = [op EXCEPT ![t] = what]
                                        /\ todo' = [todo EXCEPT ![t] = << >>]
      \/ /\ op[t] \in Finishes
         /\ op' = [op EXCEPT ![t] = "fail"]
         /\ todo' = [todo EXCEPT ![t] = FailPlan(t[2])]
  BY DEF GiveUp, Done, Victim, Crash, Finishes
<1>3. /\ status' \in [Children -> Ended \cup {"live"}]
      /\ parent' \in {"open", "completed", "cancelled"}
  BY <1>1 DEF IInv, TypeOK
<1> QED BY <1>1, <1>2, <1>3, EndStep

-----------------------------------------------------------------------------
(* The invariant. *)

LEMMA InitInvariant == Init => IInv
<1> SUFFICES ASSUME Init PROVE IInv
  OBVIOUS
<1>1. TypeOK
  BY LocksAssumption DEF Init, TypeOK, Rows
<1>2. PlanOK
  BY OpNames DEF Init, PlanOK, PlanFor, CallOps, Finishes
<1>3. ASSUME NEW t \in Txs PROVE HoldsRows(t) /\ HoldsLogs(t) /\ HoldsShares(t) /\ Settles(t)
  <2>1. t # NoTx
    BY LocksAssumption
  <2> QED BY <2>1, OpNames
          DEF Init, HoldsRows, HoldsLogs, HoldsShares, Settles, Awaits, Finishes, Rows
<1> QED BY <1>1, <1>2, <1>3 DEF IInv

LEMMA StepInvariant ==
    ASSUME IInv, NEW t \in Txs,
           Start(t) \/ Take(t) \/ Commit(t) \/ Victim(t) \/ Crash(t)
    PROVE  IInv'
<1>1. Preserves(t)
  <2>1. CASE Start(t)
    BY <2>1, StartStep, ReapStep DEF Start
  <2>2. CASE Take(t)
    BY <2>2, TakeLogStep, TakeShareStep, HoldStep, WriteStep, RollUpStep, RollbackStep DEF Take
  <2> QED BY <2>1, <2>2, CommitStep, RollbackStep
<1> QED BY <1>1, PreservesInvariant

\* Whatever the order in which the transactions take their locks, each of them
\* holds the locks, and commits the counts, that its place in its sequence of
\* statements calls for (rollup.py, events.py, reaper.py).
THEOREM Invariance == Spec => []IInv
<1>1. IInv /\ [Next]_vars => IInv'
  <2>1. ASSUME IInv, UNCHANGED vars PROVE IInv'
    <3>1. TypeOK'
      BY <2>1 DEF vars, IInv, TypeOK
    <3>2. PlanOK'
      BY <2>1 DEF vars, IInv, PlanOK
    <3>3. ASSUME NEW t \in Txs
          PROVE  HoldsRows(t)' /\ HoldsLogs(t)' /\ HoldsShares(t)' /\ Settles(t)'
      <4>1. HoldsRows(t) /\ HoldsLogs(t) /\ HoldsShares(t) /\ Settles(t)
        BY <2>1 DEF IInv
      <4>2. HoldsRows(t)' /\ HoldsLogs(t)' /\ HoldsShares(t)'
        BY <2>1, <4>1 DEF vars, HoldsRows, HoldsLogs, HoldsShares, Awaits
      <4>3. Tally(View(t, wrote[t]))' = Tally(View(t, wrote[t]))
        BY <2>1 DEF vars, Tally, View
      <4> QED BY <2>1, <4>1, <4>2, <4>3 DEF vars, Settles
    <3> QED BY <3>1, <3>2, <3>3 DEF IInv
  <2> QED BY <2>1, StepInvariant DEF Next
<1> QED BY <1>1, InitInvariant, PTL DEF Spec

\* Every variable keeps its type, the plans included, whatever transactions
\* interleave, are rolled back or lost.
THEOREM TypeCorrect == Spec => []TypeOK
<1>1. IInv => TypeOK
  BY DEF IInv
<1> QED BY <1>1, Invariance, PTL

-----------------------------------------------------------------------------
(* The refinement. *)

\* A commit is a flip: the tally made under the parent's lock is the tally of
\* what is committed with it.
LEMMA CommitFlips ==
    ASSUME IInv, NEW t \in Txs, Commit(t) PROVE [Rollup!Next]_Rollup!vars
<1>1. /\ status' = [c \in Children |-> IF c \in wrote[t] THEN EndsAs[op[t]] ELSE status[c]]
      /\ parent' = IF closes[t] # "open" THEN closes[t] ELSE parent
  BY DEF Commit
<1>2. CASE wrote[t] = {} /\ closes[t] = "open"
  <2>1. status' = status /\ parent' = parent
    BY <1>1, <1>2 DEF IInv, TypeOK
  <2> QED BY <2>1 DEF Rollup!vars
<1>3. CASE /\ EndsAs[op[t]] \in Ended /\ wrote[t] \subseteq Children
           /\ parent = "open" => closes[t] = Tally(View(t, wrote[t]))
           /\ parent # "open" => closes[t] = "open"
  <2>1. View(t, wrote[t]) = status'
    BY <1>1 DEF View
  <2>2. Rollup!CloseAs(status') = Tally(status')
    BY DEF Rollup!CloseAs, Tally
  <2>3. parent' = IF parent = "open" THEN Rollup!CloseAs(status') ELSE parent
    BY <1>1, <1>3, <2>1, <2>2
  <2>4. Rollup!Flip(wrote[t], EndsAs[op[t]])
    BY <1>1, <2>3 DEF Rollup!Flip
  <2> QED BY <1>3, <2>4 DEF Rollup!Next, Ended
<1> QED BY <1>2, <1>3, Commits

LEMMA RollupStep == IInv /\ [Next]_vars => [Rollup!Next]_Rollup!vars
<1> SUFFICES ASSUME IInv, [Next]_vars PROVE [Rollup!Next]_Rollup!vars
  OBVIOUS
<1>1. CASE UNCHANGED <<status, parent>>
  BY <1>1 DEF Rollup!vars
<1>2. ASSUME NEW t \in Txs, Start(t) \/ Take(t) \/ Victim(t) \/ Crash(t)
      PROVE  UNCHANGED <<status, parent>>
  BY <1>2 DEF Start, Work, JudgeEmits, CancelRun, CancelBatch, Reap, Take, TakeLog, TakeShare,
              Hold, Write, RollUp, GiveUp, Victim, Crash
<1>3. CASE UNCHANGED vars
  BY <1>1, <1>3 DEF vars
<1>4. CASE Next
  BY <1>1, <1>2, <1>4, CommitFlips DEF Next
<1> QED BY <1>3, <1>4

\* Under any interleaving of the transactions that end the calls of a batch,
\* rollbacks and lost processes included, what is committed is the atomic
\* rollup: the FOR UPDATE on the parent makes every tally current.
THEOREM RollupIsAtomic == Spec => ImplementsRollup
<1>1. Init => Rollup!Init
  BY DEF Init, Rollup!Init
<1>2. IInv /\ [Next]_vars => [Rollup!Next]_Rollup!vars
  BY RollupStep
<1> QED
  BY <1>1, <1>2, Invariance, PTL DEF Spec, ImplementsRollup, Rollup!Spec

-----------------------------------------------------------------------------
(* Deadlocks. *)

\* A cycle without the batch cancel, a failing executor or an emit.
RowFirstCycle(D) ==
    /\ D \subseteq Txs /\ Stuck(D)
    /\ \A t \in D : op[t] \notin {"cancel_batch", "fail", "emit"}

LEMMA Cycling ==
    ASSUME IInv, NEW D, RowFirstCycle(D), NEW t \in D
    PROVE  /\ todo[t] # << >> /\ op[t] \in Finishes \cup {"cancel", "reap"}
           /\ RequestFits(op[t], t[2], todo[t])
           /\ HoldsRows(t) /\ HoldsLogs(t) /\ HoldsShares(t)
           /\ Head(todo[t]).do \in {"log", "hold", "roll"}
           /\ Blockers(t) \cap D # {}
<1>1. t \in Txs /\ Blockers(t) \cap D # {} /\ op[t] \notin {"cancel_batch", "fail", "emit"}
  BY DEF RowFirstCycle, Stuck
<1>2. todo[t] # << >>
  BY <1>1 DEF Blockers
<1>3. RequestFits(op[t], t[2], todo[t])
  BY <1>1, <1>2, Requested
<1>4. op[t] \in Finishes \cup {"cancel", "reap"}
  BY <1>1, <1>3, OpNames DEF RequestFits, Finishes
<1>5. Head(todo[t]) \in Requests
  BY <1>1, <1>2 DEF IInv, TypeOK
<1>6. Head(todo[t]).do \in {"log", "hold", "roll"}
  <2>1. Head(todo[t]).do \in {"log", "share", "hold", "write", "roll"}
    BY <1>5 DEF Requests
  <2>2. /\ Head(todo[t]).do = "share" => op[t] \in {"emit", "fail"}
        /\ Head(todo[t]).do = "write" => op[t] \in {"fail", "cancel_batch"}
    BY <1>3, WhoSharesAndWrites, Zenon
  <2> QED BY <1>1, <2>1, <2>2
<1> QED BY <1>1, <1>2, <1>3, <1>4, <1>6 DEF IInv

\* Its members do not wait for a log: who waits for one has the call's row, and
\* so has the member that has the log.
LEMMA NoLogInCycle ==
    ASSUME IInv, NEW D, RowFirstCycle(D), NEW t \in D
    PROVE  Head(todo[t]).do # "log"
<1> SUFFICES ASSUME Head(todo[t]).do = "log" PROVE FALSE
  OBVIOUS
<1> DEFINE c == Head(todo[t]).to
<1>1. /\ todo[t] # << >> /\ op[t] \in Finishes \cup {"reap"} /\ c \in Children
      /\ op[t] \in Finishes => c = t[2]
      /\ HoldsRows(t) /\ Blockers(t) \cap D # {}
  BY Cycling DEF RequestFits
<1>2. row[c] = t
  <2>1. CASE op[t] \in Finishes
    BY <1>1, <2>1 DEF HoldsRows, Awaits
  <2>2. CASE op[t] = "reap"
    <3>1. todo[t] \in ReapRest
      BY <2>2 DEF IInv, PlanOK, PlanFor, RowFirstCycle
    <3>2. 1 \in 1..Len(todo[t]) /\ Head(todo[t]) = todo[t][1]
      BY <1>1, <3>1, ReapSteps
    <3> QED BY <1>1, <2>2, <3>2 DEF HoldsRows
  <2> QED BY <1>1, <2>1, <2>2
<1>3. PICK u \in D : u = logs[c] /\ u # t
  BY <1>1 DEF Blockers
<1>4. row[c] = u
  BY <1>1, <1>3, Cycling DEF HoldsLogs, Finishes, RowFirstCycle
<1> QED BY <1>2, <1>3, <1>4

\* Nor for the parent: only a reaper has it while it waits, and then for a log.
LEMMA NoRollInCycle ==
    ASSUME IInv, NEW D, RowFirstCycle(D), NEW t \in D
    PROVE  Head(todo[t]).do # "roll"
<1>1. ASSUME NEW u \in D, Head(todo[u]).do = "roll"
      PROVE  row[Parent] \in D /\ row[Parent] # u
  <2>1. todo[u] # << >> /\ Blockers(u) \cap D # {} /\ Parent \notin Children
    BY <1>1, Cycling, LocksAssumption
  <2> QED BY <1>1, <2>1 DEF Blockers
<1> SUFFICES ASSUME Head(todo[t]).do = "roll" PROVE FALSE
  OBVIOUS
<1>2. PICK u \in D : u = row[Parent]
  BY <1>1
<1>3. op[u] = "reap"
  BY <1>2, Cycling DEF HoldsRows
<1>4. RequestFits(op[u], u[2], todo[u]) /\ Head(todo[u]).do \in {"log", "hold", "roll"}
  BY Cycling
<1>5. Head(todo[u]).do = "roll"
  BY <1>3, <1>4, NoLogInCycle DEF RequestFits, Finishes
<1> QED BY <1>1, <1>2, <1>5

\* So all of them wait for a row of a call, which who has it does not.
LEMMA NoRowFirstCycle == ASSUME IInv, NEW D PROVE ~RowFirstCycle(D)
<1> SUFFICES ASSUME RowFirstCycle(D) PROVE FALSE
  OBVIOUS
<1>1. ASSUME NEW t \in D
      PROVE  /\ Head(todo[t]).do = "hold" /\ t[2] \in Children /\ Head(todo[t]).to = t[2]
             /\ \A x \in Rows : row[x] # t
  <2>1. Head(todo[t]).do = "hold"
    BY Cycling, NoLogInCycle, NoRollInCycle
  <2>2. /\ op[t] \in Finishes \cup {"cancel"} /\ t[2] \in Children /\ Head(todo[t]).to = t[2]
    BY <2>1, Cycling DEF RequestFits, Finishes
  <2> QED BY <2>1, <2>2, Cycling DEF HoldsRows, Awaits
<1>2. PICK t : t \in D
  BY DEF RowFirstCycle, Stuck
<1>3. PICK u \in D : u \in Blockers(t)
  BY <1>2, Cycling
<1>4. u = row[t[2]] \/ u \in share[t[2]]
  BY <1>1, <1>2, <1>3, Cycling DEF Blockers
<1>5. u \notin share[t[2]]
  BY <1>1, <1>2, Cycling DEF HoldsShares, Finishes
<1> QED BY <1>1, <1>2, <1>4, <1>5 DEF Rows

\* The order call row, call log, parent row is safe, for any number of calls
\* and transactions: a deadlock takes a batch cancel, a failing executor or an
\* emit, which lock in another order.
THEOREM RowFirstIsSafe == Spec => []RowFirstNeverDeadlocks
<1>1. IInv => RowFirstNeverDeadlocks
  BY NoRowFirstCycle DEF RowFirstNeverDeadlocks, RowFirstCycle, Waiting
<1> QED BY <1>1, Invariance, PTL

=============================================================================
