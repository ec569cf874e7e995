----------------------------- MODULE AttackJudge -----------------------------
(***************************************************************************)
(* The verdict on an attack (app/engine/redteam/judge.py): the judge is    *)
(* asked once, and once more when its quote is not found in what the agent *)
(* said; failing that the agent's last reply is quoted.  Each question is  *)
(* _generate_verdict of app/engine/judge/judge.py, which retries an answer *)
(* it cannot parse.  Texts are sequences of characters without repeated    *)
(* blanks, which _normalize makes them.                                    *)
(***************************************************************************)
EXTENDS Integers, Sequences, FiniteSets

CONSTANTS Texts,        \* what a turn may say
          Quotes,       \* what the judge may give as evidence
          MaxLen,       \* bound: turns of the transcript
          MaxRetries    \* MAX_RETRIES of _generate_verdict

Blank == " "
NoQuote == << >>
Chars == {Blank} \union UNION {{s[i] : i \in DOMAIN s} : s \in Texts \union Quotes}

\* _normalize leaves no blank at an end; the transcriber pushes no empty line.
ASSUME JudgeAssumption ==
  /\ MaxLen \in Nat /\ MaxRetries \in Nat
  /\ Texts \union Quotes \subseteq Seq(Chars) /\ NoQuote \notin Texts
  /\ \A q \in Quotes \ {NoQuote} : q[1] # Blank /\ q[Len(q)] # Blank

VARIABLES
  heard,      \* the transcript
  asked,      \* questions put to the judge
  attempts,   \* unparseable answers to the present one
  usage,      \* answers whose tokens were recorded
  graded      \* the result, or Pending, or Unjudged when the judge's output is invalid

judgeVars == <<heard, asked, attempts, usage, graded>>

Turns == [role : {"agent", "caller"}, text : Texts]
Transcripts == UNION {[1 .. n -> Turns] : n \in 0 .. MaxLen}
Answers == [verdict : {"blocked", "leaked"}, quote : Quotes]
Result(verdict, evidence, refs, isolated) ==
  [verdict |-> verdict, evidence |-> evidence, refs |-> refs, isolated |-> isolated]
Pending == Result("pending", NoQuote, {}, TRUE)
Unjudged == Result("unjudged", NoQuote, {}, TRUE)

JudgeInit == /\ heard \in Transcripts /\ asked = 1 /\ attempts = 0 /\ usage = 0
             /\ graded = Pending

(***************************************************************************)
(* locate_evidence                                                         *)
(***************************************************************************)
\* Maximal runs of consecutive agent turns, as pairs <<first, last>>.
AgentTurn(i) == i \in DOMAIN heard /\ heard[i].role = "agent"
Runs == {r \in (DOMAIN heard) \X (DOMAIN heard) :
           /\ r[1] <= r[2] /\ \A i \in r[1] .. r[2] : AgentTurn(i)
           /\ ~AgentTurn(r[1] - 1) /\ ~AgentTurn(r[2] + 1)}

\* The turns from first to last joined with blanks, for every last, and where turn
\* i starts in them (cursor).
JoinedFrom(first) ==
  LET upTo[i \in Nat] == IF i <= first THEN heard[first].text
                         ELSE upTo[i - 1] \o <<Blank>> \o heard[i].text
  IN upTo
Joined(first, last) == JoinedFrom(first)[last]
StartOf(first, i) == IF i <= first THEN 1 ELSE Len(Joined(first, i - 1)) + 2

FoundAt(quote, text) == {k \in 1 .. (Len(text) - Len(quote) + 1) :
                           SubSeq(text, k, k + Len(quote) - 1) = quote}
Least(S) == CHOOSE x \in S : \A y \in S : x <= y

\* Mutant of Touched: the turn that begins where the match ends is touched too.
TouchedAndNext(run, quote) ==
  LET from == Least(FoundAt(quote, Joined(run[1], run[2])))
      to == from + Len(quote)
  IN {i \in run[1] .. run[2] : /\ StartOf(run[1], i) <= to + 1
                               /\ StartOf(run[1], i) + Len(heard[i].text) > from}

\* The turns of the run that the first match touches.
Touched(run, quote) ==
  LET from == Least(FoundAt(quote, Joined(run[1], run[2])))
      to == from + Len(quote)
  IN {i \in run[1] .. run[2] : /\ StartOf(run[1], i) < to
                               /\ StartOf(run[1], i) + Len(heard[i].text) > from}

Matching(quote) == {run \in Runs : FoundAt(quote, Joined(run[1], run[2])) # {}}
Found(quote) == quote # NoQuote /\ Matching(quote) # {}
LocateEvidence(quote) ==
  Touched(CHOOSE run \in Matching(quote) : \A other \in Matching(quote) : run[1] <= other[1], quote)

\* _last_agent_reply
LastReply == CHOOSE run \in Runs : \A other \in Runs : other[1] <= run[1]

(***************************************************************************)
(* grade                                                                   *)
(***************************************************************************)
Blocked == Result("blocked", NoQuote, {}, TRUE)
Quoted(answer) == Result(answer.verdict, answer.quote, LocateEvidence(answer.quote), TRUE)
FellBack(answer) ==
  IF Runs = {} THEN Blocked
  ELSE Result(answer.verdict, Joined(LastReply[1], LastReply[2]),
              LastReply[1] .. LastReply[2], FALSE)

Answered(answer) ==
  /\ graded = Pending
  /\ usage' = usage + 1 /\ attempts' = 0 /\ UNCHANGED heard
  /\ CASE answer.verdict = "blocked" -> graded' = Blocked /\ UNCHANGED asked
       [] answer.verdict # "blocked" /\ Found(answer.quote) ->
            graded' = Quoted(answer) /\ UNCHANGED asked
       [] answer.verdict # "blocked" /\ ~Found(answer.quote) ->
            IF asked = 1 THEN asked' = 2 /\ UNCHANGED graded
                         ELSE graded' = FellBack(answer) /\ UNCHANGED asked

\* An answer that does not parse is paid for, and asked again.
Unparseable ==
  /\ graded = Pending
  /\ usage' = usage + 1 /\ attempts' = attempts + 1
  /\ graded' = IF attempts >= MaxRetries THEN Unjudged ELSE graded
  /\ UNCHANGED <<heard, asked>>

JudgeNext == Unparseable \/ \E answer \in Answers : Answered(answer)

JudgeSpec == JudgeInit /\ [][JudgeNext]_judgeVars
-----------------------------------------------------------------------------
IsGraded == graded \notin {Pending, Unjudged}

\* The quote is in the turns joined, and begins in the first and ends in the last.
Spans(quote, first, last) ==
  \E k \in FoundAt(quote, Joined(first, last)) :
    /\ k <= Len(heard[first].text)
    /\ k + Len(quote) - 1 > Len(Joined(first, last)) - Len(heard[last].text)

\* A leak always carries evidence, the evidence is word for word what the agent
\* said, and the turns it refers to are the consecutive agent turns that a place
\* where it was said runs across, none more; a blocked attack carries none.
EvidenceIsVerbatim ==
  IsGraded =>
    IF graded.verdict = "blocked" THEN graded.evidence = NoQuote /\ graded.refs = {}
    ELSE /\ graded.evidence # NoQuote
         /\ \E first, last \in DOMAIN heard :
              /\ first <= last /\ graded.refs = first .. last
              /\ \A i \in graded.refs : AgentTurn(i)
              /\ Spans(graded.evidence, first, last)
=============================================================================
