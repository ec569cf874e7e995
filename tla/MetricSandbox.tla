---------------------------- MODULE MetricSandbox ----------------------------
(***************************************************************************)
(* The scripts of a call's Python metrics, each in a process of its own:   *)
(* the worker that waits for it (app/engine/metrics/sandbox.py), the       *)
(* process (sandbox_worker.py), and the gather that scores the call        *)
(* (evaluate_python_metric in compiler.py).  Four things may end a script  *)
(* that is not done: an exception of its own, the CPU limit (a signal at   *)
(* the soft one, which is an exception, a kill at the hard one), the       *)
(* memory limit, and the worker's clock, which all race its answer.        *)
(* A script is what it may do; values and rationales are left out.         *)
(***************************************************************************)
CONSTANTS
  Scripts,      \* the python metrics of the call
  MayDo,        \* what each may do: results it may set, or an element of Failings
  Handles,      \* those that catch every Exception
  NoCode        \* those without spec.code

Results == {"passed", "failed", "warn"}
\* No valid result, an exception, a denied operation (of whatever class), too much
\* memory, or a name that is refused before anything is executed.
Failings == {"invalid_output", "error", "denied", "memory_exceeded", "forbidden_syntax"}

ASSUME ScriptAssumption ==
  /\ Handles \subseteq Scripts /\ NoCode \subseteq Scripts
  /\ \A s \in Scripts : MayDo[s] \subseteq Results \union Failings

VARIABLES
  awaited,      \* the worker: "ready", "communicating", "reaping", "answered", "raised"
  answers,      \* its SandboxResult
  process,      \* "none", "starting", "executing", "writing", "gone"
  response,     \* what main() is about to write
  pipe,         \* what of it is in stdout: "empty", "partial", "whole"
  throttled,    \* processes that have had SIGXCPU
  scored        \* the gather: "waiting", "scored", "failed"

sandboxVars == <<awaited, answers, process, response, pipe, throttled, scored>>

NothingSaid == "none"
Alive(s) == process[s] \in {"starting", "executing", "writing"}

SandboxInit ==
  /\ awaited = [s \in Scripts |-> "ready"] /\ answers = [s \in Scripts |-> NothingSaid]
  /\ process = [s \in Scripts |-> "none"] /\ response = [s \in Scripts |-> NothingSaid]
  /\ pipe = [s \in Scripts |-> "empty"] /\ throttled = {} /\ scored = "waiting"

(***************************************************************************)
(* The process                                                             *)
(***************************************************************************)
Respond(s, code) ==
  /\ process' = [process EXCEPT ![s] = "writing"]
  /\ response' = [response EXCEPT ![s] = code]
  /\ UNCHANGED pipe

\* An exception that is not main()'s to catch, or a kill: what was flushed stays.
Dies(s) ==
  /\ process' = [process EXCEPT ![s] = "gone"]
  /\ \/ UNCHANGED pipe
     \/ process[s] = "writing" /\ pipe' = [pipe EXCEPT ![s] = "partial"]
  /\ UNCHANGED response

\* signal, audit hook, resource limits, stdin, _reject_dunder_access
Prepare(s) ==
  /\ process[s] = "starting"
  /\ IF "forbidden_syntax" \in MayDo[s] THEN Respond(s, "forbidden_syntax")
     ELSE process' = [process EXCEPT ![s] = "executing"] /\ UNCHANGED <<response, pipe>>
  /\ UNCHANGED throttled

\* exec and _validate_result
Execute(s) ==
  /\ process[s] = "executing"
  /\ \E what \in MayDo[s] :
       \/ what \in Results \union {"invalid_output"} /\ Respond(s, what)
       \/ /\ what \in {"error", "denied", "memory_exceeded"}      \* an exception in the script
          /\ s \notin Handles /\ Respond(s, what)
  /\ UNCHANGED throttled

\* SIGXCPU, once: the exception of its handler is the script's to catch, then main()'s,
\* and nobody's once main() writes.
SoftLimit(s) ==
  /\ Alive(s) /\ s \notin throttled /\ throttled' = throttled \union {s}
  /\ \/ process[s] = "writing" /\ Dies(s)
     \/ process[s] # "writing" /\ Respond(s, "cpu_exceeded")
     \/ process[s] = "executing" /\ s \in Handles /\ UNCHANGED <<process, response, pipe>>

HardLimit(s) == Alive(s) /\ s \in throttled /\ Dies(s) /\ UNCHANGED throttled

\* json.dumps of a large value may still take too much memory.
Write(s) ==
  /\ process[s] = "writing"
  /\ \/ /\ process' = [process EXCEPT ![s] = "gone"] /\ pipe' = [pipe EXCEPT ![s] = "whole"]
        /\ UNCHANGED response
     \/ "memory_exceeded" \in MayDo[s] /\ Dies(s)
  /\ UNCHANGED throttled

(***************************************************************************)
(* The worker                                                              *)
(***************************************************************************)
AnswerWith(s, answer) ==
  /\ awaited' = [awaited EXCEPT ![s] = "answered"]
  /\ answers' = [answers EXCEPT ![s] = answer]

Spawn(s) ==
  /\ awaited[s] = "ready"
  /\ IF s \in NoCode THEN AnswerWith(s, "error") /\ UNCHANGED process
     ELSE /\ awaited' = [awaited EXCEPT ![s] = "communicating"]
          /\ process' = [process EXCEPT ![s] = "starting"] /\ UNCHANGED answers
  /\ UNCHANGED <<response, pipe, throttled>>

\* No process can be had: nothing catches it.
SpawnFails(s) ==
  /\ awaited[s] = "ready" /\ s \notin NoCode
  /\ awaited' = [awaited EXCEPT ![s] = "raised"]
  /\ UNCHANGED <<answers, process, response, pipe, throttled>>

\* Mutant of Parsed: any output is taken for the response.
ParsedAnyway(s) == IF pipe[s] = "empty" THEN "error" ELSE response[s]

\* _parse_worker_output
Parsed(s) ==
  CASE pipe[s] = "empty" -> "error" [] pipe[s] = "partial" -> "invalid_output"
    [] OTHER -> response[s]

Communicated(s) ==
  /\ awaited[s] = "communicating" /\ ~Alive(s) /\ AnswerWith(s, Parsed(s))
  /\ UNCHANGED <<process, response, pipe, throttled>>

\* The process group is killed; a process that has just ended is none to kill.
TimedOut(s) ==
  /\ awaited[s] = "communicating" /\ awaited' = [awaited EXCEPT ![s] = "reaping"]
  /\ IF Alive(s) THEN Dies(s) ELSE UNCHANGED <<process, response, pipe>>
  /\ UNCHANGED <<answers, throttled>>

Reaped(s) ==
  /\ awaited[s] = "reaping" /\ ~Alive(s) /\ AnswerWith(s, "timeout")
  /\ UNCHANGED <<process, response, pipe, throttled>>

\* evaluate_python_metric
OutcomeOf(s) == IF answers[s] \in Results THEN answers[s] ELSE "error"

\* asyncio.gather: all of them, or the first exception, and the others go on.
Gather ==
  /\ scored = "waiting"
  /\ \/ (\A s \in Scripts : awaited[s] = "answered") /\ scored' = "scored"
     \/ (\E s \in Scripts : awaited[s] = "raised") /\ scored' = "failed"
  /\ UNCHANGED <<awaited, answers, process, response, pipe, throttled>>

ProcessStep(s) == Prepare(s) \/ Execute(s) \/ SoftLimit(s) \/ HardLimit(s) \/ Write(s)
WorkerStep(s) == Spawn(s) \/ SpawnFails(s) \/ Communicated(s) \/ TimedOut(s) \/ Reaped(s)

SandboxNext ==
  \/ \E s \in Scripts : ProcessStep(s) /\ UNCHANGED <<awaited, answers, scored>>
  \/ \E s \in Scripts : WorkerStep(s) /\ UNCHANGED scored
  \/ Gather

SandboxSpec == SandboxInit /\ [][SandboxNext]_sandboxVars
-----------------------------------------------------------------------------
\* A script counts with the result it set and wrote in full, and with nothing else: cut
\* off by a limit or by the worker's clock at whatever point, even in the middle of its
\* answer, it is an error and never a verdict.  An evaluation that is over leaves no
\* process behind, and a call is scored with all of its scripts or not at all.
ScriptsAreSettled ==
  /\ \A s \in Scripts : awaited[s] = "answered" =>
       /\ ~Alive(s)
       /\ OutcomeOf(s) # "error" => pipe[s] = "whole" /\ response[s] \in MayDo[s] \intersect Results
                                                      /\ OutcomeOf(s) = response[s]
  /\ scored = "scored" => \A s \in Scripts : awaited[s] = "answered"
=============================================================================
