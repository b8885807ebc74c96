--------------------------- MODULE AsyncGenerator ---------------------------
(***************************************************************************)
(* An asynchronous generator of QuickJS, one of the interpreters the       *)
(* fuzzer runs (js_async_generator_next and on).  next(), return() and       *)
(* throw() append a request to the generator's queue; the body is resumed  *)
(* for the first request of the queue, suspends at a yield, which answers  *)
(* the request, or at an await, whose promise resumes it from the job      *)
(* queue.  The caller's code, the body's code and the jobs interleave.     *)
(*                                                                         *)
(* A request is answered when its promise is settled.  What the body does  *)
(* is left open; values are abstracted away.  Answering a request runs no  *)
(* other code of the program, which is so unless it has put a `then`       *)
(* getter on Object.prototype.                                             *)
(***************************************************************************)
EXTENDS Naturals, Sequences

CONSTANTS
  MaxCalls,     \* bound: the requests made of the generator
  MaxAwaits     \* bound: the awaits of the body

ASSUME AsyncGeneratorAssumption == MaxCalls \in Nat /\ MaxAwaits \in Nat

Kinds == {"next", "return", "throw"}      \* completion_type, GEN_MAGIC_x
States == {"START", "YIELD", "YIELD_STAR", "EXECUTING", "AWAITING_RETURN", "COMPLETED"}

VARIABLES
  state,      \* s->state
  queue,      \* s->queue: the kinds of the requests not yet answered
  pc,         \* who runs: "caller" (or a job), "resume" (resume_next) or "body"
  awaiting,   \* the promise reactions the generator waits for: await, return
  released,   \* how often func_state was freed
  answers,    \* how the requests were answered, in that order
  calls, awaits,
  lost        \* an await could not be set up (its result is ignored)

vars == <<state, queue, pc, awaiting, released, answers, calls, awaits, lost>>

Init ==
  /\ state = "START" /\ queue = <<>> /\ pc = "caller"
  /\ awaiting = [await |-> 0, return |-> 0]
  /\ released = 0 /\ answers = <<>> /\ calls = 0 /\ awaits = 0 /\ lost = FALSE

\* js_async_generator_resolve and _reject: the first request leaves the queue
Answer(outcome) ==
  /\ answers' = Append(answers, outcome)
  /\ queue' = Tail(queue)

\* js_async_generator_complete
Complete ==
  /\ state' = "COMPLETED"
  /\ released' = IF state # "COMPLETED" THEN released + 1 ELSE released

\* js_async_generator_await, _completed_return: js_promise_resolve may throw,
\* and the callers look at no result
WaitFor(reaction) ==
  \/ awaiting' = [awaiting EXCEPT ![reaction] = @ + 1] /\ UNCHANGED lost
  \/ lost' = TRUE /\ UNCHANGED awaiting
-----------------------------------------------------------------------------
(* The program that uses the generator, at any time its own code runs: the  *)
(* body of the generator may call the generator too.                        *)

\* Mutant: the queue is served although the body is running or awaits
CallAlwaysResumes(kind) ==
  /\ pc \in {"caller", "body"} /\ calls < MaxCalls
  /\ calls' = calls + 1
  /\ queue' = Append(queue, kind)
  /\ pc' = "resume"
  /\ UNCHANGED <<state, awaiting, released, answers, awaits, lost>>

\* js_async_generator_next
Call(kind) ==
  /\ pc \in {"caller", "body"} /\ calls < MaxCalls
  /\ calls' = calls + 1
  /\ queue' = Append(queue, kind)
  /\ pc' = IF state # "EXECUTING" THEN "resume" ELSE pc
  /\ UNCHANGED <<state, awaiting, released, answers, awaits, lost>>

\* Mutant: the frame is freed again while the value of a return() is awaited
FinalizeFreesAgain ==
  /\ pc = "caller" /\ pc' = "finalized"
  /\ awaiting' = [await |-> 0, return |-> 0]
  /\ released' = IF state = "COMPLETED" THEN released ELSE released + 1
  /\ UNCHANGED <<state, queue, answers, calls, awaits, lost>>

\* js_async_generator_free: nothing refers to the generator any more, or nothing
\* but a cycle, which the collector frees: with a promise the generator waits for,
\* that nobody can settle then, go its reactions
Finalize ==
  /\ pc = "caller" /\ pc' = "finalized"
  /\ awaiting' = [await |-> 0, return |-> 0]
  /\ released' = IF state \in {"COMPLETED", "AWAITING_RETURN"} THEN released ELSE released + 1
  /\ UNCHANGED <<state, queue, answers, calls, awaits, lost>>
-----------------------------------------------------------------------------
(* js_async_generator_resume_next: one turn of its loop.                    *)

Resuming == pc = "resume" /\ queue # <<>>

EndResume ==
  /\ pc = "resume"
  /\ queue = <<>> \/ state = "AWAITING_RETURN"
  /\ pc' = "caller"
  /\ UNCHANGED <<state, queue, awaiting, released, answers, calls, awaits, lost>>

\* The body runs for next() at its start, and for any request at a yield,
\* where the kind of the request decides how it goes on; it runs after an await
RunBody ==
  /\ Resuming
  /\ \/ state = "START" /\ Head(queue) = "next"
     \/ state \in {"YIELD", "YIELD_STAR", "EXECUTING"}
  /\ state' = "EXECUTING" /\ pc' = "body"
  /\ UNCHANGED <<queue, awaiting, released, answers, calls, awaits, lost>>

CompleteAtStart ==
  /\ Resuming /\ state = "START" /\ Head(queue) # "next"
  /\ Complete
  /\ UNCHANGED <<queue, pc, awaiting, answers, calls, awaits, lost>>

\* A completed generator serves one request and leaves the loop
ServeCompleted ==
  /\ Resuming /\ state = "COMPLETED"
  /\ \/ /\ Head(queue) = "next" /\ Answer("done")
        /\ UNCHANGED <<state, awaiting, lost>>
     \/ /\ Head(queue) = "throw" /\ Answer("error")
        /\ UNCHANGED <<state, awaiting, lost>>
     \/ /\ Head(queue) = "return" /\ state' = "AWAITING_RETURN" /\ WaitFor("return")
        /\ UNCHANGED <<queue, answers>>
  /\ pc' = "caller"
  /\ UNCHANGED <<released, calls, awaits>>
-----------------------------------------------------------------------------
(* What the body may do.                                                    *)

\* Mutant: the loop is left after a yield
BodyYieldsAndStops(to) ==
  /\ pc = "body"
  /\ state' = to /\ Answer("value") /\ pc' = "caller"
  /\ UNCHANGED <<awaiting, released, calls, awaits, lost>>

BodyYields(to) ==
  /\ pc = "body"
  /\ state' = to /\ Answer("value") /\ pc' = "resume"
  /\ UNCHANGED <<awaiting, released, calls, awaits, lost>>

BodyAwaits ==
  /\ pc = "body" /\ awaits < MaxAwaits
  /\ awaits' = awaits + 1
  /\ WaitFor("await") /\ pc' = "caller"
  /\ UNCHANGED <<state, queue, released, answers, calls>>

BodyEnds(outcome) ==
  /\ pc = "body"
  /\ Complete /\ Answer(outcome) /\ pc' = "resume"
  /\ UNCHANGED <<awaiting, calls, awaits, lost>>
-----------------------------------------------------------------------------
(* Jobs: js_async_generator_resolve_function.                               *)

\* magic < 2: the body goes on after an await, whichever way it was settled
AwaitSettled ==
  /\ pc = "caller" /\ awaiting.await > 0
  /\ awaiting' = [awaiting EXCEPT !.await = @ - 1]
  /\ pc' = "resume"
  /\ UNCHANGED <<state, queue, released, answers, calls, awaits, lost>>

\* magic >= 2: the value of a return() is known
ReturnSettled(outcome) ==
  /\ pc = "caller" /\ awaiting.return > 0
  /\ awaiting' = [awaiting EXCEPT !.return = @ - 1]
  /\ state' = "COMPLETED" /\ Answer(outcome)
  /\ UNCHANGED <<pc, released, calls, awaits, lost>>

\* The interpreter's own steps
Resume == EndResume \/ RunBody \/ CompleteAtStart \/ ServeCompleted

\* The body's code, which does not run for ever
Body ==
  \/ \E to \in {"YIELD", "YIELD_STAR"} : BodyYields(to)
  \/ BodyAwaits
  \/ \E outcome \in {"done", "error"} : BodyEnds(outcome)

\* The jobs of the promises the generator waits for
Jobs == AwaitSettled \/ \E outcome \in {"done", "error"} : ReturnSettled(outcome)

Next == Resume \/ Body \/ Jobs \/ (\E kind \in Kinds : Call(kind)) \/ Finalize

Spec == Init /\ [][Next]_vars /\ WF_vars(Resume) /\ WF_vars(Body) /\ WF_vars(Jobs)
-----------------------------------------------------------------------------
(* The continuation the generator waits for fits its state: at most one is  *)
(* outstanding, an await only while EXECUTING (the assert of               *)
(* js_async_generator_resolve_function) and a return only while             *)
(* AWAITING_RETURN, and then, as whenever the body runs, the queue holds    *)
(* the request it will answer.                                              *)
ContinuationMatchesState ==
  LET waits == awaiting.await + awaiting.return
  IN /\ waits <= 1
     /\ awaiting.await = 1 => state = "EXECUTING" /\ pc # "body"
     /\ awaiting.return = 1 => state = "AWAITING_RETURN"
     /\ pc = "body" => state = "EXECUTING"
     /\ waits = 1 \/ pc = "body" => queue # <<>>

(* The frame of the body is freed exactly when the state says so: the       *)
(* collector's mark function and the finalizer look only at the state, and  *)
(* the body is never resumed on a freed frame.                              *)
FrameFreedOnce ==
  /\ released = IF state \in {"COMPLETED", "AWAITING_RETURN"} \/ pc = "finalized"
                THEN 1 ELSE 0
  /\ pc = "body" => released = 0

(* Once a request was answered with the end or an error, no later one is    *)
(* answered with a yielded value, and the answers and the queue account for *)
(* every request.                                                           *)
ValuesBeforeEnd ==
  /\ \A i, j \in DOMAIN answers : i < j /\ answers[j] = "value" => answers[i] = "value"
  /\ Len(answers) + Len(queue) = calls

(* Requests are left waiting, with nobody to answer them, only by a         *)
(* completed generator, or when an await could not be set up.               *)
StallsOnlyCompleted ==
  pc = "caller" /\ queue # <<>> /\ awaiting = [await |-> 0, return |-> 0] /\ ~lost =>
    state = "COMPLETED"

(* No request goes missing, and none overtakes the end.                     *)
RequestsAccounted == ValuesBeforeEnd /\ StallsOnlyCompleted

(* The manual lists asynchronous generators among what is supported         *)
(* (quickjs.texi): every request is answered, if awaits can be set up and   *)
(* settle.                                                                  *)
EveryRequestAnswered ==
  \A i \in 1..MaxCalls :
    calls >= i ~> Len(answers) >= i \/ lost \/ pc = "finalized"
=============================================================================
