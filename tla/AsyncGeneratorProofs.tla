------------------------ MODULE AsyncGeneratorProofs ------------------------
(* The safety properties of AsyncGenerator for any number of requests and   *)
(* awaits.                                                                  *)
EXTENDS AsyncGenerator, TLAPS

Outcomes == {"value", "done", "error"}

TypeInv ==
  /\ state \in States /\ queue \in Seq(Kinds)
  /\ pc \in {"caller", "resume", "body", "finalized"}
  /\ awaiting \in [await : Nat, return : Nat]
  /\ answers \in Seq(Outcomes)
  /\ calls \in Nat /\ lost \in BOOLEAN

Waits == awaiting.await + awaiting.return

\* The generator is never suspended inside its body, or for the value of a
\* return(), without a reaction that will go on, unless that could not be set
\* up; and the loop finds it executing only after that reaction has run.
Resumable ==
  /\ pc = "caller" /\ state = "EXECUTING" => Waits = 1 \/ lost
  /\ pc = "resume" /\ state = "EXECUTING" => Waits = 0 /\ queue # <<>>
  /\ pc \in {"caller", "resume"} /\ state = "AWAITING_RETURN" => Waits = 1 \/ lost

\* An end or an error is answered only by a generator that stays completed.
EndsAreFinal ==
  (\E i \in DOMAIN answers : answers[i] # "value") =>
    state \in {"COMPLETED", "AWAITING_RETURN"}

StateInv == TypeInv /\ Resumable /\ ContinuationMatchesState /\ FrameFreedOnce

AnswerInv == EndsAreFinal /\ ValuesBeforeEnd

IInv == StateInv /\ AnswerInv /\ StallsOnlyCompleted
-----------------------------------------------------------------------------
(* What appending to a queue, and taking its head away, does.               *)
LEMMA AppendFacts ==
  ASSUME NEW S, NEW q \in Seq(S), NEW x \in S
  PROVE  /\ Append(q, x) \in Seq(S)
         /\ Append(q, x) # <<>>
         /\ Len(Append(q, x)) = Len(q) + 1
         /\ DOMAIN Append(q, x) = 1..(Len(q) + 1)
         /\ DOMAIN q = 1..Len(q) /\ Len(q) \in Nat
         /\ \A i \in 1..Len(q) : Append(q, x)[i] = q[i]
         /\ Append(q, x)[Len(q) + 1] = x
  OBVIOUS

(* The queue is one shorter without its first request.                       *)
LEMMA TailFacts ==
  ASSUME NEW S, NEW q \in Seq(S), q # <<>>
  PROVE  Tail(q) \in Seq(S) /\ Len(Tail(q)) = Len(q) - 1 /\ Len(q) \in Nat
  OBVIOUS

(* Answering a request keeps the types of the queue and of the answers.     *)
LEMMA AnswerTypes ==
  ASSUME TypeInv, queue # <<>>, NEW outcome \in Outcomes, Answer(outcome)
  PROVE  queue' \in Seq(Kinds) /\ answers' \in Seq(Outcomes)
<1>1. queue' \in Seq(Kinds)
  BY TailFacts DEF TypeInv, Answer
<1>2. answers' \in Seq(Outcomes)
  BY AppendFacts DEF TypeInv, Answer
<1> QED BY <1>1, <1>2

(* An await that is set up is one more outstanding reaction of its kind.     *)
LEMMA WaitForCounts ==
  ASSUME TypeInv, NEW r \in {"await", "return"}, WaitFor(r)
  PROVE  /\ awaiting' \in [await : Nat, return : Nat] /\ lost' \in BOOLEAN
         /\ \/ /\ awaiting'.await = awaiting.await + (IF r = "await" THEN 1 ELSE 0)
               /\ awaiting'.return = awaiting.return + (IF r = "return" THEN 1 ELSE 0)
               /\ lost' = lost
            \/ awaiting' = awaiting /\ lost'
<1>1. CASE awaiting' = [awaiting EXCEPT ![r] = @ + 1] /\ UNCHANGED lost
  <2>1. CASE r = "await"
    BY <1>1, <2>1 DEF TypeInv
  <2>2. CASE r = "return"
    BY <1>1, <2>2 DEF TypeInv
  <2> QED BY <2>1, <2>2
<1>2. CASE lost' = TRUE /\ UNCHANGED awaiting
  BY <1>2 DEF TypeInv
<1> QED BY <1>1, <1>2 DEF WaitFor

(* A generator is created suspended at its start, with no request.           *)
LEMMA InitStateInv == Init => StateInv
<1> SUFFICES ASSUME Init PROVE StateInv
  OBVIOUS
<1>1. TypeInv
  <2>1. queue \in Seq(Kinds) /\ answers \in Seq(Outcomes)
    BY DEF Init
  <2>2. awaiting \in [await : Nat, return : Nat]
    BY DEF Init
  <2> QED BY <2>1, <2>2 DEF Init, TypeInv, States
<1>2. Waits = 0 /\ awaiting.await = 0 /\ awaiting.return = 0
  BY DEF Init, Waits
<1>3. Resumable
  BY <1>2 DEF Init, Resumable
<1>4. ContinuationMatchesState
  BY <1>2 DEF Init, ContinuationMatchesState, Waits
<1>5. FrameFreedOnce
  BY DEF Init, FrameFreedOnce
<1> QED BY <1>1, <1>3, <1>4, <1>5 DEF StateInv

(* A completed generator answers with an end, or waits for the value of a    *)
(* return().                                                                 *)
LEMMA ServeCompletedInv == StateInv /\ ServeCompleted => StateInv'
<1> SUFFICES ASSUME StateInv, ServeCompleted PROVE StateInv'
  OBVIOUS
<1> USE DEF StateInv, Resumable, ContinuationMatchesState, FrameFreedOnce, Waits
<1>0. /\ state = "COMPLETED" /\ queue # <<>> /\ pc = "resume" /\ pc' = "caller"
      /\ released' = released /\ calls' = calls
  BY DEF ServeCompleted, Resuming
<1>1. awaiting.await = 0 /\ awaiting.return = 0 /\ released = 1
  BY <1>0 DEF TypeInv
<1>2. CASE UNCHANGED <<state, awaiting, lost>> /\ \E o \in {"done", "error"} : Answer(o)
  <2>1. queue' \in Seq(Kinds) /\ answers' \in Seq(Outcomes)
    BY <1>2, <1>0, AnswerTypes DEF Outcomes
  <2> QED BY <1>0, <1>1, <1>2, <2>1 DEF TypeInv
<1>3. CASE state' = "AWAITING_RETURN" /\ WaitFor("return") /\ UNCHANGED <<queue, answers>>
  <2>1. /\ awaiting' \in [await : Nat, return : Nat] /\ lost' \in BOOLEAN
        /\ \/ awaiting'.await = 0 /\ awaiting'.return = 1
           \/ awaiting' = awaiting /\ lost'
    BY <1>1, <1>3, WaitForCounts
  <2> QED BY <1>0, <1>1, <1>3, <2>1 DEF TypeInv, States
<1> QED BY <1>2, <1>3 DEF ServeCompleted

(* The body runs with a request to answer, and nothing else is outstanding.  *)
LEMMA BodyInv == StateInv /\ Body => StateInv'
<1> SUFFICES ASSUME StateInv, Body PROVE StateInv'
  OBVIOUS
<1> USE DEF StateInv, Resumable, ContinuationMatchesState, FrameFreedOnce, Waits
<1>0. pc = "body"
  BY DEF Body, BodyYields, BodyAwaits, BodyEnds
<1>1. /\ state = "EXECUTING" /\ queue # <<>> /\ released = 0
      /\ awaiting.await = 0 /\ awaiting.return = 0
  BY <1>0 DEF TypeInv
<1>2. CASE \E to \in {"YIELD", "YIELD_STAR"} : BodyYields(to)
  <2>1. queue' \in Seq(Kinds) /\ answers' \in Seq(Outcomes)
    BY <1>1, <1>2, AnswerTypes DEF BodyYields, Outcomes
  <2> QED BY <1>1, <1>2, <2>1 DEF BodyYields, TypeInv, States
<1>3. CASE BodyAwaits
  <2>1. /\ awaiting' \in [await : Nat, return : Nat] /\ lost' \in BOOLEAN
        /\ \/ awaiting'.await = 1 /\ awaiting'.return = 0
           \/ awaiting' = awaiting /\ lost'
    BY <1>1, <1>3, WaitForCounts DEF BodyAwaits
  <2> QED BY <1>1, <1>3, <2>1 DEF BodyAwaits, TypeInv
<1>4. CASE \E outcome \in {"done", "error"} : BodyEnds(outcome)
  <2>1. queue' \in Seq(Kinds) /\ answers' \in Seq(Outcomes)
    BY <1>1, <1>4, AnswerTypes DEF BodyEnds, Outcomes
  <2> QED BY <1>1, <1>4, <2>1 DEF BodyEnds, Complete, TypeInv, States
<1> QED BY <1>2, <1>3, <1>4 DEF Body

(* A job finds the generator in the state that waits for it.                 *)
LEMMA JobsInv == StateInv /\ Jobs => StateInv'
<1> SUFFICES ASSUME StateInv, Jobs PROVE StateInv'
  OBVIOUS
<1> USE DEF StateInv, Resumable, ContinuationMatchesState, FrameFreedOnce, Waits
<1>1. CASE AwaitSettled
  <2>1. awaiting.await = 1 /\ awaiting.return = 0 /\ state = "EXECUTING" /\ queue # <<>>
    BY <1>1 DEF AwaitSettled, TypeInv
  <2>2. /\ awaiting' \in [await : Nat, return : Nat]
        /\ awaiting'.await = 0 /\ awaiting'.return = 0
    BY <1>1, <2>1 DEF AwaitSettled, TypeInv
  <2> QED BY <1>1, <2>1, <2>2 DEF AwaitSettled, TypeInv
<1>2. CASE \E outcome \in {"done", "error"} : ReturnSettled(outcome)
  <2>1. /\ awaiting.await = 0 /\ awaiting.return = 1 /\ state = "AWAITING_RETURN"
        /\ queue # <<>>
    BY <1>2 DEF ReturnSettled, TypeInv
  <2>2. /\ awaiting' \in [await : Nat, return : Nat]
        /\ awaiting'.await = 0 /\ awaiting'.return = 0
    BY <1>2, <2>1 DEF ReturnSettled, TypeInv
  <2>3. queue' \in Seq(Kinds) /\ answers' \in Seq(Outcomes)
    BY <1>2, <2>1, AnswerTypes DEF ReturnSettled, Outcomes
  <2> QED BY <1>2, <2>1, <2>2, <2>3 DEF ReturnSettled, TypeInv, States
<1> QED BY <1>1, <1>2 DEF Jobs

(* Every step keeps the state, the frame and the continuation in agreement.  *)
LEMMA NextStateInv == StateInv /\ [Next]_vars => StateInv'
<1> SUFFICES ASSUME StateInv, [Next]_vars PROVE StateInv'
  OBVIOUS
<1>0. awaiting.await \in Nat /\ awaiting.return \in Nat
  BY DEF StateInv, TypeInv
<1> USE DEF StateInv, TypeInv, Resumable, Waits, ContinuationMatchesState, FrameFreedOnce
<1>1. CASE EndResume
  BY <1>1 DEF EndResume
<1>2. CASE RunBody
  BY <1>2, <1>0 DEF RunBody, Resuming, States
<1>3. CASE CompleteAtStart
  BY <1>3, <1>0 DEF CompleteAtStart, Resuming, Complete, States
<1>4. CASE \E kind \in Kinds : Call(kind)
  BY <1>4, <1>0, AppendFacts DEF Call
<1>5. CASE Finalize
  BY <1>5, <1>0 DEF Finalize
<1>6. CASE UNCHANGED vars
  BY <1>6 DEF vars
<1> QED
  BY <1>1, <1>2, <1>3, <1>4, <1>5, <1>6, ServeCompletedInv, BodyInv, JobsInv DEF Next, Resume
-----------------------------------------------------------------------------
(* A value keeps the answers in order if none was an end, and an end always  *)
(* does.                                                                     *)
LEMMA AnswerOrder ==
  ASSUME TypeInv, ValuesBeforeEnd, queue # <<>>, NEW outcome \in Outcomes,
         Answer(outcome), calls' = calls,
         outcome = "value" => \A i \in DOMAIN answers : answers[i] = "value"
  PROVE  ValuesBeforeEnd'
<1> DEFINE n == Len(answers)
<1>1. /\ n \in Nat /\ DOMAIN answers = 1..n /\ DOMAIN answers' = 1..(n + 1)
      /\ \A i \in 1..n : answers'[i] = answers[i]
      /\ answers'[n + 1] = outcome /\ Len(answers') = n + 1
  BY AppendFacts DEF TypeInv, Answer
<1>2. Len(answers') + Len(queue') = calls'
  <2>1. Len(queue') = Len(queue) - 1 /\ Len(queue) \in Nat
    BY TailFacts DEF TypeInv, Answer
  <2> QED BY <1>1, <2>1 DEF ValuesBeforeEnd
<1>3. ASSUME NEW i \in DOMAIN answers', NEW j \in DOMAIN answers',
             i < j, answers'[j] = "value"
      PROVE  answers'[i] = "value"
  <2>1. i \in 1..n
    BY <1>1, <1>3
  <2>2. CASE j \in 1..n
    BY <1>1, <1>3, <2>1, <2>2 DEF ValuesBeforeEnd
  <2>3. CASE j = n + 1
    BY <1>1, <1>3, <2>1, <2>3
  <2> QED BY <1>1, <2>2, <2>3
<1> QED BY <1>2, <1>3 DEF ValuesBeforeEnd

(* An answer is an end only if the generator is then completed.              *)
LEMMA AnswerFinal ==
  ASSUME TypeInv, queue # <<>>, NEW outcome \in Outcomes, Answer(outcome),
         \/ state' = "COMPLETED"
         \/ outcome = "value" /\ \A i \in DOMAIN answers : answers[i] = "value"
  PROVE  EndsAreFinal'
<1>1. CASE state' = "COMPLETED"
  BY <1>1 DEF EndsAreFinal
<1>2. CASE outcome = "value" /\ \A i \in DOMAIN answers : answers[i] = "value"
  <2>1. \A i \in DOMAIN answers' : answers'[i] = "value"
    BY <1>2, AppendFacts DEF TypeInv, Answer
  <2> QED BY <2>1 DEF EndsAreFinal
<1> QED BY <1>1, <1>2

(* Every step keeps the answers in order and the requests accounted for.     *)
LEMMA NextAnswerInv == StateInv /\ AnswerInv /\ [Next]_vars => AnswerInv'
<1> SUFFICES ASSUME StateInv, AnswerInv, [Next]_vars PROVE AnswerInv'
  OBVIOUS
<1> USE DEF AnswerInv
<1>0. TypeInv
  BY DEF StateInv
\* Steps that answer nothing
<1>1. ASSUME UNCHANGED answers, Len(queue') - Len(queue) = calls' - calls,
             state' \in {"COMPLETED", "AWAITING_RETURN"} \/ state' = state
                \/ state \notin {"COMPLETED", "AWAITING_RETURN"},
             Len(queue') \in Nat, calls' \in Nat
      PROVE  AnswerInv'
  <2>1. EndsAreFinal'
    BY <1>1 DEF EndsAreFinal
  <2>2. Len(answers) \in Nat /\ Len(queue) \in Nat /\ calls \in Nat
    BY <1>0, AppendFacts DEF TypeInv
  <2>3. ValuesBeforeEnd'
    BY <1>1, <2>2 DEF ValuesBeforeEnd
  <2> QED BY <2>1, <2>3
<1>2. Len(queue) \in Nat /\ calls \in Nat
  BY <1>0 DEF TypeInv
\* Steps that answer: an end by a completed generator, or a value by the body
<1>3. ASSUME queue # <<>>, calls' = calls, NEW o \in {"done", "error"}, Answer(o),
             state' = "COMPLETED"
      PROVE  AnswerInv'
  BY <1>0, <1>3, AnswerOrder, AnswerFinal DEF Outcomes
<1>4. CASE EndResume
  BY <1>1, <1>2, <1>4 DEF EndResume
<1>5. CASE RunBody
  BY <1>1, <1>2, <1>5 DEF RunBody, Resuming
<1>6. CASE CompleteAtStart
  BY <1>1, <1>2, <1>6 DEF CompleteAtStart, Resuming, Complete
<1>7. CASE ServeCompleted
  BY <1>1, <1>2, <1>3, <1>7 DEF ServeCompleted, Resuming
<1>8. CASE \E to \in {"YIELD", "YIELD_STAR"} : BodyYields(to)
  <2>1. queue # <<>> /\ state = "EXECUTING" /\ calls' = calls /\ Answer("value")
    BY <1>8 DEF BodyYields, StateInv, ContinuationMatchesState
  <2>2. \A i \in DOMAIN answers : answers[i] = "value"
    BY <2>1 DEF EndsAreFinal
  <2> QED BY <1>0, <2>1, <2>2, AnswerOrder, AnswerFinal DEF Outcomes
<1>9. CASE BodyAwaits
  BY <1>1, <1>2, <1>9 DEF BodyAwaits
<1>10. CASE \E outcome \in {"done", "error"} : BodyEnds(outcome)
  <2>1. queue # <<>> /\ calls' = calls /\ state' = "COMPLETED"
    BY <1>10 DEF BodyEnds, Complete, StateInv, ContinuationMatchesState
  <2> QED BY <1>3, <1>10, <2>1 DEF BodyEnds
<1>11. CASE AwaitSettled
  BY <1>1, <1>2, <1>11 DEF AwaitSettled
<1>12. CASE \E outcome \in {"done", "error"} : ReturnSettled(outcome)
  <2>1. queue # <<>>
    BY <1>12 DEF ReturnSettled, StateInv, TypeInv, ContinuationMatchesState
  <2> QED BY <1>3, <1>12, <2>1 DEF ReturnSettled
<1>13. CASE \E kind \in Kinds : Call(kind)
  <2>1. Len(queue') = Len(queue) + 1 /\ calls' = calls + 1 /\ UNCHANGED <<answers, state>>
    BY <1>0, <1>13, AppendFacts DEF Call, TypeInv
  <2> QED BY <1>1, <1>2, <2>1
<1>14. CASE Finalize
  BY <1>1, <1>2, <1>14 DEF Finalize
<1>15. CASE UNCHANGED vars
  BY <1>1, <1>2, <1>15 DEF vars
<1> QED
  BY <1>4, <1>5, <1>6, <1>7, <1>8, <1>9, <1>10, <1>11, <1>12, <1>13, <1>14, <1>15
  DEF Next, Resume, Body, Jobs

(* No step leaves requests to a generator nobody will resume, unless it is   *)
(* completed or an await failed.                                             *)
LEMMA NextStalls ==
  StateInv /\ StateInv' /\ StallsOnlyCompleted /\ [Next]_vars => StallsOnlyCompleted'
<1> SUFFICES ASSUME StateInv, StateInv', StallsOnlyCompleted, [Next]_vars,
                    pc' = "caller", queue' # <<>>, ~lost', state' # "COMPLETED",
                    awaiting' = [await |-> 0, return |-> 0]
             PROVE  FALSE
  BY DEF StallsOnlyCompleted
<1>1. Waits' = 0 /\ state' # "EXECUTING" /\ state' # "AWAITING_RETURN"
  BY DEF StateInv, Resumable, Waits
<1> USE DEF StallsOnlyCompleted
<1>2. CASE Resume
  BY <1>1, <1>2 DEF Resume, EndResume, RunBody, CompleteAtStart, ServeCompleted,
                    Resuming, Complete
<1>3. CASE Body
  BY <1>1, <1>3 DEF Body, BodyYields, BodyAwaits, BodyEnds, StateInv,
                    ContinuationMatchesState
<1>4. CASE Jobs
  BY <1>4 DEF Jobs, AwaitSettled, ReturnSettled
<1>5. CASE \E kind \in Kinds : Call(kind)
  BY <1>1, <1>5 DEF Call, StateInv, ContinuationMatchesState
<1>6. CASE Finalize \/ UNCHANGED vars
  BY <1>6 DEF Finalize, vars
<1> QED BY <1>2, <1>3, <1>4, <1>5, <1>6 DEF Next
-----------------------------------------------------------------------------
(* The two halves of the induction.                                          *)
LEMMA InitIInv == Init => IInv
<1> SUFFICES ASSUME Init PROVE IInv
  OBVIOUS
<1>1. StateInv
  BY InitStateInv
<1>2. DOMAIN answers = {} /\ Len(answers) = 0 /\ Len(queue) = 0
  BY DEF Init
<1>3. AnswerInv /\ StallsOnlyCompleted
  BY <1>2 DEF Init, AnswerInv, EndsAreFinal, ValuesBeforeEnd, StallsOnlyCompleted
<1> QED BY <1>1, <1>3 DEF IInv

(* ... and the step.                                                         *)
LEMMA NextIInv == IInv /\ [Next]_vars => IInv'
  BY NextStateInv, NextAnswerInv, NextStalls DEF IInv

(* The inductive invariant, from which the properties follow.                *)
THEOREM Inductive == Spec => []IInv
  BY InitIInv, NextIInv, PTL DEF Spec

(* Whatever the program calls and the body does, at most one continuation    *)
(* of the generator is outstanding, and it fits the state: the assert of     *)
(* js_async_generator_resolve_function holds.                                *)
THEOREM ContinuationsMatch == Spec => []ContinuationMatchesState
<1>1. IInv => ContinuationMatchesState
  BY DEF IInv, StateInv
<1> QED BY <1>1, Inductive, PTL

(* The frame of the body is freed exactly once, and never while it runs.     *)
THEOREM FrameFreed == Spec => []FrameFreedOnce
<1>1. IInv => FrameFreedOnce
  BY DEF IInv, StateInv
<1> QED BY <1>1, Inductive, PTL

(* Every request is in the queue or answered, values come before the end,    *)
(* and only a completed generator leaves requests without an answer.         *)
THEOREM Accounted == Spec => []RequestsAccounted
<1>1. IInv => RequestsAccounted
  BY DEF IInv, AnswerInv, RequestsAccounted
<1> QED BY <1>1, Inductive, PTL
=============================================================================
