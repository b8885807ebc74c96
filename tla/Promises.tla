------------------------------ MODULE Promises ------------------------------
(***************************************************************************)
(* Promises and the job queue of QuickJS (quickjs.c), one of the           *)
(* interpreters the fuzzer runs.  A promise is settled through a pair of   *)
(* resolving functions that share the flag already_resolved; resolving it  *)
(* with a thenable hands the promise to a job, which makes a new pair for  *)
(* it.  Settling a promise queues a job per reaction, in the order they    *)
(* were registered.  The program's code runs between the steps of the      *)
(* jobs and inside the handlers they call.                                 *)
(*                                                                         *)
(* Values are abstracted away, except that a function may be resolved with *)
(* a promise, with an object that has a `then` of the program, or with one *)
(* whose `then` cannot be read.  A promise keeps no trace of its value: the *)
(* object may have got another `then` whenever it is read again.  A promise *)
(* object that hides the `then` it inherits counts as any other object, and *)
(* reading `then` is one step with the call, the code of a getter runs as   *)
(* if it ran before it.  The promise that `then` returns to a job is left   *)
(* out: nothing refers to it.                                               *)
(***************************************************************************)
EXTENDS Integers, Sequences, FiniteSets
LOCAL INSTANCE SequencesExt

CONSTANTS
  MaxPromises,    \* bound: the promises that are created
  MaxReactions,   \* bound: the calls of then() and the awaits
  MaxThenables    \* bound: the jobs for thenables

ASSUME PromisesAssumption ==
  MaxPromises \in Nat /\ MaxReactions \in Nat /\ MaxThenables \in Nat

PENDING   == "PENDING"
FULFILLED == "FULFILLED"
REJECTED  == "REJECTED"

VARIABLES
  promises,   \* JSPromiseData: state, reactions, is_handled
  pairs,      \* the pairs of resolving functions: promise, already_resolved;
              \* held: the program has the functions and may call them
  jobs,       \* rt->job_list
  current,    \* the reaction whose handler is running
  tracked,    \* the promises the rejection tracker holds as unhandled
  registered, \* history: promise -> how many reactions were registered on it
  ran,        \* history: promise -> how many of them were run
  adopts,     \* history: promise -> the promise it was last resolved with, or 0
  thenables   \* the jobs for thenables so far

engine == <<promises, pairs, jobs, tracked, adopts, thenables>>
vars == <<engine, current, registered, ran>>

NoReaction == [target |-> 0]
Promise == DOMAIN promises

\* The variables the engine's functions change, as one record
Now == [promises |-> promises, pairs |-> pairs, jobs |-> jobs,
        tracked |-> tracked, adopts |-> adopts, thenables |-> thenables]

Become(s) ==
  /\ promises' = s.promises /\ pairs' = s.pairs /\ jobs' = s.jobs
  /\ tracked' = s.tracked /\ adopts' = s.adopts /\ thenables' = s.thenables

Init ==
  /\ promises = <<>> /\ pairs = <<>> /\ jobs = <<>> /\ tracked = {}
  /\ adopts = <<>> /\ thenables = 0
  /\ current = NoReaction /\ registered = <<>> /\ ran = <<>>

\* What a promise may be resolved with, besides a promise
Value == 0        \* no thenable
Thenable == -1    \* an object whose `then` is a function of the program
Poisoned == -2    \* an object whose `then` throws when it is read
Resolutions == Promise \cup {Value, Thenable, Poisoned}
-----------------------------------------------------------------------------
(* The functions of quickjs.c, from a state of the engine to the next.      *)

ReactionJob(r, state) == [type |-> "reaction", reaction |-> r, state |-> state]

\* js_create_resolving_functions
NewPair(s, p, held) ==
  [s EXCEPT !.pairs = Append(@, [promise |-> p, already |-> FALSE, held |-> held])]

\* js_promise_constructor, js_new_promise_capability: a promise and its pair
NewPromise(s, held) ==
  NewPair([s EXCEPT !.promises = Append(@, [state |-> PENDING, reactions |-> <<>>, handled |-> FALSE]),
                    !.adopts = Append(@, 0)],
          Len(s.promises) + 1, held)

\* The promise without its reactions, and the jobs they become
Settled(promise, state) ==
  [state |-> state, reactions |-> <<>>, handled |-> promise.handled]
JobsOf(reactions, state) == [i \in DOMAIN reactions |-> ReactionJob(reactions[i], state)]

\* HostPromiseRejectionTracker, for a promise that is rejected
TrackedWith(s, p, state) ==
  IF state = REJECTED /\ ~s.promises[p].handled THEN s.tracked \cup {p} ELSE s.tracked

\* Mutant: the lists of reactions are freed before their jobs are queued
SettleDropsReactions(s, p, state) ==
  IF s.promises[p].state # PENDING THEN s
  ELSE [s EXCEPT !.promises[p] = Settled(@, state), !.tracked = TrackedWith(s, p, state)]

\* fulfill_or_reject_promise
Settle(s, p, state) ==
  IF s.promises[p].state # PENDING THEN s     \* should never happen
  ELSE [s EXCEPT !.promises[p] = Settled(@, state),
                 !.tracked = TrackedWith(s, p, state),
                 !.jobs = @ \o JobsOf(s.promises[p].reactions, state)]

\* Mutant: the flag is set only by what settles the promise at once
CallResolveStaysOpen(s, k, with) ==
  LET p == s.pairs[k].promise
      used == [s EXCEPT !.pairs[k].already = TRUE]
      job(of) == [s EXCEPT !.jobs = Append(@, [type |-> "thenable", promise |-> p, of |-> of]),
                           !.thenables = @ + 1]
  IN CASE s.pairs[k].already   -> s
       [] ~s.pairs[k].already /\ with = Value -> Settle(used, p, FULFILLED)
       [] ~s.pairs[k].already /\ with \in {Poisoned, p} -> Settle(used, p, REJECTED)
       [] ~s.pairs[k].already /\ with = Thenable -> job(0)
       [] OTHER -> [job(with) EXCEPT !.adopts[p] = with]

\* js_promise_resolve_function_call: `with` is a promise or one of the above
CallResolve(s, k, with) ==
  LET p == s.pairs[k].promise
      used == [s EXCEPT !.pairs[k].already = TRUE]
      job(of) == [used EXCEPT !.jobs = Append(@, [type |-> "thenable", promise |-> p, of |-> of]),
                              !.thenables = @ + 1]
  IN CASE s.pairs[k].already   -> s
       [] ~s.pairs[k].already /\ with = Value -> Settle(used, p, FULFILLED)
       [] ~s.pairs[k].already /\ with \in {Poisoned, p} -> Settle(used, p, REJECTED)
       [] ~s.pairs[k].already /\ with = Thenable -> job(0)
       [] OTHER -> [job(with) EXCEPT !.adopts[p] = with]

\* Mutant: the flag is not shared, the other function stays usable
CallRejectAlone(s, k) ==
  IF s.pairs[k].already THEN s ELSE Settle(s, s.pairs[k].promise, REJECTED)

CallReject(s, k) ==
  IF s.pairs[k].already THEN s
  ELSE Settle([s EXCEPT !.pairs[k].already = TRUE], s.pairs[k].promise, REJECTED)

CallEither(s, k, state, with) ==
  IF state = REJECTED THEN CallReject(s, k) ELSE CallResolve(s, k, with)

\* Mutant: the tracker is not told that a rejected promise is handled now
PerformThenUntracked(s, p, r) ==
  LET promise == s.promises[p]
      done == IF promise.state = PENDING
              THEN [s EXCEPT !.promises[p].reactions = Append(@, r)]
              ELSE [s EXCEPT !.jobs = Append(@, ReactionJob(r, promise.state))]
  IN [done EXCEPT !.promises[p].handled = TRUE]

\* Mutant: the job goes to the front of the list
PerformThenFirst(s, p, r) ==
  LET promise == s.promises[p]
      done == IF promise.state = PENDING
              THEN [s EXCEPT !.promises[p].reactions = Append(@, r)]
              ELSE [s EXCEPT !.jobs = <<ReactionJob(r, promise.state)>> \o @,
                             !.tracked = IF promise.state = REJECTED /\ ~promise.handled
                                         THEN @ \ {p} ELSE @]
  IN [done EXCEPT !.promises[p].handled = TRUE]

\* perform_promise_then
PerformThen(s, p, r) ==
  LET promise == s.promises[p]
      done == IF promise.state = PENDING
              THEN [s EXCEPT !.promises[p].reactions = Append(@, r)]
              ELSE [s EXCEPT !.jobs = Append(@, ReactionJob(r, promise.state)),
                             !.tracked = IF promise.state = REJECTED /\ ~promise.handled
                                         THEN @ \ {p} ELSE @]
  IN [done EXCEPT !.promises[p].handled = TRUE]
-----------------------------------------------------------------------------
(* The program's code, which may run at any time: in a script, in a handler *)
(* or in a `then` of its own.                                               *)

\* new Promise(executor): the executor keeps the resolving functions
Create ==
  /\ Len(promises) < MaxPromises
  /\ Become(NewPromise(Now, TRUE))
  /\ registered' = Append(registered, 0) /\ ran' = Append(ran, 0)
  /\ UNCHANGED current

Resolve(k, with) ==
  /\ pairs[k].held
  /\ with = Thenable \/ with \in Promise => thenables < MaxThenables
  /\ Become(CallResolve(Now, k, with))
  /\ UNCHANGED <<current, registered, ran>>

Reject(k) ==
  /\ pairs[k].held
  /\ Become(CallReject(Now, k))
  /\ UNCHANGED <<current, registered, ran>>

\* All the reactions there may be
Reactions == FoldFunction(LAMBDA n, m : n + m, 0, registered)

Register(p) == registered' = [registered EXCEPT ![p] = @ + 1]

\* js_promise_then, _catch: `handlers` says which of the two are functions
Then(p, handlers) ==
  LET derived == NewPromise(Now, FALSE)
      r == [source |-> p, index |-> registered[p] + 1, handlers |-> handlers,
            to |-> 0, target |-> Len(derived.pairs)]
  IN /\ Len(promises) < MaxPromises /\ Reactions < MaxReactions
     /\ Become(PerformThen(derived, p, r))
     /\ registered' = Append([registered EXCEPT ![p] = @ + 1], 0)
     /\ ran' = Append(ran, 0)
     /\ UNCHANGED current

\* js_async_function_resume, js_async_generator_await: no promise is derived
Await(p) ==
  LET r == [source |-> p, index |-> registered[p] + 1,
            handlers |-> {FULFILLED, REJECTED}, to |-> 0, target |-> 0]
  IN /\ Reactions < MaxReactions
     /\ Become(PerformThen(Now, p, r))
     /\ Register(p)
     /\ UNCHANGED <<current, ran>>
-----------------------------------------------------------------------------
(* Jobs: JS_ExecutePendingJob takes the first one off the list and runs it. *)

TakeJob(type) ==
  current = NoReaction /\ jobs # <<>> /\ Head(jobs).type = type

Taken == [Now EXCEPT !.jobs = Tail(@)]

\* promise_reaction_job, the call of the derived promise's function
Deliver(s, r, state, with) ==
  IF r.target = 0 THEN s ELSE CallEither(s, r.target, state, with)

\* What the value of a fulfilled promise is found to be when it is passed on:
\* its `then`, no function at the time, is read again
Outcomes == {Value, Thenable, Poisoned}

\* promise_reaction_job without a handler: the outcome is passed on
PassOn(with) ==
  /\ TakeJob("reaction")
  /\ with = Thenable => thenables < MaxThenables
  /\ LET r == Head(jobs).reaction
         state == Head(jobs).state
     IN /\ r.to = 0 /\ state \notin r.handlers
        /\ Become(Deliver(Taken, r, state, with))
        /\ ran' = [ran EXCEPT ![r.source] = @ + 1]
  /\ UNCHANGED <<current, registered>>

\* promise_reaction_job whose handlers are the functions of a thenable job
Forward(with) ==
  /\ TakeJob("reaction")
  /\ with = Thenable => thenables < MaxThenables
  /\ LET r == Head(jobs).reaction
     IN /\ r.to # 0
        /\ Become(CallEither(Taken, r.to, Head(jobs).state, with))
        /\ ran' = [ran EXCEPT ![r.source] = @ + 1]
  /\ UNCHANGED <<current, registered>>

\* promise_reaction_job calls a handler of the program
StartHandler ==
  /\ TakeJob("reaction")
  /\ LET r == Head(jobs).reaction
     IN /\ r.to = 0 /\ Head(jobs).state \in r.handlers
        /\ current' = r
        /\ ran' = [ran EXCEPT ![r.source] = @ + 1]
  /\ Become(Taken)
  /\ UNCHANGED registered

\* The handler returns or throws
EndHandler(state, with) ==
  /\ current # NoReaction
  /\ with = Thenable \/ with \in Promise => thenables < MaxThenables
  /\ Become(Deliver(Now, current, state, with))
  /\ current' = NoReaction
  /\ UNCHANGED <<registered, ran>>

\* js_promise_resolve_thenable_job, of a promise
AdoptPromise ==
  /\ TakeJob("thenable") /\ Head(jobs).of # 0
  /\ LET q == Head(jobs).of
         s == NewPair(Taken, Head(jobs).promise, FALSE)
         r == [source |-> q, index |-> registered[q] + 1, handlers |-> {},
               to |-> Len(s.pairs), target |-> 0]
     IN Become(PerformThen(s, q, r)) /\ Register(q)
  /\ UNCHANGED <<current, ran>>

\* js_promise_resolve_thenable_job, of an object of the program: its `then` gets
\* the new functions, and may throw
CallThenable(throws) ==
  /\ TakeJob("thenable") /\ Head(jobs).of = 0
  /\ LET s == NewPair(Taken, Head(jobs).promise, TRUE)
     IN Become(IF throws THEN CallReject(s, Len(s.pairs)) ELSE s)
  /\ UNCHANGED <<current, registered, ran>>

Handler ==
  \/ EndHandler(REJECTED, Value)
  \/ \E with \in Resolutions : EndHandler(FULFILLED, with)

Job ==
  \/ \E with \in Outcomes : PassOn(with) \/ Forward(with)
  \/ StartHandler
  \/ AdoptPromise \/ \E throws \in BOOLEAN : CallThenable(throws)

Program ==
  \/ Create
  \/ \E k \in DOMAIN pairs : Reject(k) \/ \E with \in Resolutions : Resolve(k, with)
  \/ \E p \in Promise : Await(p) \/ \E handlers \in SUBSET {FULFILLED, REJECTED} : Then(p, handlers)

Next == Program \/ Job \/ Handler

\* A handler returns, and the host runs the pending jobs
Spec == Init /\ [][Next]_vars /\ WF_vars(Job) /\ WF_vars(Handler)
-----------------------------------------------------------------------------
(* A pending promise is in exactly one hand: one pair that was not used, or *)
(* one job that will make a new pair; a settled one is in none.  So the     *)
(* second settlement that fulfill_or_reject_promise guards against really   *)
(* "should never happen", and no promise is lost between pair and job.      *)
OneResolver ==
  \A p \in Promise :
    Cardinality({k \in DOMAIN pairs : pairs[k].promise = p /\ ~pairs[k].already})
      + Cardinality({i \in DOMAIN jobs : jobs[i].type = "thenable" /\ jobs[i].promise = p})
    = IF promises[p].state = PENDING THEN 1 ELSE 0

(* The rejection tracker is told of exactly the promises that are rejected  *)
(* and have no reaction, however rejection and registration are ordered.    *)
RejectionsTracked ==
  tracked = {p \in Promise : promises[p].state = REJECTED /\ registered[p] = 0}

(* The reactions of a promise run once each, in the order they were         *)
(* registered: all of them wait, in that order, until it is settled; then   *)
(* those that have not run yet are jobs, in that order, and none waits.     *)
ReactionsInOrder ==
  \A p \in Promise :
    LET waiting == promises[p].reactions
        queued == {i \in DOMAIN jobs : jobs[i].type = "reaction" /\ jobs[i].reaction.source = p}
        index(i) == jobs[i].reaction.index
    IN IF promises[p].state = PENDING
       THEN /\ queued = {} /\ ran[p] = 0
            /\ [i \in DOMAIN waiting |-> waiting[i].index] = [i \in 1..registered[p] |-> i]
       ELSE /\ waiting = <<>>
            /\ {index(i) : i \in queued} = (ran[p] + 1)..registered[p]
            /\ \A i, j \in queued : i < j => index(i) < index(j)

(* A promise that was resolved with another one is settled no sooner than   *)
(* that one, and rejected if that one is, however many jobs lie in between   *)
(* and whatever the program does with functions it still holds.  Only when   *)
(* that one is fulfilled may it end otherwise: its value may have got a      *)
(* `then` in the meantime.                                                   *)
AdoptsOutcome ==
  \A p \in Promise :
    adopts[p] # 0 /\ promises[p].state # PENDING =>
      promises[adopts[p]].state \in {promises[p].state, FULFILLED}

IsSettled(p) == p \in Promise /\ promises[p].state # PENDING

(* Once a promise is settled every reaction registered on it is run.        *)
ReactionsRun ==
  \A p \in 1..MaxPromises : IsSettled(p) ~> IsSettled(p) /\ ran[p] = registered[p]

\* The program has functions that can still settle the promise
InProgram(p) ==
  \E k \in DOMAIN pairs : pairs[k].promise = p /\ pairs[k].held /\ ~pairs[k].already

(* Once the promise that another one was resolved with is settled, that one *)
(* is settled too, or left to the program by a `then` its value has got.     *)
AdoptersSettle ==
  \A p \in 1..MaxPromises :
    p \in Promise /\ adopts[p] # 0 /\ IsSettled(adopts[p])
      ~> IsSettled(p) \/ (p \in Promise /\ InProgram(p))

(* The job queue serves every reaction and every hand-over: none is queued  *)
(* and lost.                                                                *)
JobsServed == ReactionsRun /\ AdoptersSettle
=============================================================================
