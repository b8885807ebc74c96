---------------------------- MODULE PromisesProofs ----------------------------
(* The safety properties of Promises for any number of promises, reactions  *)
(* and jobs.  The functions of the engine are operators on its state as a   *)
(* record, so the invariant is one of such records, and each operator has   *)
(* a lemma that says what it changes and one that says it keeps it.         *)
EXTENDS Promises, SequenceTheorems, FiniteSetTheorems, TLAPS

States == {PENDING, FULFILLED, REJECTED}

Reaction == [source : Nat, index : Nat, handlers : SUBSET States, to : Nat, target : Nat]

PromiseData == [state : States, reactions : Seq(Reaction), handled : BOOLEAN]
PairData == [promise : Nat, already : BOOLEAN, held : BOOLEAN]

JobData == [type : {"reaction"}, reaction : Reaction, state : States]
          \cup [type : {"thenable"}, promise : Nat, of : Nat]

Engine ==
  [promises  : Seq(PromiseData),
   pairs     : Seq(PairData),
   jobs      : Seq(JobData),
   tracked   : SUBSET Nat,
   adopts    : Seq(Nat),
   thenables : Nat]

Known(s) == 1..Len(s.promises)

\* A job for a reaction, or for a thenable
Reacting(job) == job.type = "reaction"
Adopting(job) == job.type = "thenable"

Open(s, k) == k \in 1..Len(s.pairs) /\ ~s.pairs[k].already

\* A promise that adopts none, or one that is fulfilled, may end in any way
Free(s, p) == s.adopts[p] = 0 \/ s.promises[s.adopts[p]].state = FULFILLED

\* A thenable job is for the promise that is adopted, or for an object
JobFor(s, job) == job.of = s.adopts[job.promise] \/ (job.of = 0 /\ Free(s, job.promise))

\* The promises, pairs and reactions that are referred to exist
InBounds(s) ==
  /\ Len(s.adopts) = Len(s.promises)
  /\ \A p \in Known(s) : s.adopts[p] \in 0..Len(s.promises)
  /\ \A k \in 1..Len(s.pairs) : s.pairs[k].promise \in Known(s)
  /\ \A i \in 1..Len(s.jobs) : Adopting(s.jobs[i]) =>
       /\ s.jobs[i].promise \in Known(s)
       /\ JobFor(s, s.jobs[i])

\* What holds of a reaction, wherever it is, while the pair it calls is unused:
\* the promise of its thenable job adopts its source, the promise that then()
\* derived adopts nothing yet
Legal(s, r) ==
  /\ r \in Reaction
  /\ r.source \in Known(s)
  /\ r.to \in 0..Len(s.pairs) /\ r.target \in 0..Len(s.pairs)
  /\ Open(s, r.to) => s.adopts[s.pairs[r.to].promise] = r.source
  /\ Open(s, r.target) => s.adopts[s.pairs[r.target].promise] = 0

\* The job of a reaction tells it how its source was settled
JobLegal(s, job) ==
  /\ Legal(s, job.reaction)
  /\ job.state # PENDING
  /\ job.state = s.promises[job.reaction.source].state

ReactionsLegal(s) ==
  /\ \A p \in Known(s) : \A i \in 1..Len(s.promises[p].reactions) :
       /\ Legal(s, s.promises[p].reactions[i])
       /\ s.promises[p].reactions[i].source = p
  /\ \A i \in 1..Len(s.jobs) : Reacting(s.jobs[i]) => JobLegal(s, s.jobs[i])

\* A promise is in one hand while it is pending, and in none afterwards
Owned(s) ==
  /\ \A p \in Known(s) : s.promises[p].state = PENDING =>
       \/ \E k \in 1..Len(s.pairs) : Open(s, k) /\ s.pairs[k].promise = p
       \/ \E i \in 1..Len(s.jobs) : Adopting(s.jobs[i]) /\ s.jobs[i].promise = p
  /\ \A k \in 1..Len(s.pairs) : Open(s, k) =>
       /\ s.promises[s.pairs[k].promise].state = PENDING
       /\ \A l \in 1..Len(s.pairs) : Open(s, l) /\ s.pairs[l].promise = s.pairs[k].promise => k = l
       /\ \A i \in 1..Len(s.jobs) : Adopting(s.jobs[i]) => s.jobs[i].promise # s.pairs[k].promise
  /\ \A i \in 1..Len(s.jobs) : Adopting(s.jobs[i]) =>
       /\ s.promises[s.jobs[i].promise].state = PENDING
       /\ \A j \in 1..Len(s.jobs) :
            Adopting(s.jobs[j]) /\ s.jobs[j].promise = s.jobs[i].promise => i = j

\* The program holds no function of a promise that waits for another one
Handed(s) ==
  \A k \in 1..Len(s.pairs) :
    Open(s, k) /\ s.pairs[k].held => Free(s, s.pairs[k].promise)

Adopted(s) ==
  \A p \in Known(s) : s.adopts[p] # 0 /\ s.promises[p].state # PENDING =>
    s.promises[s.adopts[p]].state \in {s.promises[p].state, FULFILLED}

Tracked(s) ==
  s.tracked = {p \in Known(s) : s.promises[p].state = REJECTED /\ ~s.promises[p].handled}

\* All but the owners, which change hands between two calls
Consistent(s) ==
  /\ s \in Engine /\ InBounds(s) /\ ReactionsLegal(s)
  /\ Handed(s) /\ Adopted(s) /\ Tracked(s)

Sound(s) == Consistent(s) /\ Owned(s)

\* Of the n reactions registered on p the first m have run, the others wait in
\* order: with p while it is pending, among the jobs afterwards
QueuedFor(s, p, i) == Reacting(s.jobs[i]) /\ s.jobs[i].reaction.source = p

Waiting(s, p, n, m) ==
  /\ \A i \in 1..Len(s.jobs) : ~QueuedFor(s, p, i)
  /\ m = 0
  /\ Len(s.promises[p].reactions) = n
  /\ \A i \in 1..n : s.promises[p].reactions[i].index = i

Queued(s, p, n, m) ==
  /\ s.promises[p].reactions = <<>>
  /\ m <= n
  /\ \A i \in 1..Len(s.jobs) : QueuedFor(s, p, i) => s.jobs[i].reaction.index \in (m + 1)..n
  /\ \A x \in (m + 1)..n :
       \E i \in 1..Len(s.jobs) : QueuedFor(s, p, i) /\ s.jobs[i].reaction.index = x
  /\ \A i, j \in 1..Len(s.jobs) : QueuedFor(s, p, i) /\ QueuedFor(s, p, j) /\ i < j =>
       s.jobs[i].reaction.index < s.jobs[j].reaction.index

InOrder(s, p, n, m) ==
  IF s.promises[p].state = PENDING THEN Waiting(s, p, n, m) ELSE Queued(s, p, n, m)

\* With the history variables and the reaction whose handler runs: a promise
\* counts as handled once a reaction was registered on it
Good(s, reg, done, cur) ==
  /\ Sound(s)
  /\ reg \in Seq(Nat) /\ Len(reg) = Len(s.promises)
  /\ done \in Seq(Nat) /\ Len(done) = Len(s.promises)
  /\ \A p \in Known(s) : s.promises[p].handled <=> reg[p] # 0
  /\ \A p \in Known(s) : InOrder(s, p, reg[p], done[p])
  /\ cur = NoReaction \/ (Legal(s, cur) /\ cur.to = 0)

IInv == Good(Now, registered, ran, current)
-----------------------------------------------------------------------------
(* What the functions of the engine change.                                 *)

\* From s to t references stay good: promises and pairs are only added, what
\* was settled or used stays so, and a promise that starts to adopt another
\* one has no open pair then
Grows(s, t) ==
  /\ Len(s.promises) <= Len(t.promises) /\ Len(s.pairs) <= Len(t.pairs)
  /\ \A k \in 1..Len(s.pairs) :
       /\ t.pairs[k].promise = s.pairs[k].promise
       /\ s.pairs[k].already => t.pairs[k].already
  /\ \A p \in Known(s) :
       /\ s.promises[p].state # PENDING => t.promises[p].state = s.promises[p].state
       /\ \/ t.adopts[p] = s.adopts[p]
          \/ \A k \in 1..Len(t.pairs) : Open(t, k) => t.pairs[k].promise # p

\* A pair is used: js_promise_resolve_function_call sets already_resolved
Use(s, k) == [s EXCEPT !.pairs[k].already = TRUE]

(* A reaction that is legal stays so.                                        *)
LEMMA LegalKept ==
  ASSUME NEW s \in Engine, NEW t \in Engine, InBounds(s), Grows(s, t), NEW r, Legal(s, r)
  PROVE  Legal(t, r)
<1>1. Len(s.promises) \in Nat /\ Len(s.pairs) \in Nat /\ Len(t.promises) \in Nat /\ Len(t.pairs) \in Nat
  BY DEF Engine
<1>2. r \in Reaction /\ r.source \in Known(t) /\ r.to \in 0..Len(t.pairs) /\ r.target \in 0..Len(t.pairs)
  BY <1>1 DEF Legal, Grows, Known
<1>3. ASSUME Open(t, r.to) PROVE t.adopts[t.pairs[r.to].promise] = r.source
  <2>1. r.to \in 1..Len(s.pairs) /\ r.to \in 1..Len(t.pairs)
    BY <1>1, <1>3 DEF Legal, Open
  <2>2. Open(s, r.to) /\ s.pairs[r.to].promise \in Known(s)
    BY <2>1, <1>3 DEF Grows, Open, InBounds
  <2>3. s.adopts[s.pairs[r.to].promise] = r.source
    BY <2>2 DEF Legal
  <2> QED BY <2>1, <2>2, <2>3, <1>3 DEF Grows
<1>4. ASSUME Open(t, r.target) PROVE t.adopts[t.pairs[r.target].promise] = 0
  <2>1. r.target \in 1..Len(s.pairs) /\ r.target \in 1..Len(t.pairs)
    BY <1>1, <1>4 DEF Legal, Open
  <2>2. Open(s, r.target) /\ s.pairs[r.target].promise \in Known(s)
    BY <2>1, <1>4 DEF Grows, Open, InBounds
  <2>3. s.adopts[s.pairs[r.target].promise] = 0
    BY <2>2 DEF Legal
  <2> QED BY <2>1, <2>2, <2>3, <1>4 DEF Grows
<1> QED BY <1>2, <1>3, <1>4 DEF Legal

(* What a promise adopts stays settled as it is.                             *)
LEMMA FreeKept ==
  ASSUME NEW s, InBounds(s), NEW t, Grows(s, t), NEW p \in Known(s), Free(s, p),
         t.adopts[p] = s.adopts[p], Len(s.promises) \in Nat
  PROVE  Free(t, p)
<1>1. CASE s.adopts[p] = 0
  BY <1>1 DEF Free
<1>2. CASE s.adopts[p] # 0
  <2>1. s.adopts[p] \in Known(s)
    <3>1. s.adopts[p] \in 0..Len(s.promises)
      BY DEF InBounds
    <3> QED BY ONLY <1>2, <3>1, Len(s.promises) \in Nat DEF Known
  <2>2. s.promises[s.adopts[p]].state = FULFILLED
    BY <1>2 DEF Free
  <2> QED BY <2>1, <2>2 DEF Free, Grows, PENDING, FULFILLED
<1> QED BY <1>1, <1>2

LEMMA JobForKept ==
  ASSUME NEW s, InBounds(s), NEW t, Grows(s, t), NEW job, job.promise \in Known(s),
         JobFor(s, job), t.adopts[job.promise] = s.adopts[job.promise],
         Len(s.promises) \in Nat
  PROVE  JobFor(t, job)
BY FreeKept DEF JobFor

LEMMA JobLegalKept ==
  ASSUME NEW s \in Engine, NEW t \in Engine, InBounds(s), Grows(s, t), NEW job, JobLegal(s, job)
  PROVE  JobLegal(t, job)
<1>1. Legal(s, job.reaction) /\ job.reaction.source \in Known(s)
  BY DEF JobLegal, Legal
<1>2. Legal(t, job.reaction)
  BY <1>1, LegalKept
<1> QED BY <1>1, <1>2 DEF JobLegal, Grows

(* Sequences: what an element replaced, one more, or more of them leave.     *)
LEMMA ReplaceFacts ==
  ASSUME NEW S, NEW q \in Seq(S), NEW i \in 1..Len(q), NEW x \in S
  PROVE  /\ [q EXCEPT ![i] = x] \in Seq(S) /\ Len([q EXCEPT ![i] = x]) = Len(q)
         /\ \A j \in 1..Len(q) : j # i => [q EXCEPT ![i] = x][j] = q[j]
         /\ [q EXCEPT ![i] = x][i] = x
  OBVIOUS

LEMMA AppendFacts ==
  ASSUME NEW S, NEW q \in Seq(S), NEW x \in S
  PROVE  /\ Append(q, x) \in Seq(S) /\ Len(Append(q, x)) = Len(q) + 1
         /\ Len(q) \in Nat
         /\ \A i \in 1..Len(q) : Append(q, x)[i] = q[i]
         /\ Append(q, x)[Len(q) + 1] = x
  OBVIOUS

LEMMA ConcatFacts ==
  ASSUME NEW S, NEW q \in Seq(S), NEW r \in Seq(S)
  PROVE  /\ q \o r \in Seq(S) /\ Len(q \o r) = Len(q) + Len(r)
         /\ Len(q) \in Nat /\ Len(r) \in Nat
         /\ \A i \in 1..Len(q) : (q \o r)[i] = q[i]
         /\ \A i \in 1..Len(r) : (q \o r)[Len(q) + i] = r[i]
  OBVIOUS

(* The parts of the engine's state have their types.                         *)
LEMMA EngineFacts ==
  ASSUME NEW s \in Engine
  PROVE  /\ s.promises \in Seq(PromiseData) /\ Len(s.promises) \in Nat
         /\ \A p \in 1..Len(s.promises) : s.promises[p] \in PromiseData
         /\ s.pairs \in Seq(PairData) /\ Len(s.pairs) \in Nat
         /\ \A k \in 1..Len(s.pairs) : s.pairs[k] \in PairData
         /\ s.jobs \in Seq(JobData) /\ Len(s.jobs) \in Nat
         /\ \A i \in 1..Len(s.jobs) : s.jobs[i] \in JobData
         /\ s.tracked \in SUBSET Nat /\ s.thenables \in Nat
         /\ s.adopts \in Seq(Nat) /\ Len(s.adopts) \in Nat
  BY DEF Engine

LEMMA PromiseFacts ==
  ASSUME NEW promise \in PromiseData
  PROVE  /\ promise.state \in States /\ promise.handled \in BOOLEAN
         /\ promise.reactions \in Seq(Reaction) /\ Len(promise.reactions) \in Nat
         /\ \A i \in 1..Len(promise.reactions) : promise.reactions[i] \in Reaction
  BY DEF PromiseData

(* The jobs of the reactions of a promise, one for each.                     *)
LEMMA JobsOfFacts ==
  ASSUME NEW reactions \in Seq(Reaction), NEW state \in States
  PROVE  /\ JobsOf(reactions, state) \in Seq(JobData)
         /\ Len(JobsOf(reactions, state)) = Len(reactions)
         /\ \A i \in 1..Len(reactions) :
              JobsOf(reactions, state)[i] = ReactionJob(reactions[i], state)
<1>1. Len(reactions) \in Nat /\ DOMAIN reactions = 1..Len(reactions)
  OBVIOUS
<1>2. \A i \in 1..Len(reactions) : ReactionJob(reactions[i], state) \in JobData
  BY DEF ReactionJob, JobData
<1>3. JobsOf(reactions, state) \in [1..Len(reactions) -> JobData]
  BY <1>1, <1>2 DEF JobsOf
<1> QED BY <1>1, <1>3 DEF JobsOf

(* Settling a pending promise: its reactions become jobs.                    *)
Settles(s, p, state, t) ==
  /\ t \in Engine
  /\ t.pairs = s.pairs /\ t.adopts = s.adopts
  /\ Len(t.promises) = Len(s.promises)
  /\ \A q \in Known(s) : q # p => t.promises[q] = s.promises[q]
  /\ t.promises[p].state = state /\ t.promises[p].reactions = <<>>
  /\ t.promises[p].handled = s.promises[p].handled
  /\ Len(t.jobs) = Len(s.jobs) + Len(s.promises[p].reactions)
  /\ \A i \in 1..Len(s.jobs) : t.jobs[i] = s.jobs[i]
  /\ \A i \in 1..Len(s.promises[p].reactions) :
       t.jobs[Len(s.jobs) + i] = ReactionJob(s.promises[p].reactions[i], state)
  /\ t.tracked = IF state = REJECTED /\ ~s.promises[p].handled
                 THEN s.tracked \cup {p} ELSE s.tracked

LEMMA SettleFacts ==
  ASSUME NEW s \in Engine, NEW p \in Known(s), NEW state \in {FULFILLED, REJECTED},
         s.promises[p].state = PENDING
  PROVE  Settles(s, p, state, Settle(s, p, state))
<1> DEFINE t == Settle(s, p, state)
           waiting == s.promises[p].reactions
           queued == JobsOf(waiting, state)
<1>1. waiting \in Seq(Reaction) /\ p \in 1..Len(s.promises) /\ state \in States
  BY EngineFacts, PromiseFacts DEF Known, States
<1>2. queued \in Seq(JobData) /\ Len(queued) = Len(waiting)
      /\ \A i \in 1..Len(waiting) : queued[i] = ReactionJob(waiting[i], state)
  BY <1>1, JobsOfFacts
<1>3. t = [s EXCEPT !.promises[p] = Settled(@, state),
                    !.tracked = TrackedWith(s, p, state), !.jobs = @ \o queued]
  BY DEF Settle
<1> HIDE DEF queued, t
<1>4. /\ t.pairs = s.pairs /\ t.adopts = s.adopts /\ t.thenables = s.thenables
      /\ t.jobs = s.jobs \o queued /\ t.tracked = TrackedWith(s, p, state)
      /\ t.promises = [s.promises EXCEPT ![p] = Settled(s.promises[p], state)]
      /\ t = [promises |-> t.promises, pairs |-> t.pairs, jobs |-> t.jobs,
              tracked |-> t.tracked, adopts |-> t.adopts, thenables |-> t.thenables]
  BY <1>3 DEF Engine
<1>5. /\ t.jobs \in Seq(JobData) /\ Len(t.jobs) = Len(s.jobs) + Len(waiting)
      /\ \A i \in 1..Len(s.jobs) : t.jobs[i] = s.jobs[i]
      /\ \A i \in 1..Len(waiting) : t.jobs[Len(s.jobs) + i] = ReactionJob(waiting[i], state)
  <2>1. s.jobs \in Seq(JobData)
    BY EngineFacts
  <2>2. /\ s.jobs \o queued \in Seq(JobData)
        /\ Len(s.jobs \o queued) = Len(s.jobs) + Len(queued)
        /\ \A i \in 1..Len(s.jobs) : (s.jobs \o queued)[i] = s.jobs[i]
        /\ \A i \in 1..Len(queued) : (s.jobs \o queued)[Len(s.jobs) + i] = queued[i]
    <3>1. queued \in Seq(JobData)
      BY <1>2
    <3> QED BY ONLY <2>1, <3>1, ConcatFacts
  <2> QED BY <1>2, <1>4, <2>2
<1>6. Settled(s.promises[p], state) \in PromiseData
      /\ Settled(s.promises[p], state).state = state
      /\ Settled(s.promises[p], state).reactions = <<>>
      /\ Settled(s.promises[p], state).handled = s.promises[p].handled
  <2>1. s.promises[p] \in PromiseData
    BY <1>1, EngineFacts
  <2> QED BY <1>1, <2>1 DEF Settled, PromiseData
<1>7. /\ t.promises \in Seq(PromiseData)
      /\ Len(t.promises) = Len(s.promises)
      /\ \A q \in Known(s) : q # p => t.promises[q] = s.promises[q]
      /\ t.promises[p] = Settled(s.promises[p], state)
  BY <1>1, <1>4, <1>6, ReplaceFacts, EngineFacts DEF Known
<1>8. /\ t.tracked = IF state = REJECTED /\ ~s.promises[p].handled
                     THEN s.tracked \cup {p} ELSE s.tracked
      /\ t.tracked \in SUBSET Nat
  BY <1>1, <1>4, EngineFacts DEF TrackedWith
<1>9. t \in Engine
  BY <1>4, <1>5, <1>7, <1>8, EngineFacts DEF Engine
<1>10. Settles(s, p, state, t)
  BY <1>4, <1>5, <1>6, <1>7, <1>8, <1>9 DEF Settles
<1> QED BY <1>10 DEF t

(* Using a pair changes that pair only.                                      *)
Uses(s, k, t) ==
  /\ t \in Engine
  /\ t.promises = s.promises /\ t.jobs = s.jobs /\ t.adopts = s.adopts
  /\ t.tracked = s.tracked /\ t.thenables = s.thenables
  /\ Len(t.pairs) = Len(s.pairs)
  /\ \A l \in 1..Len(s.pairs) : l # k => t.pairs[l] = s.pairs[l]
  /\ t.pairs[k].already /\ t.pairs[k].promise = s.pairs[k].promise

LEMMA UseFacts ==
  ASSUME NEW s \in Engine, NEW k \in 1..Len(s.pairs)
  PROVE  Uses(s, k, Use(s, k))
<1> DEFINE t == Use(s, k)
           used == [s.pairs[k] EXCEPT !.already = TRUE]
<1>1. s.pairs \in Seq(PairData) /\ s.pairs[k] \in PairData
  BY EngineFacts
<1>2. used \in PairData /\ used.already /\ used.promise = s.pairs[k].promise
  BY <1>1 DEF PairData
<1> DEFINE changed == [s.pairs EXCEPT ![k] = used]
<1>a. t = [s EXCEPT !.pairs = changed]
  BY DEF Use
<1> HIDE DEF used, changed, t
<1>3. /\ t.promises = s.promises /\ t.jobs = s.jobs /\ t.adopts = s.adopts
      /\ t.tracked = s.tracked /\ t.thenables = s.thenables
      /\ t.pairs = changed
      /\ t = [promises |-> t.promises, pairs |-> t.pairs, jobs |-> t.jobs,
              tracked |-> t.tracked, adopts |-> t.adopts, thenables |-> t.thenables]
  BY <1>a DEF Engine
<1>4. /\ t.pairs \in Seq(PairData) /\ Len(t.pairs) = Len(s.pairs)
      /\ \A l \in 1..Len(s.pairs) : l # k => t.pairs[l] = s.pairs[l]
      /\ t.pairs[k] = used
  BY <1>1, <1>2, <1>3, ReplaceFacts DEF changed
<1>5. t \in Engine
  BY <1>3, <1>4, EngineFacts DEF Engine
<1>6. Uses(s, k, t)
  BY <1>2, <1>3, <1>4, <1>5 DEF Uses
<1> QED BY <1>6 DEF t

(* Settling a promise through its pair, if that is legal, keeps everything   *)
(* sound.                                                                    *)
LEMMA SettleSound ==
  ASSUME NEW s, Sound(s), NEW k \in 1..Len(s.pairs), Open(s, k),
         NEW state \in {FULFILLED, REJECTED},
         LET q == s.adopts[s.pairs[k].promise] IN q # 0 => s.promises[q].state \in {state, FULFILLED}
  PROVE  LET t == Settle(Use(s, k), s.pairs[k].promise, state)
         IN Sound(t) /\ Grows(s, t) /\ Len(t.promises) = Len(s.promises)
<1> DEFINE p == s.pairs[k].promise
           u == Use(s, k)
           t == Settle(u, p, state)
           n == Len(s.jobs)
           waiting == s.promises[p].reactions
<1>1. /\ s \in Engine /\ InBounds(s) /\ ReactionsLegal(s) /\ Owned(s)
      /\ Handed(s) /\ Adopted(s) /\ Tracked(s)
  BY DEF Sound, Consistent
<1>2. /\ p \in Known(s) /\ s.promises[p].state = PENDING
      /\ state \in {FULFILLED, REJECTED} /\ state # PENDING
  BY <1>1 DEF InBounds, Owned, PENDING, FULFILLED, REJECTED
<1>2a. /\ s.pairs[k].promise = p /\ n = Len(s.jobs) /\ waiting = s.promises[p].reactions
       /\ s.adopts[p] # 0 => s.promises[s.adopts[p]].state \in {state, FULFILLED}
  OBVIOUS
<1>3. /\ u \in Engine /\ u.promises = s.promises /\ u.jobs = s.jobs /\ u.adopts = s.adopts
      /\ u.tracked = s.tracked /\ Len(u.pairs) = Len(s.pairs)
      /\ \A l \in 1..Len(s.pairs) : l # k => u.pairs[l] = s.pairs[l]
      /\ u.pairs[k].already /\ u.pairs[k].promise = p
  <2>1. Uses(s, k, u)
    BY <1>1, UseFacts
  <2> QED BY <2>1 DEF Uses
<1> HIDE DEF p, u, n, waiting
<1>5. /\ t \in Engine /\ t.pairs = u.pairs /\ t.adopts = s.adopts
      /\ Len(t.promises) = Len(s.promises)
      /\ \A q \in Known(s) : q # p => t.promises[q] = s.promises[q]
      /\ t.promises[p].state = state /\ t.promises[p].reactions = <<>>
      /\ t.promises[p].handled = s.promises[p].handled
      /\ Len(t.jobs) = n + Len(waiting)
      /\ \A i \in 1..n : t.jobs[i] = s.jobs[i]
      /\ \A i \in 1..Len(waiting) : t.jobs[n + i] = ReactionJob(waiting[i], state)
      /\ t.tracked = IF state = REJECTED /\ ~s.promises[p].handled
                     THEN s.tracked \cup {p} ELSE s.tracked
  <2>1. p \in Known(u) /\ u.promises[p].state = PENDING
    BY <1>2, <1>3 DEF Known
  <2>2. Settles(u, p, state, t)
    BY ONLY <1>2, <1>3, <2>1, SettleFacts DEF t
  <2> HIDE DEF t
  <2>3. Known(u) = Known(s) /\ u.promises[p] = s.promises[p] /\ Len(u.promises) = Len(s.promises)
    BY ONLY <1>3 DEF Known
  <2>4. /\ t \in Engine /\ t.pairs = u.pairs /\ t.adopts = s.adopts
        /\ Len(t.promises) = Len(s.promises)
        /\ \A q \in Known(s) : q # p => t.promises[q] = s.promises[q]
    BY ONLY <1>3, <2>2, <2>3 DEF Settles
  <2>5. /\ t.promises[p].state = state /\ t.promises[p].reactions = <<>>
        /\ t.promises[p].handled = s.promises[p].handled
        /\ t.tracked = IF state = REJECTED /\ ~s.promises[p].handled
                       THEN s.tracked \cup {p} ELSE s.tracked
    BY ONLY <1>3, <2>2, <2>3 DEF Settles
  <2>6. /\ Len(t.jobs) = n + Len(waiting)
        /\ \A i \in 1..n : t.jobs[i] = s.jobs[i]
        /\ \A i \in 1..Len(waiting) : t.jobs[n + i] = ReactionJob(waiting[i], state)
    BY ONLY <1>3, <2>2, <2>3 DEF Settles, n, waiting
  <2> QED BY ONLY <2>4, <2>5, <2>6
<1> HIDE DEF t
<1>5a. t \in Engine /\ t.adopts = s.adopts /\ Len(t.promises) = Len(s.promises)
  BY ONLY <1>5
<1>5b. \A q \in Known(s) : q # p => t.promises[q] = s.promises[q]
  BY ONLY <1>5
<1>5c. t.promises[p].state = state
  BY ONLY <1>5
<1>6. /\ Len(s.promises) \in Nat /\ Len(s.pairs) \in Nat /\ n \in Nat /\ Len(waiting) \in Nat
      /\ Known(t) = Known(s) /\ Len(t.pairs) = Len(s.pairs)
  BY <1>1, <1>2, <1>3, <1>5, EngineFacts, PromiseFacts DEF Known, n, waiting
<1>7. \A i \in 1..Len(t.jobs) :
        \/ i \in 1..n /\ t.jobs[i] = s.jobs[i]
        \/ \E j \in 1..Len(waiting) : i = n + j /\ t.jobs[i] = ReactionJob(waiting[j], state)
  <2> TAKE i \in 1..Len(t.jobs)
  <2>1. Len(t.jobs) = n + Len(waiting) /\ n \in Nat /\ Len(waiting) \in Nat
    BY <1>5, <1>6
  <2>2. i \in 1..n \/ (i - n \in 1..Len(waiting) /\ i = n + (i - n))
    BY ONLY <2>1, i \in 1..Len(t.jobs)
  <2>3. CASE i \in 1..n
    BY <1>5, <2>3
  <2>4. CASE i - n \in 1..Len(waiting) /\ i = n + (i - n)
    BY <1>5, <2>4
  <2> QED BY <2>2, <2>3, <2>4
<1>8. \A i \in 1..Len(t.jobs) : Adopting(t.jobs[i]) => i \in 1..n /\ t.jobs[i] = s.jobs[i]
  <2>1. ASSUME NEW j \in 1..Len(waiting) PROVE ~Adopting(ReactionJob(waiting[j], state))
    BY DEF Adopting, ReactionJob
  <2> QED BY <1>7, <2>1
<1>9. /\ \A l \in 1..Len(s.pairs) : t.pairs[l].promise = s.pairs[l].promise
      /\ \A l \in 1..Len(s.pairs) : Open(t, l) <=> Open(s, l) /\ l # k
      /\ \A l \in 1..Len(s.pairs) : Open(t, l) => t.pairs[l] = s.pairs[l]
  BY <1>2a, <1>3, <1>5, <1>6 DEF Open
<1>11. Grows(s, t)
  <2>1. \A q \in Known(s) : s.promises[q].state # PENDING =>
          t.promises[q].state = s.promises[q].state
    BY <1>2, <1>5
  <2>2. \A l \in 1..Len(s.pairs) : s.pairs[l].already => t.pairs[l].already
    BY <1>3, <1>5
  <2>3. Len(s.promises) <= Len(t.promises) /\ Len(s.pairs) <= Len(t.pairs)
    BY ONLY <1>5a, <1>6
  <2> QED BY ONLY <1>5a, <1>9, <2>1, <2>2, <2>3 DEF Grows
<1>10. InBounds(t)
  <2>1. /\ Len(s.adopts) = Len(s.promises)
        /\ \A q \in Known(s) : s.adopts[q] \in 0..Len(s.promises)
    BY ONLY <1>1 DEF InBounds
  <2>2. \A l \in 1..Len(s.pairs) : s.pairs[l].promise \in Known(s)
    BY ONLY <1>1 DEF InBounds
  <2>3. \A i \in 1..n : Adopting(s.jobs[i]) =>
          s.jobs[i].promise \in Known(s) /\ JobFor(s, s.jobs[i])
    BY ONLY <1>1, <1>2a DEF InBounds
  <2>4. /\ Len(t.adopts) = Len(t.promises)
        /\ \A q \in Known(t) : t.adopts[q] \in 0..Len(t.promises)
    BY ONLY <1>5a, <1>6, <2>1
  <2>5. \A l \in 1..Len(t.pairs) : t.pairs[l].promise \in Known(t)
    BY ONLY <1>6, <1>9, <2>2
  <2>6. \A i \in 1..Len(t.jobs) : Adopting(t.jobs[i]) =>
          t.jobs[i].promise \in Known(t) /\ JobFor(t, t.jobs[i])
    BY ONLY <1>1, <1>5a, <1>6, <1>8, <1>11, <2>3, JobForKept
  <2> QED BY ONLY <2>4, <2>5, <2>6 DEF InBounds
<1>12. ReactionsLegal(t)
  <2>1. ASSUME NEW q \in Known(t), NEW i \in 1..Len(t.promises[q].reactions)
        PROVE  Legal(t, t.promises[q].reactions[i]) /\ t.promises[q].reactions[i].source = q
    <3>1. q # p
      <4>1. t.promises[p].reactions = <<>>
        BY ONLY <1>5
      <4> QED BY ONLY <2>1, <4>1
    <3>2. q \in Known(s) /\ t.promises[q] = s.promises[q]
      BY <1>5, <1>6, <3>1
    <3>3. Legal(s, s.promises[q].reactions[i]) /\ s.promises[q].reactions[i].source = q
      BY <1>1, <2>1, <3>2 DEF ReactionsLegal
    <3>4. Legal(t, s.promises[q].reactions[i])
      BY ONLY <1>1, <1>5a, <1>11, <3>3, LegalKept
    <3> QED BY ONLY <3>2, <3>3, <3>4
  <2>2. ASSUME NEW i \in 1..Len(t.jobs), Reacting(t.jobs[i])
        PROVE  JobLegal(t, t.jobs[i])
    <3>1. CASE i \in 1..n /\ t.jobs[i] = s.jobs[i]
      <4>1. JobLegal(s, s.jobs[i])
        BY <1>1, <1>2a, <2>2, <3>1 DEF ReactionsLegal
      <4> QED BY <1>1, <1>5, <1>11, <3>1, <4>1, JobLegalKept
    <3>2. CASE \E j \in 1..Len(waiting) : i = n + j /\ t.jobs[i] = ReactionJob(waiting[j], state)
      <4>1. PICK j \in 1..Len(waiting) : t.jobs[i] = ReactionJob(waiting[j], state)
        BY <3>2
      <4>2. Legal(s, waiting[j]) /\ waiting[j].source = p
        BY <1>1, <1>2, <1>2a DEF ReactionsLegal
      <4>3. Legal(t, waiting[j])
        BY <1>1, <1>5, <1>11, <4>2, LegalKept
      <4>4. t.jobs[i].reaction = waiting[j] /\ t.jobs[i].state = state
        BY ONLY <4>1 DEF ReactionJob
      <4> QED BY <1>2, <1>5, <4>2, <4>3, <4>4 DEF JobLegal
    <3> QED BY <1>7, <3>1, <3>2
  <2> QED BY <2>1, <2>2 DEF ReactionsLegal
<1>13. Owned(t)
  <2>1. ASSUME NEW q \in Known(t), t.promises[q].state = PENDING
        PROVE  \/ \E l \in 1..Len(t.pairs) : Open(t, l) /\ t.pairs[l].promise = q
               \/ \E i \in 1..Len(t.jobs) : Adopting(t.jobs[i]) /\ t.jobs[i].promise = q
    <3>1. q # p /\ q \in Known(s) /\ s.promises[q].state = PENDING
      BY <1>2, <1>5, <1>6, <2>1
    <3>2. \/ \E l \in 1..Len(s.pairs) : Open(s, l) /\ s.pairs[l].promise = q
          \/ \E i \in 1..n : Adopting(s.jobs[i]) /\ s.jobs[i].promise = q
      BY <1>1, <1>2a, <3>1 DEF Owned
    <3>3. \A i \in 1..n : i \in 1..Len(t.jobs) /\ t.jobs[i] = s.jobs[i]
      <4>1. Len(t.jobs) = n + Len(waiting) /\ n \in Nat /\ Len(waiting) \in Nat
        BY <1>5, <1>6
      <4>2. 1..n \subseteq 1..Len(t.jobs)
        BY ONLY <4>1
      <4> QED BY <1>5, <4>2
    <3> QED BY <1>2a, <1>6, <1>9, <3>1, <3>2, <3>3
  <2>2. ASSUME NEW l \in 1..Len(t.pairs), Open(t, l)
        PROVE  /\ t.promises[t.pairs[l].promise].state = PENDING
               /\ \A m \in 1..Len(t.pairs) :
                    Open(t, m) /\ t.pairs[m].promise = t.pairs[l].promise => l = m
               /\ \A i \in 1..Len(t.jobs) : Adopting(t.jobs[i]) => t.jobs[i].promise # t.pairs[l].promise
    <3>1. l \in 1..Len(s.pairs) /\ Open(s, l) /\ l # k
      BY <1>6, <1>9, <2>2
    <3>2. s.pairs[l].promise \in Known(s) /\ s.pairs[l].promise # p
      BY <1>1, <1>2a, <3>1 DEF InBounds, Owned
    <3>3. t.promises[t.pairs[l].promise].state = PENDING
      <4>1. s.promises[s.pairs[l].promise].state = PENDING
        BY ONLY <1>1, <3>1 DEF Owned
      <4> QED BY ONLY <1>5b, <1>9, <3>1, <3>2, <4>1
    <3>4. ASSUME NEW m \in 1..Len(t.pairs), Open(t, m), t.pairs[m].promise = t.pairs[l].promise
          PROVE  l = m
      <4>1. m \in 1..Len(s.pairs) /\ Open(s, m) /\ s.pairs[m].promise = s.pairs[l].promise
        BY <1>6, <1>9, <3>1, <3>4
      <4> QED BY <1>1, <3>1, <4>1 DEF Owned
    <3>5. ASSUME NEW i \in 1..Len(t.jobs), Adopting(t.jobs[i])
          PROVE  t.jobs[i].promise # t.pairs[l].promise
      <4>1. i \in 1..Len(s.jobs) /\ Adopting(s.jobs[i]) /\ t.jobs[i] = s.jobs[i]
        BY <1>2a, <1>8, <3>5
      <4>2. s.jobs[i].promise # s.pairs[l].promise
        BY ONLY <1>1, <3>1, <4>1 DEF Owned
      <4> QED BY ONLY <1>9, <3>1, <4>1, <4>2
    <3> QED BY <3>3, <3>4, <3>5
  <2>3. ASSUME NEW i \in 1..Len(t.jobs), Adopting(t.jobs[i])
        PROVE  /\ t.promises[t.jobs[i].promise].state = PENDING
               /\ \A j \in 1..Len(t.jobs) :
                    Adopting(t.jobs[j]) /\ t.jobs[j].promise = t.jobs[i].promise => i = j
    <3>1. i \in 1..n /\ t.jobs[i] = s.jobs[i]
      BY <1>8, <2>3
    <3>2. s.jobs[i].promise \in Known(s) /\ s.jobs[i].promise # p
      BY <1>1, <1>2a, <2>3, <3>1 DEF InBounds, Owned
    <3>3. t.promises[t.jobs[i].promise].state = PENDING
      <4>1. s.promises[s.jobs[i].promise].state = PENDING
        BY ONLY <1>1, <1>2a, <2>3, <3>1 DEF Owned
      <4> QED BY ONLY <1>5b, <3>1, <3>2, <4>1
    <3>4. ASSUME NEW j \in 1..Len(t.jobs), Adopting(t.jobs[j]), t.jobs[j].promise = t.jobs[i].promise
          PROVE  i = j
      <4>1. j \in 1..Len(s.jobs) /\ Adopting(s.jobs[j]) /\ t.jobs[j] = s.jobs[j]
        BY <1>2a, <1>8, <3>4
      <4> QED BY <1>1, <1>2a, <2>3, <3>1, <3>4, <4>1 DEF Owned
    <3> QED BY <3>3, <3>4
  <2> QED BY <2>1, <2>2, <2>3 DEF Owned
<1>14. Handed(t)
  <2> SUFFICES ASSUME NEW l \in 1..Len(t.pairs), Open(t, l), t.pairs[l].held
               PROVE  Free(t, t.pairs[l].promise)
    BY DEF Handed
  <2>1. l \in 1..Len(s.pairs) /\ Open(s, l) /\ t.pairs[l] = s.pairs[l]
    BY <1>6, <1>9
  <2>2. Free(s, s.pairs[l].promise) /\ s.pairs[l].promise \in Known(s)
    BY <1>1, <2>1 DEF Handed, InBounds
  <2> QED BY ONLY <1>1, <1>5a, <1>6, <1>11, <2>1, <2>2, FreeKept
<1>15. Adopted(t)
  <2> SUFFICES ASSUME NEW q \in Known(s), s.adopts[q] # 0, t.promises[q].state # PENDING
               PROVE  t.promises[s.adopts[q]].state \in {t.promises[q].state, FULFILLED}
    BY <1>5, <1>6 DEF Adopted
  <2>1. s.adopts[q] \in Known(s)
    <3>1. s.adopts[q] \in 0..Len(s.promises)
      BY ONLY <1>1, q \in Known(s) DEF InBounds
    <3> QED BY ONLY <1>6, <3>1, s.adopts[q] # 0 DEF Known
  <2>2. CASE q = p
    <3>1. s.promises[s.adopts[p]].state \in {state, FULFILLED} /\ s.adopts[p] # p
      BY <1>2, <1>2a, <2>2 DEF PENDING, FULFILLED
    <3> QED BY <1>5, <2>1, <2>2, <3>1
  <2>3. CASE q # p
    <3>1. /\ s.promises[q].state # PENDING
          /\ s.promises[s.adopts[q]].state \in {s.promises[q].state, FULFILLED}
      BY <1>1, <1>5, <2>3 DEF Adopted
    <3>2. s.promises[s.adopts[q]].state # PENDING
      BY <3>1 DEF PENDING, FULFILLED
    <3> QED BY <1>2, <1>5, <2>1, <2>3, <3>1, <3>2
  <2> QED BY <2>2, <2>3
<1>16. Tracked(t)
  <2>1. s.tracked = {q \in Known(s) : s.promises[q].state = REJECTED /\ ~s.promises[q].handled}
    BY ONLY <1>1 DEF Tracked
  <2>2. p \notin s.tracked
    BY ONLY <1>2, <2>1 DEF PENDING, REJECTED
  <2>3. ASSUME NEW q
        PROVE  q \in t.tracked <=> q \in Known(s) /\ t.promises[q].state = REJECTED /\ ~t.promises[q].handled
    <3>1. CASE q = p
      BY <1>2, <1>5, <2>2, <3>1
    <3>2. CASE q # p
      <4>1. q \in t.tracked <=> q \in s.tracked
        BY ONLY <1>5, <3>2
      <4> QED BY ONLY <1>5b, <2>1, <3>2, <4>1
    <3> QED BY ONLY <3>1, <3>2
  <2> QED BY ONLY <1>6, <2>3 DEF Tracked
<1>17. Sound(t) /\ Grows(s, t) /\ Len(t.promises) = Len(s.promises)
  BY <1>5, <1>10, <1>11, <1>12, <1>13, <1>14, <1>15, <1>16 DEF Sound, Consistent
<1> QED BY <1>17 DEF p, t, u

(* A thenable job takes the pair's promise in hand.                          *)
Hand(s, k, of) ==
  [Use(s, k) EXCEPT
     !.jobs = Append(@, [type |-> "thenable", promise |-> s.pairs[k].promise, of |-> of]),
     !.thenables = @ + 1]

HandAdopting(s, k, of) == [Hand(s, k, of) EXCEPT !.adopts[s.pairs[k].promise] = of]

HandsOver(s, k, of, t) ==
  LET p == s.pairs[k].promise
  IN /\ t \in Engine
     /\ t.promises = s.promises /\ t.tracked = s.tracked
     /\ t.pairs = Use(s, k).pairs
     /\ Len(t.jobs) = Len(s.jobs) + 1
     /\ \A i \in 1..Len(s.jobs) : t.jobs[i] = s.jobs[i]
     /\ t.jobs[Len(s.jobs) + 1] = [type |-> "thenable", promise |-> p, of |-> of]
     /\ Len(t.adopts) = Len(s.adopts)
     /\ t.adopts[p] = IF of = 0 THEN s.adopts[p] ELSE of
     /\ \A q \in Known(s) : q # p => t.adopts[q] = s.adopts[q]

LEMMA HandOverFacts ==
  ASSUME NEW s \in Engine, InBounds(s), NEW k \in 1..Len(s.pairs), NEW of \in Nat
  PROVE  IF of = 0 THEN HandsOver(s, k, of, Hand(s, k, of))
                   ELSE HandsOver(s, k, of, HandAdopting(s, k, of))
<1> DEFINE p == s.pairs[k].promise
           u == Use(s, k)
           new == [type |-> "thenable", promise |-> p, of |-> of]
           queue == Append(s.jobs, new)
           job == [u EXCEPT !.jobs = Append(@, new), !.thenables = @ + 1]
           adopts2 == [s.adopts EXCEPT ![p] = of]
           t == [job EXCEPT !.adopts[p] = of]
<1>1. p \in Known(s) /\ Len(s.adopts) = Len(s.promises)
  BY DEF InBounds
<1>2. Uses(s, k, u)
  BY UseFacts
<1>3. new \in JobData
  BY <1>1 DEF JobData, Known
<1>4. /\ queue \in Seq(JobData) /\ Len(queue) = Len(s.jobs) + 1
      /\ \A i \in 1..Len(s.jobs) : queue[i] = s.jobs[i]
      /\ queue[Len(s.jobs) + 1] = new
  <2>1. s.jobs \in Seq(JobData)
    BY EngineFacts
  <2> HIDE DEF new
  <2> QED BY ONLY <1>3, <2>1, AppendFacts
<1>5. /\ adopts2 \in Seq(Nat) /\ Len(adopts2) = Len(s.adopts)
      /\ \A q \in Known(s) : q # p => adopts2[q] = s.adopts[q]
      /\ adopts2[p] = of
  <2>1. s.adopts \in Seq(Nat) /\ p \in 1..Len(s.adopts)
    BY <1>1, EngineFacts DEF Known
  <2> HIDE DEF p
  <2> QED BY ONLY <1>1, <2>1, of \in Nat, ReplaceFacts DEF Known
<1> HIDE DEF new, p, u
<1>6. u \in Engine /\ u.jobs = s.jobs /\ u.adopts = s.adopts
      /\ u.promises = s.promises /\ u.tracked = s.tracked
  BY <1>2 DEF Uses
<1>7. job = [u EXCEPT !.jobs = queue, !.thenables = u.thenables + 1]
  BY <1>6
<1>8. t = [job EXCEPT !.adopts = adopts2]
  BY <1>6
<1> HIDE DEF queue, adopts2, job, t
<1>9. /\ job.promises = s.promises /\ job.tracked = s.tracked /\ job.pairs = u.pairs
      /\ job.jobs = queue /\ job.adopts = s.adopts /\ job \in Engine
  <2>1. u \in Engine /\ queue \in Seq(JobData) /\ u.thenables + 1 \in Nat
    BY <1>4, <1>6, EngineFacts
  <2>2. job.promises = u.promises /\ job.tracked = u.tracked /\ job.pairs = u.pairs
        /\ job.jobs = queue /\ job.adopts = u.adopts
    BY ONLY <1>7, <2>1 DEF Engine
  <2>3. job \in Engine
    BY ONLY <1>7, <2>1 DEF Engine
  <2> QED BY <1>6, <2>2, <2>3
<1>10. /\ t.promises = s.promises /\ t.tracked = s.tracked /\ t.pairs = u.pairs
       /\ t.jobs = queue /\ t.adopts = adopts2 /\ t \in Engine
  BY <1>5, <1>8, <1>9 DEF Engine
<1>11. of = 0 => HandsOver(s, k, of, job)
  BY <1>4, <1>9 DEF HandsOver, p, u, new
<1>12. of # 0 => HandsOver(s, k, of, t)
  BY <1>4, <1>5, <1>10 DEF HandsOver, p, u, new
<1> QED BY <1>11, <1>12 DEF t, job, p, u, new, Hand, HandAdopting

LEMMA HandOverSound ==
  ASSUME NEW s, Sound(s), NEW k \in 1..Len(s.pairs), Open(s, k),
         Free(s, s.pairs[k].promise), NEW of \in 0..Len(s.promises),
         NEW t, HandsOver(s, k, of, t)
  PROVE  Sound(t) /\ Grows(s, t) /\ Len(t.promises) = Len(s.promises)
<1> DEFINE p == s.pairs[k].promise
           u == Use(s, k)
           n == Len(s.jobs)
<1>1. /\ s \in Engine /\ InBounds(s) /\ ReactionsLegal(s) /\ Owned(s)
      /\ Handed(s) /\ Adopted(s) /\ Tracked(s)
  BY DEF Sound, Consistent
<1>2. p \in Known(s) /\ s.promises[p].state = PENDING
  BY <1>1 DEF InBounds, Owned
<1>3. s.pairs[k].promise = p /\ n = Len(s.jobs) /\ Free(s, p)
  OBVIOUS
<1>4. /\ t \in Engine
      /\ t.promises = s.promises /\ t.tracked = s.tracked /\ Known(t) = Known(s)
      /\ Len(t.jobs) = n + 1
      /\ \A i \in 1..n : t.jobs[i] = s.jobs[i]
      /\ t.jobs[n + 1].type = "thenable" /\ t.jobs[n + 1].promise = p /\ t.jobs[n + 1].of = of
      /\ Len(t.adopts) = Len(s.adopts)
      /\ t.adopts[p] = IF of = 0 THEN s.adopts[p] ELSE of
      /\ \A q \in Known(s) : q # p => t.adopts[q] = s.adopts[q]
  BY DEF HandsOver, Known
<1>5. /\ Len(t.pairs) = Len(s.pairs)
      /\ \A l \in 1..Len(s.pairs) : l # k => t.pairs[l] = s.pairs[l]
      /\ t.pairs[k].already /\ t.pairs[k].promise = p
  <2>1. Uses(s, k, u) /\ t.pairs = u.pairs
    BY <1>1, UseFacts DEF HandsOver
  <2> QED BY <2>1 DEF Uses
<1> HIDE DEF p, u, n
<1>6. Len(s.promises) \in Nat /\ Len(s.pairs) \in Nat /\ n \in Nat
  BY <1>1, <1>3, EngineFacts
<1>7. /\ \A i \in 1..Len(t.jobs) : (i \in 1..n /\ t.jobs[i] = s.jobs[i]) \/ i = n + 1
      /\ 1..n \subseteq 1..Len(t.jobs) /\ n + 1 \in 1..Len(t.jobs) /\ ~(n + 1 \in 1..n)
  BY <1>4, <1>6
<1>8. ~Reacting(t.jobs[n + 1]) /\ Adopting(t.jobs[n + 1])
  BY <1>4 DEF Reacting, Adopting
<1>9. /\ \A l \in 1..Len(s.pairs) : t.pairs[l].promise = s.pairs[l].promise
      /\ \A l \in 1..Len(s.pairs) : Open(t, l) <=> Open(s, l) /\ l # k
      /\ \A l \in 1..Len(s.pairs) : Open(t, l) => t.pairs[l] = s.pairs[l]
      /\ \A l \in 1..Len(s.pairs) : Open(t, l) => s.pairs[l].promise # p
  <2>1. /\ \A l \in 1..Len(s.pairs) : t.pairs[l].promise = s.pairs[l].promise
        /\ \A l \in 1..Len(s.pairs) : Open(t, l) <=> Open(s, l) /\ l # k
        /\ \A l \in 1..Len(s.pairs) : Open(t, l) => t.pairs[l] = s.pairs[l]
    BY <1>3, <1>5 DEF Open
  <2>2. \A l \in 1..Len(s.pairs) : Open(s, l) /\ s.pairs[l].promise = p => l = k
    BY <1>1, <1>3 DEF Owned
  <2> QED BY <2>1, <2>2
<1>10. \A i \in 1..n : Adopting(s.jobs[i]) => s.jobs[i].promise # p
  BY <1>1, <1>3 DEF Owned
<1>11. InBounds(t)
  <2>1. \A q \in Known(t) : t.adopts[q] \in 0..Len(t.promises)
    BY <1>1, <1>4 DEF InBounds
  <2>2. \A l \in 1..Len(t.pairs) : t.pairs[l].promise \in Known(t)
    BY <1>1, <1>4, <1>5, <1>9 DEF InBounds
  <2>3. ASSUME NEW i \in 1..Len(t.jobs), Adopting(t.jobs[i])
        PROVE  t.jobs[i].promise \in Known(t) /\ JobFor(t, t.jobs[i])
    <3>1. CASE i \in 1..n /\ t.jobs[i] = s.jobs[i]
      <4>1. s.jobs[i].promise \in Known(s) /\ JobFor(s, s.jobs[i])
        BY <1>1, <1>3, <2>3, <3>1 DEF InBounds
      <4>2. s.jobs[i].promise # p
        BY <1>10, <2>3, <3>1
      <4> QED BY <1>4, <3>1, <4>1, <4>2 DEF JobFor, Free
    <3>2. CASE i = n + 1
      BY <1>2, <1>3, <1>4, <3>2 DEF JobFor, Free
    <3> QED BY <1>7, <3>1, <3>2
  <2> QED BY <1>1, <1>4, <2>1, <2>2, <2>3 DEF InBounds
<1>12. Grows(s, t)
  <2>1. \A q \in Known(s) :
          \/ t.adopts[q] = s.adopts[q]
          \/ \A l \in 1..Len(t.pairs) : Open(t, l) => t.pairs[l].promise # q
    <3> SUFFICES ASSUME NEW q \in Known(s), t.adopts[q] # s.adopts[q]
                 PROVE  \A l \in 1..Len(t.pairs) : Open(t, l) => t.pairs[l].promise # q
      OBVIOUS
    <3>1. q = p
      BY <1>4
    <3> QED BY ONLY <1>5, <1>9, <3>1
  <2>2. \A l \in 1..Len(s.pairs) :
          t.pairs[l].promise = s.pairs[l].promise /\ (s.pairs[l].already => t.pairs[l].already)
    BY <1>5, <1>9
  <2> QED BY <1>4, <1>5, <1>6, <2>1, <2>2 DEF Grows
<1>13. ReactionsLegal(t)
  <2>1. ASSUME NEW q \in Known(t), NEW i \in 1..Len(t.promises[q].reactions)
        PROVE  Legal(t, t.promises[q].reactions[i]) /\ t.promises[q].reactions[i].source = q
    <3>1. Legal(s, s.promises[q].reactions[i]) /\ s.promises[q].reactions[i].source = q
      BY <1>1, <1>4, <2>1 DEF ReactionsLegal
    <3> QED BY <1>1, <1>4, <1>12, <3>1, LegalKept
  <2>2. ASSUME NEW i \in 1..Len(t.jobs), Reacting(t.jobs[i])
        PROVE  JobLegal(t, t.jobs[i])
    <3>1. i \in 1..n /\ t.jobs[i] = s.jobs[i]
      BY <1>7, <1>8, <2>2
    <3>2. JobLegal(s, s.jobs[i])
      BY <1>1, <1>3, <2>2, <3>1 DEF ReactionsLegal
    <3> QED BY <1>1, <1>4, <1>12, <3>1, <3>2, JobLegalKept
  <2> QED BY <2>1, <2>2 DEF ReactionsLegal
<1>14. Owned(t)
  <2>1. ASSUME NEW q \in Known(t), t.promises[q].state = PENDING
        PROVE  \/ \E l \in 1..Len(t.pairs) : Open(t, l) /\ t.pairs[l].promise = q
               \/ \E i \in 1..Len(t.jobs) : Adopting(t.jobs[i]) /\ t.jobs[i].promise = q
    <3>1. CASE q = p
      BY <1>4, <1>7, <1>8, <3>1
    <3>2. CASE q # p
      <4>1. \/ \E l \in 1..Len(s.pairs) : Open(s, l) /\ s.pairs[l].promise = q
            \/ \E i \in 1..n : Adopting(s.jobs[i]) /\ s.jobs[i].promise = q
        BY <1>1, <1>3, <1>4, <2>1 DEF Owned
      <4>2. \A l \in 1..Len(s.pairs) : Open(s, l) /\ s.pairs[l].promise = q =>
              Open(t, l) /\ t.pairs[l].promise = q
        BY <1>3, <1>9, <3>2
      <4> QED BY <1>4, <1>5, <1>7, <4>1, <4>2
    <3> QED BY <3>1, <3>2
  <2>2. ASSUME NEW l \in 1..Len(t.pairs), Open(t, l)
        PROVE  /\ t.promises[t.pairs[l].promise].state = PENDING
               /\ \A m \in 1..Len(t.pairs) :
                    Open(t, m) /\ t.pairs[m].promise = t.pairs[l].promise => l = m
               /\ \A i \in 1..Len(t.jobs) : Adopting(t.jobs[i]) => t.jobs[i].promise # t.pairs[l].promise
    <3>1. l \in 1..Len(s.pairs) /\ Open(s, l) /\ s.pairs[l].promise # p
          /\ t.pairs[l].promise = s.pairs[l].promise
      BY <1>5, <1>9, <2>2
    <3>2. t.promises[t.pairs[l].promise].state = PENDING
      BY <1>1, <1>4, <3>1 DEF Owned
    <3>3. ASSUME NEW m \in 1..Len(t.pairs), Open(t, m), t.pairs[m].promise = t.pairs[l].promise
          PROVE  l = m
      <4>1. m \in 1..Len(s.pairs) /\ Open(s, m) /\ s.pairs[m].promise = s.pairs[l].promise
        BY <1>5, <1>9, <3>1, <3>3
      <4> QED BY <1>1, <3>1, <4>1 DEF Owned
    <3>4. ASSUME NEW i \in 1..Len(t.jobs), Adopting(t.jobs[i])
          PROVE  t.jobs[i].promise # t.pairs[l].promise
      <4>1. CASE i \in 1..n /\ t.jobs[i] = s.jobs[i]
        BY <1>1, <1>3, <3>1, <3>4, <4>1 DEF Owned
      <4>2. CASE i = n + 1
        BY <1>4, <3>1, <4>2
      <4> QED BY <1>7, <4>1, <4>2
    <3> QED BY <3>2, <3>3, <3>4
  <2>3. ASSUME NEW i \in 1..Len(t.jobs), Adopting(t.jobs[i])
        PROVE  /\ t.promises[t.jobs[i].promise].state = PENDING
               /\ \A j \in 1..Len(t.jobs) :
                    Adopting(t.jobs[j]) /\ t.jobs[j].promise = t.jobs[i].promise => i = j
    <3>1. CASE i \in 1..n /\ t.jobs[i] = s.jobs[i]
      <4>1. s.promises[s.jobs[i].promise].state = PENDING /\ s.jobs[i].promise # p
        BY <1>1, <1>3, <1>10, <2>3, <3>1 DEF Owned
      <4>2. ASSUME NEW j \in 1..Len(t.jobs), Adopting(t.jobs[j]), t.jobs[j].promise = t.jobs[i].promise
            PROVE  i = j
        <5>1. j \in 1..n /\ t.jobs[j] = s.jobs[j]
          BY <1>4, <1>7, <3>1, <4>1, <4>2
        <5> QED BY <1>1, <1>3, <2>3, <3>1, <4>2, <5>1 DEF Owned
      <4> QED BY <1>4, <3>1, <4>1, <4>2
    <3>2. CASE i = n + 1
      <4>1. t.promises[t.jobs[i].promise].state = PENDING
        BY <1>2, <1>4, <3>2
      <4>2. ASSUME NEW j \in 1..Len(t.jobs), Adopting(t.jobs[j]), t.jobs[j].promise = p
            PROVE  i = j
        BY <1>7, <1>10, <3>2, <4>2
      <4> QED BY <1>4, <3>2, <4>1, <4>2
    <3> QED BY <1>7, <3>1, <3>2
  <2> QED BY <2>1, <2>2, <2>3 DEF Owned
<1>15. Handed(t)
  <2> SUFFICES ASSUME NEW l \in 1..Len(t.pairs), Open(t, l), t.pairs[l].held
               PROVE  Free(t, t.pairs[l].promise)
    BY DEF Handed
  <2>1. /\ l \in 1..Len(s.pairs) /\ Open(s, l) /\ s.pairs[l].held /\ t.pairs[l] = s.pairs[l]
        /\ s.pairs[l].promise # p
    BY <1>5, <1>9
  <2>2. Free(s, s.pairs[l].promise) /\ s.pairs[l].promise \in Known(s)
    BY <1>1, <2>1 DEF Handed, InBounds
  <2> QED BY <1>4, <2>1, <2>2 DEF Free
<1>16. Adopted(t)
  <2> SUFFICES ASSUME NEW q \in Known(s), t.adopts[q] # 0, s.promises[q].state # PENDING
               PROVE  s.promises[t.adopts[q]].state \in {s.promises[q].state, FULFILLED}
    BY <1>4 DEF Adopted
  <2>1. t.adopts[q] = s.adopts[q]
    BY <1>2, <1>4
  <2> QED BY ONLY <1>1, <2>1, q \in Known(s), t.adopts[q] # 0, s.promises[q].state # PENDING DEF Adopted
<1>17. Tracked(t)
  BY <1>1, <1>4 DEF Tracked
<1> QED
  BY <1>4, <1>11, <1>12, <1>13, <1>14, <1>15, <1>16, <1>17 DEF Sound, Consistent

(* JS_ExecutePendingJob takes the first job off the list.                    *)
Takes(s, t) ==
  /\ t \in Engine
  /\ t.promises = s.promises /\ t.pairs = s.pairs
  /\ t.tracked = s.tracked /\ t.adopts = s.adopts
  /\ Len(s.jobs) = Len(t.jobs) + 1
  /\ \A i \in 1..Len(t.jobs) : i + 1 \in 1..Len(s.jobs) /\ t.jobs[i] = s.jobs[i + 1]
  /\ \A i \in 1..Len(s.jobs) : i # 1 => i - 1 \in 1..Len(t.jobs) /\ s.jobs[i] = t.jobs[i - 1]
  /\ 1 \in 1..Len(s.jobs) /\ Head(s.jobs) = s.jobs[1]

LEMMA TakeFacts ==
  ASSUME NEW s \in Engine, s.jobs # <<>>
  PROVE  Takes(s, [s EXCEPT !.jobs = Tail(@)])
<1> DEFINE rest == Tail(s.jobs)
           t == [s EXCEPT !.jobs = Tail(@)]
<1>1. s.jobs \in Seq(JobData) /\ Len(s.jobs) \in Nat
  BY EngineFacts
<1>2. /\ rest \in Seq(JobData) /\ Len(s.jobs) = Len(rest) + 1 /\ Len(rest) \in Nat
      /\ \A i \in 1..Len(rest) : rest[i] = s.jobs[i + 1]
      /\ Head(s.jobs) = s.jobs[1]
  BY <1>1
<1>3. t = [s EXCEPT !.jobs = rest]
  OBVIOUS
<1> HIDE DEF rest, t
<1>4. /\ t.promises = s.promises /\ t.pairs = s.pairs /\ t.jobs = rest
      /\ t.tracked = s.tracked /\ t.adopts = s.adopts
  BY ONLY <1>3, s \in Engine DEF Engine
<1>5. t \in Engine
  BY ONLY <1>2, <1>3, s \in Engine DEF Engine
<1>6. /\ 1 \in 1..Len(s.jobs)
      /\ \A i \in 1..Len(rest) : i + 1 \in 1..Len(s.jobs)
      /\ \A i \in 1..Len(s.jobs) : i # 1 => i - 1 \in 1..Len(rest) /\ (i - 1) + 1 = i
  BY ONLY <1>1, <1>2
<1>7. \A i \in 1..Len(s.jobs) : i # 1 => s.jobs[i] = rest[i - 1]
  BY <1>2, <1>6
<1>8. Takes(s, t)
  BY <1>2, <1>4, <1>5, <1>6, <1>7 DEF Takes
<1> QED BY <1>8 DEF t

(* A new pair of resolving functions.                                        *)
AddsPair(s, p, held, t) ==
  /\ t \in Engine
  /\ t.promises = s.promises /\ t.jobs = s.jobs
  /\ t.tracked = s.tracked /\ t.adopts = s.adopts
  /\ Len(t.pairs) = Len(s.pairs) + 1
  /\ \A l \in 1..Len(s.pairs) : t.pairs[l] = s.pairs[l]
  /\ t.pairs[Len(s.pairs) + 1] = [promise |-> p, already |-> FALSE, held |-> held]

LEMMA NewPairFacts ==
  ASSUME NEW s \in Engine, NEW p \in Nat, NEW held \in BOOLEAN
  PROVE  AddsPair(s, p, held, NewPair(s, p, held))
<1> DEFINE new == [promise |-> p, already |-> FALSE, held |-> held]
           all == Append(s.pairs, new)
           t == NewPair(s, p, held)
<1>1. s.pairs \in Seq(PairData) /\ new \in PairData
  BY EngineFacts DEF PairData
<1>2. t = [s EXCEPT !.pairs = all]
  BY DEF NewPair
<1> HIDE DEF new, t
<1>3. /\ all \in Seq(PairData) /\ Len(all) = Len(s.pairs) + 1
      /\ \A i \in 1..Len(s.pairs) : all[i] = s.pairs[i]
      /\ all[Len(s.pairs) + 1] = new
  BY ONLY <1>1, AppendFacts
<1> HIDE DEF all
<1>4. /\ t.promises = s.promises /\ t.jobs = s.jobs /\ t.pairs = all
      /\ t.tracked = s.tracked /\ t.adopts = s.adopts
  BY ONLY <1>2, s \in Engine DEF Engine
<1>5. t \in Engine
  BY ONLY <1>2, <1>3, s \in Engine DEF Engine
<1>6. AddsPair(s, p, held, t)
  BY <1>3, <1>4, <1>5 DEF AddsPair, new
<1> QED BY <1>6 DEF t

LEMMA TakeConsistent ==
  ASSUME NEW s, Consistent(s), NEW t, Takes(s, t)
  PROVE  Consistent(t) /\ Grows(s, t)
<1>1. /\ s \in Engine /\ InBounds(s) /\ ReactionsLegal(s)
      /\ Handed(s) /\ Adopted(s) /\ Tracked(s)
  BY DEF Consistent
<1>2. /\ t \in Engine /\ Known(t) = Known(s)
      /\ t.promises = s.promises /\ t.pairs = s.pairs
      /\ t.tracked = s.tracked /\ t.adopts = s.adopts
      /\ \A i \in 1..Len(t.jobs) : i + 1 \in 1..Len(s.jobs) /\ t.jobs[i] = s.jobs[i + 1]
  BY DEF Takes, Known
<1>3. Grows(s, t)
  BY <1>1, <1>2, EngineFacts DEF Grows
<1>4. InBounds(t)
  <2>1. \A job : JobFor(s, job) => JobFor(t, job)
    BY <1>2 DEF JobFor, Free
  <2> QED BY <1>1, <1>2, <2>1 DEF InBounds
<1>5. ReactionsLegal(t)
  <2>1. ASSUME NEW q \in Known(t), NEW i \in 1..Len(t.promises[q].reactions)
        PROVE  Legal(t, t.promises[q].reactions[i]) /\ t.promises[q].reactions[i].source = q
    <3>1. Legal(s, s.promises[q].reactions[i]) /\ s.promises[q].reactions[i].source = q
      BY <1>1, <1>2, <2>1 DEF ReactionsLegal
    <3> QED BY <1>1, <1>2, <1>3, <3>1, LegalKept
  <2>2. ASSUME NEW i \in 1..Len(t.jobs), Reacting(t.jobs[i])
        PROVE  JobLegal(t, t.jobs[i])
    <3>1. JobLegal(s, s.jobs[i + 1]) /\ t.jobs[i] = s.jobs[i + 1]
      BY <1>1, <1>2, <2>2 DEF ReactionsLegal
    <3> QED BY <1>1, <1>2, <1>3, <3>1, JobLegalKept
  <2> QED BY <2>1, <2>2 DEF ReactionsLegal
<1>6. Handed(t) /\ Adopted(t) /\ Tracked(t)
  <2>1. \A q : Free(s, q) => Free(t, q)
    BY ONLY <1>2 DEF Free
  <2>2. Handed(t)
    BY ONLY <1>1, <1>2, <2>1 DEF Handed, Open
  <2> QED BY <1>1, <1>2, <2>2 DEF Adopted, Tracked
<1> QED BY <1>2, <1>3, <1>4, <1>5, <1>6 DEF Consistent

LEMMA AddPairConsistent ==
  ASSUME NEW s, Consistent(s), NEW p \in Known(s), NEW held \in BOOLEAN,
         held => Free(s, p), NEW t, AddsPair(s, p, held, t)
  PROVE  Consistent(t) /\ Grows(s, t)
<1> DEFINE new == Len(s.pairs) + 1
<1>1. /\ s \in Engine /\ InBounds(s) /\ ReactionsLegal(s)
      /\ Handed(s) /\ Adopted(s) /\ Tracked(s)
  BY DEF Consistent
<1>2. /\ t \in Engine /\ Known(t) = Known(s)
      /\ t.promises = s.promises /\ t.jobs = s.jobs
      /\ t.tracked = s.tracked /\ t.adopts = s.adopts
      /\ Len(t.pairs) = Len(s.pairs) + 1
      /\ \A l \in 1..Len(s.pairs) : t.pairs[l] = s.pairs[l]
      /\ t.pairs[new].promise = p /\ t.pairs[new].held = held
  BY DEF AddsPair, Known
<1>3. Len(s.pairs) \in Nat /\ \A l \in 1..Len(t.pairs) : l \in 1..Len(s.pairs) \/ l = new
  <2>1. Len(s.pairs) \in Nat /\ Len(t.pairs) = Len(s.pairs) + 1
    BY <1>1, <1>2, EngineFacts
  <2> QED BY ONLY <2>1
<1>4. 1..Len(s.pairs) \subseteq 1..Len(t.pairs)
  <2>1. Len(s.pairs) \in Nat /\ Len(t.pairs) = Len(s.pairs) + 1
    BY <1>2, <1>3
  <2> QED BY ONLY <2>1
<1> HIDE DEF new
<1>5. Grows(s, t)
  BY <1>1, <1>2, <1>3, EngineFacts DEF Grows
<1>6. InBounds(t)
  <2>1. \A job : JobFor(s, job) => JobFor(t, job)
    BY <1>2 DEF JobFor, Free
  <2> QED BY <1>1, <1>2, <1>3, <2>1 DEF InBounds
<1>7. ReactionsLegal(t)
  <2>1. ASSUME NEW q \in Known(t), NEW i \in 1..Len(t.promises[q].reactions)
        PROVE  Legal(t, t.promises[q].reactions[i]) /\ t.promises[q].reactions[i].source = q
    <3>1. Legal(s, s.promises[q].reactions[i]) /\ s.promises[q].reactions[i].source = q
      BY <1>1, <1>2, <2>1 DEF ReactionsLegal
    <3> QED BY <1>1, <1>2, <1>5, <3>1, LegalKept
  <2>2. ASSUME NEW i \in 1..Len(t.jobs), Reacting(t.jobs[i])
        PROVE  JobLegal(t, t.jobs[i])
    <3>1. JobLegal(s, s.jobs[i])
      BY <1>1, <1>2, <2>2 DEF ReactionsLegal
    <3> QED BY <1>1, <1>2, <1>5, <3>1, JobLegalKept
  <2> QED BY <2>1, <2>2 DEF ReactionsLegal
<1>8. Handed(t)
  <2> SUFFICES ASSUME NEW l \in 1..Len(t.pairs), Open(t, l), t.pairs[l].held
               PROVE  Free(t, t.pairs[l].promise)
    BY DEF Handed
  <2>1. CASE l = new
    BY <1>2, <2>1 DEF Free
  <2>2. CASE l \in 1..Len(s.pairs)
    BY <1>1, <1>2, <2>2 DEF Handed, Open, Free
  <2> QED BY <1>3, <2>1, <2>2
<1>9. Adopted(t) /\ Tracked(t)
  BY <1>1, <1>2 DEF Adopted, Tracked
<1> QED BY <1>2, <1>5, <1>6, <1>7, <1>8, <1>9 DEF Consistent

(* Running the job of a reaction, and the hand-over from the job of a        *)
(* thenable to the pair made for it, keep everything sound.                  *)
LEMMA TakeSound ==
  ASSUME NEW s, Sound(s), NEW t, Takes(s, t), Reacting(s.jobs[1])
  PROVE  Sound(t) /\ Grows(s, t)
<1>1. Consistent(s) /\ Owned(s) /\ Consistent(t) /\ Grows(s, t)
  BY TakeConsistent DEF Sound
<1>2. /\ Known(t) = Known(s)
      /\ t.promises = s.promises /\ t.pairs = s.pairs
      /\ \A i \in 1..Len(t.jobs) : i + 1 \in 1..Len(s.jobs) /\ t.jobs[i] = s.jobs[i + 1]
      /\ \A i \in 1..Len(s.jobs) : i # 1 => i - 1 \in 1..Len(t.jobs) /\ s.jobs[i] = t.jobs[i - 1]
  BY DEF Takes, Known
<1>3. ~Adopting(s.jobs[1])
  BY DEF Reacting, Adopting
<1>5. Owned(t)
  <2>1. ASSUME NEW q \in Known(t), t.promises[q].state = PENDING
        PROVE  \/ \E l \in 1..Len(t.pairs) : Open(t, l) /\ t.pairs[l].promise = q
               \/ \E i \in 1..Len(t.jobs) : Adopting(t.jobs[i]) /\ t.jobs[i].promise = q
    <3>1. \/ \E l \in 1..Len(s.pairs) : Open(s, l) /\ s.pairs[l].promise = q
          \/ \E i \in 1..Len(s.jobs) : i # 1 /\ Adopting(s.jobs[i]) /\ s.jobs[i].promise = q
      BY <1>1, <1>2, <1>3, <2>1 DEF Owned
    <3> QED BY <1>2, <3>1 DEF Open
  <2>2. ASSUME NEW l \in 1..Len(t.pairs), Open(t, l)
        PROVE  /\ t.promises[t.pairs[l].promise].state = PENDING
               /\ \A m \in 1..Len(t.pairs) :
                    Open(t, m) /\ t.pairs[m].promise = t.pairs[l].promise => l = m
               /\ \A i \in 1..Len(t.jobs) : Adopting(t.jobs[i]) => t.jobs[i].promise # t.pairs[l].promise
    <3>1. l \in 1..Len(s.pairs) /\ Open(s, l)
      BY <1>2, <2>2 DEF Open
    <3>2. \A m \in 1..Len(t.pairs) : m \in 1..Len(s.pairs) /\ (Open(t, m) <=> Open(s, m))
      BY <1>2 DEF Open
    <3>3. ASSUME NEW i \in 1..Len(t.jobs), Adopting(t.jobs[i])
          PROVE  t.jobs[i].promise # t.pairs[l].promise
      <4>1. i + 1 \in 1..Len(s.jobs) /\ t.jobs[i] = s.jobs[i + 1]
        BY <1>2
      <4>2. s.jobs[i + 1].promise # s.pairs[l].promise
        BY <1>1, <3>1, <3>3, <4>1 DEF Owned
      <4> QED BY <1>2, <4>1, <4>2
    <3> QED BY <1>1, <1>2, <3>1, <3>2, <3>3 DEF Owned
  <2>3. ASSUME NEW i \in 1..Len(t.jobs), Adopting(t.jobs[i])
        PROVE  /\ t.promises[t.jobs[i].promise].state = PENDING
               /\ \A j \in 1..Len(t.jobs) :
                    Adopting(t.jobs[j]) /\ t.jobs[j].promise = t.jobs[i].promise => i = j
    <3>1. /\ i + 1 \in 1..Len(s.jobs) /\ Adopting(s.jobs[i + 1])
          /\ t.jobs[i] = s.jobs[i + 1]
      BY <1>2, <2>3
    <3>2. t.promises[t.jobs[i].promise].state = PENDING
      BY <1>1, <1>2, <3>1 DEF Owned
    <3>3. ASSUME NEW j \in 1..Len(t.jobs), Adopting(t.jobs[j]), t.jobs[j].promise = t.jobs[i].promise
          PROVE  i = j
      <4>1. /\ j + 1 \in 1..Len(s.jobs) /\ Adopting(s.jobs[j + 1])
            /\ s.jobs[j + 1].promise = s.jobs[i + 1].promise
        BY <1>2, <3>1, <3>3
      <4>2. i + 1 = j + 1
        BY <1>1, <3>1, <4>1 DEF Owned
      <4> QED BY ONLY <4>2, i \in 1..Len(t.jobs), j \in 1..Len(t.jobs)
    <3> QED BY <3>2, <3>3
  <2> QED BY <2>1, <2>2, <2>3 DEF Owned
<1> QED BY <1>1, <1>5 DEF Sound

LEMMA ReceiveSound ==
  ASSUME NEW s, Sound(s), NEW v, Takes(s, v), Adopting(s.jobs[1]),
         NEW held \in BOOLEAN, held => Free(s, s.jobs[1].promise),
         NEW t, AddsPair(v, s.jobs[1].promise, held, t)
  PROVE  Sound(t) /\ Grows(s, v) /\ Grows(v, t) /\ s.jobs[1].promise \in Known(s)
<1> DEFINE p == s.jobs[1].promise
           new == Len(s.pairs) + 1
<1>1. Consistent(s) /\ Owned(s) /\ Consistent(v) /\ Grows(s, v)
  BY TakeConsistent DEF Sound
<1>2. /\ v.promises = s.promises /\ v.pairs = s.pairs /\ v.adopts = s.adopts
      /\ Known(v) = Known(s) /\ 1 \in 1..Len(s.jobs)
      /\ \A i \in 1..Len(v.jobs) : i + 1 \in 1..Len(s.jobs) /\ v.jobs[i] = s.jobs[i + 1]
      /\ \A i \in 1..Len(s.jobs) : i # 1 => i - 1 \in 1..Len(v.jobs) /\ s.jobs[i] = v.jobs[i - 1]
  BY DEF Takes, Known
<1>3. p \in Known(s) /\ p \in Known(v)
  BY <1>1, <1>2 DEF Consistent, InBounds
<1>4. Consistent(t) /\ Grows(v, t)
  <2>1. held => Free(v, p)
    BY <1>2 DEF Free
  <2> QED BY <1>1, <1>3, <2>1, AddPairConsistent
<1>5. /\ t.promises = s.promises /\ t.jobs = v.jobs /\ Known(t) = Known(s)
      /\ Len(t.pairs) = Len(s.pairs) + 1
      /\ \A l \in 1..Len(s.pairs) : t.pairs[l] = s.pairs[l]
      /\ t.pairs[new].promise = p /\ ~t.pairs[new].already
  BY <1>2 DEF AddsPair, Known
<1>6. /\ \A l \in 1..Len(t.pairs) : l \in 1..Len(s.pairs) \/ l = new
      /\ 1..Len(s.pairs) \subseteq 1..Len(t.pairs) /\ new \in 1..Len(t.pairs)
      /\ ~(new \in 1..Len(s.pairs))
  <2>1. Len(s.pairs) \in Nat /\ Len(t.pairs) = Len(s.pairs) + 1
    BY <1>1, <1>5, EngineFacts DEF Consistent
  <2> QED BY ONLY <2>1
<1>7. \A i \in 1..Len(t.jobs) : i + 1 # 1
  OBVIOUS
<1>8. /\ s.promises[p].state = PENDING
      /\ \A i \in 1..Len(s.jobs) : Adopting(s.jobs[i]) /\ s.jobs[i].promise = p => i = 1
      /\ \A l \in 1..Len(s.pairs) : Open(s, l) => s.pairs[l].promise # p
  <2>1. 1 \in 1..Len(s.jobs) /\ Adopting(s.jobs[1]) /\ s.jobs[1].promise = p
    BY <1>2
  <2> HIDE DEF p, new
  <2>2. s.promises[p].state = PENDING
    BY <1>1, <2>1 DEF Owned
  <2>3. ASSUME NEW i \in 1..Len(s.jobs), Adopting(s.jobs[i]), s.jobs[i].promise = p
        PROVE  i = 1
    BY <1>1, <2>1, <2>3 DEF Owned
  <2>4. ASSUME NEW l \in 1..Len(s.pairs), Open(s, l)
        PROVE  s.pairs[l].promise # p
    BY <1>1, <2>1, <2>4 DEF Owned
  <2> QED BY <2>2, <2>3, <2>4
<1> HIDE DEF p, new
<1>8a. s.jobs[1].promise = p
  BY DEF p
<1>9. /\ \A l \in 1..Len(s.pairs) : Open(t, l) <=> Open(s, l)
      /\ Open(t, new)
  BY <1>5, <1>6 DEF Open
<1>10. Owned(t)
  <2>1. ASSUME NEW q \in Known(t), t.promises[q].state = PENDING
        PROVE  \/ \E l \in 1..Len(t.pairs) : Open(t, l) /\ t.pairs[l].promise = q
               \/ \E i \in 1..Len(t.jobs) : Adopting(t.jobs[i]) /\ t.jobs[i].promise = q
    <3>1. CASE q = p
      BY <1>5, <1>6, <1>9, <3>1
    <3>2. CASE q # p
      <4>1. \/ \E l \in 1..Len(s.pairs) : Open(s, l) /\ s.pairs[l].promise = q
            \/ \E i \in 1..Len(s.jobs) : i # 1 /\ Adopting(s.jobs[i]) /\ s.jobs[i].promise = q
        BY <1>1, <1>5, <1>8a, <2>1, <3>2 DEF Owned
      <4>2. CASE \E l \in 1..Len(s.pairs) : Open(s, l) /\ s.pairs[l].promise = q
        BY <1>5, <1>6, <1>9, <4>2
      <4>3. ASSUME NEW i \in 1..Len(s.jobs), i # 1, Adopting(s.jobs[i]), s.jobs[i].promise = q
            PROVE  \E j \in 1..Len(t.jobs) : Adopting(t.jobs[j]) /\ t.jobs[j].promise = q
        <5>1. i - 1 \in 1..Len(t.jobs) /\ t.jobs[i - 1] = s.jobs[i]
          BY <1>2, <1>5, <4>3
        <5> QED BY <4>3, <5>1
      <4> QED BY <4>1, <4>2, <4>3
    <3> QED BY <3>1, <3>2
  <2>2. ASSUME NEW l \in 1..Len(t.pairs), Open(t, l)
        PROVE  /\ t.promises[t.pairs[l].promise].state = PENDING
               /\ \A m \in 1..Len(t.pairs) :
                    Open(t, m) /\ t.pairs[m].promise = t.pairs[l].promise => l = m
               /\ \A i \in 1..Len(t.jobs) : Adopting(t.jobs[i]) => t.jobs[i].promise # t.pairs[l].promise
    <3>1. CASE l = new
      <4>1. ASSUME NEW m \in 1..Len(t.pairs), Open(t, m), t.pairs[m].promise = p
            PROVE  m = new
        BY <1>5, <1>6, <1>8, <1>9, <4>1
      <4>2. ASSUME NEW i \in 1..Len(t.jobs), Adopting(t.jobs[i])
            PROVE  t.jobs[i].promise # p
        <5>1. i + 1 \in 1..Len(s.jobs) /\ t.jobs[i] = s.jobs[i + 1] /\ i + 1 # 1
          BY <1>2, <1>5, <1>7
        <5> QED BY <1>8, <4>2, <5>1
      <4> QED BY <1>5, <1>8, <3>1, <4>1, <4>2
    <3>2. CASE l \in 1..Len(s.pairs)
      <4>1. Open(s, l) /\ t.pairs[l] = s.pairs[l] /\ s.pairs[l].promise # p
        BY <1>5, <1>8, <1>9, <2>2, <3>2
      <4>2. ASSUME NEW m \in 1..Len(t.pairs), Open(t, m), t.pairs[m].promise = s.pairs[l].promise
            PROVE  l = m
        <5>1. m \in 1..Len(s.pairs) /\ Open(s, m) /\ t.pairs[m] = s.pairs[m]
          BY <1>5, <1>6, <1>9, <4>1, <4>2
        <5> QED BY <1>1, <3>2, <4>1, <4>2, <5>1 DEF Owned
      <4>3. ASSUME NEW i \in 1..Len(t.jobs), Adopting(t.jobs[i])
            PROVE  t.jobs[i].promise # s.pairs[l].promise
        <5>1. i + 1 \in 1..Len(s.jobs) /\ t.jobs[i] = s.jobs[i + 1]
          BY <1>2, <1>5
        <5> QED BY <1>1, <3>2, <4>1, <4>3, <5>1 DEF Owned
      <4> QED BY <1>1, <1>5, <3>2, <4>1, <4>2, <4>3 DEF Owned
    <3> QED BY <1>6, <3>1, <3>2
  <2>3. ASSUME NEW i \in 1..Len(t.jobs), Adopting(t.jobs[i])
        PROVE  /\ t.promises[t.jobs[i].promise].state = PENDING
               /\ \A j \in 1..Len(t.jobs) :
                    Adopting(t.jobs[j]) /\ t.jobs[j].promise = t.jobs[i].promise => i = j
    <3>1. /\ i + 1 \in 1..Len(s.jobs) /\ Adopting(s.jobs[i + 1])
          /\ t.jobs[i] = s.jobs[i + 1]
      BY <1>2, <1>5, <2>3
    <3>2. t.promises[t.jobs[i].promise].state = PENDING
      BY <1>1, <1>2, <1>5, <3>1 DEF Owned
    <3>3. ASSUME NEW j \in 1..Len(t.jobs), Adopting(t.jobs[j]), t.jobs[j].promise = t.jobs[i].promise
          PROVE  i = j
      <4>1. /\ j + 1 \in 1..Len(s.jobs) /\ Adopting(s.jobs[j + 1])
            /\ s.jobs[j + 1].promise = s.jobs[i + 1].promise
        BY <1>2, <1>5, <3>1, <3>3
      <4>2. i + 1 = j + 1
        BY <1>1, <3>1, <4>1 DEF Owned
      <4> QED BY ONLY <4>2, i \in 1..Len(t.jobs), j \in 1..Len(t.jobs)
    <3> QED BY <3>2, <3>3
  <2> QED BY <2>1, <2>2, <2>3 DEF Owned
<1> QED BY <1>1, <1>3, <1>4, <1>8a, <1>10 DEF Sound

(* A new promise, pending, with a pair of its own.                           *)
AddsPromise(s, held, t) ==
  LET p == Len(s.promises) + 1
      k == Len(s.pairs) + 1
  IN /\ t \in Engine
     /\ t.jobs = s.jobs /\ t.tracked = s.tracked
     /\ Len(t.promises) = Len(s.promises) + 1
     /\ \A q \in 1..Len(s.promises) : t.promises[q] = s.promises[q]
     /\ t.promises[p] = [state |-> PENDING, reactions |-> <<>>, handled |-> FALSE]
     /\ Len(t.adopts) = Len(s.adopts) + 1
     /\ \A q \in 1..Len(s.adopts) : t.adopts[q] = s.adopts[q]
     /\ t.adopts[Len(s.adopts) + 1] = 0
     /\ Len(t.pairs) = Len(s.pairs) + 1
     /\ \A l \in 1..Len(s.pairs) : t.pairs[l] = s.pairs[l]
     /\ t.pairs[k] = [promise |-> p, already |-> FALSE, held |-> held]

LEMMA NewPromiseFacts ==
  ASSUME NEW s \in Engine, NEW held \in BOOLEAN
  PROVE  AddsPromise(s, held, NewPromise(s, held))
<1> DEFINE new == [state |-> PENDING, reactions |-> <<>>, handled |-> FALSE]
           all == Append(s.promises, new)
           adopts2 == Append(s.adopts, 0)
           p == Len(s.promises) + 1
           v == [s EXCEPT !.promises = all, !.adopts = adopts2]
           t == NewPromise(s, held)
<1>1. new \in PromiseData
  BY DEF PromiseData, States
<1>2. s.promises \in Seq(PromiseData) /\ s.adopts \in Seq(Nat) /\ p \in Nat
  BY EngineFacts
<1>3. t = NewPair(v, p, held)
  BY DEF NewPromise
<1> HIDE DEF new, p, t
<1>4. /\ all \in Seq(PromiseData) /\ Len(all) = Len(s.promises) + 1
      /\ \A q \in 1..Len(s.promises) : all[q] = s.promises[q]
      /\ all[Len(s.promises) + 1] = new
  BY ONLY <1>1, <1>2, AppendFacts
<1>5. /\ adopts2 \in Seq(Nat) /\ Len(adopts2) = Len(s.adopts) + 1
      /\ \A q \in 1..Len(s.adopts) : adopts2[q] = s.adopts[q]
      /\ adopts2[Len(s.adopts) + 1] = 0
  BY ONLY <1>2, 0 \in Nat, AppendFacts
<1> HIDE DEF all, adopts2
<1>6. v.promises = all /\ v.adopts = adopts2 /\ v.jobs = s.jobs
      /\ v.tracked = s.tracked /\ v.pairs = s.pairs
  BY ONLY s \in Engine DEF Engine
<1>7. v \in Engine
  BY ONLY <1>4, <1>5, s \in Engine DEF Engine
<1> HIDE DEF v
<1>8. AddsPair(v, p, held, t)
  BY <1>2, <1>3, <1>7, NewPairFacts
<1>9. AddsPromise(s, held, t)
  BY <1>4, <1>5, <1>6, <1>8 DEF AddsPair, AddsPromise, new, p
<1> QED BY <1>9 DEF t

LEMMA NewPromiseSound ==
  ASSUME NEW s, Sound(s), NEW held, NEW t, AddsPromise(s, held, t)
  PROVE  Sound(t) /\ Grows(s, t)
<1> DEFINE p == Len(s.promises) + 1
           k == Len(s.pairs) + 1
<1>1. /\ s \in Engine /\ InBounds(s) /\ ReactionsLegal(s) /\ Owned(s)
      /\ Handed(s) /\ Adopted(s) /\ Tracked(s)
  BY DEF Sound, Consistent
<1>2. /\ t \in Engine
      /\ t.jobs = s.jobs /\ t.tracked = s.tracked
      /\ Len(t.promises) = Len(s.promises) + 1
      /\ \A q \in Known(s) : t.promises[q] = s.promises[q]
      /\ t.promises[p].state = PENDING /\ t.promises[p].reactions = <<>>
      /\ Len(t.adopts) = Len(t.promises)
      /\ \A q \in Known(s) : t.adopts[q] = s.adopts[q]
      /\ t.adopts[p] = 0
      /\ Len(t.pairs) = Len(s.pairs) + 1
      /\ \A l \in 1..Len(s.pairs) : t.pairs[l] = s.pairs[l]
      /\ t.pairs[k].promise = p /\ ~t.pairs[k].already
  <2>1. Len(s.adopts) = Len(s.promises)
    BY <1>1 DEF InBounds
  <2> QED BY <2>1 DEF AddsPromise, Known
<1>3. /\ Len(s.promises) \in Nat /\ Len(s.pairs) \in Nat
      /\ \A l \in 1..Len(t.pairs) : l \in 1..Len(s.pairs) \/ l = k
      /\ 1..Len(s.pairs) \subseteq 1..Len(t.pairs) /\ k \in 1..Len(t.pairs)
      /\ ~(k \in 1..Len(s.pairs))
      /\ \A q \in Known(t) : q \in Known(s) \/ q = p
      /\ Known(s) \subseteq Known(t) /\ p \in Known(t) /\ ~(p \in Known(s))
      /\ 0..Len(s.promises) \subseteq 0..Len(t.promises) /\ 0 \in 0..Len(t.promises)
  <2>1. /\ Len(s.pairs) \in Nat /\ Len(t.pairs) = Len(s.pairs) + 1
        /\ Len(s.promises) \in Nat /\ Len(t.promises) = Len(s.promises) + 1
    BY <1>1, <1>2, EngineFacts
  <2> QED BY ONLY <2>1 DEF Known
<1> HIDE DEF p, k
<1>3a. t \in Engine /\ t.jobs = s.jobs
  BY ONLY <1>2
<1>3b. \A q \in Known(s) : t.promises[q] = s.promises[q] /\ t.adopts[q] = s.adopts[q]
  BY ONLY <1>2
<1>3c. \A l \in 1..Len(s.pairs) : t.pairs[l] = s.pairs[l]
  BY ONLY <1>2
<1>3d. /\ t.promises[p].state = PENDING /\ t.adopts[p] = 0
       /\ t.pairs[k].promise = p /\ ~t.pairs[k].already
  BY ONLY <1>2
<1>4. /\ \A l \in 1..Len(s.pairs) : Open(t, l) <=> Open(s, l)
      /\ Open(t, k)
      /\ \A l \in 1..Len(s.pairs) : s.pairs[l].promise \in Known(s)
      /\ \A i \in 1..Len(s.jobs) : Adopting(s.jobs[i]) => s.jobs[i].promise \in Known(s)
  BY <1>1, <1>2, <1>3 DEF Open, InBounds
<1>5. Grows(s, t)
  <2>1. Len(s.promises) <= Len(t.promises) /\ Len(s.pairs) <= Len(t.pairs)
    BY <1>2, <1>3
  <2> QED BY <1>2, <2>1 DEF Grows
<1>6. InBounds(t)
  <2>1. \A q \in Known(t) : t.adopts[q] \in 0..Len(t.promises)
    <3>1. \A q \in Known(s) : s.adopts[q] \in 0..Len(s.promises)
      BY ONLY <1>1 DEF InBounds
    <3> QED BY ONLY <1>3, <1>3b, <1>3d, <3>1
  <2>2. \A l \in 1..Len(t.pairs) : t.pairs[l].promise \in Known(t)
    BY ONLY <1>3, <1>3c, <1>3d, <1>4
  <2>3. \A i \in 1..Len(t.jobs) : Adopting(t.jobs[i]) =>
          t.jobs[i].promise \in Known(t) /\ JobFor(t, t.jobs[i])
    <3>1. \A i \in 1..Len(s.jobs) : Adopting(s.jobs[i]) =>
            s.jobs[i].promise \in Known(s) /\ JobFor(s, s.jobs[i])
      BY ONLY <1>1 DEF InBounds
    <3> QED BY ONLY <1>1, <1>3, <1>3a, <1>3b, <1>5, <3>1, JobForKept
  <2> QED BY <1>2, <2>1, <2>2, <2>3 DEF InBounds
<1>7. ReactionsLegal(t)
  <2>1. ASSUME NEW q \in Known(t), NEW i \in 1..Len(t.promises[q].reactions)
        PROVE  Legal(t, t.promises[q].reactions[i]) /\ t.promises[q].reactions[i].source = q
    <3>1. CASE q = p
      BY <1>2, <2>1, <3>1
    <3>2. CASE q \in Known(s)
      <4>1. Legal(s, s.promises[q].reactions[i]) /\ s.promises[q].reactions[i].source = q
        BY <1>1, <1>2, <2>1, <3>2 DEF ReactionsLegal
      <4>2. Legal(t, s.promises[q].reactions[i])
        BY ONLY <1>1, <1>3a, <1>5, <4>1, LegalKept
      <4> QED BY ONLY <1>3b, <3>2, <4>1, <4>2
    <3> QED BY <1>3, <3>1, <3>2
  <2>2. ASSUME NEW i \in 1..Len(t.jobs), Reacting(t.jobs[i])
        PROVE  JobLegal(t, t.jobs[i])
    <3>1. JobLegal(s, s.jobs[i])
      BY <1>1, <1>2, <2>2 DEF ReactionsLegal
    <3> QED BY ONLY <1>1, <1>3a, <1>5, <3>1, JobLegalKept
  <2> QED BY <2>1, <2>2 DEF ReactionsLegal
<1>8. Owned(t)
  <2>1. ASSUME NEW q \in Known(t), t.promises[q].state = PENDING
        PROVE  \/ \E l \in 1..Len(t.pairs) : Open(t, l) /\ t.pairs[l].promise = q
               \/ \E i \in 1..Len(t.jobs) : Adopting(t.jobs[i]) /\ t.jobs[i].promise = q
    <3>1. CASE q = p
      BY <1>2, <1>3, <1>4, <3>1
    <3>2. CASE q \in Known(s)
      <4>1. \/ \E l \in 1..Len(s.pairs) : Open(s, l) /\ s.pairs[l].promise = q
            \/ \E i \in 1..Len(s.jobs) : Adopting(s.jobs[i]) /\ s.jobs[i].promise = q
        BY ONLY <1>1, <1>3b, <2>1, <3>2 DEF Owned
      <4> QED BY ONLY <1>3, <1>3a, <1>3c, <1>4, <4>1
    <3> QED BY <1>3, <3>1, <3>2
  <2>2. ASSUME NEW l \in 1..Len(t.pairs), Open(t, l)
        PROVE  /\ t.promises[t.pairs[l].promise].state = PENDING
               /\ \A m \in 1..Len(t.pairs) :
                    Open(t, m) /\ t.pairs[m].promise = t.pairs[l].promise => l = m
               /\ \A i \in 1..Len(t.jobs) : Adopting(t.jobs[i]) => t.jobs[i].promise # t.pairs[l].promise
    <3>1. CASE l = k
      <4>1. t.promises[t.pairs[l].promise].state = PENDING
        BY ONLY <1>3d, <3>1
      <4>2. ASSUME NEW m \in 1..Len(t.pairs), Open(t, m), t.pairs[m].promise = t.pairs[l].promise
            PROVE  l = m
        <5>1. m \in 1..Len(s.pairs) => t.pairs[m].promise # p
          BY ONLY <1>3, <1>3c, <1>4
        <5> QED BY ONLY <1>3, <1>3d, <3>1, <4>2, <5>1
      <4>3. \A i \in 1..Len(t.jobs) : Adopting(t.jobs[i]) => t.jobs[i].promise # t.pairs[l].promise
        BY ONLY <1>3, <1>3a, <1>3d, <1>4, <3>1
      <4> QED BY ONLY <4>1, <4>2, <4>3
    <3>2. CASE l \in 1..Len(s.pairs)
      <4>1. Open(s, l) /\ t.pairs[l] = s.pairs[l] /\ s.pairs[l].promise \in Known(s)
        BY <1>2, <1>4, <2>2, <3>2
      <4>2. ASSUME NEW m \in 1..Len(t.pairs), Open(t, m), t.pairs[m].promise = s.pairs[l].promise
            PROVE  l = m
        <5>1. m \in 1..Len(s.pairs) /\ Open(s, m) /\ t.pairs[m] = s.pairs[m]
          BY <1>2, <1>3, <1>4, <4>1, <4>2
        <5> QED BY <1>1, <3>2, <4>1, <4>2, <5>1 DEF Owned
      <4>3. /\ s.promises[s.pairs[l].promise].state = PENDING
            /\ \A i \in 1..Len(s.jobs) : Adopting(s.jobs[i]) => s.jobs[i].promise # s.pairs[l].promise
        BY ONLY <1>1, <3>2, <4>1 DEF Owned
      <4>4. t.promises[t.pairs[l].promise].state = PENDING
        BY ONLY <1>3b, <4>1, <4>3
      <4>5. \A i \in 1..Len(t.jobs) : Adopting(t.jobs[i]) => t.jobs[i].promise # t.pairs[l].promise
        BY ONLY <1>3a, <4>1, <4>3
      <4> QED BY ONLY <4>1, <4>2, <4>4, <4>5
    <3> QED BY <1>3, <3>1, <3>2
  <2>3. ASSUME NEW i \in 1..Len(t.jobs), Adopting(t.jobs[i])
        PROVE  /\ t.promises[t.jobs[i].promise].state = PENDING
               /\ \A j \in 1..Len(t.jobs) :
                    Adopting(t.jobs[j]) /\ t.jobs[j].promise = t.jobs[i].promise => i = j
    <3>1. /\ s.promises[s.jobs[i].promise].state = PENDING
          /\ \A j \in 1..Len(s.jobs) :
               Adopting(s.jobs[j]) /\ s.jobs[j].promise = s.jobs[i].promise => i = j
      BY ONLY <1>1, <1>3a, <2>3 DEF Owned
    <3>2. s.jobs[i].promise \in Known(s)
      BY ONLY <1>3a, <1>4, <2>3
    <3> QED BY ONLY <1>3a, <1>3b, <3>1, <3>2
  <2> QED BY <2>1, <2>2, <2>3 DEF Owned
<1>9. Handed(t)
  <2> SUFFICES ASSUME NEW l \in 1..Len(t.pairs), Open(t, l), t.pairs[l].held
               PROVE  Free(t, t.pairs[l].promise)
    BY DEF Handed
  <2>1. CASE l = k
    BY ONLY <1>3d, <2>1 DEF Free
  <2>2. CASE l \in 1..Len(s.pairs)
    <3>1. Open(s, l) /\ s.pairs[l].held /\ t.pairs[l] = s.pairs[l] /\ s.pairs[l].promise \in Known(s)
      BY <1>3c, <1>4, <2>2
    <3>2. Free(s, s.pairs[l].promise)
      BY ONLY <1>1, <2>2, <3>1 DEF Handed
    <3> QED BY ONLY <1>1, <1>3, <1>3b, <1>5, <3>1, <3>2, FreeKept
  <2> QED BY <1>3, <2>1, <2>2
<1>10. Adopted(t)
  <2> SUFFICES ASSUME NEW q \in Known(t), t.adopts[q] # 0, t.promises[q].state # PENDING
               PROVE  t.promises[t.adopts[q]].state \in {t.promises[q].state, FULFILLED}
    BY DEF Adopted
  <2>1. q \in Known(s) /\ s.adopts[q] = t.adopts[q] /\ s.promises[q].state # PENDING
    BY <1>3, <1>3b, <1>3d
  <2>2. s.adopts[q] \in 0..Len(s.promises) /\ s.adopts[q] # 0
    BY <1>1, <2>1 DEF InBounds
  <2>3. s.adopts[q] \in Known(s)
    BY <1>3, <2>2 DEF Known
  <2>4. s.promises[s.adopts[q]].state \in {s.promises[q].state, FULFILLED}
    BY ONLY <1>1, <2>1, <2>2 DEF Adopted
  <2> QED BY ONLY <1>3b, <2>1, <2>3, <2>4
<1>11. Tracked(t)
  <2>1. s.tracked = {q \in Known(s) : s.promises[q].state = REJECTED /\ ~s.promises[q].handled}
    BY ONLY <1>1 DEF Tracked
  <2>2. ASSUME NEW q
        PROVE  q \in s.tracked <=> q \in Known(t) /\ t.promises[q].state = REJECTED /\ ~t.promises[q].handled
    BY ONLY <1>3, <1>3b, <1>3d, <2>1 DEF PENDING, REJECTED
  <2>3. t.tracked = s.tracked
    BY ONLY <1>2
  <2> QED BY ONLY <2>2, <2>3 DEF Tracked
<1> QED
  BY <1>2, <1>5, <1>6, <1>7, <1>8, <1>9, <1>10, <1>11 DEF Sound, Consistent

(* A reaction is registered: it waits, or it becomes a job at once.          *)
Registers(s, p, r, t) ==
  LET promise == s.promises[p]
      after == t.promises[p]
  IN /\ t \in Engine
     /\ t.pairs = s.pairs /\ t.adopts = s.adopts
     /\ Len(t.promises) = Len(s.promises)
     /\ \A q \in Known(s) : q # p => t.promises[q] = s.promises[q]
     /\ after.state = promise.state /\ after.handled = TRUE
     /\ promise.state = PENDING =>
          /\ t.jobs = s.jobs /\ t.tracked = s.tracked
          /\ after.reactions = Append(promise.reactions, r)
     /\ promise.state # PENDING =>
          /\ t.jobs = Append(s.jobs, ReactionJob(r, promise.state))
          /\ t.tracked = IF promise.state = REJECTED /\ ~promise.handled
                         THEN s.tracked \ {p} ELSE s.tracked
          /\ after.reactions = promise.reactions

LEMMA PerformThenFacts ==
  ASSUME NEW s \in Engine, NEW p \in Known(s), NEW r \in Reaction
  PROVE  Registers(s, p, r, PerformThen(s, p, r))
<1> DEFINE promise == s.promises[p]
           t == PerformThen(s, p, r)
<1>1. /\ s.promises \in Seq(PromiseData) /\ p \in 1..Len(s.promises)
      /\ promise \in PromiseData /\ promise.state \in States
      /\ promise.reactions \in Seq(Reaction) /\ s.jobs \in Seq(JobData)
      /\ s.tracked \in SUBSET Nat
  BY EngineFacts, PromiseFacts DEF Known
<1>2. CASE promise.state = PENDING
  <2> DEFINE more == Append(promise.reactions, r)
             after == [promise EXCEPT !.reactions = more, !.handled = TRUE]
             mid == [promise EXCEPT !.reactions = more]
             all == [s.promises EXCEPT ![p] = after]
             half == [s.promises EXCEPT ![p] = mid]
             u == [s EXCEPT !.promises = half]
  <2>1. more \in Seq(Reaction)
    BY <1>1, AppendFacts
  <2>2. u = [s EXCEPT !.promises[p].reactions = Append(@, r)]
    OBVIOUS
  <2>3. t = [u EXCEPT !.promises[p].handled = TRUE]
    BY <1>2, <2>2 DEF PerformThen
  <2> HIDE DEF more, t
  <2>4. /\ after \in PromiseData /\ after.state = promise.state
        /\ after.handled = TRUE /\ after.reactions = more
        /\ mid \in PromiseData /\ [mid EXCEPT !.handled = TRUE] = after
    BY ONLY <1>1, <2>1 DEF PromiseData
  <2> HIDE DEF after, mid, promise
  <2>5. half \in Seq(PromiseData) /\ half[p] = mid /\ [half EXCEPT ![p] = after] = all
    <3>1. s.promises \in [1..Len(s.promises) -> PromiseData] /\ p \in 1..Len(s.promises)
      BY ONLY <1>1
    <3>2. mid \in PromiseData
      BY ONLY <2>4
    <3>3. half \in Seq(PromiseData) /\ half[p] = mid
      BY ONLY <1>1, <3>2, ReplaceFacts
    <3>4. [half EXCEPT ![p] = after] = all
      BY ONLY <3>1
    <3> QED BY ONLY <3>3, <3>4
  <2> HIDE DEF half
  <2>6. u.promises = half /\ u \in Engine
    BY <2>5 DEF Engine
  <2>7. t = [u EXCEPT !.promises = all]
    BY ONLY <2>3, <2>4, <2>5, <2>6
  <2>8. /\ all \in Seq(PromiseData) /\ Len(all) = Len(s.promises)
        /\ \A q \in 1..Len(s.promises) : q # p => all[q] = s.promises[q]
        /\ all[p] = after
    BY ONLY <1>1, <2>4, ReplaceFacts
  <2> HIDE DEF all
  <2>9. t = [s EXCEPT !.promises = all]
    BY ONLY <2>7, s \in Engine DEF u, Engine
  <2> HIDE DEF u
  <2>10. /\ t.promises = all /\ t.pairs = s.pairs /\ t.adopts = s.adopts
         /\ t.jobs = s.jobs /\ t.tracked = s.tracked
    BY ONLY <2>9, s \in Engine DEF Engine
  <2>11. t \in Engine
    BY ONLY <2>8, <2>9, s \in Engine DEF Engine
  <2> QED BY <1>2, <2>4, <2>8, <2>10, <2>11 DEF Registers, Known, t, promise, more
<1>3. CASE promise.state # PENDING
  <2> DEFINE after == [promise EXCEPT !.handled = TRUE]
             all == [s.promises EXCEPT ![p] = after]
             job == ReactionJob(r, promise.state)
             queue == Append(s.jobs, job)
             told == IF promise.state = REJECTED /\ ~promise.handled THEN s.tracked \ {p} ELSE s.tracked
             u == [s EXCEPT !.jobs = queue, !.tracked = told]
  <2>1. t = [u EXCEPT !.promises[p].handled = TRUE]
    BY <1>3 DEF PerformThen
  <2>2. job \in JobData
    BY <1>1 DEF ReactionJob, JobData
  <2> HIDE DEF job, t
  <2>3. queue \in Seq(JobData)
    BY ONLY <1>1, <2>2, AppendFacts
  <2>4. told \in SUBSET Nat
    BY <1>1
  <2>5. /\ after \in PromiseData /\ after.state = promise.state
        /\ after.handled = TRUE /\ after.reactions = promise.reactions
    BY ONLY <1>1 DEF PromiseData
  <2>6. /\ all \in Seq(PromiseData) /\ Len(all) = Len(s.promises)
        /\ \A q \in 1..Len(s.promises) : q # p => all[q] = s.promises[q]
        /\ all[p] = after
    <3> HIDE DEF after
    <3> QED BY ONLY <1>1, <2>5, ReplaceFacts
  <2> HIDE DEF queue, told
  <2>7. u.promises = s.promises
    BY ONLY s \in Engine DEF Engine
  <2>8. t = [u EXCEPT !.promises = all]
    BY <2>1, <2>7
  <2> HIDE DEF after, promise, all
  <2>9. t = [s EXCEPT !.jobs = queue, !.tracked = told, !.promises = all]
    BY ONLY <2>8, s \in Engine DEF u, Engine
  <2> HIDE DEF u
  <2>10. /\ t.promises = all /\ t.pairs = s.pairs /\ t.adopts = s.adopts
         /\ t.jobs = queue /\ t.tracked = told
    BY ONLY <2>9, s \in Engine DEF Engine
  <2>11. t \in Engine
    BY ONLY <2>3, <2>4, <2>6, <2>9, s \in Engine DEF Engine
  <2> QED BY <1>3, <2>5, <2>6, <2>10, <2>11 DEF Registers, Known, t, promise, queue, job, told
<1> QED BY <1>2, <1>3

LEMMA PerformThenSound ==
  ASSUME NEW s, Sound(s), NEW p \in Known(s), NEW r, Legal(s, r), r.source = p,
         NEW t, Registers(s, p, r, t)
  PROVE  Sound(t) /\ Grows(s, t)
<1> DEFINE n == Len(s.jobs)
           state == s.promises[p].state
<1>1. /\ s \in Engine /\ InBounds(s) /\ ReactionsLegal(s) /\ Owned(s)
      /\ Handed(s) /\ Adopted(s) /\ Tracked(s)
  BY DEF Sound, Consistent
<1>2. /\ t \in Engine
      /\ t.pairs = s.pairs /\ t.adopts = s.adopts
      /\ Len(t.promises) = Len(s.promises) /\ Known(t) = Known(s)
      /\ \A q \in Known(s) : q # p => t.promises[q] = s.promises[q]
      /\ \A q \in Known(s) : t.promises[q].state = s.promises[q].state
      /\ t.promises[p].handled = TRUE
  BY DEF Registers, Known
<1>3. /\ s.jobs \in Seq(JobData) /\ n \in Nat /\ r \in Reaction /\ p \in 1..Len(s.promises)
      /\ s.promises[p].reactions \in Seq(Reaction) /\ state \in States
      /\ Len(s.promises) \in Nat /\ Len(s.pairs) \in Nat
  BY <1>1, EngineFacts, PromiseFacts DEF Legal, Known
<1>4. /\ \A i \in 1..Len(t.jobs) :
           \/ i \in 1..n /\ t.jobs[i] = s.jobs[i]
           \/ state # PENDING /\ t.jobs[i] = ReactionJob(r, state)
      /\ 1..n \subseteq 1..Len(t.jobs)
      /\ \A i \in 1..n : t.jobs[i] = s.jobs[i]
  <2>1. CASE state = PENDING
    BY <2>1 DEF Registers
  <2>2. CASE state # PENDING
    <3> DEFINE job == ReactionJob(r, state)
    <3>1. t.jobs = Append(s.jobs, job)
      BY <2>2 DEF Registers
    <3>2. job \in JobData
      BY <1>3 DEF ReactionJob, JobData
    <3> HIDE DEF job
    <3>3. /\ Len(t.jobs) = n + 1
          /\ \A i \in 1..n : t.jobs[i] = s.jobs[i]
          /\ t.jobs[n + 1] = job
      BY <1>3, <3>1, <3>2, AppendFacts
    <3>4. 1..n \subseteq 1..Len(t.jobs) /\ \A i \in 1..Len(t.jobs) : i \in 1..n \/ i = n + 1
      BY ONLY <1>3, <3>3
    <3> QED BY <2>2, <3>3, <3>4 DEF job
  <2> QED BY <2>1, <2>2
<1> HIDE DEF n, state
<1>4a. n = Len(s.jobs) /\ state = s.promises[p].state
  BY DEF n, state
<1>5. \A i \in 1..Len(t.jobs) : Adopting(t.jobs[i]) =>
        i \in 1..Len(s.jobs) /\ t.jobs[i] = s.jobs[i]
  <2>1. ~Adopting(ReactionJob(r, state))
    BY DEF Adopting, ReactionJob
  <2> QED BY <1>4, <1>4a, <2>1
<1>6. \A l \in 1..Len(s.pairs) : Open(t, l) <=> Open(s, l)
  BY <1>2 DEF Open
<1>7. Grows(s, t)
  BY <1>2, <1>3 DEF Grows
<1>8. InBounds(t)
  <2>1. \A job : job.promise \in Known(s) /\ JobFor(s, job) => JobFor(t, job)
    BY <1>1, <1>2, <1>3, <1>7, JobForKept
  <2> QED BY <1>1, <1>2, <1>5, <2>1 DEF InBounds
<1>9. Legal(t, r)
  BY <1>1, <1>2, <1>7, LegalKept
<1>10. ReactionsLegal(t)
  <2>1. ASSUME NEW q \in Known(t), NEW i \in 1..Len(t.promises[q].reactions)
        PROVE  Legal(t, t.promises[q].reactions[i]) /\ t.promises[q].reactions[i].source = q
    <3>1. CASE i \in 1..Len(s.promises[q].reactions)
               /\ t.promises[q].reactions[i] = s.promises[q].reactions[i]
      <4>1. Legal(s, s.promises[q].reactions[i]) /\ s.promises[q].reactions[i].source = q
        BY <1>1, <1>2, <2>1, <3>1 DEF ReactionsLegal
      <4> QED BY <1>1, <1>2, <1>7, <3>1, <4>1, LegalKept
    <3>2. CASE q # p
      BY <1>2, <2>1, <3>1, <3>2
    <3>3. CASE q = p /\ state # PENDING
      BY <1>4a, <2>1, <3>1, <3>3 DEF Registers
    <3>4. CASE q = p /\ state = PENDING
      <4> DEFINE old == s.promises[p].reactions
      <4>1. t.promises[q].reactions = Append(old, r) /\ old \in Seq(Reaction)
        BY <1>3, <1>4a, <3>4 DEF Registers
      <4> HIDE DEF old
      <4>2. /\ Len(old) \in Nat /\ Len(t.promises[q].reactions) = Len(old) + 1
            /\ \A j \in 1..Len(old) : t.promises[q].reactions[j] = old[j]
            /\ t.promises[q].reactions[Len(old) + 1] = r
        BY <1>3, <4>1, AppendFacts
      <4>3. i \in 1..Len(old) \/ i = Len(old) + 1
        BY ONLY <2>1, <4>2
      <4>4. CASE i \in 1..Len(old)
        BY <3>1, <3>4, <4>2, <4>4 DEF old
      <4>5. CASE i = Len(old) + 1
        BY <1>9, <3>4, <4>2, <4>5
      <4> QED BY <4>3, <4>4, <4>5
    <3> QED BY <3>2, <3>3, <3>4
  <2>2. ASSUME NEW i \in 1..Len(t.jobs), Reacting(t.jobs[i])
        PROVE  JobLegal(t, t.jobs[i])
    <3>1. CASE i \in 1..n /\ t.jobs[i] = s.jobs[i]
      <4>1. JobLegal(s, s.jobs[i])
        BY <1>1, <1>4a, <2>2, <3>1 DEF ReactionsLegal
      <4> QED BY <1>1, <1>2, <1>7, <3>1, <4>1, JobLegalKept
    <3>2. CASE state # PENDING /\ t.jobs[i] = ReactionJob(r, state)
      <4>1. t.jobs[i].reaction = r /\ t.jobs[i].state = state
        BY <3>2 DEF ReactionJob
      <4> QED BY <1>2, <1>4a, <1>9, <3>2, <4>1 DEF JobLegal
    <3> QED BY <1>4, <3>1, <3>2
  <2> QED BY <2>1, <2>2 DEF ReactionsLegal
<1>11. Owned(t)
  <2>1. ASSUME NEW q \in Known(t), t.promises[q].state = PENDING
        PROVE  \/ \E l \in 1..Len(t.pairs) : Open(t, l) /\ t.pairs[l].promise = q
               \/ \E i \in 1..Len(t.jobs) : Adopting(t.jobs[i]) /\ t.jobs[i].promise = q
    <3>1. \/ \E l \in 1..Len(s.pairs) : Open(s, l) /\ s.pairs[l].promise = q
          \/ \E i \in 1..Len(s.jobs) : Adopting(s.jobs[i]) /\ s.jobs[i].promise = q
      BY <1>1, <1>2, <2>1 DEF Owned
    <3> QED BY <1>2, <1>4, <1>4a, <1>6, <3>1
  <2>2. ASSUME NEW l \in 1..Len(t.pairs), Open(t, l)
        PROVE  /\ t.promises[t.pairs[l].promise].state = PENDING
               /\ \A m \in 1..Len(t.pairs) :
                    Open(t, m) /\ t.pairs[m].promise = t.pairs[l].promise => l = m
               /\ \A i \in 1..Len(t.jobs) : Adopting(t.jobs[i]) => t.jobs[i].promise # t.pairs[l].promise
    <3>1. l \in 1..Len(s.pairs) /\ Open(s, l) /\ s.pairs[l].promise \in Known(s)
      BY <1>1, <1>2, <1>6, <2>2 DEF InBounds
    <3>2. ASSUME NEW i \in 1..Len(t.jobs), Adopting(t.jobs[i])
          PROVE  t.jobs[i].promise # s.pairs[l].promise
      <4>1. i \in 1..Len(s.jobs) /\ t.jobs[i] = s.jobs[i]
        BY <1>5, <3>2
      <4> QED BY <1>1, <3>1, <3>2, <4>1 DEF Owned
    <3> QED BY <1>1, <1>2, <1>6, <3>1, <3>2 DEF Owned
  <2>3. ASSUME NEW i \in 1..Len(t.jobs), Adopting(t.jobs[i])
        PROVE  /\ t.promises[t.jobs[i].promise].state = PENDING
               /\ \A j \in 1..Len(t.jobs) :
                    Adopting(t.jobs[j]) /\ t.jobs[j].promise = t.jobs[i].promise => i = j
    <3>1. i \in 1..Len(s.jobs) /\ t.jobs[i] = s.jobs[i] /\ s.jobs[i].promise \in Known(s)
      BY <1>1, <1>5, <2>3 DEF InBounds
    <3>2. ASSUME NEW j \in 1..Len(t.jobs), Adopting(t.jobs[j]), t.jobs[j].promise = t.jobs[i].promise
          PROVE  i = j
      <4>1. j \in 1..Len(s.jobs) /\ t.jobs[j] = s.jobs[j]
        BY <1>5, <3>2
      <4> QED BY <1>1, <2>3, <3>1, <3>2, <4>1 DEF Owned
    <3> QED BY <1>1, <1>2, <2>3, <3>1, <3>2 DEF Owned
  <2> QED BY <2>1, <2>2, <2>3 DEF Owned
<1>12. Handed(t)
  <2>1. \A l \in 1..Len(s.pairs) : Open(s, l) /\ s.pairs[l].held =>
          s.pairs[l].promise \in Known(s) /\ Free(s, s.pairs[l].promise)
    BY <1>1 DEF Handed, InBounds
  <2>2. \A q \in Known(s) : Free(s, q) => Free(t, q)
    BY <1>1, <1>2, <1>3, <1>7, FreeKept
  <2> QED BY <1>2, <1>6, <2>1, <2>2 DEF Handed
<1>13. Adopted(t)
  <2> SUFFICES ASSUME NEW q \in Known(s), s.adopts[q] # 0, s.promises[q].state # PENDING
               PROVE  t.promises[s.adopts[q]].state \in {t.promises[q].state, FULFILLED}
    BY <1>2 DEF Adopted
  <2>1. s.adopts[q] \in 0..Len(s.promises) /\ s.adopts[q] # 0
    BY <1>1 DEF InBounds
  <2>2. s.adopts[q] \in Known(s)
    BY <1>3, <2>1 DEF Known
  <2> QED BY <1>1, <1>2, <2>2 DEF Adopted
<1>14. Tracked(t)
  <2>1. t.tracked = IF state = REJECTED /\ ~s.promises[p].handled THEN s.tracked \ {p} ELSE s.tracked
    BY <1>4a DEF Registers, PENDING, REJECTED
  <2>2. \A q \in Known(s) : q # p => t.promises[q].handled = s.promises[q].handled
    BY <1>2
  <2>3. s.tracked = {q \in Known(s) : s.promises[q].state = REJECTED /\ ~s.promises[q].handled}
    BY <1>1 DEF Tracked
  <2> QED BY <1>2, <1>4a, <2>1, <2>2, <2>3 DEF Tracked
<1> QED
  BY <1>2, <1>7, <1>8, <1>10, <1>11, <1>12, <1>13, <1>14 DEF Sound, Consistent
-----------------------------------------------------------------------------
(* The order of the reactions, under each function.                          *)

LEMMA SettleInOrder ==
  ASSUME NEW s \in Engine, NEW p \in Known(s), NEW state, state # PENDING,
         s.promises[p].state = PENDING,
         \A i \in 1..Len(s.promises[p].reactions) : s.promises[p].reactions[i].source = p,
         NEW t, Settles(s, p, state, t),
         NEW q \in Known(s), NEW n \in Nat, NEW m \in Nat, InOrder(s, q, n, m)
  PROVE  InOrder(t, q, n, m)
<1> DEFINE waiting == s.promises[p].reactions
           l == Len(s.jobs)
<1>1. /\ s.jobs \in Seq(JobData) /\ l \in Nat /\ Len(waiting) \in Nat
  BY EngineFacts, PromiseFacts DEF Known
<1>2. /\ Len(t.jobs) = l + Len(waiting)
      /\ \A i \in 1..l : t.jobs[i] = s.jobs[i]
      /\ \A i \in 1..Len(waiting) : t.jobs[l + i] = ReactionJob(waiting[i], state)
      /\ \A i \in 1..Len(waiting) : waiting[i].source = p
      /\ q # p => t.promises[q] = s.promises[q]
      /\ t.promises[p].state = state /\ t.promises[p].reactions = <<>>
  BY DEF Settles
<1> HIDE DEF l, waiting
<1>2a. l = Len(s.jobs) /\ waiting = s.promises[p].reactions
  BY DEF l, waiting
<1>3. /\ \A i \in 1..Len(t.jobs) : i \in 1..l \/ (i > l /\ i - l \in 1..Len(waiting) /\ i = l + (i - l))
      /\ 1..l \subseteq 1..Len(t.jobs)
      /\ \A i \in 1..Len(waiting) : l + i \in 1..Len(t.jobs)
  <2>1. l \in Nat /\ Len(waiting) \in Nat /\ Len(t.jobs) = l + Len(waiting)
    BY <1>1, <1>2
  <2> QED BY ONLY <2>1
<1>4. \A i \in 1..Len(waiting) :
        /\ Reacting(t.jobs[l + i]) /\ t.jobs[l + i].reaction = waiting[i]
        /\ t.jobs[l + i].reaction.source = p
  <2> TAKE i \in 1..Len(waiting)
  <2>1. t.jobs[l + i] = ReactionJob(waiting[i], state) /\ waiting[i].source = p
    BY <1>2
  <2> QED BY ONLY <2>1 DEF Reacting, ReactionJob
<1>5. CASE q = p
  <2>1. Waiting(s, p, n, m)
    BY <1>5 DEF InOrder
  <2>2. /\ \A i \in 1..l : ~QueuedFor(t, p, i)
        /\ m = 0 /\ Len(waiting) = n /\ \A i \in 1..n : waiting[i].index = i
    BY <1>2, <1>2a, <2>1 DEF Waiting, QueuedFor
  <2>3. \A i \in 1..n : QueuedFor(t, p, l + i) /\ t.jobs[l + i].reaction.index = i
    BY <1>4, <2>2 DEF QueuedFor
  <2>4. \A i \in 1..Len(t.jobs) : QueuedFor(t, p, i) =>
          i - l \in 1..n /\ t.jobs[i].reaction.index = i - l
    BY <1>3, <2>2, <2>3
  <2>5. \A i \in 1..Len(t.jobs) : QueuedFor(t, p, i) => t.jobs[i].reaction.index \in (m + 1)..n
    BY <2>2, <2>4
  <2>6. \A x \in (m + 1)..n :
          \E i \in 1..Len(t.jobs) : QueuedFor(t, p, i) /\ t.jobs[i].reaction.index = x
    BY <1>3, <2>2, <2>3
  <2>7. \A i, j \in 1..Len(t.jobs) : QueuedFor(t, p, i) /\ QueuedFor(t, p, j) /\ i < j =>
          t.jobs[i].reaction.index < t.jobs[j].reaction.index
    <3> TAKE i, j \in 1..Len(t.jobs)
    <3> HAVE QueuedFor(t, p, i) /\ QueuedFor(t, p, j) /\ i < j
    <3>1. t.jobs[i].reaction.index = i - l /\ t.jobs[j].reaction.index = j - l
      BY <2>4
    <3>2. i - l < j - l
      BY <1>1
    <3> QED BY <3>1, <3>2
  <2>8. m <= n
    BY <2>2
  <2> QED BY <1>2, <1>5, <2>5, <2>6, <2>7, <2>8 DEF InOrder, Queued
<1>6. CASE q # p
  <2>1. /\ \A i \in 1..Len(t.jobs) : QueuedFor(t, q, i) =>
             i \in 1..l /\ QueuedFor(s, q, i) /\ t.jobs[i] = s.jobs[i]
        /\ \A i \in 1..l : QueuedFor(s, q, i) =>
             i \in 1..Len(t.jobs) /\ QueuedFor(t, q, i) /\ t.jobs[i] = s.jobs[i]
    BY <1>2, <1>3, <1>4, <1>6 DEF QueuedFor
  <2>2. CASE s.promises[q].state = PENDING
    BY <1>2, <1>2a, <1>6, <2>1, <2>2 DEF InOrder, Waiting
  <2>3. CASE s.promises[q].state # PENDING
    <3>1. Queued(s, q, n, m) /\ t.promises[q] = s.promises[q]
      BY <1>2, <1>6, <2>3 DEF InOrder
    <3>2. /\ t.promises[q].reactions = <<>> /\ m <= n
          /\ \A i \in 1..Len(t.jobs) : QueuedFor(t, q, i) => t.jobs[i].reaction.index \in (m + 1)..n
      BY ONLY <1>2a, <2>1, <3>1 DEF Queued
    <3>3. ASSUME NEW x \in (m + 1)..n
          PROVE  \E i \in 1..Len(t.jobs) : QueuedFor(t, q, i) /\ t.jobs[i].reaction.index = x
      <4>1. PICK i \in 1..l : QueuedFor(s, q, i) /\ s.jobs[i].reaction.index = x
        BY ONLY <1>2a, <3>1, <3>3 DEF Queued
      <4> QED BY ONLY <2>1, <4>1
    <3>4. ASSUME NEW i \in 1..Len(t.jobs), NEW j \in 1..Len(t.jobs),
                 QueuedFor(t, q, i), QueuedFor(t, q, j), i < j
          PROVE  t.jobs[i].reaction.index < t.jobs[j].reaction.index
      <4>1. /\ i \in 1..l /\ QueuedFor(s, q, i) /\ t.jobs[i] = s.jobs[i]
            /\ j \in 1..l /\ QueuedFor(s, q, j) /\ t.jobs[j] = s.jobs[j]
        BY ONLY <2>1, <3>4
      <4> QED BY ONLY <1>2a, <3>1, <3>4, <4>1 DEF Queued
    <3>5. Queued(t, q, n, m)
      BY ONLY <3>2, <3>3, <3>4 DEF Queued
    <3> QED BY ONLY <2>3, <3>1, <3>5 DEF InOrder
  <2> QED BY <2>2, <2>3
<1> QED BY <1>5, <1>6

\* From s to t only jobs that are not for reactions of q come or go, in any
\* places that keep the order of the others
LEMMA SameJobsInOrder ==
  ASSUME NEW s, NEW t, NEW q, NEW n, NEW m, InOrder(s, q, n, m),
         t.promises[q].state = s.promises[q].state,
         t.promises[q].reactions = s.promises[q].reactions,
         NEW d \in Int,
         \A i \in 1..Len(t.jobs) : QueuedFor(t, q, i) =>
           i + d \in 1..Len(s.jobs) /\ QueuedFor(s, q, i + d)
             /\ t.jobs[i].reaction = s.jobs[i + d].reaction,
         \A i \in 1..Len(s.jobs) : QueuedFor(s, q, i) =>
           i - d \in 1..Len(t.jobs) /\ QueuedFor(t, q, i - d)
             /\ s.jobs[i].reaction = t.jobs[i - d].reaction
  PROVE  InOrder(t, q, n, m)
<1>1. CASE s.promises[q].state = PENDING
  BY <1>1 DEF InOrder, Waiting
<1>2. CASE s.promises[q].state # PENDING
  <2>1. Queued(s, q, n, m)
    BY <1>2 DEF InOrder
  <2>2. ASSUME NEW i \in 1..Len(t.jobs), NEW j \in 1..Len(t.jobs),
               QueuedFor(t, q, i), QueuedFor(t, q, j), i < j
        PROVE  t.jobs[i].reaction.index < t.jobs[j].reaction.index
    <3>1. i + d < j + d
      BY <2>2
    <3>2. /\ i + d \in 1..Len(s.jobs) /\ QueuedFor(s, q, i + d)
          /\ j + d \in 1..Len(s.jobs) /\ QueuedFor(s, q, j + d)
          /\ t.jobs[i].reaction = s.jobs[i + d].reaction
          /\ t.jobs[j].reaction = s.jobs[j + d].reaction
      BY <2>2
    <3> QED BY <2>1, <3>1, <3>2 DEF Queued
  <2>3. \A i \in 1..Len(t.jobs) : QueuedFor(t, q, i) => t.jobs[i].reaction.index \in (m + 1)..n
    BY <2>1 DEF Queued
  <2>4. \A x \in (m + 1)..n :
          \E i \in 1..Len(t.jobs) : QueuedFor(t, q, i) /\ t.jobs[i].reaction.index = x
    BY <2>1 DEF Queued
  <2> QED BY <1>2, <2>1, <2>2, <2>3, <2>4 DEF InOrder, Queued
<1> QED BY <1>1, <1>2

LEMMA HandOverInOrder ==
  ASSUME NEW s \in Engine, NEW k, NEW of, NEW t, HandsOver(s, k, of, t),
         NEW q, NEW n, NEW m, InOrder(s, q, n, m)
  PROVE  InOrder(t, q, n, m)
<1>1. /\ t.promises = s.promises /\ Len(t.jobs) = Len(s.jobs) + 1
      /\ \A i \in 1..Len(s.jobs) : t.jobs[i] = s.jobs[i]
      /\ ~Reacting(t.jobs[Len(s.jobs) + 1])
  BY DEF HandsOver, Reacting
<1>2. Len(s.jobs) \in Nat
  BY EngineFacts
<1>3. /\ \A i \in 1..Len(t.jobs) : i \in 1..Len(s.jobs) \/ i = Len(s.jobs) + 1
      /\ 1..Len(s.jobs) \subseteq 1..Len(t.jobs)
      /\ \A i \in 1..Len(t.jobs) : i + 0 = i /\ i - 0 = i
  BY ONLY <1>1, <1>2
<1>4. /\ \A i \in 1..Len(t.jobs) : QueuedFor(t, q, i) =>
           i + 0 \in 1..Len(s.jobs) /\ QueuedFor(s, q, i + 0)
             /\ t.jobs[i].reaction = s.jobs[i + 0].reaction
      /\ \A i \in 1..Len(s.jobs) : QueuedFor(s, q, i) =>
           i - 0 \in 1..Len(t.jobs) /\ QueuedFor(t, q, i - 0)
             /\ s.jobs[i].reaction = t.jobs[i - 0].reaction
  BY <1>1, <1>3 DEF QueuedFor
<1>5. 0 \in Int
  OBVIOUS
<1> QED BY <1>1, <1>4, <1>5, SameJobsInOrder

LEMMA TakeInOrder ==
  ASSUME NEW s \in Engine, NEW t, Takes(s, t),
         NEW q, NEW n \in Nat, NEW m \in Nat, InOrder(s, q, n, m)
  PROVE  /\ ~QueuedFor(s, q, 1) => InOrder(t, q, n, m)
         /\ QueuedFor(s, q, 1) => InOrder(t, q, n, m + 1)
<1>1. /\ t.promises = s.promises /\ t \in Engine /\ 1 \in 1..Len(s.jobs)
      /\ \A i \in 1..Len(t.jobs) : i + 1 \in 1..Len(s.jobs) /\ t.jobs[i] = s.jobs[i + 1]
      /\ \A i \in 1..Len(s.jobs) : i # 1 => i - 1 \in 1..Len(t.jobs) /\ s.jobs[i] = t.jobs[i - 1]
  BY DEF Takes
<1>2. ASSUME ~QueuedFor(s, q, 1) PROVE InOrder(t, q, n, m)
  <2>1. \A i \in 1..Len(t.jobs) : QueuedFor(t, q, i) =>
          i + 1 \in 1..Len(s.jobs) /\ QueuedFor(s, q, i + 1)
            /\ t.jobs[i].reaction = s.jobs[i + 1].reaction
    BY <1>1 DEF QueuedFor
  <2>2. \A i \in 1..Len(s.jobs) : QueuedFor(s, q, i) =>
          i - 1 \in 1..Len(t.jobs) /\ QueuedFor(t, q, i - 1)
            /\ s.jobs[i].reaction = t.jobs[i - 1].reaction
    BY <1>1, <1>2 DEF QueuedFor
  <2>3. 1 \in Int
    OBVIOUS
  <2> QED BY <1>1, <2>1, <2>2, <2>3, SameJobsInOrder
<1>3. ASSUME QueuedFor(s, q, 1) PROVE InOrder(t, q, n, m + 1)
  <2>1. s.promises[q].state # PENDING
    BY <1>1, <1>3 DEF InOrder, Waiting
  <2>2. Queued(s, q, n, m)
    BY <2>1 DEF InOrder
  <2> DEFINE first == s.jobs[1].reaction.index
  <2>3. first \in (m + 1)..n
    BY <1>1, <1>3, <2>2 DEF Queued
  <2>4. ASSUME NEW i \in 1..Len(s.jobs), QueuedFor(s, q, i), i # 1
        PROVE  first < s.jobs[i].reaction.index
    <3>1. 1 < i
      BY ONLY <2>4
    <3> HIDE DEF first
    <3>2. s.jobs[1].reaction.index < s.jobs[i].reaction.index
      BY ONLY <1>1, <1>3, <2>2, <2>4, <3>1 DEF Queued
    <3> QED BY <3>2 DEF first
  <2>5. first = m + 1
    <3>1. PICK i \in 1..Len(s.jobs) : QueuedFor(s, q, i) /\ s.jobs[i].reaction.index = m + 1
      <4>1. m + 1 \in (m + 1)..n
        BY <2>3
      <4> QED BY <2>2, <4>1 DEF Queued
    <3>2. CASE i = 1
      BY <3>1, <3>2
    <3>3. CASE i # 1
      <4>1. first < m + 1
        BY <2>4, <3>1, <3>3
      <4> QED BY <2>3, <4>1
    <3> QED BY <3>2, <3>3
  <2>6. m + 1 <= n
    BY <2>3
  <2> HIDE DEF first
  <2>7. ASSUME NEW i \in 1..Len(t.jobs), QueuedFor(t, q, i)
        PROVE  /\ t.jobs[i].reaction.index \in (m + 1 + 1)..n
               /\ QueuedFor(s, q, i + 1) /\ t.jobs[i] = s.jobs[i + 1]
    <3>1. i + 1 \in 1..Len(s.jobs) /\ QueuedFor(s, q, i + 1) /\ i + 1 # 1
          /\ t.jobs[i] = s.jobs[i + 1]
      BY <1>1, <2>7 DEF QueuedFor
    <3>2. s.jobs[i + 1].reaction.index \in (m + 1)..n /\ first < s.jobs[i + 1].reaction.index
      BY <2>2, <2>4, <3>1 DEF Queued
    <3>3. s.jobs[i + 1].reaction.index \in (m + 1 + 1)..n
      BY <2>5, <3>2
    <3> QED BY <3>1, <3>3
  <2>8. ASSUME NEW x \in (m + 1 + 1)..n
        PROVE  \E i \in 1..Len(t.jobs) : QueuedFor(t, q, i) /\ t.jobs[i].reaction.index = x
    <3>1. x \in (m + 1)..n /\ x # m + 1
      OBVIOUS
    <3>2. PICK i \in 1..Len(s.jobs) : QueuedFor(s, q, i) /\ s.jobs[i].reaction.index = x
      BY <2>2, <3>1 DEF Queued
    <3>3. i # 1
      BY <2>5, <3>1, <3>2 DEF first
    <3>4. i - 1 \in 1..Len(t.jobs) /\ t.jobs[i - 1] = s.jobs[i]
      BY <1>1, <3>3
    <3> QED BY <3>2, <3>4 DEF QueuedFor
  <2>9. ASSUME NEW i \in 1..Len(t.jobs), NEW j \in 1..Len(t.jobs),
               QueuedFor(t, q, i), QueuedFor(t, q, j), i < j
        PROVE  t.jobs[i].reaction.index < t.jobs[j].reaction.index
    <3>1. i + 1 < j + 1
      BY <2>9
    <3>2. /\ i + 1 \in 1..Len(s.jobs) /\ QueuedFor(s, q, i + 1) /\ t.jobs[i] = s.jobs[i + 1]
          /\ j + 1 \in 1..Len(s.jobs) /\ QueuedFor(s, q, j + 1) /\ t.jobs[j] = s.jobs[j + 1]
      BY <1>1, <2>7, <2>9
    <3> QED BY <2>2, <3>1, <3>2 DEF Queued
  <2>10. Queued(t, q, n, m + 1)
    BY <1>1, <2>2, <2>6, <2>7, <2>8, <2>9 DEF Queued
  <2> QED BY <1>1, <2>1, <2>10 DEF InOrder
<1> QED BY <1>2, <1>3

LEMMA RegisterInOrder ==
  ASSUME NEW s \in Engine, NEW p \in Known(s), NEW r \in Reaction, r.source = p,
         NEW t, Registers(s, p, r, t),
         NEW q \in Known(s), NEW n \in Nat, NEW m \in Nat, InOrder(s, q, n, m),
         q = p => r.index = n + 1
  PROVE  InOrder(t, q, IF q = p THEN n + 1 ELSE n, m)
<1> DEFINE l == Len(s.jobs)
           state == s.promises[p].state
           job == ReactionJob(r, state)
           waiting == s.promises[p].reactions
<1>1. /\ s.jobs \in Seq(JobData) /\ l \in Nat /\ state \in States
      /\ waiting \in Seq(Reaction) /\ Len(waiting) \in Nat
  BY EngineFacts, PromiseFacts DEF Known
<1>2. job \in JobData /\ Reacting(job) /\ job.reaction = r
  BY <1>1 DEF ReactionJob, JobData, Reacting
<1>3. /\ t.promises[p].state = state /\ (q # p => t.promises[q] = s.promises[q])
      /\ state = PENDING => t.jobs = s.jobs /\ t.promises[p].reactions = Append(waiting, r)
      /\ state # PENDING => t.jobs = Append(s.jobs, job) /\ t.promises[p].reactions = waiting
  BY DEF Registers
<1>4. state = s.promises[p].state /\ l = Len(s.jobs) /\ waiting = s.promises[p].reactions
  OBVIOUS
<1> HIDE DEF l, state, job, waiting
<1>5. CASE state = PENDING
  <2>1. CASE q # p
    <3>1. t.jobs = s.jobs /\ t.promises[q] = s.promises[q]
      BY <1>3, <1>5, <2>1
    <3>2. \A i : QueuedFor(t, q, i) <=> QueuedFor(s, q, i)
      BY ONLY <3>1 DEF QueuedFor
    <3>3. Waiting(s, q, n, m) => Waiting(t, q, n, m)
      BY ONLY <3>1, <3>2 DEF Waiting
    <3>4. Queued(s, q, n, m) => Queued(t, q, n, m)
      BY ONLY <3>1, <3>2 DEF Queued
    <3>5. InOrder(t, q, n, m)
      BY ONLY <3>1, <3>3, <3>4, InOrder(s, q, n, m) DEF InOrder
    <3> QED BY ONLY <2>1, <3>5
  <2>2. CASE q = p
    <3>1. /\ \A i \in 1..Len(s.jobs) : ~QueuedFor(s, p, i)
          /\ m = 0 /\ Len(waiting) = n /\ \A i \in 1..n : waiting[i].index = i
      BY <1>4, <1>5, <2>2 DEF InOrder, Waiting
    <3>2. t.jobs = s.jobs /\ t.promises[p].reactions = Append(waiting, r)
      BY <1>3, <1>5
    <3>3. /\ Len(Append(waiting, r)) = n + 1
          /\ \A i \in 1..n : Append(waiting, r)[i] = waiting[i]
          /\ Append(waiting, r)[n + 1] = r
      BY ONLY <1>1, <3>1, AppendFacts, r \in Reaction
    <3>4. \A i \in 1..(n + 1) : t.promises[p].reactions[i].index = i
      <4> TAKE i \in 1..(n + 1)
      <4>1. i \in 1..n \/ i = n + 1
        OBVIOUS
      <4> QED BY <2>2, <3>1, <3>2, <3>3, <4>1
    <3>5. Waiting(t, p, n + 1, m)
      BY <3>1, <3>2, <3>3, <3>4 DEF Waiting, QueuedFor
    <3> QED BY <1>3, <1>5, <2>2, <3>5 DEF InOrder
  <2> QED BY <2>1, <2>2
<1>6. CASE state # PENDING
  <2>1. /\ Len(t.jobs) = l + 1
        /\ \A i \in 1..l : t.jobs[i] = s.jobs[i]
        /\ t.jobs[l + 1] = job
    BY <1>1, <1>2, <1>3, <1>4, <1>6, AppendFacts
  <2>2. /\ \A i \in 1..Len(t.jobs) : i \in 1..l \/ i = l + 1
        /\ 1..l \subseteq 1..Len(t.jobs) /\ l + 1 \in 1..Len(t.jobs)
        /\ \A i \in 1..Len(t.jobs) : i + 0 = i /\ i - 0 = i
        /\ 0 \in Int
    BY ONLY <1>1, <2>1
  <2>3. CASE q # p
    <3>1. /\ \A i \in 1..Len(t.jobs) : QueuedFor(t, q, i) =>
               i + 0 \in 1..Len(s.jobs) /\ QueuedFor(s, q, i + 0)
                 /\ t.jobs[i].reaction = s.jobs[i + 0].reaction
          /\ \A i \in 1..Len(s.jobs) : QueuedFor(s, q, i) =>
               i - 0 \in 1..Len(t.jobs) /\ QueuedFor(t, q, i - 0)
                 /\ s.jobs[i].reaction = t.jobs[i - 0].reaction
      BY <1>2, <1>4, <2>1, <2>2, <2>3 DEF QueuedFor
    <3>2. InOrder(t, q, n, m)
      BY <1>3, <2>2, <2>3, <3>1, SameJobsInOrder
    <3> QED BY <2>3, <3>2
  <2>4. CASE q = p
    <3>1. Queued(s, p, n, m)
      BY <1>4, <1>6, <2>4 DEF InOrder
    <3>2. /\ \A i \in 1..l : QueuedFor(t, p, i) <=> QueuedFor(s, p, i)
          /\ QueuedFor(t, p, l + 1) /\ t.jobs[l + 1].reaction.index = n + 1
      BY <1>2, <2>1, <2>4 DEF QueuedFor
    <3>3. \A i \in 1..l : QueuedFor(t, p, i) =>
            t.jobs[i].reaction.index \in (m + 1)..n /\ t.jobs[i].reaction.index \in (m + 1)..(n + 1)
      <4> TAKE i \in 1..l
      <4> HAVE QueuedFor(t, p, i)
      <4>1. t.jobs[i] = s.jobs[i] /\ QueuedFor(s, p, i)
        BY ONLY <2>1, <3>2, i \in 1..l, QueuedFor(t, p, i)
      <4>2. s.jobs[i].reaction.index \in (m + 1)..n
        BY ONLY <1>4, <3>1, <4>1, i \in 1..l DEF Queued
      <4>3. s.jobs[i].reaction.index \in (m + 1)..(n + 1)
        BY ONLY <4>2, n \in Nat, m \in Nat
      <4> QED BY ONLY <4>1, <4>2, <4>3
    <3>4. m <= n /\ m <= n + 1 /\ n + 1 \in (m + 1)..(n + 1)
      <4>1. m <= n
        BY ONLY <3>1 DEF Queued
      <4> QED BY ONLY <4>1, n \in Nat, m \in Nat
    <3>5. \A i \in 1..Len(t.jobs) : QueuedFor(t, p, i) =>
            t.jobs[i].reaction.index \in (m + 1)..(n + 1)
      BY <2>2, <3>2, <3>3, <3>4
    <3>6. ASSUME NEW x \in (m + 1)..(n + 1)
          PROVE  \E i \in 1..Len(t.jobs) : QueuedFor(t, p, i) /\ t.jobs[i].reaction.index = x
      <4>1. x \in (m + 1)..n \/ x = n + 1
        OBVIOUS
      <4>2. CASE x \in (m + 1)..n
        <5>1. PICK i \in 1..l : QueuedFor(s, p, i) /\ s.jobs[i].reaction.index = x
          BY <1>4, <3>1, <4>2 DEF Queued
        <5> QED BY <2>1, <2>2, <3>2, <5>1
      <4>3. CASE x = n + 1
        BY <2>2, <3>2, <4>3
      <4> QED BY <4>1, <4>2, <4>3
    <3>7. ASSUME NEW i \in 1..Len(t.jobs), NEW j \in 1..Len(t.jobs),
                 QueuedFor(t, p, i), QueuedFor(t, p, j), i < j
          PROVE  t.jobs[i].reaction.index < t.jobs[j].reaction.index
      <4>1. i \in 1..l /\ (j \in 1..l \/ j = l + 1)
        BY ONLY <1>1, <2>1, <3>7
      <4>2. CASE j \in 1..l
        <5>1. s.jobs[i].reaction.index < s.jobs[j].reaction.index
          BY <1>4, <3>1, <3>2, <3>7, <4>1, <4>2 DEF Queued
        <5> QED BY <2>1, <4>1, <4>2, <5>1
      <4>3. CASE j = l + 1
        <5>1. t.jobs[i].reaction.index \in (m + 1)..n /\ t.jobs[j].reaction.index = n + 1
          BY <3>2, <3>3, <3>7, <4>1, <4>3
        <5> QED BY ONLY <5>1, n \in Nat, m \in Nat
      <4> QED BY <4>1, <4>2, <4>3
    <3>8. Queued(t, p, n + 1, m)
      BY <1>3, <1>4, <1>6, <3>1, <3>4, <3>5, <3>6, <3>7 DEF Queued
    <3> QED BY <1>3, <1>6, <2>4, <3>8 DEF InOrder
  <2> QED BY <2>3, <2>4
<1> QED BY <1>5, <1>6
-----------------------------------------------------------------------------
(* The calls of resolving functions: whatever they do, the engine stays      *)
(* sound, no promise becomes known or handled, and the order is kept.        *)

Called(s, t) ==
  /\ Sound(t) /\ Grows(s, t)
  /\ Len(t.promises) = Len(s.promises)
  /\ \A q \in Known(s) : t.promises[q].handled = s.promises[q].handled
  /\ \A q \in Known(s), n, m \in Nat : InOrder(s, q, n, m) => InOrder(t, q, n, m)

LEMMA Idle ==
  ASSUME NEW s, Sound(s)
  PROVE  Called(s, s)
<1>1. Len(s.promises) \in Nat /\ Len(s.pairs) \in Nat
  BY EngineFacts DEF Sound, Consistent
<1> QED BY <1>1 DEF Called, Grows

LEMMA SettleCalled ==
  ASSUME NEW s, Sound(s), NEW k \in 1..Len(s.pairs), Open(s, k),
         NEW state \in {FULFILLED, REJECTED},
         LET q == s.adopts[s.pairs[k].promise] IN q # 0 => s.promises[q].state \in {state, FULFILLED}
  PROVE  Called(s, Settle(Use(s, k), s.pairs[k].promise, state))
<1> DEFINE p == s.pairs[k].promise
           u == Use(s, k)
           t == Settle(u, p, state)
<1>1. Sound(t) /\ Grows(s, t) /\ Len(t.promises) = Len(s.promises)
  BY SettleSound
<1>2. s \in Engine /\ InBounds(s) /\ ReactionsLegal(s) /\ Owned(s)
  BY DEF Sound, Consistent
<1>3. p \in Known(s) /\ s.promises[p].state = PENDING /\ state # PENDING
  BY <1>2 DEF InBounds, Owned, PENDING, FULFILLED, REJECTED
<1>4. Uses(s, k, u)
  BY <1>2, UseFacts
<1> HIDE DEF p, u
<1>5. u \in Engine /\ u.promises = s.promises /\ u.jobs = s.jobs /\ Known(u) = Known(s)
  BY <1>4 DEF Uses, Known
<1>6. Settles(u, p, state, t)
  BY <1>3, <1>5, SettleFacts DEF t
<1> HIDE DEF t
<1>7. \A q \in Known(s) : t.promises[q].handled = s.promises[q].handled
  BY <1>5, <1>6 DEF Settles
<1>8. ASSUME NEW q \in Known(s), NEW n \in Nat, NEW m \in Nat, InOrder(s, q, n, m)
      PROVE  InOrder(t, q, n, m)
  <2>1. InOrder(u, q, n, m)
    BY <1>5, <1>8 DEF InOrder, Waiting, Queued, QueuedFor
  <2>2. \A i \in 1..Len(u.promises[p].reactions) : u.promises[p].reactions[i].source = p
    BY <1>2, <1>3, <1>5 DEF ReactionsLegal
  <2> QED BY <1>3, <1>5, <1>6, <2>1, <2>2, SettleInOrder
<1>9. Called(s, t)
  BY <1>1, <1>7, <1>8 DEF Called
<1> QED BY <1>9 DEF t, u, p

LEMMA HandOverCalled ==
  ASSUME NEW s, Sound(s), NEW k \in 1..Len(s.pairs), Open(s, k),
         Free(s, s.pairs[k].promise), NEW of \in 0..Len(s.promises),
         NEW t, HandsOver(s, k, of, t)
  PROVE  Called(s, t)
<1>1. Sound(t) /\ Grows(s, t) /\ Len(t.promises) = Len(s.promises)
  BY HandOverSound
<1>2. s \in Engine /\ t.promises = s.promises
  BY DEF Sound, Consistent, HandsOver
<1>3. \A q \in Known(s), n, m \in Nat : InOrder(s, q, n, m) => InOrder(t, q, n, m)
  BY <1>2, HandOverInOrder
<1> QED BY <1>1, <1>2, <1>3 DEF Called

(* A pair that is still open may be called unless its promise waits for      *)
(* another one; rejecting is right also when that one was rejected.          *)
LEMMA CallRejectCalled ==
  ASSUME NEW s, Sound(s), NEW k \in 1..Len(s.pairs),
         LET q == s.adopts[s.pairs[k].promise]
         IN Open(s, k) /\ q # 0 => s.promises[q].state \in {REJECTED, FULFILLED}
  PROVE  Called(s, CallReject(s, k))
<1>1. CASE s.pairs[k].already
  BY <1>1, Idle DEF CallReject
<1>2. CASE ~s.pairs[k].already
  <2>1. Open(s, k)
    BY <1>2 DEF Open
  <2>2. CallReject(s, k) = Settle(Use(s, k), s.pairs[k].promise, REJECTED)
    BY <1>2 DEF CallReject, Use
  <2> QED BY <2>1, <2>2, SettleCalled
<1> QED BY <1>1, <1>2

LEMMA CallResolveCalled ==
  ASSUME NEW s, Sound(s), NEW k \in 1..Len(s.pairs),
         NEW with \in Known(s) \cup {Value, Thenable, Poisoned},
         Open(s, k) => Free(s, s.pairs[k].promise)
  PROVE  Called(s, CallResolve(s, k, with))
<1> DEFINE p == s.pairs[k].promise
           fulfilled == Settle(Use(s, k), p, FULFILLED)
           rejected == Settle(Use(s, k), p, REJECTED)
           handed == Hand(s, k, 0)
           adopting == HandAdopting(s, k, with)
           t == CallResolve(s, k, with)
<1>1. s \in Engine /\ InBounds(s) /\ Len(s.promises) \in Nat
  BY EngineFacts DEF Sound, Consistent
<1>2. p \in Known(s) /\ (Open(s, k) => Free(s, p))
  BY <1>1 DEF InBounds
<1>2a. t = CASE s.pairs[k].already -> s
             [] ~s.pairs[k].already /\ with = Value -> fulfilled
             [] ~s.pairs[k].already /\ with \in {Poisoned, p} -> rejected
             [] ~s.pairs[k].already /\ with = Thenable -> handed
             [] OTHER -> adopting
  BY DEF CallResolve, Use, Hand, HandAdopting
<1> HIDE DEF t, p, fulfilled, rejected, handed, adopting
<1>2b. /\ 0 = Value /\ ~(Poisoned \in {Value, Thenable}) /\ Value # Thenable
       /\ p # Value /\ p # Thenable
  BY <1>1, <1>2 DEF Known, Value, Thenable, Poisoned
<1>3. CASE s.pairs[k].already
  <2>1. t = s
    BY <1>2a, <1>3
  <2> QED BY <2>1, Idle DEF t
<1>4. CASE ~s.pairs[k].already
  <2>1. Open(s, k)
    BY <1>4 DEF Open
  <2>1a. LET q == s.adopts[s.pairs[k].promise]
         IN q # 0 => s.promises[q].state \in {FULFILLED, REJECTED} /\ s.promises[q].state = FULFILLED
    BY <1>2, <2>1 DEF Free, p
  <2>2. CASE with = Value
    <3>1. t = fulfilled
      BY <1>2a, <1>2b, <1>4, <2>2
    <3>2. FULFILLED \in {FULFILLED, REJECTED}
      OBVIOUS
    <3>3. Called(s, Settle(Use(s, k), s.pairs[k].promise, FULFILLED))
      BY ONLY <2>1, <2>1a, <3>2, Sound(s), k \in 1..Len(s.pairs), SettleCalled
    <3> QED BY <3>1, <3>3 DEF t, p, fulfilled
  <2>3. CASE with # Value
    <3>1. Free(s, p)
      BY <1>2, <2>1
    <3>2. CASE with \in {Poisoned, p}
      <4>1. t = rejected
        BY <1>2a, <1>2b, <1>4, <2>3, <3>2
      <4>2. REJECTED \in {FULFILLED, REJECTED}
        OBVIOUS
      <4>3. Called(s, Settle(Use(s, k), s.pairs[k].promise, REJECTED))
        BY ONLY <2>1, <2>1a, <4>2, Sound(s), k \in 1..Len(s.pairs), SettleCalled
      <4> QED BY <4>1, <4>3 DEF t, p, rejected
    <3>3. CASE with = Thenable
      <4>1. t = handed
        BY <1>2a, <1>2b, <1>4, <2>3, <3>3
      <4>2. HandsOver(s, k, 0, handed)
        BY <1>1, HandOverFacts DEF handed
      <4> QED BY <1>1, <2>1, <3>1, <4>1, <4>2, HandOverCalled DEF t, p
    <3>4. CASE with \in Known(s) /\ with # p /\ ~(with \in {Poisoned, p}) /\ with # Thenable
      <4>1. t = adopting
        BY <1>2a, <1>4, <2>3, <3>4
      <4>2. with \in Nat /\ with \in 0..Len(s.promises) /\ with # 0
        BY <1>1, <3>4 DEF Known
      <4>3. HandsOver(s, k, with, t)
        BY <1>1, <4>1, <4>2, HandOverFacts DEF adopting
      <4> QED BY <2>1, <3>1, <4>2, <4>3, HandOverCalled DEF t, p
    <3> QED BY <2>3, <3>2, <3>3, <3>4
  <2> QED BY <2>2, <2>3
<1> QED BY <1>3, <1>4
-----------------------------------------------------------------------------
(* The same with the history variables, one lemma per change.                *)

LEMMA GoodCalled ==
  ASSUME NEW s, NEW reg, NEW done, NEW cur, Good(s, reg, done, cur), NEW t, Called(s, t)
  PROVE  Good(t, reg, done, cur)
<1>1. /\ s \in Engine /\ InBounds(s) /\ t \in Engine /\ Sound(t) /\ Grows(s, t)
      /\ Known(t) = Known(s) /\ Len(t.promises) = Len(s.promises)
  BY DEF Good, Called, Sound, Consistent, Known
<1>2. \A p \in Known(s) : reg[p] \in Nat /\ done[p] \in Nat
  BY DEF Good, Known
<1>3. \A p \in Known(t) : InOrder(t, p, reg[p], done[p])
  BY <1>1, <1>2 DEF Good, Called
<1>4. cur = NoReaction \/ (Legal(t, cur) /\ cur.to = 0)
  BY <1>1, LegalKept DEF Good
<1>5. \A p \in Known(t) : t.promises[p].handled <=> reg[p] # 0
  BY <1>1 DEF Good, Called
<1> QED BY <1>1, <1>3, <1>4, <1>5 DEF Good

LEMMA GoodNew ==
  ASSUME NEW s, NEW reg, NEW done, NEW cur, Good(s, reg, done, cur),
         NEW held, NEW t, AddsPromise(s, held, t)
  PROVE  Good(t, Append(reg, 0), Append(done, 0), cur)
<1> DEFINE p == Len(s.promises) + 1
           reg2 == Append(reg, 0)
           done2 == Append(done, 0)
<1>1. /\ s \in Engine /\ InBounds(s) /\ ReactionsLegal(s) /\ t \in Engine
      /\ Sound(t) /\ Grows(s, t)
  BY NewPromiseSound DEF Good, Sound, Consistent
<1>2. /\ t.jobs = s.jobs
      /\ Len(t.promises) = Len(s.promises) + 1
      /\ \A q \in Known(s) : t.promises[q] = s.promises[q]
      /\ t.promises[p].state = PENDING /\ t.promises[p].reactions = <<>>
      /\ t.promises[p].handled = FALSE
  BY DEF AddsPromise, Known
<1>3. /\ Len(s.promises) \in Nat
      /\ \A q \in Known(t) : q \in Known(s) \/ q = p
      /\ ~(p \in Known(s))
  <2>1. Len(s.promises) \in Nat
    BY <1>1, EngineFacts
  <2> QED BY <1>2, <2>1 DEF Known
<1>4. /\ reg2 \in Seq(Nat) /\ Len(reg2) = Len(t.promises)
      /\ \A q \in Known(s) : reg2[q] = reg[q]
      /\ reg2[p] = 0
  <2>1. reg \in Seq(Nat) /\ Len(reg) = Len(s.promises) /\ 0 \in Nat
    BY DEF Good
  <2> QED BY <1>2, <2>1, AppendFacts DEF Known
<1>5. /\ done2 \in Seq(Nat) /\ Len(done2) = Len(t.promises)
      /\ \A q \in Known(s) : done2[q] = done[q]
      /\ done2[p] = 0
  <2>1. done \in Seq(Nat) /\ Len(done) = Len(s.promises) /\ 0 \in Nat
    BY DEF Good
  <2> QED BY <1>2, <2>1, AppendFacts DEF Known
<1> HIDE DEF reg2, done2, p
<1>6. \A q \in Known(t) : t.promises[q].handled <=> reg2[q] # 0
  BY <1>2, <1>3, <1>4 DEF Good
<1>7. \A q \in Known(t) : InOrder(t, q, reg2[q], done2[q])
  <2>1. ASSUME NEW q \in Known(s) PROVE InOrder(t, q, reg2[q], done2[q])
    <3>1. InOrder(s, q, reg[q], done[q]) /\ t.promises[q] = s.promises[q]
          /\ t.jobs = s.jobs /\ reg2[q] = reg[q] /\ done2[q] = done[q]
      BY <1>2, <1>4, <1>5 DEF Good
    <3> QED BY ONLY <3>1 DEF InOrder, Waiting, Queued, QueuedFor
  <2>2. \A i \in 1..Len(s.jobs) : ~QueuedFor(s, p, i)
    BY <1>1, <1>3 DEF ReactionsLegal, JobLegal, Legal, QueuedFor
  <2>3. Waiting(t, p, 0, 0)
    BY <1>2, <2>2 DEF Waiting, QueuedFor
  <2>4. InOrder(t, p, reg2[p], done2[p])
    BY <1>2, <1>4, <1>5, <2>3 DEF InOrder
  <2> QED BY <1>3, <2>1, <2>4
<1>8. cur = NoReaction \/ (Legal(t, cur) /\ cur.to = 0)
  BY <1>1, LegalKept DEF Good
<1>9. Good(t, reg2, done2, cur)
  BY <1>1, <1>4, <1>5, <1>6, <1>7, <1>8 DEF Good
<1> QED BY <1>9 DEF reg2, done2

LEMMA GoodRegister ==
  ASSUME NEW s, NEW reg, NEW done, NEW cur, Good(s, reg, done, cur),
         NEW p \in Known(s), NEW r, Legal(s, r), r.source = p, r.index = reg[p] + 1,
         NEW t, Registers(s, p, r, t)
  PROVE  Good(t, [reg EXCEPT ![p] = @ + 1], done, cur)
<1> DEFINE reg2 == [reg EXCEPT ![p] = reg[p] + 1]
<1>1. /\ s \in Engine /\ InBounds(s) /\ t \in Engine /\ Sound(t) /\ Grows(s, t)
      /\ r \in Reaction
  BY PerformThenSound DEF Good, Sound, Consistent, Legal
<1>2. /\ Known(t) = Known(s) /\ Len(t.promises) = Len(s.promises)
      /\ \A q \in Known(s) : q # p => t.promises[q] = s.promises[q]
      /\ t.promises[p].handled
  BY DEF Registers, Known
<1>3. \A q \in Known(s) : reg[q] \in Nat /\ done[q] \in Nat
  BY DEF Good, Known
<1>4. /\ reg2 \in Seq(Nat) /\ Len(reg2) = Len(t.promises)
      /\ \A q \in Known(s) : q # p => reg2[q] = reg[q]
      /\ reg2[p] = reg[p] + 1 /\ reg2[p] # 0
  <2>1. reg \in Seq(Nat) /\ p \in 1..Len(reg) /\ Len(reg) = Len(s.promises) /\ reg[p] + 1 \in Nat
    BY <1>3 DEF Good, Known
  <2>2. reg[p] + 1 # 0
    BY <1>3
  <2> QED BY <1>2, <2>1, <2>2, ReplaceFacts DEF Known
<1> HIDE DEF reg2
<1>5. \A q \in Known(t) : t.promises[q].handled <=> reg2[q] # 0
  BY <1>2, <1>4 DEF Good
<1>6. ASSUME NEW q \in Known(s) PROVE InOrder(t, q, reg2[q], done[q])
  <2>1. InOrder(s, q, reg[q], done[q])
    BY DEF Good
  <2>2. InOrder(t, q, IF q = p THEN reg[q] + 1 ELSE reg[q], done[q])
    BY <1>1, <1>3, <2>1, RegisterInOrder
  <2> QED BY <1>4, <2>2
<1>7. cur = NoReaction \/ (Legal(t, cur) /\ cur.to = 0)
  BY <1>1, LegalKept DEF Good
<1>8. Good(t, reg2, done, cur)
  BY <1>1, <1>2, <1>4, <1>5, <1>6, <1>7 DEF Good
<1> QED BY <1>8 DEF reg2

LEMMA GoodTake ==
  ASSUME NEW s, NEW reg, NEW done, NEW cur, Good(s, reg, done, cur),
         NEW t, Takes(s, t), Reacting(s.jobs[1])
  PROVE  LET r == s.jobs[1].reaction
         IN /\ Good(t, reg, [done EXCEPT ![r.source] = @ + 1], cur)
            /\ Legal(t, r)
            /\ s.jobs[1].state \in {FULFILLED, REJECTED}
            /\ s.jobs[1].state = t.promises[r.source].state
<1> DEFINE r == s.jobs[1].reaction
           p == r.source
           done2 == [done EXCEPT ![p] = done[p] + 1]
<1>1. /\ s \in Engine /\ InBounds(s) /\ ReactionsLegal(s)
      /\ t \in Engine /\ Sound(t) /\ Grows(s, t)
  BY TakeSound DEF Good, Sound, Consistent
<1>2. t.promises = s.promises /\ Known(t) = Known(s) /\ 1 \in 1..Len(s.jobs)
  BY DEF Takes, Known
<1>3. JobLegal(s, s.jobs[1])
  BY <1>1, <1>2 DEF ReactionsLegal
<1>4. /\ Legal(t, r) /\ p \in Known(s)
      /\ s.jobs[1].state = s.promises[p].state /\ s.jobs[1].state # PENDING
  <2>1. /\ Legal(s, r)
        /\ s.jobs[1].state = s.promises[p].state /\ s.jobs[1].state # PENDING
    BY <1>3 DEF JobLegal
  <2>2. Legal(t, r)
    BY <1>1, <2>1, LegalKept
  <2>3. p \in Known(s)
    BY <2>1 DEF Legal
  <2> QED BY <2>1, <2>2, <2>3
<1>5. s.jobs[1].state \in {FULFILLED, REJECTED}
  <2>1. s.promises[p] \in PromiseData
    BY <1>1, <1>4, EngineFacts DEF Known
  <2>2. s.promises[p].state \in States
    BY <2>1, PromiseFacts
  <2> QED BY <1>4, <2>2 DEF States
<1>6. \A q \in Known(s) : reg[q] \in Nat /\ done[q] \in Nat
  BY DEF Good, Known
<1>7. QueuedFor(s, p, 1) /\ \A q \in Known(s) : q # p => ~QueuedFor(s, q, 1)
  BY DEF QueuedFor
<1> HIDE DEF p
<1>8. /\ done2 \in Seq(Nat) /\ Len(done2) = Len(t.promises)
      /\ \A q \in Known(s) : q # p => done2[q] = done[q]
      /\ done2[p] = done[p] + 1
  <2>1. done \in Seq(Nat) /\ p \in 1..Len(done) /\ Len(done) = Len(s.promises) /\ done[p] + 1 \in Nat
    BY <1>4, <1>6 DEF Good, Known
  <2> QED BY <1>2, <2>1, ReplaceFacts DEF Known
<1> HIDE DEF done2
<1>9. ASSUME NEW q \in Known(s) PROVE InOrder(t, q, reg[q], done2[q])
  <2>1. InOrder(s, q, reg[q], done[q])
    BY DEF Good
  <2>2. /\ ~QueuedFor(s, q, 1) => InOrder(t, q, reg[q], done[q])
        /\ QueuedFor(s, q, 1) => InOrder(t, q, reg[q], done[q] + 1)
    BY <1>1, <1>6, <2>1, TakeInOrder
  <2> QED BY <1>7, <1>8, <2>2
<1>10. cur = NoReaction \/ (Legal(t, cur) /\ cur.to = 0)
  BY <1>1, LegalKept DEF Good
<1>11. Good(t, reg, done2, cur)
  BY <1>1, <1>2, <1>8, <1>9, <1>10 DEF Good
<1> QED BY <1>2, <1>4, <1>5, <1>11 DEF done2, p

LEMMA GoodReceive ==
  ASSUME NEW s, NEW reg, NEW done, NEW cur, Good(s, reg, done, cur),
         NEW v, Takes(s, v), Adopting(s.jobs[1]), NEW held \in BOOLEAN,
         held => Free(s, s.jobs[1].promise),
         NEW t, AddsPair(v, s.jobs[1].promise, held, t)
  PROVE  Good(t, reg, done, cur)
<1>1. /\ s \in Engine /\ InBounds(s) /\ v \in Engine /\ InBounds(v) /\ t \in Engine
      /\ Sound(t) /\ Grows(s, v) /\ Grows(v, t)
  <2>1. Sound(t) /\ Grows(s, v) /\ Grows(v, t)
    BY ReceiveSound DEF Good
  <2>2. Consistent(v)
    BY TakeConsistent DEF Good, Sound
  <2> QED BY <2>1, <2>2 DEF Good, Sound, Consistent
<1>2. /\ t.promises = s.promises /\ v.promises = s.promises /\ t.jobs = v.jobs
      /\ Known(t) = Known(s)
  BY DEF Takes, AddsPair, Known
<1>3. \A q \in Known(s) : reg[q] \in Nat /\ done[q] \in Nat
  BY DEF Good, Known
<1>4. ASSUME NEW q \in Known(s) PROVE InOrder(t, q, reg[q], done[q])
  <2>1. InOrder(s, q, reg[q], done[q])
    BY DEF Good
  <2>2. ~QueuedFor(s, q, 1)
    BY DEF QueuedFor, Reacting, Adopting
  <2>3. InOrder(v, q, reg[q], done[q])
    BY <1>1, <1>3, <2>1, <2>2, TakeInOrder
  <2> QED BY <1>2, <2>3 DEF InOrder, Waiting, Queued, QueuedFor
<1>5. cur = NoReaction \/ (Legal(t, cur) /\ cur.to = 0)
  <2>1. cur = NoReaction \/ (Legal(v, cur) /\ cur.to = 0)
    BY <1>1, LegalKept DEF Good
  <2> QED BY <1>1, <2>1, LegalKept
<1> QED BY <1>1, <1>2, <1>4, <1>5 DEF Good

LEMMA GoodDeliver ==
  ASSUME NEW s, NEW reg, NEW done, NEW cur, Good(s, reg, done, cur),
         NEW r, Legal(s, r), NEW state,
         NEW with \in Known(s) \cup {Value, Thenable, Poisoned}
  PROVE  Good(Deliver(s, r, state, with), reg, done, cur)
<1>1. CASE r.target = 0
  BY <1>1 DEF Deliver
<1>2. CASE r.target # 0
  <2> DEFINE k == r.target
  <2>1. s \in Engine /\ Sound(s) /\ Len(s.pairs) \in Nat
    BY EngineFacts DEF Good, Sound, Consistent
  <2>2. k \in 1..Len(s.pairs) /\ (Open(s, k) => s.adopts[s.pairs[k].promise] = 0)
    BY <1>2, <2>1 DEF Legal
  <2>3. Called(s, CallReject(s, k))
    BY <2>1, <2>2, CallRejectCalled
  <2>4. Called(s, CallResolve(s, k, with))
    BY <2>1, <2>2, CallResolveCalled DEF Free
  <2>5. Called(s, Deliver(s, r, state, with))
    BY <1>2, <2>3, <2>4 DEF Deliver, CallEither
  <2> QED BY <2>5, GoodCalled
<1> QED BY <1>1, <1>2
-----------------------------------------------------------------------------
(* The actions.                                                              *)

LEMMA GoodEngine ==
  ASSUME IInv
  PROVE  /\ Now \in Engine /\ Sound(Now) /\ Promise = Known(Now)
         /\ DOMAIN pairs = 1..Len(Now.pairs)
         /\ Now.promises = promises /\ Now.pairs = pairs /\ Now.jobs = jobs
         /\ Now.tracked = tracked /\ Now.adopts = adopts
<1>1. Now \in Engine /\ Sound(Now)
  BY DEF IInv, Good, Sound, Consistent
<1>2. /\ Now.promises = promises /\ Now.pairs = pairs /\ Now.jobs = jobs
      /\ Now.tracked = tracked /\ Now.adopts = adopts
  BY DEF Now
<1>3. promises \in Seq(PromiseData) /\ pairs \in Seq(PairData)
  BY <1>1, <1>2, EngineFacts
<1>4. Promise = Known(Now) /\ DOMAIN pairs = 1..Len(Now.pairs)
  BY <1>2, <1>3 DEF Promise, Known
<1> QED BY <1>1, <1>2, <1>4

LEMMA BecomeNow ==
  ASSUME NEW s \in Engine, Become(s)
  PROVE  Now' = s
BY DEF Become, Now, Engine

(* A step that leads to a good state keeps the invariant.                    *)
LEMMA StepGood ==
  ASSUME NEW s, NEW reg, NEW done, NEW cur, Good(s, reg, done, cur), Become(s),
         registered' = reg, ran' = done, current' = cur
  PROVE  IInv'
<1>1. s \in Engine
  BY DEF Good, Sound, Consistent
<1>2. Now' = s
  BY <1>1, BecomeNow
<1> QED BY <1>2 DEF IInv

(* Nothing exists at first.                                                  *)
LEMMA InitGood == Init => IInv
<1> SUFFICES ASSUME Init PROVE IInv
  OBVIOUS
<1>1. /\ Now = [promises |-> <<>>, pairs |-> <<>>, jobs |-> <<>>,
                tracked |-> {}, adopts |-> <<>>, thenables |-> 0]
      /\ registered = <<>> /\ ran = <<>> /\ current = NoReaction
  BY DEF Init, Now
<1>2. Now \in Engine
  BY <1>1 DEF Engine
<1>3. /\ Len(Now.promises) = 0 /\ Len(Now.pairs) = 0 /\ Len(Now.jobs) = 0
      /\ Len(Now.adopts) = 0 /\ Now.tracked = {} /\ Known(Now) = {}
  BY <1>1 DEF Known
<1>4. InBounds(Now) /\ ReactionsLegal(Now) /\ Owned(Now) /\ Handed(Now)
      /\ Adopted(Now) /\ Tracked(Now)
  BY <1>3 DEF InBounds, ReactionsLegal, Owned, Handed, Adopted, Tracked
<1> QED BY <1>1, <1>2, <1>3, <1>4 DEF IInv, Good, Sound, Consistent

(* js_promise_constructor.                                                   *)
LEMMA CreateGood == ASSUME IInv, Create PROVE IInv'
<1>1. AddsPromise(Now, TRUE, NewPromise(Now, TRUE))
  BY GoodEngine, NewPromiseFacts
<1>2. Good(NewPromise(Now, TRUE), Append(registered, 0), Append(ran, 0), current)
  BY <1>1, GoodNew DEF IInv
<1> QED BY <1>2, StepGood DEF Create

(* js_promise_resolve_function_call, by the program.                         *)
LEMMA HeldOpen ==
  ASSUME IInv, NEW k \in DOMAIN pairs, pairs[k].held
  PROVE  k \in 1..Len(Now.pairs)
         /\ (Open(Now, k) => Free(Now, Now.pairs[k].promise))
BY GoodEngine DEF Sound, Consistent, Handed

LEMMA ResolveGood ==
  ASSUME IInv, NEW k \in DOMAIN pairs, NEW with \in Resolutions, Resolve(k, with)
  PROVE  IInv'
<1>1. Sound(Now) /\ with \in Known(Now) \cup {Value, Thenable, Poisoned}
  BY GoodEngine DEF Resolutions
<1>2. k \in 1..Len(Now.pairs) /\ (Open(Now, k) => Free(Now, Now.pairs[k].promise))
  BY HeldOpen DEF Resolve
<1>3. Called(Now, CallResolve(Now, k, with))
  BY <1>1, <1>2, CallResolveCalled
<1>4. Good(CallResolve(Now, k, with), registered, ran, current)
  BY <1>3, GoodCalled DEF IInv
<1> QED BY <1>4, StepGood DEF Resolve

LEMMA RejectGood ==
  ASSUME IInv, NEW k \in DOMAIN pairs, Reject(k)
  PROVE  IInv'
<1>1. Sound(Now)
  BY GoodEngine
<1>2. k \in 1..Len(Now.pairs) /\ (Open(Now, k) => Free(Now, Now.pairs[k].promise))
  BY HeldOpen DEF Reject
<1>3. Called(Now, CallReject(Now, k))
  BY <1>1, <1>2, CallRejectCalled DEF Free
<1>4. Good(CallReject(Now, k), registered, ran, current)
  BY <1>3, GoodCalled DEF IInv
<1> QED BY <1>4, StepGood DEF Reject

LEMMA ExceptAppend ==
  ASSUME NEW q \in Seq(Nat), NEW j \in 1..Len(q)
  PROVE  [Append(q, 0) EXCEPT ![j] = q[j] + 1] = Append([q EXCEPT ![j] = q[j] + 1], 0)
<1> DEFINE reg == Append(q, 0)
           one == [q EXCEPT ![j] = q[j] + 1]
           a == [reg EXCEPT ![j] = q[j] + 1]
           b == Append(one, 0)
           n == Len(q)
<1>1. /\ reg \in Seq(Nat) /\ Len(reg) = n + 1 /\ n \in Nat
      /\ j \in 1..Len(reg) /\ q[j] + 1 \in Nat
      /\ \A i \in 1..n : reg[i] = q[i]
      /\ reg[n + 1] = 0 /\ j # n + 1
  BY AppendFacts DEF reg, n
<1>2. /\ one \in Seq(Nat) /\ Len(one) = n
      /\ \A i \in 1..n : i # j => one[i] = q[i]
      /\ one[j] = q[j] + 1
  BY <1>1, ReplaceFacts
<1> HIDE DEF reg, one, n
<1>3. /\ a \in Seq(Nat) /\ Len(a) = n + 1
      /\ \A i \in 1..(n + 1) : i # j => a[i] = reg[i]
      /\ a[j] = q[j] + 1
  <2>1. /\ a \in Seq(Nat) /\ Len(a) = Len(reg)
        /\ \A i \in 1..Len(reg) : i # j => a[i] = reg[i]
        /\ a[j] = q[j] + 1
    BY ONLY <1>1, ReplaceFacts
  <2> HIDE DEF a
  <2> QED BY <1>1, <2>1
<1>4. /\ b \in Seq(Nat) /\ Len(b) = n + 1
      /\ \A i \in 1..n : b[i] = one[i]
      /\ b[n + 1] = 0
  <2>1. /\ b \in Seq(Nat) /\ Len(b) = Len(one) + 1
        /\ \A i \in 1..Len(one) : b[i] = one[i]
        /\ b[Len(one) + 1] = 0
    <3>1. one \in Seq(Nat) /\ 0 \in Nat
      BY <1>2
    <3> QED BY ONLY <3>1, AppendFacts
  <2> HIDE DEF b
  <2> QED BY <1>2, <2>1
<1> HIDE DEF a, b
<1>5. \A i \in 1..(n + 1) : i \in 1..n \/ i = n + 1
  BY ONLY <1>1
<1>6. \A i \in 1..(n + 1) : a[i] = b[i]
  <2> TAKE i \in 1..(n + 1)
  <2>1. CASE i = n + 1
    BY <1>1, <1>3, <1>4, <2>1
  <2>2. CASE i \in 1..n /\ i # j
    BY <1>1, <1>2, <1>3, <1>4, <2>2
  <2>3. CASE i \in 1..n /\ i = j
    BY <1>2, <1>3, <1>4, <2>3
  <2> QED BY <1>5, <2>1, <2>2, <2>3
<1>7. a \in [1..(n + 1) -> Nat] /\ b \in [1..(n + 1) -> Nat]
  <2>1. a \in Seq(Nat) /\ Len(a) = n + 1 /\ b \in Seq(Nat) /\ Len(b) = n + 1
    BY <1>3, <1>4
  <2> QED BY ONLY <2>1
<1>8. a = b
  <2>1. a = [i \in 1..(n + 1) |-> a[i]] /\ b = [i \in 1..(n + 1) |-> b[i]]
    BY ONLY <1>7
  <2>2. [i \in 1..(n + 1) |-> a[i]] = [i \in 1..(n + 1) |-> b[i]]
    BY ONLY <1>6, Zenon
  <2> QED BY <2>1, <2>2
<1> QED BY <1>8 DEF a, b, one, reg

(* js_promise_then: the promise it derives is not settled by its reaction    *)
(* before the reaction ran.                                                  *)
LEMMA ThenGood ==
  ASSUME IInv, NEW p \in Promise, NEW handlers \in SUBSET {FULFILLED, REJECTED},
         Then(p, handlers)
  PROVE  IInv'
<1> DEFINE s == Now
           v == NewPromise(s, FALSE)
           r == [source |-> p, index |-> registered[p] + 1, handlers |-> handlers,
                 to |-> 0, target |-> Len(v.pairs)]
           reg == Append(registered, 0)
           t == PerformThen(v, p, r)
<1>1. s \in Engine /\ Sound(s) /\ p \in Known(s) /\ Good(s, registered, ran, current)
  BY GoodEngine DEF IInv
<1>2. AddsPromise(s, FALSE, v)
  BY <1>1, NewPromiseFacts
<1> HIDE DEF v, t, s
<1>3. /\ Good(v, reg, Append(ran, 0), current)
      /\ v \in Engine /\ InBounds(v) /\ Len(v.pairs) \in Nat
  <2>1. Good(v, reg, Append(ran, 0), current)
    BY <1>1, <1>2, GoodNew
  <2> QED BY <2>1, EngineFacts DEF Good, Sound, Consistent
<1>4. /\ registered \in Seq(Nat) /\ p \in 1..Len(registered) /\ registered[p] \in Nat
      /\ reg[p] = registered[p]
      /\ [reg EXCEPT ![p] = @ + 1] = Append([registered EXCEPT ![p] = @ + 1], 0)
  <2>1. registered \in Seq(Nat) /\ p \in 1..Len(registered)
    BY <1>1 DEF Good, Known
  <2>2. reg[p] = registered[p] /\ registered[p] \in Nat
    BY ONLY <2>1
  <2>3. [reg EXCEPT ![p] = registered[p] + 1] = Append([registered EXCEPT ![p] = registered[p] + 1], 0)
    BY <2>1, <2>2, ExceptAppend
  <2> QED BY <2>1, <2>2, <2>3
<1>5. p \in Known(v)
  <2>1. Len(s.promises) \in Nat /\ Len(v.promises) = Len(s.promises) + 1
    BY <1>1, <1>2, EngineFacts DEF AddsPromise
  <2> QED BY <1>1, <2>1 DEF Known
<1>6. v.adopts[v.pairs[Len(v.pairs)].promise] = 0 /\ Len(v.pairs) \in 0..Len(v.pairs)
  <2>1. /\ v.pairs[Len(v.pairs)].promise = Len(s.promises) + 1
        /\ v.adopts[Len(s.adopts) + 1] = 0 /\ Len(s.adopts) = Len(s.promises)
    BY <1>1, <1>2 DEF AddsPromise, Sound, Consistent, InBounds
  <2> QED BY <1>3, <2>1
<1>7. Legal(v, r)
  <2>1. r \in Reaction
    BY <1>3, <1>4, <1>1, <1>5 DEF Reaction, States, Known
  <2>2. ~Open(v, r.to)
    BY DEF Open
  <2> QED BY <1>3, <1>5, <1>6, <2>1, <2>2 DEF Legal
<1>8. r.source = p /\ r.index = reg[p] + 1 /\ r \in Reaction
  BY <1>4, <1>7 DEF Legal
<1>9. /\ Become(t) /\ registered' = Append([registered EXCEPT ![p] = @ + 1], 0)
      /\ ran' = Append(ran, 0) /\ current' = current
  BY DEF Then, t, v, s
<1> HIDE DEF r, reg
<1>10. Registers(v, p, r, t)
  BY <1>3, <1>5, <1>8, PerformThenFacts DEF t
<1>11. Good(t, [reg EXCEPT ![p] = @ + 1], Append(ran, 0), current)
  BY <1>3, <1>5, <1>7, <1>8, <1>10, GoodRegister
<1> QED BY <1>4, <1>9, <1>11, StepGood

(* js_async_function_resume.                                                 *)
LEMMA AwaitGood ==
  ASSUME IInv, NEW p \in Promise, Await(p)
  PROVE  IInv'
<1> DEFINE s == Now
           r == [source |-> p, index |-> registered[p] + 1,
                 handlers |-> {FULFILLED, REJECTED}, to |-> 0, target |-> 0]
           t == PerformThen(s, p, r)
<1>1. s \in Engine /\ p \in Known(s) /\ Good(s, registered, ran, current)
  BY GoodEngine DEF IInv
<1>2. /\ Become(t) /\ registered' = [registered EXCEPT ![p] = @ + 1]
      /\ ran' = ran /\ current' = current
  BY DEF Await, Register
<1> HIDE DEF s, t
<1>3. registered[p] \in Nat /\ p \in Nat /\ Len(s.pairs) \in Nat
  BY <1>1, EngineFacts DEF Good, Known
<1>4. Legal(s, r) /\ r \in Reaction
  <2>1. r \in Reaction
    BY <1>3 DEF Reaction, States
  <2>2. ~Open(s, r.target)
    BY DEF Open
  <2> QED BY <1>1, <1>3, <2>1, <2>2 DEF Legal
<1>5. r.source = p /\ r.index = registered[p] + 1
  OBVIOUS
<1> HIDE DEF r
<1>6. Registers(s, p, r, t)
  BY <1>1, <1>4, PerformThenFacts DEF t
<1>7. Good(t, [registered EXCEPT ![p] = @ + 1], ran, current)
  BY <1>1, <1>4, <1>5, <1>6, GoodRegister
<1> QED BY <1>2, <1>7, StepGood

(* JS_ExecutePendingJob.                                                     *)
LEMMA TakenFacts ==
  ASSUME IInv, jobs # <<>>
  PROVE  Takes(Now, Taken) /\ Head(jobs) = Now.jobs[1]
<1>1. Now \in Engine /\ Now.jobs = jobs
  BY GoodEngine
<1>2. Takes(Now, Taken)
  BY <1>1, TakeFacts DEF Taken
<1> QED BY <1>1, <1>2 DEF Takes

LEMMA TakenReaction ==
  ASSUME IInv, TakeJob("reaction")
  PROVE  LET r == Head(jobs).reaction
         IN /\ Good(Taken, registered, [ran EXCEPT ![r.source] = @ + 1], current)
            /\ Legal(Taken, r)
            /\ Head(jobs).state \in {FULFILLED, REJECTED}
            /\ Head(jobs).state = Taken.promises[r.source].state
<1>1. Takes(Now, Taken) /\ Head(jobs) = Now.jobs[1]
  BY TakenFacts DEF TakeJob
<1>2. Reacting(Now.jobs[1])
  BY <1>1 DEF TakeJob, Reacting
<1> QED BY <1>1, <1>2, GoodTake DEF IInv

(* promise_reaction_job.                                                     *)
LEMMA PassOnGood ==
  ASSUME IInv, NEW with \in Outcomes, PassOn(with)
  PROVE  IInv'
<1> DEFINE r == Head(jobs).reaction
           state == Head(jobs).state
           done == [ran EXCEPT ![r.source] = @ + 1]
           t == Deliver(Taken, r, state, with)
<1>1. Good(Taken, registered, done, current) /\ Legal(Taken, r)
  BY TakenReaction DEF PassOn
<1>2. Become(t) /\ registered' = registered /\ ran' = done /\ current' = current
  BY DEF PassOn
<1> HIDE DEF r, state, done
<1>3. Good(t, registered, done, current)
  BY <1>1, GoodDeliver DEF Outcomes
<1> QED BY <1>2, <1>3, StepGood

(* The functions of a thenable job are called once its source is settled.    *)
LEMMA ForwardGood ==
  ASSUME IInv, NEW with \in Outcomes, Forward(with)
  PROVE  IInv'
<1> DEFINE r == Head(jobs).reaction
           state == Head(jobs).state
           done == [ran EXCEPT ![r.source] = @ + 1]
           s == Taken
           k == r.to
           t == CallEither(s, k, state, with)
<1>1. /\ Good(s, registered, done, current) /\ Legal(s, r)
      /\ state \in {FULFILLED, REJECTED} /\ state = s.promises[r.source].state
  BY TakenReaction DEF Forward
<1>2. /\ Become(t) /\ registered' = registered /\ ran' = done /\ current' = current
      /\ r.to # 0
  BY DEF Forward
<1> HIDE DEF r, state, done, s
<1>3. Sound(s) /\ Len(s.pairs) \in Nat
  BY <1>1, EngineFacts DEF Good, Sound, Consistent
<1>4. k \in 1..Len(s.pairs) /\ (Open(s, k) => s.adopts[s.pairs[k].promise] = r.source)
  BY <1>1, <1>2, <1>3 DEF Legal
<1>5. Called(s, t)
  <2>1. CASE state = REJECTED
    <3>1. Called(s, CallReject(s, k))
      BY <1>1, <1>3, <1>4, <2>1, CallRejectCalled
    <3> QED BY <2>1, <3>1 DEF CallEither
  <2>2. CASE state = FULFILLED
    <3>1. Called(s, CallResolve(s, k, with))
      BY <1>1, <1>3, <1>4, <2>2, CallResolveCalled DEF Free, Outcomes
    <3> QED BY <2>2, <3>1 DEF CallEither, REJECTED, FULFILLED
  <2> QED BY <1>1, <2>1, <2>2
<1> HIDE DEF k, t
<1>6. Good(t, registered, done, current)
  BY <1>1, <1>5, GoodCalled
<1> QED BY <1>2, <1>6, StepGood

LEMMA StartHandlerGood == ASSUME IInv, StartHandler PROVE IInv'
<1> DEFINE r == Head(jobs).reaction
           done == [ran EXCEPT ![r.source] = @ + 1]
<1>1. Good(Taken, registered, done, current) /\ Legal(Taken, r)
  BY TakenReaction DEF StartHandler
<1>2. /\ Become(Taken) /\ registered' = registered /\ ran' = done /\ current' = r
      /\ r.to = 0
  BY DEF StartHandler
<1> HIDE DEF r, done
<1>3. Good(Taken, registered, done, r)
  BY <1>1, <1>2 DEF Good
<1> QED BY <1>2, <1>3, StepGood

LEMMA EndHandlerGood ==
  ASSUME IInv, NEW state, NEW with \in Resolutions, EndHandler(state, with)
  PROVE  IInv'
<1> DEFINE t == Deliver(Now, current, state, with)
<1>1. with \in Known(Now) \cup {Value, Thenable, Poisoned}
  BY GoodEngine DEF Resolutions
<1>2. /\ Become(t) /\ registered' = registered /\ ran' = ran /\ current' = NoReaction
      /\ current # NoReaction
  BY DEF EndHandler
<1>3. Legal(Now, current)
  BY <1>2 DEF IInv, Good
<1>4. Good(t, registered, ran, current)
  BY <1>1, <1>3, GoodDeliver DEF IInv
<1> HIDE DEF t
<1>5. Good(t, registered, ran, NoReaction)
  BY <1>4 DEF Good
<1> QED BY <1>2, <1>5, StepGood

(* js_promise_resolve_thenable_job: the new pair has the promise in hand     *)
(* once the job is taken.                                                    *)
LEMMA ReceivedGood ==
  ASSUME IInv, TakeJob("thenable"), NEW held \in BOOLEAN, held => Head(jobs).of = 0
  PROVE  LET p == Head(jobs).promise
             s == NewPair(Taken, p, held)
         IN /\ Good(s, registered, ran, current)
            /\ s.pairs[Len(s.pairs)].promise = p /\ Len(s.pairs) \in 1..Len(s.pairs)
            /\ IF Head(jobs).of = 0 THEN Free(s, p) ELSE s.adopts[p] = Head(jobs).of
            /\ Head(jobs).of \in 0..Len(s.promises)
<1> DEFINE p == Head(jobs).promise
           of == Head(jobs).of
           s == NewPair(Taken, p, held)
<1>1. Takes(Now, Taken) /\ Head(jobs) = Now.jobs[1]
  BY TakenFacts DEF TakeJob
<1>2. Adopting(Now.jobs[1]) /\ 1 \in 1..Len(Now.jobs)
  BY <1>1 DEF TakeJob, Adopting, Takes
<1>3. InBounds(Now) /\ Now \in Engine
  BY DEF IInv, Good, Sound, Consistent
<1>4. /\ p \in Known(Now) /\ of \in 0..Len(Now.promises)
      /\ IF of = 0 THEN Free(Now, p) ELSE of = Now.adopts[p]
  <2>1. p \in Known(Now) /\ JobFor(Now, Now.jobs[1]) /\ of = Now.jobs[1].of
        /\ p = Now.jobs[1].promise
    BY <1>1, <1>2, <1>3 DEF InBounds
  <2>2. Now.adopts[p] \in 0..Len(Now.promises) /\ 0 \in 0..Len(Now.promises)
    BY <1>3, <2>1, EngineFacts DEF InBounds
  <2> HIDE DEF p, of
  <2> QED BY ONLY <2>1, <2>2 DEF JobFor, Free
<1>5. /\ Taken \in Engine /\ Taken.adopts = Now.adopts /\ Taken.promises = Now.promises
      /\ p \in Nat /\ p = Now.jobs[1].promise
  BY <1>1, <1>4 DEF Takes, Known
<1> HIDE DEF p, of
<1>6. AddsPair(Taken, p, held, s)
  BY <1>5, NewPairFacts
<1> HIDE DEF s
<1>7. Good(s, registered, ran, current)
  BY <1>1, <1>2, <1>4, <1>5, <1>6, GoodReceive DEF IInv, of
<1>8. /\ s.adopts = Now.adopts /\ s.promises = Now.promises
      /\ Len(s.pairs) = Len(Taken.pairs) + 1 /\ Len(Taken.pairs) \in Nat
      /\ s.pairs[Len(s.pairs)].promise = p
  BY <1>5, <1>6, EngineFacts DEF AddsPair
<1>9. Len(s.pairs) \in 1..Len(s.pairs)
  BY <1>8
<1>10. IF of = 0 THEN Free(s, p) ELSE s.adopts[p] = of
  BY <1>4, <1>8 DEF Free
<1> QED BY <1>4, <1>7, <1>8, <1>9, <1>10 DEF s, p, of

LEMMA AdoptPromiseGood == ASSUME IInv, AdoptPromise PROVE IInv'
<1> DEFINE q == Head(jobs).of
           p == Head(jobs).promise
           s == NewPair(Taken, p, FALSE)
           r == [source |-> q, index |-> registered[q] + 1, handlers |-> {},
                 to |-> Len(s.pairs), target |-> 0]
           t == PerformThen(s, q, r)
<1>1. /\ Good(s, registered, ran, current)
      /\ s.pairs[Len(s.pairs)].promise = p /\ Len(s.pairs) \in 1..Len(s.pairs)
      /\ s.adopts[p] = q /\ q \in 0..Len(s.promises)
  BY ReceivedGood DEF AdoptPromise
<1>2. /\ Become(t) /\ registered' = [registered EXCEPT ![q] = @ + 1]
      /\ ran' = ran /\ current' = current /\ q # 0
  BY DEF AdoptPromise, Register
<1> HIDE DEF q, p, s, t
<1>3. s \in Engine /\ Len(s.promises) \in Nat /\ Len(s.pairs) \in Nat
  BY <1>1, EngineFacts DEF Good, Sound, Consistent
<1>4. q \in Known(s) /\ q \in Nat /\ registered[q] \in Nat
  <2>1. q \in 1..Len(s.promises)
    BY <1>1, <1>2, <1>3
  <2> QED BY <1>1, <2>1 DEF Good, Known
<1>5. Legal(s, r) /\ r \in Reaction
  <2>1. r \in Reaction
    BY <1>3, <1>4 DEF Reaction, States
  <2>2. ~Open(s, r.target)
    BY DEF Open
  <2> QED BY <1>1, <1>3, <1>4, <2>1, <2>2 DEF Legal
<1>6. r.source = q /\ r.index = registered[q] + 1
  OBVIOUS
<1> HIDE DEF r
<1>7. Registers(s, q, r, t)
  BY <1>3, <1>4, <1>5, PerformThenFacts DEF t
<1>8. Good(t, [registered EXCEPT ![q] = @ + 1], ran, current)
  BY <1>1, <1>4, <1>5, <1>6, <1>7, GoodRegister
<1> QED BY <1>2, <1>8, StepGood

LEMMA CallThenableGood ==
  ASSUME IInv, NEW throws \in BOOLEAN, CallThenable(throws)
  PROVE  IInv'
<1> DEFINE p == Head(jobs).promise
           s == NewPair(Taken, p, TRUE)
           k == Len(s.pairs)
           t == IF throws THEN CallReject(s, k) ELSE s
<1>1. /\ Good(s, registered, ran, current)
      /\ s.pairs[k].promise = p /\ k \in 1..Len(s.pairs) /\ Free(s, p)
  BY ReceivedGood DEF CallThenable
<1>2. Become(t) /\ registered' = registered /\ ran' = ran /\ current' = current
  BY DEF CallThenable
<1> HIDE DEF p, s, k
<1>3. Called(s, CallReject(s, k))
  BY <1>1, CallRejectCalled DEF Good, Free
<1>4. Good(CallReject(s, k), registered, ran, current)
  BY <1>1, <1>3, GoodCalled
<1>5. Good(t, registered, ran, current)
  BY <1>1, <1>4
<1> HIDE DEF t
<1> QED BY <1>2, <1>5, StepGood

(* The inductive step.                                                       *)
LEMMA NextGood == ASSUME IInv, [Next]_vars PROVE IInv'
<1>1. CASE UNCHANGED vars
  BY <1>1 DEF vars, engine, IInv, Now
<1>2. CASE Create
  BY <1>2, CreateGood
<1>3. CASE \E k \in DOMAIN pairs : Reject(k) \/ \E with \in Resolutions : Resolve(k, with)
  BY <1>3, RejectGood, ResolveGood
<1>4. CASE \E p \in Promise :
             Await(p) \/ \E handlers \in SUBSET {FULFILLED, REJECTED} : Then(p, handlers)
  BY <1>4, AwaitGood, ThenGood
<1>5. CASE Job
  BY <1>5, PassOnGood, ForwardGood, StartHandlerGood, AdoptPromiseGood, CallThenableGood DEF Job
<1>6. CASE Handler
  BY <1>6, EndHandlerGood DEF Handler, Resolutions
<1> QED BY <1>1, <1>2, <1>3, <1>4, <1>5, <1>6 DEF Next, Program

LEMMA Invariance == Spec => []IInv
BY InitGood, NextGood, PTL DEF Spec
-----------------------------------------------------------------------------
(* What the invariant says of the variables.                                 *)

LEMMA TrackedNow == ASSUME IInv PROVE RejectionsTracked
<1>1. Tracked(Now) /\ \A p \in Known(Now) : Now.promises[p].handled <=> registered[p] # 0
  BY DEF IInv, Good, Sound, Consistent
<1> QED BY <1>1, GoodEngine DEF Tracked, RejectionsTracked

LEMMA AdoptedNow == ASSUME IInv PROVE AdoptsOutcome
<1>1. Adopted(Now)
  BY DEF IInv, Good, Sound, Consistent
<1> QED BY <1>1, GoodEngine DEF Adopted, AdoptsOutcome

LEMMA OrderNow == ASSUME IInv PROVE ReactionsInOrder
<1> SUFFICES ASSUME NEW p \in Promise
             PROVE  LET waiting == promises[p].reactions
                        queued == {i \in DOMAIN jobs :
                                     jobs[i].type = "reaction" /\ jobs[i].reaction.source = p}
                        index(i) == jobs[i].reaction.index
                    IN IF promises[p].state = PENDING
                       THEN /\ queued = {} /\ ran[p] = 0
                            /\ [i \in DOMAIN waiting |-> waiting[i].index]
                                 = [i \in 1..registered[p] |-> i]
                       ELSE /\ waiting = <<>>
                            /\ {index(i) : i \in queued} = (ran[p] + 1)..registered[p]
                            /\ \A i, j \in queued : i < j => index(i) < index(j)
  BY DEF ReactionsInOrder
<1> DEFINE waiting == promises[p].reactions
           queued == {i \in DOMAIN jobs :
                        jobs[i].type = "reaction" /\ jobs[i].reaction.source = p}
           n == registered[p]
           m == ran[p]
<1>1. /\ Now \in Engine /\ Now.jobs = jobs /\ Now.promises = promises /\ p \in Known(Now)
  BY GoodEngine
<1>2. InOrder(Now, p, n, m)
  BY <1>1 DEF IInv, Good
<1>3. jobs \in Seq(JobData) /\ DOMAIN jobs = 1..Len(jobs) /\ waiting \in Seq(Reaction)
      /\ DOMAIN waiting = 1..Len(waiting)
  <2>1. jobs \in Seq(JobData) /\ promises[p] \in PromiseData
    BY <1>1, EngineFacts DEF Known
  <2> QED BY <2>1, PromiseFacts
<1>4. \A i : i \in queued <=> i \in 1..Len(jobs) /\ QueuedFor(Now, p, i)
  BY <1>1, <1>3 DEF QueuedFor, Reacting
<1> HIDE DEF waiting, queued, n, m
<1>5. CASE promises[p].state = PENDING
  <2>1. /\ \A i \in 1..Len(jobs) : ~QueuedFor(Now, p, i)
        /\ m = 0 /\ Len(waiting) = n /\ \A i \in 1..n : waiting[i].index = i
    BY <1>1, <1>2, <1>5 DEF InOrder, Waiting, waiting
  <2>2. queued = {}
    BY <1>4, <2>1
  <2>3. [i \in DOMAIN waiting |-> waiting[i].index] = [i \in 1..n |-> i]
    BY <1>3, <2>1
  <2> QED BY <1>5, <2>1, <2>2, <2>3 DEF waiting, queued, n, m
<1>6. CASE promises[p].state # PENDING
  <2>1. /\ waiting = <<>>
        /\ \A i \in 1..Len(jobs) : QueuedFor(Now, p, i) => jobs[i].reaction.index \in (m + 1)..n
        /\ \A x \in (m + 1)..n :
             \E i \in 1..Len(jobs) : QueuedFor(Now, p, i) /\ jobs[i].reaction.index = x
        /\ \A i, j \in 1..Len(jobs) : QueuedFor(Now, p, i) /\ QueuedFor(Now, p, j) /\ i < j =>
             jobs[i].reaction.index < jobs[j].reaction.index
    BY <1>1, <1>2, <1>6 DEF InOrder, Queued, waiting
  <2>2. {jobs[i].reaction.index : i \in queued} = (m + 1)..n
    BY <1>4, <2>1
  <2>3. \A i, j \in queued : i < j => jobs[i].reaction.index < jobs[j].reaction.index
    BY <1>4, <2>1
  <2> QED BY <1>6, <2>1, <2>2, <2>3 DEF waiting, queued, n, m
<1> QED BY <1>5, <1>6

\* The owners of a promise, as sets
LEMMA OwnersNow == ASSUME IInv PROVE OneResolver
<1> SUFFICES ASSUME NEW p \in Promise
             PROVE  Cardinality({k \in DOMAIN pairs : pairs[k].promise = p /\ ~pairs[k].already})
                      + Cardinality({i \in DOMAIN jobs :
                                       jobs[i].type = "thenable" /\ jobs[i].promise = p})
                    = IF promises[p].state = PENDING THEN 1 ELSE 0
  BY DEF OneResolver
<1> DEFINE open == {k \in DOMAIN pairs : pairs[k].promise = p /\ ~pairs[k].already}
           adopting == {i \in DOMAIN jobs : jobs[i].type = "thenable" /\ jobs[i].promise = p}
<1>1. /\ Now \in Engine /\ Now.jobs = jobs /\ Now.promises = promises /\ Now.pairs = pairs
      /\ p \in Known(Now) /\ DOMAIN pairs = 1..Len(Now.pairs)
  BY GoodEngine
<1>2. Owned(Now)
  BY DEF IInv, Good, Sound
<1>3. DOMAIN jobs = 1..Len(Now.jobs)
  <2>1. jobs \in Seq(JobData)
    BY <1>1, EngineFacts
  <2> QED BY <1>1, <2>1
<1>4. /\ \A k : k \in open <=> Open(Now, k) /\ Now.pairs[k].promise = p
      /\ \A i : i \in adopting <=>
           i \in 1..Len(Now.jobs) /\ Adopting(Now.jobs[i]) /\ Now.jobs[i].promise = p
  BY <1>1, <1>3 DEF Open, Adopting
<1> HIDE DEF open, adopting
<1>5. Cardinality({}) = 0
  BY FS_EmptySet
<1>6. CASE promises[p].state # PENDING
  <2>1. open = {} /\ adopting = {}
    BY <1>1, <1>2, <1>4, <1>6 DEF Owned, Open
  <2>2. Cardinality(open) + Cardinality(adopting) = 0
    BY <1>5, <2>1
  <2> QED BY <1>6, <2>2 DEF open, adopting
<1>7. CASE promises[p].state = PENDING
  <2>1. \/ \E k \in 1..Len(Now.pairs) : Open(Now, k) /\ Now.pairs[k].promise = p
        \/ \E i \in 1..Len(Now.jobs) : Adopting(Now.jobs[i]) /\ Now.jobs[i].promise = p
    BY <1>1, <1>2, <1>7 DEF Owned
  <2>2. ASSUME NEW k \in 1..Len(Now.pairs), Open(Now, k), Now.pairs[k].promise = p
        PROVE  Cardinality(open) + Cardinality(adopting) = 1
    <3>1. open = {k} /\ adopting = {}
      BY <1>2, <1>4, <2>2 DEF Owned, Open
    <3>2. Cardinality({k}) = 1
      BY FS_Singleton
    <3>3. Cardinality(open) = 1 /\ Cardinality(adopting) = 0
      BY <1>5, <3>1, <3>2
    <3> QED BY ONLY <3>3
  <2>3. ASSUME NEW i \in 1..Len(Now.jobs), Adopting(Now.jobs[i]), Now.jobs[i].promise = p
        PROVE  Cardinality(open) + Cardinality(adopting) = 1
    <3>1. open = {} /\ adopting = {i}
      BY <1>2, <1>4, <2>3 DEF Owned, Open
    <3>2. Cardinality({i}) = 1
      BY FS_Singleton
    <3>3. Cardinality(adopting) = 1 /\ Cardinality(open) = 0
      BY <1>5, <3>1, <3>2
    <3> QED BY ONLY <3>3
  <2>4. Cardinality(open) + Cardinality(adopting) = 1
    BY <2>1, <2>2, <2>3
  <2> QED BY <1>7, <2>4 DEF open, adopting
<1> QED BY <1>6, <1>7
-----------------------------------------------------------------------------
(* Whatever the program calls and in whatever order its jobs come, a pending *)
(* promise is in exactly one hand: one pair of js_create_resolving_functions *)
(* that was not called, or one thenable job.  So fulfill_or_reject_promise   *)
(* is never called for a promise that is settled.                            *)
THEOREM OneHand == Spec => []OneResolver
BY Invariance, OwnersNow, PTL

(* HostPromiseRejectionTracker: the rejected promises it holds are exactly   *)
(* those without a reaction.                                                 *)
THEOREM TrackerExact == Spec => []RejectionsTracked
BY Invariance, TrackedNow, PTL

(* perform_promise_then and fulfill_or_reject_promise: the reactions of a    *)
(* promise run once each in the order they were registered, for any number   *)
(* of promises, reactions and jobs.                                          *)
THEOREM ReactionOrder == Spec => []ReactionsInOrder
BY Invariance, OrderNow, PTL

(* js_promise_resolve_thenable_job: a promise that was resolved with another *)
(* one is settled no sooner than that one, and rejected if that one was; if  *)
(* it was fulfilled its value is read again, and may lead elsewhere.         *)
THEOREM OutcomeAdopted == Spec => []AdoptsOutcome
BY Invariance, AdoptedNow, PTL
===============================================================================
