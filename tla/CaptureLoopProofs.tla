-------------------------- MODULE CaptureLoopProofs --------------------------
(***************************************************************************)
(* Proofs about CaptureLoop, for every set of inputs, batch size and       *)
(* number of iterations: the records of the capture phase agree, its rules *)
(* are fresh when an update is over, it selects the largest clusters, it   *)
(* saves the crashes of a batch, and it implements UpdateSchedule.         *)
(***************************************************************************)
EXTENDS CaptureLoop, FiniteSetTheorems, WellFoundedInduction, TLAPS

-----------------------------------------------------------------------------
(* Least and greatest numbers, and sums over finite sets.  The theorems on *)
(* induction of the library cannot be instantiated by the provers at hand; *)
(* what follows argues by minimal counterexamples instead.                 *)

\* Every nonempty set of natural numbers has a least element.
LEMMA LeastNat ==
  ASSUME NEW T, T \subseteq Nat, T # {}
  PROVE  \E x \in T : \A y \in T : x <= y
<1> DEFINE R == {ss \in Nat \X Nat : ss[1] < ss[2]}
<1>1. IsWellFoundedOn(R, Nat)
  BY NatLessThanWellFounded DEF OpToRel
<1>2. \E x \in T : \A y \in T : ~ (<<y, x>> \in R)
  <2> HIDE DEF R
  <2> QED BY <1>1, WFMin
<1>3. PICK x \in T : \A y \in T : ~ (<<y, x>> \in R)
  BY <1>2
<1>4. \A y \in T : ~ (y < x)
  BY <1>3
<1> QED BY <1>4

\* A nonempty family of subsets of a finite set has a minimal member.
LEMMA MinimalSet ==
  ASSUME NEW S, IsFiniteSet(S), NEW Family \in SUBSET (SUBSET S), Family # {}
  PROVE  \E T \in Family : \A U \in Family : U \subseteq T => U = T
<1> DEFINE Cards == {Cardinality(T) : T \in Family}
<1>1. \A T \in Family : IsFiniteSet(T) /\ Cardinality(T) \in Nat
  BY FS_Subset, FS_CardinalityType
<1>2. Cards \subseteq Nat /\ Cards # {}
  BY <1>1
<1>3. PICK n \in Cards : \A m \in Cards : n <= m
  <2> HIDE DEF Cards
  <2> QED BY <1>2, LeastNat
<1>4. PICK T \in Family : n = Cardinality(T)
  BY DEF Cards
<1>5. ASSUME NEW U \in Family, U \subseteq T PROVE U = T
  <2>1. Cardinality(U) <= Cardinality(T) /\ (Cardinality(T) = Cardinality(U) => T = U)
    BY <1>1, <1>5, FS_Subset
  <2>2. Cardinality(T) <= Cardinality(U)
    BY <1>3, <1>4
  <2> QED BY <1>1, <2>1, <2>2
<1> QED BY <1>4, <1>5
-----------------------------------------------------------------------------
(* SumFunctionOnSet, which the library defines by a recursive function.     *)

AnyOf(s) == CHOOSE x \in s : TRUE

\* g gives the sum of f over each subset of S
Sums(f, S, g) ==
  g = [s \in SUBSET S |-> IF s = {} THEN 0 ELSE f[AnyOf(s)] + g[s \ {AnyOf(s)}]]

LEMMA SumsAgree ==
  ASSUME NEW f, NEW S, NEW T, NEW g, NEW h, Sums(f, S, g), Sums(f, T, h), IsFiniteSet(S),
         NEW U, U \subseteq S, U \subseteq T
  PROVE  g[U] = h[U]
<1> DEFINE Bad == {V \in SUBSET U : g[V] # h[V]}
<1> SUFFICES ASSUME Bad # {} PROVE FALSE
  OBVIOUS
<1>1. PICK V \in Bad : \A W \in Bad : W \subseteq V => W = V
  <2>1. IsFiniteSet(U)
    BY FS_Subset
  <2>2. Bad \in SUBSET (SUBSET U)
    OBVIOUS
  <2> HIDE DEF Bad
  <2> QED BY <2>1, <2>2, MinimalSet
<1>2. /\ g[V] = IF V = {} THEN 0 ELSE f[AnyOf(V)] + g[V \ {AnyOf(V)}]
      /\ h[V] = IF V = {} THEN 0 ELSE f[AnyOf(V)] + h[V \ {AnyOf(V)}]
  <2>1. V \in SUBSET S /\ V \in SUBSET T
    OBVIOUS
  <2> QED BY <2>1 DEF Sums
<1>3. CASE V = {}
  BY <1>2, <1>3
<1>4. CASE V # {}
  <2>1. AnyOf(V) \in V
    BY <1>4 DEF AnyOf
  <2>2. V \ {AnyOf(V)} \notin Bad
    BY <1>1, <2>1
  <2> QED BY <1>2, <1>4, <2>2
<1> QED BY <1>3, <1>4

LEMMA SumsExist ==
  ASSUME NEW f, NEW S, IsFiniteSet(S)
  PROVE  \E g : Sums(f, S, g)
<1> DEFINE Bad == {T \in SUBSET S : ~ \E g : Sums(f, T, g)}
<1> SUFFICES ASSUME Bad # {} PROVE FALSE
  OBVIOUS
<1>1. PICK T \in Bad : \A U \in Bad : U \subseteq T => U = T
  <2>1. Bad \in SUBSET (SUBSET S)
    OBVIOUS
  <2> HIDE DEF Bad
  <2> QED BY <2>1, MinimalSet
<1> DEFINE G(U) == CHOOSE g : Sums(f, U, g)
           Below(s) == s \ {AnyOf(s)}
           h == [s \in SUBSET T |-> IF s = {} THEN 0 ELSE f[AnyOf(s)] + G(Below(s))[Below(s)]]
<1>2. \A U \in SUBSET T : U # T => Sums(f, U, G(U))
  BY <1>1
<1>3. ASSUME NEW s \in SUBSET T, s # {} PROVE h[Below(s)] = G(Below(s))[Below(s)]
  <2> DEFINE U == Below(s)
  <2>1. U \in SUBSET T /\ U # T /\ IsFiniteSet(U)
    <3>1. AnyOf(s) \in s
      BY <1>3 DEF AnyOf
    <3>2. T \in SUBSET S
      OBVIOUS
    <3> QED BY <3>1, <3>2, FS_Subset
  <2>2. Sums(f, U, G(U))
    BY <1>2, <2>1
  <2> HIDE DEF U, G
  <2>3. h[U] = IF U = {} THEN 0 ELSE f[AnyOf(U)] + G(Below(U))[Below(U)]
    BY <2>1
  <2>4. G(U)[U] = IF U = {} THEN 0 ELSE f[AnyOf(U)] + G(U)[Below(U)]
    BY <2>2 DEF Sums
  <2>5. CASE U = {}
    BY <2>3, <2>4, <2>5 DEF U
  <2>6. CASE U # {}
    <3>1. Below(U) \subseteq U /\ Below(U) \in SUBSET T /\ Below(U) # T
      BY <2>1
    <3>2. Sums(f, Below(U), G(Below(U)))
      BY <1>2, <3>1
    <3>3. G(U)[Below(U)] = G(Below(U))[Below(U)]
      <4> HIDE DEF Below
      <4> QED BY <2>1, <2>2, <3>1, <3>2, SumsAgree
    <3> QED BY <2>3, <2>4, <2>6, <3>3 DEF U
  <2> QED BY <2>5, <2>6
<1>4. Sums(f, T, h)
  <2>1. \A s \in SUBSET T :
          h[s] = IF s = {} THEN 0 ELSE f[AnyOf(s)] + h[Below(s)]
    <3>1. \A s \in SUBSET T :
            h[s] = IF s = {} THEN 0 ELSE f[AnyOf(s)] + G(Below(s))[Below(s)]
      OBVIOUS
    <3> HIDE DEF h, G, Below
    <3> QED BY <1>3, <3>1
  <2>2. h = [s \in SUBSET T |-> h[s]]
    OBVIOUS
  <2> HIDE DEF h
  <2> QED BY <2>1, <2>2 DEF Sums
<1> QED BY <1>4

LEMMA SumOf ==
  ASSUME NEW f, NEW S
  PROVE  SumFunctionOnSet(f, S) = (CHOOSE g : Sums(f, S, g))[S]
BY DEF SumFunctionOnSet, FoldFunctionOnSet, MapThenFoldSet, Sums, AnyOf

LEMMA SumEmpty ==
  ASSUME NEW f
  PROVE  SumFunctionOnSet(f, {}) = 0
<1>1. Sums(f, {}, CHOOSE g : Sums(f, {}, g))
  BY SumsExist, FS_EmptySet
<1> QED BY <1>1, SumOf DEF Sums

LEMMA SumAny ==
  ASSUME NEW f, NEW S, IsFiniteSet(S), S # {}
  PROVE  /\ AnyOf(S) \in S
         /\ SumFunctionOnSet(f, S) = f[AnyOf(S)] + SumFunctionOnSet(f, S \ {AnyOf(S)})
<1> DEFINE U == S \ {AnyOf(S)}
           G(T) == CHOOSE g : Sums(f, T, g)
<1>1. AnyOf(S) \in S
  BY DEF AnyOf
<1>2. IsFiniteSet(U) /\ U \subseteq S
  BY FS_Subset
<1>3. Sums(f, S, G(S)) /\ Sums(f, U, G(U))
  BY <1>2, SumsExist
<1> HIDE DEF G
<1>4. G(S)[S] = f[AnyOf(S)] + G(S)[U]
  BY <1>3 DEF Sums
<1>5. G(S)[U] = G(U)[U]
  BY <1>2, <1>3, SumsAgree
<1> QED BY <1>1, <1>4, <1>5, SumOf DEF G

LEMMA SumType ==
  ASSUME NEW f, NEW S, IsFiniteSet(S), \A x \in S : f[x] \in Nat
  PROVE  SumFunctionOnSet(f, S) \in Nat
<1> DEFINE Bad == {T \in SUBSET S : SumFunctionOnSet(f, T) \notin Nat}
<1> SUFFICES ASSUME Bad # {} PROVE FALSE
  OBVIOUS
<1>1. PICK T \in Bad : \A U \in Bad : U \subseteq T => U = T
  <2>1. Bad \in SUBSET (SUBSET S)
    OBVIOUS
  <2> HIDE DEF Bad
  <2> QED BY <2>1, MinimalSet
<1>2. T \in SUBSET S /\ IsFiniteSet(T) /\ SumFunctionOnSet(f, T) \notin Nat
  BY FS_Subset
<1>3. T # {}
  BY <1>2, SumEmpty
<1>4. /\ AnyOf(T) \in T
      /\ SumFunctionOnSet(f, T) = f[AnyOf(T)] + SumFunctionOnSet(f, T \ {AnyOf(T)})
  BY <1>2, <1>3, SumAny
<1>5. SumFunctionOnSet(f, T \ {AnyOf(T)}) \in Nat
  <2>1. T \ {AnyOf(T)} \in SUBSET S /\ T \ {AnyOf(T)} \notin Bad
    BY <1>1, <1>2, <1>4
  <2> QED BY <2>1
<1>6. f[AnyOf(T)] \in Nat
  BY <1>2, <1>4
<1> QED BY <1>2, <1>4, <1>5, <1>6

\* Functions that agree on a set have the same sum over it.
LEMMA SumSame ==
  ASSUME NEW f, NEW g, NEW S, IsFiniteSet(S), \A x \in S : f[x] = g[x]
  PROVE  SumFunctionOnSet(f, S) = SumFunctionOnSet(g, S)
<1> DEFINE Bad == {T \in SUBSET S : SumFunctionOnSet(f, T) # SumFunctionOnSet(g, T)}
<1> SUFFICES ASSUME Bad # {} PROVE FALSE
  OBVIOUS
<1>1. PICK T \in Bad : \A U \in Bad : U \subseteq T => U = T
  <2>1. Bad \in SUBSET (SUBSET S)
    OBVIOUS
  <2> HIDE DEF Bad
  <2> QED BY <2>1, MinimalSet
<1>2. T \in SUBSET S /\ IsFiniteSet(T)
  BY FS_Subset
<1>3. T # {}
  BY SumEmpty
<1>4. /\ AnyOf(T) \in T
      /\ SumFunctionOnSet(f, T) = f[AnyOf(T)] + SumFunctionOnSet(f, T \ {AnyOf(T)})
      /\ SumFunctionOnSet(g, T) = g[AnyOf(T)] + SumFunctionOnSet(g, T \ {AnyOf(T)})
  BY <1>2, <1>3, SumAny
<1>5. SumFunctionOnSet(f, T \ {AnyOf(T)}) = SumFunctionOnSet(g, T \ {AnyOf(T)})
  <2>1. T \ {AnyOf(T)} \in SUBSET S /\ T \ {AnyOf(T)} \notin Bad
    BY <1>1, <1>2, <1>4
  <2> QED BY <2>1
<1>6. f[AnyOf(T)] = g[AnyOf(T)]
  BY <1>2, <1>4
<1> QED BY <1>4, <1>5, <1>6

\* Any element may be taken out of a sum first.
LEMMA SumRemove ==
  ASSUME NEW f, NEW S, IsFiniteSet(S), \A x \in S : f[x] \in Nat, NEW x \in S
  PROVE  SumFunctionOnSet(f, S) = f[x] + SumFunctionOnSet(f, S \ {x})
<1> DEFINE Sum(T) == SumFunctionOnSet(f, T)
           Bad == {T \in SUBSET S : \E y \in T : Sum(T) # f[y] + Sum(T \ {y})}
<1> SUFFICES ASSUME Bad # {} PROVE FALSE
  OBVIOUS
<1>1. PICK T \in Bad : \A U \in Bad : U \subseteq T => U = T
  <2>1. Bad \in SUBSET (SUBSET S)
    OBVIOUS
  <2> HIDE DEF Bad
  <2> QED BY <2>1, MinimalSet
<1>2. T \in SUBSET S /\ IsFiniteSet(T) /\ \A U \in SUBSET T : IsFiniteSet(U)
  BY FS_Subset
<1>3. PICK y \in T : Sum(T) # f[y] + Sum(T \ {y})
  BY <1>1
<1> DEFINE a == AnyOf(T)
<1>4. a \in T /\ Sum(T) = f[a] + Sum(T \ {a})
  BY <1>2, <1>3, SumAny
<1> HIDE DEF a
<1>5. CASE y = a
  BY <1>3, <1>4, <1>5
<1>6. CASE y # a
  <2>1. Sum(T \ {a}) = f[y] + Sum((T \ {a}) \ {y})
    <3>1. T \ {a} \notin Bad /\ T \ {a} \in SUBSET S /\ y \in T \ {a}
      BY <1>1, <1>2, <1>4, <1>6
    <3> HIDE DEF Sum
    <3> QED BY <3>1
  <2>2. Sum(T \ {y}) = f[a] + Sum((T \ {y}) \ {a})
    <3>1. T \ {y} \notin Bad /\ T \ {y} \in SUBSET S /\ a \in T \ {y}
      BY <1>1, <1>2, <1>4, <1>6
    <3> HIDE DEF Sum
    <3> QED BY <3>1
  <2>3. (T \ {a}) \ {y} = (T \ {y}) \ {a}
    OBVIOUS
  <2>4. /\ f[a] \in Nat /\ f[y] \in Nat /\ Sum((T \ {a}) \ {y}) \in Nat
        /\ Sum(T) = f[a] + Sum(T \ {a}) /\ Sum(T) # f[y] + Sum(T \ {y})
    <3>1. (T \ {a}) \ {y} \in SUBSET T /\ \A z \in (T \ {a}) \ {y} : f[z] \in Nat
      BY <1>2
    <3>2. Sum((T \ {a}) \ {y}) \in Nat
      BY <1>2, <3>1, SumType
    <3> QED BY <1>2, <1>3, <1>4, <3>2
  <2> DEFINE rest == Sum((T \ {a}) \ {y})
  <2>5. Sum(T) = f[a] + (f[y] + rest)
    BY <2>1, <2>4
  <2>6. f[y] + Sum(T \ {y}) = f[y] + (f[a] + rest)
    BY <2>2, <2>3
  <2>7. rest \in Nat
    BY <2>4
  <2>8. f[a] + (f[y] + rest) = f[y] + (f[a] + rest)
    <3> HIDE DEF rest
    <3> QED BY <2>4, <2>7
  <2> QED BY <2>4, <2>5, <2>6, <2>8
<1> QED BY <1>5, <1>6

\* The greatest of finitely many integers.
LEMMA GreatestOfFinite ==
  ASSUME NEW n \in Nat \ {0}, NEW f, \A i \in 1 .. n : f[i] \in Int
  PROVE  \E j \in 1 .. n : \A k \in 1 .. n : f[k] <= f[j]
<1> DEFINE Bad == {m \in Nat : m # 0 /\ m <= n
                                /\ ~ \E j \in 1 .. m : \A k \in 1 .. m : f[k] <= f[j]}
<1> SUFFICES ASSUME Bad # {} PROVE FALSE
  OBVIOUS
<1>1. PICK m \in Bad : \A l \in Bad : m <= l
  <2>1. Bad \subseteq Nat
    OBVIOUS
  <2> HIDE DEF Bad
  <2> QED BY <2>1, LeastNat
<1>2. m \in Nat /\ m # 0 /\ m <= n
  OBVIOUS
<1>3. m # 1
  <2> SUFFICES ASSUME m = 1 PROVE FALSE
    OBVIOUS
  <2>1. 1 \in 1 .. m /\ \A k \in 1 .. m : k = 1
    OBVIOUS
  <2>2. f[1] <= f[1]
    BY <1>2
  <2>3. \E j \in 1 .. m : \A k \in 1 .. m : f[k] <= f[j]
    BY <2>1, <2>2
  <2> QED BY <2>3, <1>1
<1>4. PICK j \in 1 .. m - 1 : \A k \in 1 .. m - 1 : f[k] <= f[j]
  <2>1. m - 1 \in Nat /\ m - 1 # 0 /\ m - 1 <= n /\ ~ (m <= m - 1)
    BY <1>2, <1>3
  <2>2. m - 1 \notin Bad
    BY <1>1, <2>1
  <2> QED BY <2>1, <2>2
<1>5. /\ \A k \in 1 .. m : k \in 1 .. m - 1 \/ k = m
      /\ j \in 1 .. m /\ m \in 1 .. m /\ \A k \in 1 .. m : k \in 1 .. n
  BY <1>2
<1>6. \A k \in 1 .. m : f[k] \in Int
  BY <1>5
<1>7. ~ \E i \in 1 .. m : \A k \in 1 .. m : f[k] <= f[i]
  BY <1>1
<1> HIDE DEF Bad
<1>8. CASE f[m] <= f[j]
  BY <1>4, <1>5, <1>7, <1>8
<1>9. CASE ~ (f[m] <= f[j])
  <2>1. \A k \in 1 .. m : f[k] <= f[m]
    BY <1>4, <1>5, <1>6, <1>9
  <2> QED BY <1>5, <1>7, <2>1
<1> QED BY <1>8, <1>9
-----------------------------------------------------------------------------
(* Sums that change in one place.                                           *)

\* One number of a sum grows by one.
LEMMA SumBump ==
  ASSUME NEW f, NEW g, NEW S, IsFiniteSet(S), \A y \in S : f[y] \in Nat,
         NEW x \in S, g[x] = f[x] + 1, \A y \in S \ {x} : g[y] = f[y]
  PROVE  SumFunctionOnSet(g, S) = SumFunctionOnSet(f, S) + 1
<1>1. IsFiniteSet(S \ {x})
  BY FS_Subset
<1>2. \A y \in S : g[y] \in Nat
  OBVIOUS
<1>3. SumFunctionOnSet(f, S) = f[x] + SumFunctionOnSet(f, S \ {x})
  BY SumRemove
<1>4. SumFunctionOnSet(g, S) = g[x] + SumFunctionOnSet(g, S \ {x})
  BY <1>2, SumRemove
<1>5. SumFunctionOnSet(g, S \ {x}) = SumFunctionOnSet(f, S \ {x})
  BY <1>1, SumSame
<1>6. SumFunctionOnSet(f, S \ {x}) \in Nat
  BY <1>1, SumType
<1> QED BY <1>3, <1>4, <1>5, <1>6

\* A number joins a sum.
LEMMA SumNew ==
  ASSUME NEW f, NEW g, NEW S, IsFiniteSet(S), \A y \in S : f[y] \in Nat,
         NEW x, x \notin S, g[x] \in Nat, \A y \in S : g[y] = f[y]
  PROVE  SumFunctionOnSet(g, S \cup {x}) = g[x] + SumFunctionOnSet(f, S)
<1> DEFINE T == S \cup {x}
<1>1. IsFiniteSet(T) /\ x \in T /\ T \ {x} = S /\ \A y \in T : g[y] \in Nat
  BY FS_AddElement
<1> HIDE DEF T
<1>2. SumFunctionOnSet(g, T) = g[x] + SumFunctionOnSet(g, T \ {x})
  BY <1>1, SumRemove
<1>3. SumFunctionOnSet(g, S) = SumFunctionOnSet(f, S)
  BY SumSame
<1> QED BY <1>1, <1>2, <1>3 DEF T
-----------------------------------------------------------------------------
(* The invariant of the capture loop.                                      *)

\* Where the loop is and what it counts.  An update takes place once before
\* the first barren streak and once after each, so max_n_chance, which grows
\* with every streak, does not outgrow info_num.
Progress ==
  /\ version \in Versions
  /\ pc \in {"start", "head", "analyse", "generate", "test", "crashed"}
  /\ input \in 0 .. BatchSize + 1
  /\ nChance \in Nat /\ maxNChance \in Nat \ {0} /\ doUpdate \in BOOLEAN
  /\ infoNum \in 0 .. MaxIter + 1
  /\ pc = "start" =>
       /\ testcases = <<>> /\ infoNum = 0 /\ input = 0
       /\ nChance = 0 /\ maxNChance = 1 /\ doUpdate
  /\ pc # "start" => testcases \in Batches /\ maxNChance <= infoNum
  /\ pc = "test" => infoNum <= MaxIter
  /\ pc = "analyse" => doUpdate
  /\ pc \in {"analyse", "generate", "test"} \/ (pc = "head" /\ ~ doUpdate) => input # 0

\* The coverage of the batches, in memory and in the files
CoverageRecords ==
  /\ beforeCov \in Vectors /\ totalFile \in Vectors
  /\ covFiles \in Seq(Vectors)
  /\ IF pc = "start" THEN covFiles = <<>> /\ beforeCov = NoVector /\ totalFile = NoVector
                     ELSE covFiles # <<>>
  /\ CoverageComplete

\* The dictionaries of create_csv
Dictionaries ==
  /\ dtIdx \in Seq(Trees) /\ IsInjective(dtIdx)
  /\ seqsIdx \in Seq(Range(SeqsOf)) /\ IsInjective(seqsIdx)
  /\ covIdx \in Seq(SUBSET Lines) /\ IsInjective(covIdx)
  /\ uniqueSeqs \in Seq(Nat) /\ uniqueSeqs \in [DOMAIN dtIdx -> DOMAIN seqsIdx]
  /\ uniqueDt \in Seq(Nat) /\ uniqueDt \in [DOMAIN seqsIdx -> DOMAIN covIdx]

\* The sequence lists of a cluster
Members(c) == {s \in DOMAIN uniqueDt : uniqueDt[s] = c}

\* The clusters count each sequence list in the cluster it is mapped to
ClusterCounts ==
  /\ DOMAIN clusters = DOMAIN covIdx
  /\ \A c \in DOMAIN clusters : clusters[c] \in [Members(c) -> Nat]

Sizes == [c \in DOMAIN clusters |-> Size(c)]

Counted == SumFunction(Sizes) = Analysed

\* What was captured from the clusters
Captures ==
  /\ capturedCovs \subseteq DOMAIN clusters
  /\ updatedCovs \subseteq DOMAIN clusters
  /\ CaptureAccounts
  /\ \A c \in capturedCovs : parameters[c] \in Seq(Nat) /\ prevCaptured[c] \in Nat

\* While a batch is analysed, only the clusters it has hit may be ahead of
\* their rules
Fresh ==
  /\ RulesFresh
  /\ pc = "analyse" /\ Selects =>
       \A c \in capturedCovs \ updatedCovs : rules[c] = DOMAIN clusters[c]

ErrorFiles == Range(errors) \subseteq Trees

IInv ==
  /\ Progress /\ CoverageRecords /\ Dictionaries /\ ClusterCounts /\ Counted
  /\ Captures /\ Fresh /\ ErrorFiles
-------------------------------------------------------------------------------
(* Where the loop is.                                                      *)

LEMMA InitProgress == Init => Progress
BY CaptureAssumption DEF CaptureAssumption, Init, Progress

LEMMA NextProgress == Progress /\ [Next]_vars => Progress'
<1> SUFFICES ASSUME Progress, [Next]_vars PROVE Progress'
  OBVIOUS
<1> USE CaptureAssumption DEF CaptureAssumption, Progress
<1>1. CASE FirstBatch
  BY <1>1 DEF FirstBatch
<1>2. CASE DecideUpdate
  BY <1>2 DEF DecideUpdate, scheduleVars
<1>3. CASE AnalyseKnownTree
  <2>1. /\ pc = "analyse" /\ input <= BatchSize /\ input' = input + 1
        /\ UNCHANGED <<version, pc, testcases, scheduleVars, infoNum>>
    BY <1>3 DEF AnalyseKnownTree, Hit
  <2> QED BY <2>1 DEF scheduleVars
<1>4. CASE AnalyseKnownSequences
  <2>1. /\ pc = "analyse" /\ input <= BatchSize /\ input' = input + 1
        /\ UNCHANGED <<version, pc, testcases, scheduleVars, infoNum>>
    BY <1>4 DEF AnalyseKnownSequences, Hit
  <2> QED BY <2>1 DEF scheduleVars
<1>5. CASE AnalyseNew
  <2>1. /\ pc = "analyse" /\ input <= BatchSize /\ input' = input + 1
        /\ UNCHANGED <<version, pc, testcases, scheduleVars, infoNum>>
    BY <1>5 DEF AnalyseNew, Hit
  <2> QED BY <2>1 DEF scheduleVars
<1>6. CASE Update
  <2>1. /\ pc = "analyse" /\ pc' \in {"generate", "crashed"}
        /\ UNCHANGED <<version, testcases, input, scheduleVars, infoNum>>
    BY <1>6 DEF Update
  <2> QED BY <2>1 DEF scheduleVars
<1>7. CASE Generate
  BY <1>7 DEF Generate, scheduleVars
<1>8. CASE TestBatch
  <2>1. PICK new \in Measured(testcases) : Test(new)
    BY <1>8 DEF TestBatch
  <2>2. pc = "test"
    BY <1>8 DEF TestBatch
  <2>3. CASE new = NoVector /\ beforeCov # NoVector
    BY <2>1, <2>2, <2>3 DEF Test
  <2>4. CASE ~ (new = NoVector /\ beforeCov # NoVector)
    <3>1. /\ pc' = "head" /\ infoNum' = infoNum + 1
          /\ UNCHANGED <<version, testcases, input>>
          /\ Barren \/ NewLine(new)
      BY <2>1, <2>4 DEF Test
    <3>2. nChance' \in Nat /\ maxNChance' \in {maxNChance, maxNChance + 1}
      BY <3>1 DEF Barren, NewLine
    <3>3. doUpdate' \in BOOLEAN
      BY <3>1 DEF Barren, NewLine
    <3> QED BY <2>2, <3>1, <3>2, <3>3
  <2> QED BY <2>3, <2>4
<1>9. CASE UNCHANGED vars
  BY <1>9 DEF vars, scheduleVars
<1> QED
  BY <1>1, <1>2, <1>3, <1>4, <1>5, <1>6, <1>7, <1>8, <1>9 DEF Next, Stopped
-------------------------------------------------------------------------------
(* The coverage records.                                                   *)

LEMMA InitCoverage == Init => CoverageRecords
BY CaptureAssumption DEF Init, CoverageRecords, CoverageComplete, Vectors

\* A batch covers lines, or nothing is known of it.
LEMMA MeasuredType ==
  ASSUME NEW batch \in Batches
  PROVE  Measured(batch) \subseteq Vectors
<1>1. \A j \in DOMAIN batch : Coverage[batch[j]] \subseteq Lines
  BY CaptureAssumption DEF CaptureAssumption, Batches
<1> QED BY <1>1 DEF Measured, Vectors

LEMMA NextCoverage == Progress /\ CoverageRecords /\ [Next]_vars => CoverageRecords'
<1> SUFFICES ASSUME Progress, CoverageRecords, [Next]_vars PROVE CoverageRecords'
  OBVIOUS
<1>1. CASE FirstBatch
  <2>0. PICK batch \in Batches : \E new \in Measured(batch) :
          beforeCov' = new /\ covFiles' = <<new>> /\ pc' # "start"
    BY <1>1 DEF FirstBatch
  <2>1. PICK new \in Measured(batch) :
          beforeCov' = new /\ covFiles' = <<new>> /\ pc' # "start"
    BY <2>0
  <2>2. pc = "start" /\ totalFile' = totalFile
    BY <1>1 DEF FirstBatch
  <2>3. new \in Vectors /\ totalFile = NoVector
    BY <2>2, MeasuredType DEF CoverageRecords
  <2>4. Range(<<new>>) = {new}
    BY DEF Range
  <2>5. new # NoVector => UNION ({new} \ {NoVector}) = new
    OBVIOUS
  <2>6. covFiles' \in Seq(Vectors) /\ covFiles' # <<>> /\ covFiles'[1] = new
    BY <2>1, <2>3
  <2>7. CoverageComplete'
    BY <2>1, <2>2, <2>3, <2>4, <2>5, <2>6 DEF CoverageComplete
  <2> QED BY <2>1, <2>2, <2>3, <2>6, <2>7 DEF CoverageRecords
<1>2. CASE TestBatch
  <2>1. PICK new \in Measured(testcases) : Test(new)
    BY <1>2 DEF TestBatch
  <2>2. pc = "test" /\ pc' # "start" /\ covFiles' = Append(covFiles, new)
    BY <1>2, <2>1 DEF TestBatch, Test
  <2>3. new \in Vectors
    BY <2>2, MeasuredType DEF Progress
  <2>4. /\ covFiles \in Seq(Vectors) /\ covFiles # <<>>
        /\ beforeCov \in Vectors /\ totalFile \in Vectors
    BY <2>2 DEF CoverageRecords
  <2>5. /\ covFiles' \in Seq(Vectors) /\ covFiles' # <<>> /\ covFiles'[1] = covFiles[1]
        /\ Range(covFiles') = Range(covFiles) \cup {new}
    <3>1. DOMAIN covFiles' = DOMAIN covFiles \cup {Len(covFiles) + 1}
      BY <2>2, <2>3, <2>4
    <3>2. /\ \A i \in DOMAIN covFiles : covFiles'[i] = covFiles[i]
          /\ covFiles'[Len(covFiles) + 1] = new
          /\ covFiles' \in Seq(Vectors) /\ covFiles' # <<>> /\ 1 \in DOMAIN covFiles
      BY <2>2, <2>3, <2>4
    <3> QED BY <3>1, <3>2 DEF Range
  <2> DEFINE Known == Range(covFiles) \ {NoVector}
  <2>6. /\ Range(covFiles') \ {NoVector} =
             IF new = NoVector THEN Known ELSE Known \cup {new}
        /\ UNION (Known \cup {new}) = (UNION Known) \cup new
    BY <2>5
  <2>7. covFiles[1] # NoVector =>
          /\ beforeCov = UNION Known /\ totalFile \in {NoVector, beforeCov}
          /\ beforeCov # NoVector
    <3>1. SUFFICES ASSUME covFiles[1] # NoVector
                   PROVE  /\ beforeCov = UNION Known /\ totalFile \in {NoVector, beforeCov}
                          /\ beforeCov # NoVector
      OBVIOUS
    <3>2. beforeCov = UNION Known /\ totalFile \in {NoVector, beforeCov}
      BY <2>4, <3>1 DEF CoverageRecords, CoverageComplete
    <3>3. Known \subseteq SUBSET Lines
      BY <2>4 DEF Vectors, Range
    <3>4. UNION Known \in SUBSET Lines
      BY <3>3
    <3> QED BY <3>2, <3>4, CaptureAssumption DEF CaptureAssumption
  <2> HIDE DEF Known
  <2>8. CASE new = NoVector /\ beforeCov # NoVector
    <3>1. UNCHANGED <<beforeCov, totalFile>>
      BY <2>1, <2>8 DEF Test
    <3>2. CoverageComplete'
      BY <2>5, <2>6, <2>7, <2>8, <3>1 DEF CoverageComplete, Known
    <3> QED BY <2>2, <2>4, <2>5, <3>1, <3>2 DEF CoverageRecords
  <2>9. CASE ~ (new = NoVector /\ beforeCov # NoVector) /\ NoNewLine(new)
    <3>1. UNCHANGED <<beforeCov, totalFile>>
      BY <2>1, <2>9 DEF Test, Barren
    <3>2. covFiles[1] # NoVector => new # NoVector /\ new \subseteq beforeCov
      BY <2>7, <2>9 DEF NoNewLine
    <3>3. CoverageComplete'
      BY <2>5, <2>6, <2>7, <3>1, <3>2 DEF CoverageComplete
    <3> QED BY <2>2, <2>4, <2>5, <3>1, <3>3 DEF CoverageRecords
  <2>10. CASE ~ (new = NoVector /\ beforeCov # NoVector) /\ ~ NoNewLine(new)
    <3>1. /\ beforeCov' = beforeCov \cup new /\ totalFile' = beforeCov'
          /\ beforeCov # NoVector /\ new # NoVector
      BY <2>1, <2>10 DEF Test, NewLine, ExtendTotal, NoNewLine
    <3>2. beforeCov' \in Vectors
      BY <2>3, <2>4, <3>1 DEF Vectors
    <3>3. CoverageComplete'
      BY <2>5, <2>6, <2>7, <3>1 DEF CoverageComplete
    <3> QED BY <2>2, <2>5, <3>1, <3>2, <3>3 DEF CoverageRecords
  <2> QED BY <2>8, <2>9, <2>10
<1>3. ASSUME UNCHANGED scheduleVars, pc # "start", pc' # "start" PROVE CoverageRecords'
  BY <1>3 DEF scheduleVars, CoverageRecords, CoverageComplete
<1>4. CASE \/ DecideUpdate \/ AnalyseKnownTree \/ AnalyseKnownSequences \/ AnalyseNew
           \/ Update \/ Generate
  <2>1. UNCHANGED scheduleVars /\ pc # "start" /\ pc' # "start"
    BY <1>4 DEF DecideUpdate, AnalyseKnownTree, AnalyseKnownSequences, AnalyseNew, Hit,
                Update, Generate
  <2> QED BY <1>3, <2>1
<1>5. CASE UNCHANGED vars
  BY <1>5 DEF vars, scheduleVars, CoverageRecords, CoverageComplete
<1> QED BY <1>1, <1>2, <1>4, <1>5 DEF Next, Stopped
-------------------------------------------------------------------------------
(* The dictionaries of create_csv.                                         *)

LEMMA Appended ==
  ASSUME NEW S, NEW f \in Seq(S), NEW x \in S
  PROVE  /\ Append(f, x) \in Seq(S)
         /\ DOMAIN Append(f, x) = DOMAIN f \cup {Len(f) + 1}
         /\ Len(f) + 1 \notin DOMAIN f
         /\ \A i \in DOMAIN f : Append(f, x)[i] = f[i]
         /\ Append(f, x)[Len(f) + 1] = x
OBVIOUS

\* A hash that has no key may be given the next one.
LEMMA AppendKeepsKeys ==
  ASSUME NEW S, NEW f \in Seq(S), NEW x \in S, IsInjective(f), x \notin Range(f)
  PROVE  IsInjective(Append(f, x))
<1> DEFINE g == Append(f, x)
<1>1. /\ DOMAIN g = DOMAIN f \cup {Len(f) + 1} /\ g[Len(f) + 1] = x
      /\ \A i \in DOMAIN f : g[i] = f[i]
  BY Appended
<1> HIDE DEF g
<1>2. \A i \in DOMAIN f : f[i] # x
  BY DEF Range
<1>3. IsInjective(g)
  BY <1>1, <1>2 DEF IsInjective
<1> QED BY <1>3 DEF g

LEMMA KeyFound ==
  ASSUME NEW S, NEW f \in Seq(S), NEW x
  PROVE  /\ x \in Range(f) => KeyOf(f, x) \in DOMAIN f /\ f[KeyOf(f, x)] = x
         /\ x \notin Range(f) => KeyOf(f, x) = Len(f) + 1
         /\ KeyOf(f, x) \in DOMAIN f => x \in Range(f)
<1>1. Len(f) + 1 \notin DOMAIN f
  OBVIOUS
<1>2. (\E k \in DOMAIN f : f[k] = x) <=> x \in Range(f)
  BY DEF Range
<1>3. CASE x \in Range(f)
  BY <1>2, <1>3 DEF KeyOf
<1>4. CASE x \notin Range(f)
  BY <1>1, <1>2, <1>4 DEF KeyOf
<1> QED BY <1>3, <1>4

\* A dictionary of hashes with a hash in it.
LEMMA IndexedHas ==
  ASSUME NEW S, NEW f \in Seq(S), NEW x \in S, IsInjective(f)
  PROVE  /\ Indexed(f, x) \in Seq(S) /\ IsInjective(Indexed(f, x))
         /\ DOMAIN Indexed(f, x) = DOMAIN f \cup {KeyOf(f, x)}
<1>1. CASE x \in Range(f)
  BY <1>1, KeyFound DEF Indexed
<1>2. CASE x \notin Range(f)
  <2>1. KeyOf(f, x) = Len(f) + 1 /\ KeyOf(f, x) \notin DOMAIN f
    BY <1>2, KeyFound
  <2>2. Indexed(f, x) = Append(f, x)
    BY <2>1 DEF Indexed
  <2>3. Indexed(f, x) \in Seq(S) /\ DOMAIN Indexed(f, x) = DOMAIN f \cup {KeyOf(f, x)}
    BY <2>1, <2>2, Appended
  <2>4. IsInjective(Indexed(f, x))
    BY <1>2, <2>2, AppendKeepsKeys
  <2> QED BY <2>3, <2>4
<1> QED BY <1>1, <1>2

LEMMA InitDictionaries == Init => Dictionaries /\ ClusterCounts
<1> SUFFICES ASSUME Init PROVE Dictionaries /\ ClusterCounts
  OBVIOUS
<1>1. DOMAIN dtIdx = {} /\ DOMAIN seqsIdx = {} /\ DOMAIN covIdx = {}
      /\ DOMAIN uniqueSeqs = {} /\ DOMAIN uniqueDt = {} /\ DOMAIN clusters = {}
  BY DEF Init
<1>2. IsInjective(dtIdx) /\ IsInjective(seqsIdx) /\ IsInjective(covIdx)
  BY <1>1 DEF IsInjective
<1>3. uniqueSeqs \in [{} -> {}] /\ uniqueDt \in [{} -> {}]
  BY DEF Init
<1>4. /\ dtIdx \in Seq(Trees) /\ seqsIdx \in Seq(Range(SeqsOf)) /\ covIdx \in Seq(SUBSET Lines)
      /\ uniqueSeqs \in Seq(Nat) /\ uniqueDt \in Seq(Nat)
  BY DEF Init
<1>5. Dictionaries
  BY <1>1, <1>2, <1>3, <1>4 DEF Dictionaries
<1> QED BY <1>1, <1>5 DEF ClusterCounts

\* A tree that was met before has a sequence list and a cluster that counts it.
LEMMA KnownTree ==
  ASSUME Dictionaries, ClusterCounts, NEW t \in Range(dtIdx)
  PROVE  LET s == uniqueSeqs[KeyOf(dtIdx, t)]
         IN  s \in DOMAIN uniqueDt /\ uniqueDt[s] \in DOMAIN clusters
                                   /\ s \in Members(uniqueDt[s])
<1>1. KeyOf(dtIdx, t) \in DOMAIN dtIdx
  BY KeyFound DEF Dictionaries
<1> QED BY <1>1 DEF Dictionaries, ClusterCounts, Members

\* A tree joins the dictionaries with the key of its sequence list.
LEMMA TreeJoins ==
  ASSUME Dictionaries, NEW t \in Trees, t \notin Range(dtIdx),
         NEW T, DOMAIN seqsIdx \subseteq T, NEW s \in T, T \subseteq Nat,
         dtIdx' = Append(dtIdx, t), uniqueSeqs' = Append(uniqueSeqs, s)
  PROVE  /\ dtIdx' \in Seq(Trees) /\ IsInjective(dtIdx')
         /\ uniqueSeqs' \in Seq(Nat) /\ uniqueSeqs' \in [DOMAIN dtIdx' -> T]
<1>1. dtIdx' \in Seq(Trees) /\ IsInjective(dtIdx')
  BY Appended, AppendKeepsKeys DEF Dictionaries
<1>2. Len(uniqueSeqs) = Len(dtIdx)
  BY DEF Dictionaries
<1>3. /\ uniqueSeqs' \in Seq(Nat)
      /\ DOMAIN uniqueSeqs' = DOMAIN uniqueSeqs \cup {Len(uniqueSeqs) + 1}
      /\ \A i \in DOMAIN uniqueSeqs : uniqueSeqs'[i] = uniqueSeqs[i]
      /\ uniqueSeqs'[Len(uniqueSeqs) + 1] = s
  BY Appended DEF Dictionaries
<1>4. DOMAIN dtIdx' = DOMAIN dtIdx \cup {Len(dtIdx) + 1}
  BY Appended DEF Dictionaries
<1>5. DOMAIN uniqueSeqs' = DOMAIN dtIdx' /\ \A i \in DOMAIN uniqueSeqs' : uniqueSeqs'[i] \in T
  <2>1. \A i \in DOMAIN uniqueSeqs : uniqueSeqs[i] \in T
    BY DEF Dictionaries
  <2>2. DOMAIN uniqueSeqs = DOMAIN dtIdx
    BY DEF Dictionaries
  <2> QED BY <1>2, <1>3, <1>4, <2>1, <2>2
<1>6. uniqueSeqs' = [i \in DOMAIN uniqueSeqs' |-> uniqueSeqs'[i]]
  <2>1. \A f \in Seq(Nat) : f = [i \in DOMAIN f |-> f[i]]
    OBVIOUS
  <2> QED BY <1>3, <2>1
<1> QED BY <1>1, <1>3, <1>5, <1>6
-------------------------------------------------------------------------------
(* The counts of the clusters.                                             *)

LEMMA SizeType ==
  ASSUME Dictionaries, ClusterCounts
  PROVE  /\ IsFiniteSet(DOMAIN clusters)
         /\ \A c \in DOMAIN clusters : IsFiniteSet(Members(c)) /\ Size(c) \in Nat
<1>1. IsFiniteSet(DOMAIN uniqueDt) /\ IsFiniteSet(DOMAIN covIdx)
  BY FS_Interval DEF Dictionaries
<1>2. ASSUME NEW c \in DOMAIN clusters PROVE IsFiniteSet(Members(c)) /\ Size(c) \in Nat
  <2>1. IsFiniteSet(Members(c))
    BY <1>1, FS_Subset DEF Members
  <2>2. clusters[c] \in [Members(c) -> Nat]
    BY DEF ClusterCounts
  <2>3. DOMAIN clusters[c] = Members(c) /\ \A s \in Members(c) : clusters[c][s] \in Nat
    BY <2>2
  <2> QED BY <2>1, <2>3, SumType DEF Size, SumFunction
<1> QED BY <1>1, <1>2 DEF ClusterCounts

\* An input counted in a cluster adds one to the sum.
LEMMA CountAdds ==
  ASSUME Dictionaries, ClusterCounts, NEW c \in DOMAIN clusters, NEW s \in Members(c),
         Count(c, s), UNCHANGED <<covIdx, uniqueDt>>
  PROVE  /\ ClusterCounts'
         /\ SumFunction(Sizes') = SumFunction(Sizes) + 1
         /\ \A d \in DOMAIN clusters : DOMAIN clusters'[d] = DOMAIN clusters[d]
<1>1. /\ IsFiniteSet(DOMAIN clusters)
      /\ \A d \in DOMAIN clusters : IsFiniteSet(Members(d)) /\ Size(d) \in Nat
  BY SizeType
<1>2. \A d \in DOMAIN clusters : clusters[d] \in [Members(d) -> Nat]
  BY DEF ClusterCounts
<1>3. clusters' = [clusters EXCEPT ![c][s] = @ + 1]
  BY DEF Count
<1>4. /\ DOMAIN clusters' = DOMAIN clusters
      /\ \A d \in DOMAIN clusters \ {c} : clusters'[d] = clusters[d]
      /\ clusters'[c] = [clusters[c] EXCEPT ![s] = clusters[c][s] + 1]
  BY <1>3
<1>5. /\ DOMAIN clusters[c] = Members(c) /\ DOMAIN clusters'[c] = Members(c)
      /\ clusters'[c] \in [Members(c) -> Nat]
      /\ clusters'[c][s] = clusters[c][s] + 1
      /\ \A r \in Members(c) \ {s} : clusters'[c][r] = clusters[c][r]
      /\ \A r \in Members(c) : clusters[c][r] \in Nat
  BY <1>2, <1>4
<1>6. \A d : Members(d)' = Members(d)
  BY DEF Members
<1>7. ClusterCounts'
  <2>1. ASSUME NEW d \in DOMAIN clusters PROVE clusters'[d] \in [Members(d) -> Nat]
    <3>1. CASE d = c
      BY <1>5, <3>1
    <3>2. CASE d # c
      BY <1>2, <1>4, <3>2
    <3> QED BY <3>1, <3>2
  <2>2. DOMAIN clusters' = DOMAIN covIdx'
    BY <1>4 DEF ClusterCounts
  <2> QED BY <1>4, <1>6, <2>1, <2>2 DEF ClusterCounts
<1>8. Size(c)' = Size(c) + 1
  <2> HIDE DEF Members
  <2>1. SumFunctionOnSet(clusters'[c], Members(c)) = SumFunctionOnSet(clusters[c], Members(c)) + 1
    BY <1>1, <1>5, SumBump
  <2> QED BY <1>5, <2>1 DEF Size, SumFunction
<1>9. \A d \in DOMAIN clusters \ {c} : Size(d)' = Size(d)
  BY <1>4 DEF Size
<1> DEFINE f == Sizes
           g == Sizes'
<1>10. /\ DOMAIN f = DOMAIN clusters /\ DOMAIN g = DOMAIN clusters
       /\ \A d \in DOMAIN clusters : f[d] \in Nat
       /\ g[c] = f[c] + 1 /\ \A d \in DOMAIN clusters \ {c} : g[d] = f[d]
  BY <1>1, <1>4, <1>8, <1>9 DEF Sizes
<1> HIDE DEF f, g
<1>11. SumFunctionOnSet(g, DOMAIN clusters) = SumFunctionOnSet(f, DOMAIN clusters) + 1
  BY <1>1, <1>10, SumBump
<1>12. SumFunction(g) = SumFunction(f) + 1
  BY <1>10, <1>11 DEF SumFunction
<1>13. \A d \in DOMAIN clusters : DOMAIN clusters'[d] = DOMAIN clusters[d]
  BY <1>4, <1>5
<1> QED BY <1>7, <1>12, <1>13 DEF f, g

\* A new sequence list is counted once, in the cluster of its coverage.
LEMMA NewCounts ==
  ASSUME Dictionaries, ClusterCounts, NEW c, NEW s, s \notin DOMAIN uniqueDt,
         NEW old, old = IF c \in DOMAIN clusters THEN clusters[c] ELSE <<>>,
         clusters' = Put(clusters, c, Put(old, s, 1)),
         DOMAIN covIdx' = DOMAIN covIdx \cup {c},
         DOMAIN uniqueDt' = DOMAIN uniqueDt \cup {s}, uniqueDt'[s] = c,
         \A r \in DOMAIN uniqueDt : uniqueDt'[r] = uniqueDt[r]
  PROVE  /\ ClusterCounts'
         /\ SumFunction(Sizes') = SumFunction(Sizes) + 1
         /\ DOMAIN clusters' = DOMAIN clusters \cup {c}
         /\ \A d \in DOMAIN clusters \ {c} : DOMAIN clusters'[d] = DOMAIN clusters[d]
<1>1. /\ IsFiniteSet(DOMAIN clusters)
      /\ \A d \in DOMAIN clusters : IsFiniteSet(Members(d)) /\ Size(d) \in Nat
  BY SizeType
<1>2. /\ DOMAIN clusters = DOMAIN covIdx
      /\ \A d \in DOMAIN clusters : clusters[d] \in [Members(d) -> Nat]
  BY DEF ClusterCounts
<1>3. /\ DOMAIN clusters' = DOMAIN clusters \cup {c}
      /\ clusters'[c] = Put(old, s, 1)
      /\ \A d \in DOMAIN clusters \ {c} : clusters'[d] = clusters[d]
  BY DEF Put
<1>4. /\ Members(c)' = Members(c) \cup {s}
      /\ \A d : d # c => Members(d)' = Members(d)
      /\ s \notin Members(c)
  BY DEF Members
<1>5. /\ old \in [Members(c) -> Nat] /\ IsFiniteSet(Members(c))
      /\ SumFunctionOnSet(old, Members(c)) \in Nat
      /\ c \in DOMAIN clusters => SumFunctionOnSet(old, Members(c)) = Size(c)
      /\ c \notin DOMAIN clusters => SumFunctionOnSet(old, Members(c)) = 0
  <2>1. CASE c \in DOMAIN clusters
    <3>1. old = clusters[c] /\ DOMAIN clusters[c] = Members(c)
      BY <1>2, <2>1
    <3> QED BY <1>1, <1>2, <2>1, <3>1 DEF Size, SumFunction
  <2>2. CASE c \notin DOMAIN clusters
    <3>1. old = <<>> /\ Members(c) = {}
      BY <1>2, <2>2 DEF Members, Dictionaries
    <3>2. old \in [{} -> Nat]
      <4>1. old \in Seq(Nat) /\ DOMAIN old = {}
        <5>1. <<>> \in Seq(Nat) /\ DOMAIN <<>> = {}
          OBVIOUS
        <5> QED BY <3>1, <5>1
      <4>2. \A f \in Seq(Nat) : f \in [DOMAIN f -> Nat]
        OBVIOUS
      <4>3. old \in [DOMAIN old -> Nat]
        BY <4>1, <4>2
      <4> QED BY <4>1, <4>3
    <3> QED BY <2>2, <3>1, <3>2, SumEmpty, FS_EmptySet
  <2> QED BY <2>1, <2>2
<1> DEFINE new == Put(old, s, 1)
<1>6. /\ DOMAIN old = Members(c) /\ \A r \in Members(c) : old[r] \in Nat
      /\ new \in [Members(c) \cup {s} -> Nat] /\ DOMAIN new = Members(c) \cup {s}
      /\ new[s] = 1 /\ \A r \in Members(c) : new[r] = old[r]
  BY <1>4, <1>5 DEF Put
<1>7. SumFunctionOnSet(new, Members(c) \cup {s}) = 1 + SumFunctionOnSet(old, Members(c))
  <2> HIDE DEF new, Members
  <2> QED BY <1>4, <1>5, <1>6, SumNew
<1>8. Size(c)' = 1 + SumFunctionOnSet(old, Members(c))
  BY <1>3, <1>6, <1>7 DEF Size, SumFunction
<1> HIDE DEF new
<1>9. \A d \in DOMAIN clusters \ {c} : Size(d)' = Size(d)
  BY <1>3 DEF Size
<1>10. ClusterCounts'
  <2>1. ASSUME NEW d \in DOMAIN clusters' PROVE clusters'[d] \in [Members(d)' -> Nat]
    <3>1. CASE d = c
      BY <1>3, <1>4, <1>6, <3>1 DEF new
    <3>2. CASE d # c
      <4>1. Members(d)' = Members(d) /\ d \in DOMAIN clusters /\ clusters'[d] = clusters[d]
        BY <1>3, <1>4, <3>2
      <4> QED BY <1>2, <4>1
    <3> QED BY <3>1, <3>2
  <2>2. DOMAIN clusters' = DOMAIN covIdx'
    BY <1>2, <1>3
  <2> QED BY <2>1, <2>2 DEF ClusterCounts
<1> DEFINE f == Sizes
           g == Sizes'
<1>11. /\ DOMAIN f = DOMAIN clusters /\ DOMAIN g = DOMAIN clusters \cup {c}
       /\ \A d \in DOMAIN clusters : f[d] = Size(d) /\ f[d] \in Nat
       /\ g[c] = 1 + SumFunctionOnSet(old, Members(c))
       /\ \A d \in DOMAIN clusters \ {c} : g[d] = f[d]
  <2>1. \A d \in DOMAIN clusters' : g[d] = Size(d)'
    BY DEF Sizes
  <2>2. c \in DOMAIN clusters' /\ \A d \in DOMAIN clusters \ {c} : d \in DOMAIN clusters'
    BY <1>3
  <2>3. /\ DOMAIN f = DOMAIN clusters /\ DOMAIN g = DOMAIN clusters'
        /\ \A d \in DOMAIN clusters : f[d] = Size(d)
    BY DEF Sizes
  <2> HIDE DEF f, g
  <2> QED BY <1>1, <1>3, <1>8, <1>9, <2>1, <2>2, <2>3
<1> HIDE DEF f, g
<1>12. SumFunctionOnSet(g, DOMAIN clusters \cup {c}) = SumFunctionOnSet(f, DOMAIN clusters) + 1
  <2>1. CASE c \in DOMAIN clusters
    <3>0. DOMAIN clusters \cup {c} = DOMAIN clusters
      BY <2>1
    <3>1. g[c] = f[c] + 1
      BY <1>1, <1>5, <1>11, <2>1
    <3> QED BY <3>0, <1>1, <1>11, <2>1, <3>1, SumBump
  <2>2. CASE c \notin DOMAIN clusters
    <3>1. g[c] = 1 /\ \A d \in DOMAIN clusters : g[d] = f[d]
      BY <1>5, <1>11, <2>2
    <3>2. SumFunctionOnSet(f, DOMAIN clusters) \in Nat
      BY <1>1, <1>11, SumType
    <3>3. SumFunctionOnSet(g, DOMAIN clusters \cup {c}) = g[c] + SumFunctionOnSet(f, DOMAIN clusters)
      BY <1>1, <1>11, <2>2, <3>1, SumNew
    <3> QED BY <3>1, <3>2, <3>3
  <2> QED BY <2>1, <2>2
<1>13. SumFunction(g) = SumFunction(f) + 1
  BY <1>11, <1>12 DEF SumFunction
<1>14. \A d \in DOMAIN clusters \ {c} : DOMAIN clusters'[d] = DOMAIN clusters[d]
  BY <1>3
<1> QED BY <1>3, <1>10, <1>13, <1>14 DEF f, g
-------------------------------------------------------------------------------
(* create_csv: an input is analysed.                                       *)

Analyse == AnalyseKnownTree \/ AnalyseKnownSequences \/ AnalyseNew

\* What analysing an input does to the clusters: cluster c is hit.
HitIn(c) ==
  /\ DOMAIN clusters' = DOMAIN clusters \cup {c}
  /\ updatedCovs' = updatedCovs \cup {c}
  /\ \A d \in DOMAIN clusters \ {c} : DOMAIN clusters'[d] = DOMAIN clusters[d]

LEMMA InputType ==
  ASSUME Progress, Analyse
  PROVE  /\ pc = "analyse" /\ input <= BatchSize /\ input' = input + 1
         /\ UNCHANGED <<version, pc, testcases, captureVars, scheduleVars, infoNum>>
         /\ testcases[input] \in Trees /\ SeqsOf[testcases[input]] \in Range(SeqsOf)
         /\ input \in 1..BatchSize
<1>1. /\ pc = "analyse" /\ input <= BatchSize /\ input' = input + 1
      /\ UNCHANGED <<version, pc, testcases, captureVars, scheduleVars, infoNum>>
  BY DEF Analyse, AnalyseKnownTree, AnalyseKnownSequences, AnalyseNew, Hit
<1>2. input \in 1..BatchSize /\ testcases \in Batches
  BY <1>1, CaptureAssumption DEF CaptureAssumption, Progress
<1>3. testcases[input] \in Trees
  BY <1>2 DEF Batches
<1> QED BY <1>1, <1>2, <1>3, CaptureAssumption DEF CaptureAssumption, Range

LEMMA AnalyseDictionaries ==
  ASSUME Progress, Dictionaries, ClusterCounts, Analyse
  PROVE  /\ Dictionaries' /\ ClusterCounts'
         /\ SumFunction(Sizes') = SumFunction(Sizes) + 1
         /\ \E c \in DOMAIN clusters' : HitIn(c)
<1> DEFINE t == testcases[input]
<1>1. t \in Trees /\ SeqsOf[t] \in Range(SeqsOf)
  BY InputType
<1>2. CASE AnalyseKnownTree
  <2> DEFINE s == uniqueSeqs[KeyOf(dtIdx, t)]
             c == uniqueDt[s]
  <2>1. /\ t \in Range(dtIdx) /\ Count(c, s) /\ updatedCovs' = updatedCovs \cup {c}
        /\ UNCHANGED <<dtIdx, seqsIdx, covIdx, uniqueSeqs, uniqueDt>>
    BY <1>2 DEF AnalyseKnownTree, Hit
  <2>2. c \in DOMAIN clusters /\ s \in Members(c)
    BY <2>1, KnownTree
  <2> HIDE DEF s, c, t
  <2>3. /\ ClusterCounts' /\ SumFunction(Sizes') = SumFunction(Sizes) + 1
        /\ \A d \in DOMAIN clusters : DOMAIN clusters'[d] = DOMAIN clusters[d]
    BY <2>1, <2>2, CountAdds
  <2>4. Dictionaries'
    BY <2>1 DEF Dictionaries
  <2>5. c \in DOMAIN clusters' /\ HitIn(c)
    BY <2>1, <2>2, <2>3 DEF HitIn, Count
  <2> QED BY <2>3, <2>4, <2>5
<1>3. CASE AnalyseKnownSequences
  <2> DEFINE s == KeyOf(seqsIdx, SeqsOf[t])
             c == uniqueDt[s]
  <2>1. /\ t \notin Range(dtIdx) /\ s \in DOMAIN uniqueDt
        /\ dtIdx' = Append(dtIdx, t) /\ uniqueSeqs' = Append(uniqueSeqs, s)
        /\ Count(c, s) /\ updatedCovs' = updatedCovs \cup {c}
        /\ UNCHANGED <<seqsIdx, covIdx, uniqueDt>>
    BY <1>3 DEF AnalyseKnownSequences, Hit
  <2> HIDE DEF s, t
  <2>2. s \in DOMAIN seqsIdx /\ c \in DOMAIN clusters /\ s \in Members(c)
    BY <2>1 DEF Dictionaries, ClusterCounts, Members
  <2> HIDE DEF c
  <2>3. /\ ClusterCounts' /\ SumFunction(Sizes') = SumFunction(Sizes) + 1
        /\ \A d \in DOMAIN clusters : DOMAIN clusters'[d] = DOMAIN clusters[d]
    BY <2>1, <2>2, CountAdds
  <2>4. Dictionaries'
    <3>1. DOMAIN seqsIdx \subseteq Nat
      BY DEF Dictionaries
    <3>2. /\ dtIdx' \in Seq(Trees) /\ IsInjective(dtIdx')
          /\ uniqueSeqs' \in Seq(Nat) /\ uniqueSeqs' \in [DOMAIN dtIdx' -> DOMAIN seqsIdx]
      BY <1>1, <2>1, <2>2, <3>1, TreeJoins
    <3> QED BY <2>1, <3>2 DEF Dictionaries
  <2>5. c \in DOMAIN clusters' /\ HitIn(c)
    BY <2>1, <2>2, <2>3 DEF HitIn, Count
  <2> QED BY <2>3, <2>4, <2>5
<1>4. CASE AnalyseNew
  <2> DEFINE s == KeyOf(seqsIdx, SeqsOf[t])
  <2>1. /\ t \notin Range(dtIdx) /\ s \notin DOMAIN uniqueDt
        /\ dtIdx' = Append(dtIdx, t)
        /\ seqsIdx' = Append(seqsIdx, SeqsOf[t])
        /\ uniqueSeqs' = Append(uniqueSeqs, s)
    BY <1>4 DEF AnalyseNew
  <2>2. PICK late \in BOOLEAN :
          LET cov == IF late THEN {} ELSE Coverage[t]
              c   == KeyOf(covIdx, cov)
              old == IF c \in DOMAIN clusters THEN clusters[c] ELSE <<>>
          IN  /\ covIdx' = Indexed(covIdx, cov)
              /\ clusters' = Put(clusters, c, Put(old, s, 1))
              /\ uniqueDt' = Append(uniqueDt, c)
              /\ Hit(c)
    BY <1>4 DEF AnalyseNew
  <2> DEFINE cov == IF late THEN {} ELSE Coverage[t]
             c   == KeyOf(covIdx, cov)
             old == IF c \in DOMAIN clusters THEN clusters[c] ELSE <<>>
  <2>3. /\ covIdx' = Indexed(covIdx, cov)
        /\ clusters' = Put(clusters, c, Put(old, s, 1))
        /\ uniqueDt' = Append(uniqueDt, c)
        /\ updatedCovs' = updatedCovs \cup {c}
    BY <2>2 DEF Hit
  <2>4. cov \in SUBSET Lines
    <3> HIDE DEF t
    <3>1. Coverage[t] \in SUBSET Lines
      BY <1>1, CaptureAssumption DEF CaptureAssumption
    <3>2. CASE late
      BY <3>2
    <3>3. CASE ~ late
      BY <3>1, <3>3
    <3> QED BY <3>2, <3>3
  <2>5. old = IF c \in DOMAIN clusters THEN clusters[c] ELSE <<>>
    OBVIOUS
  <2> HIDE DEF cov, old
  <2>6. /\ covIdx' \in Seq(SUBSET Lines) /\ IsInjective(covIdx')
        /\ DOMAIN covIdx' = DOMAIN covIdx \cup {c}
    <3> DEFINE V == SUBSET Lines
    <3>1. covIdx \in Seq(V) /\ IsInjective(covIdx) /\ cov \in V
      BY <2>4 DEF Dictionaries
    <3> HIDE DEF V
    <3>2. /\ Indexed(covIdx, cov) \in Seq(V) /\ IsInjective(Indexed(covIdx, cov))
          /\ DOMAIN Indexed(covIdx, cov) = DOMAIN covIdx \cup {c}
      BY <3>1, IndexedHas
    <3> QED BY <2>3, <3>2 DEF V
  <2>7. c \in DOMAIN covIdx' /\ c \in Nat /\ DOMAIN covIdx \subseteq DOMAIN covIdx'
    BY <2>6
  <2> HIDE DEF c
  <2>8. SeqsOf[t] \notin Range(seqsIdx) /\ s = Len(seqsIdx) + 1 /\ s \in Nat
        /\ s = Len(uniqueDt) + 1
    <3>1. DOMAIN uniqueDt = DOMAIN seqsIdx /\ seqsIdx \in Seq(Range(SeqsOf))
          /\ uniqueDt \in Seq(Nat)
      BY DEF Dictionaries
    <3>2. SeqsOf[t] \notin Range(seqsIdx)
      BY <2>1, <3>1, KeyFound
    <3>3. s = Len(seqsIdx) + 1
      BY <3>1, <3>2, KeyFound
    <3>4. Len(seqsIdx) = Len(uniqueDt) /\ Len(seqsIdx) \in Nat
      BY <3>1
    <3> QED BY <3>2, <3>3, <3>4
  <2> HIDE DEF s, t
  <2>9. /\ uniqueDt' \in Seq(Nat) /\ DOMAIN uniqueDt' = DOMAIN uniqueDt \cup {s}
        /\ uniqueDt'[s] = c /\ \A r \in DOMAIN uniqueDt : uniqueDt'[r] = uniqueDt[r]
    BY <2>3, <2>7, <2>8, Appended DEF Dictionaries
  <2>10. /\ seqsIdx' \in Seq(Range(SeqsOf)) /\ DOMAIN seqsIdx' = DOMAIN seqsIdx \cup {s}
         /\ IsInjective(seqsIdx')
    <3>1. seqsIdx \in Seq(Range(SeqsOf)) /\ IsInjective(seqsIdx)
      BY DEF Dictionaries
    <3>2. IsInjective(seqsIdx')
      BY <1>1, <2>1, <2>8, <3>1, AppendKeepsKeys
    <3> QED BY <1>1, <2>1, <2>8, <3>1, <3>2, Appended
  <2>11. /\ dtIdx' \in Seq(Trees) /\ IsInjective(dtIdx')
         /\ uniqueSeqs' \in Seq(Nat) /\ uniqueSeqs' \in [DOMAIN dtIdx' -> DOMAIN seqsIdx']
    <3>1. DOMAIN seqsIdx' \subseteq Nat
      BY <2>10
    <3>2. DOMAIN seqsIdx \subseteq DOMAIN seqsIdx' /\ s \in DOMAIN seqsIdx'
      BY <2>10
    <3> QED BY <1>1, <2>1, <3>1, <3>2, TreeJoins
  <2>12. uniqueDt' \in [DOMAIN seqsIdx' -> DOMAIN covIdx']
    <3>1. DOMAIN uniqueDt' = DOMAIN seqsIdx' /\ DOMAIN uniqueDt = DOMAIN seqsIdx
      BY <2>9, <2>10 DEF Dictionaries
    <3>2. \A r \in DOMAIN uniqueDt : uniqueDt[r] \in DOMAIN covIdx
      BY DEF Dictionaries
    <3>3. \A r \in DOMAIN uniqueDt' : uniqueDt'[r] \in DOMAIN covIdx'
      BY <2>7, <2>9, <3>2
    <3>4. \A f \in Seq(Nat) : f = [i \in DOMAIN f |-> f[i]]
      OBVIOUS
    <3>5. uniqueDt' = [i \in DOMAIN uniqueDt' |-> uniqueDt'[i]]
      BY <2>9, <3>4
    <3> QED BY <3>1, <3>3, <3>5
  <2>13. Dictionaries'
    BY <2>6, <2>9, <2>10, <2>11, <2>12 DEF Dictionaries
  <2>14. /\ ClusterCounts' /\ SumFunction(Sizes') = SumFunction(Sizes) + 1
         /\ DOMAIN clusters' = DOMAIN clusters \cup {c}
         /\ \A d \in DOMAIN clusters \ {c} : DOMAIN clusters'[d] = DOMAIN clusters[d]
    BY <2>1, <2>3, <2>5, <2>6, <2>9, NewCounts
  <2>15. c \in DOMAIN clusters' /\ HitIn(c)
    BY <2>3, <2>14 DEF HitIn
  <2> QED BY <2>13, <2>14, <2>15
<1> QED BY <1>2, <1>3, <1>4 DEF Analyse
-------------------------------------------------------------------------------
(* The inputs analysed so far.                                             *)

LEMMA Multiples ==
  ASSUME NEW m \in Int, NEW b \in Int
  PROVE  m * b \in Int /\ (m - 1) * b \in Int /\ (m - 1) * b + b = m * b /\ (1 - 1) * b = 0
OBVIOUS

LEMMA AnalysedIs ==
  /\ pc = "analyse" => Analysed = (maxNChance - 1) * BatchSize + input - 1
  /\ pc # "analyse" /\ Pending => Analysed = (maxNChance - 1) * BatchSize
  /\ pc # "analyse" /\ ~ Pending => Analysed = maxNChance * BatchSize
<1> DEFINE x == (maxNChance - 1) * BatchSize + input - 1
           y == (maxNChance - 1) * BatchSize
           z == maxNChance * BatchSize
<1>1. Analysed = CASE pc = "analyse" -> x [] Pending -> y [] OTHER -> z
  BY DEF Analysed
<1> HIDE DEF x, y, z
<1>2. /\ pc = "analyse" => Analysed = x
      /\ pc # "analyse" /\ Pending => Analysed = y
      /\ pc # "analyse" /\ ~ Pending => Analysed = z
  <2>1. Pending => pc # "analyse"
    BY DEF Pending
  <2> QED BY <1>1, <2>1
<1> QED BY <1>2 DEF x, y, z

LEMMA AnalysedIsNext ==
  /\ pc' = "analyse" => Analysed' = (maxNChance' - 1) * BatchSize + input' - 1
  /\ pc' # "analyse" /\ Pending' => Analysed' = (maxNChance' - 1) * BatchSize
  /\ pc' # "analyse" /\ ~ Pending' => Analysed' = maxNChance' * BatchSize
<1> DEFINE x == (maxNChance' - 1) * BatchSize + input' - 1
           y == (maxNChance' - 1) * BatchSize
           z == maxNChance' * BatchSize
<1>1. Analysed' = CASE pc' = "analyse" -> x [] Pending' -> y [] OTHER -> z
  BY DEF Analysed
<1> HIDE DEF x, y, z
<1>2. /\ pc' = "analyse" => Analysed' = x
      /\ pc' # "analyse" /\ Pending' => Analysed' = y
      /\ pc' # "analyse" /\ ~ Pending' => Analysed' = z
  <2>1. Pending' => pc' # "analyse"
    BY DEF Pending
  <2> QED BY <1>1, <2>1
<1> QED BY <1>2 DEF x, y, z

\* Only the analysis of an input changes the dictionaries and the counts.
LEMMA OnlyAnalyse ==
  ASSUME [Next]_vars, ~ Analyse
  PROVE  UNCHANGED indexVars
<1>1. CASE TestBatch
  BY <1>1 DEF TestBatch, Test
<1> QED
  BY <1>1 DEF Next, Stopped, vars, Analyse, FirstBatch, DecideUpdate, Update, Generate

\* No other step changes how many inputs have been analysed: what an update
\* analyses is what the streaks before it say.
LEMMA AnalysedStays ==
  ASSUME Progress, CoverageRecords, Progress', CoverageRecords', [Next]_vars, ~ Analyse
  PROVE  Analysed' = Analysed
<1> DEFINE m == maxNChance
           b == BatchSize
           old == Analysed
           new == Analysed'
<1>1. m \in Int /\ m' \in Int /\ b \in Int /\ input \in Int
  BY CaptureAssumption DEF CaptureAssumption, Progress
<1>2. /\ m * b \in Int /\ (m - 1) * b \in Int /\ (m - 1) * b + b = m * b /\ (1 - 1) * b = 0
      /\ ((m + 1) - 1) * b = m * b
  <2>1. (m + 1) - 1 = m
    BY <1>1
  <2> QED BY <1>1, <2>1, Multiples
<1>3. CASE FirstBatch
  <2>1. /\ pc = "start" /\ doUpdate /\ input = 0 /\ pc' \in {"head", "crashed"}
        /\ m' = m /\ doUpdate' = doUpdate /\ input' = input
    BY <1>3 DEF FirstBatch, Progress
  <2>2. Pending /\ Pending' /\ pc # "analyse" /\ pc' # "analyse"
    BY <2>1 DEF Pending
  <2> QED BY <2>1, <2>2, AnalysedIs, AnalysedIsNext
<1>4. CASE DecideUpdate
  <2>1. pc = "head" /\ m' = m
    BY <1>4 DEF DecideUpdate, scheduleVars
  <2>2. CASE doUpdate
    <3>1. pc' = "analyse" /\ input' = 1 /\ Pending
      BY <1>4, <2>1, <2>2 DEF DecideUpdate, Pending
    <3>2. Analysed = (m - 1) * b /\ Analysed' = (m - 1) * b + 1 - 1
      BY <2>1, <3>1, AnalysedIs, AnalysedIsNext
    <3> QED BY <1>2, <3>2
  <2>3. CASE ~ doUpdate
    <3>1. pc' = "generate" /\ ~ Pending /\ ~ Pending'
      BY <1>4, <2>1, <2>3 DEF DecideUpdate, Pending
    <3> QED BY <2>1, <3>1, AnalysedIs, AnalysedIsNext
  <2> QED BY <2>2, <2>3
<1>5. CASE Update
  <2>1. /\ pc = "analyse" /\ input > BatchSize /\ pc' \in {"generate", "crashed"}
        /\ m' = m /\ input' = input
    BY <1>5 DEF Update, scheduleVars
  <2>2. input = b + 1 /\ ~ Pending'
    BY <2>1, CaptureAssumption DEF CaptureAssumption, Progress, Pending
  <2>3. Analysed = (m - 1) * b + input - 1 /\ Analysed' = m * b
    BY <2>1, <2>2, AnalysedIs, AnalysedIsNext
  <2>4. (m - 1) * b + input - 1 = (m - 1) * b + b
    BY <1>1, <1>2, <2>2
  <2> QED BY <1>2, <2>3, <2>4
<1>6. CASE Generate
  <2>1. pc = "generate" /\ pc' = "test" /\ m' = m
    BY <1>6 DEF Generate, scheduleVars
  <2>2. ~ Pending /\ ~ Pending'
    BY <2>1 DEF Pending
  <2> QED BY <2>1, <2>2, AnalysedIs, AnalysedIsNext
<1>7. CASE TestBatch
  <2>1. PICK x \in Measured(testcases) : Test(x)
    BY <1>7 DEF TestBatch
  <2>2. pc = "test" /\ input' = input /\ input # 0
    BY <1>7, <2>1 DEF TestBatch, Test, Progress
  <2>3. Analysed = m * b
    <3>1. ~ Pending /\ pc # "analyse"
      BY <2>2 DEF Pending
    <3> QED BY <3>1, AnalysedIs
  <2>4. CASE x = NoVector /\ beforeCov # NoVector
    <3>1. pc' = "crashed" /\ m' = m
      BY <2>1, <2>4 DEF Test
    <3>2. ~ Pending' /\ pc' # "analyse"
      BY <2>2, <3>1 DEF Pending
    <3> QED BY <2>3, <3>1, <3>2, AnalysedIsNext
  <2>5. CASE ~ (x = NoVector /\ beforeCov # NoVector)
    <3>1. pc' = "head" /\ (Barren \/ NewLine(x))
      BY <2>1, <2>5 DEF Test
    <3>2. doUpdate' \in BOOLEAN
      BY DEF Progress
    <3>3. CASE doUpdate'
      <4>1. m' = m + 1 /\ Pending' /\ pc' # "analyse"
        BY <3>1, <3>3 DEF Barren, NewLine, Pending
      <4>2. Analysed' = ((m + 1) - 1) * b
        BY <4>1, AnalysedIsNext
      <4> QED BY <1>2, <2>3, <4>2
    <3>4. CASE ~ doUpdate'
      <4>1. m' = m /\ ~ Pending' /\ pc' # "analyse"
        BY <3>1, <3>4 DEF Barren, NewLine, Pending
      <4> QED BY <2>3, <4>1, AnalysedIsNext
    <3> QED BY <3>3, <3>4
  <2> QED BY <2>4, <2>5
<1>8. CASE UNCHANGED vars
  BY <1>8 DEF vars, scheduleVars, Analysed, Pending
<1> QED BY <1>3, <1>4, <1>5, <1>6, <1>7, <1>8 DEF Next, Stopped, Analyse

\* The analysis of an input adds one.
LEMMA AnalysedAdds ==
  ASSUME Progress, Analyse
  PROVE  Analysed' = Analysed + 1
<1>1. pc = "analyse" /\ pc' = "analyse" /\ input' = input + 1 /\ maxNChance' = maxNChance
      /\ input \in 1..BatchSize
  BY InputType DEF scheduleVars
<1>2. /\ Analysed = (maxNChance - 1) * BatchSize + input - 1
      /\ Analysed' = (maxNChance - 1) * BatchSize + (input + 1) - 1
  BY <1>1, AnalysedIs, AnalysedIsNext
<1>3. (maxNChance - 1) * BatchSize \in Int /\ input \in Int
  BY <1>1, Multiples, CaptureAssumption DEF CaptureAssumption, Progress
<1> DEFINE k == (maxNChance - 1) * BatchSize
<1> HIDE DEF k
<1>4. Analysed = k + input - 1 /\ Analysed' = k + (input + 1) - 1 /\ k \in Int
  BY <1>2, <1>3 DEF k
<1> QED BY <1>3, <1>4

LEMMA InitCounted == Init => Counted
<1> SUFFICES ASSUME Init PROVE Counted
  OBVIOUS
<1>1. DOMAIN Sizes = {}
  BY DEF Sizes, Init
<1>2. SumFunction(Sizes) = 0
  BY <1>1, SumEmpty DEF SumFunction
<1>3. pc # "analyse" /\ Pending /\ maxNChance = 1
  BY DEF Init, Pending
<1>4. Analysed = (1 - 1) * BatchSize
  BY <1>3, AnalysedIs
<1>5. (1 - 1) * BatchSize = 0
  BY Multiples, CaptureAssumption DEF CaptureAssumption
<1> QED BY <1>2, <1>4, <1>5 DEF Counted

LEMMA NextCounted ==
  ASSUME Progress, CoverageRecords, Dictionaries, ClusterCounts, Counted, [Next]_vars
  PROVE  Dictionaries' /\ ClusterCounts' /\ Counted'
<1>1. CASE Analyse
  <2>1. Analysed' = Analysed + 1
    BY <1>1, AnalysedAdds
  <2>2. /\ Dictionaries' /\ ClusterCounts'
        /\ SumFunction(Sizes') = SumFunction(Sizes) + 1
    BY <1>1, AnalyseDictionaries
  <2>3. Counted'
    BY <2>1, <2>2 DEF Counted
  <2> QED BY <2>2, <2>3
<1>2. CASE ~ Analyse
  <2>1. UNCHANGED indexVars
    BY <1>2, OnlyAnalyse
  <2>2. UNCHANGED <<dtIdx, seqsIdx, covIdx, uniqueSeqs, uniqueDt, clusters>>
    BY <2>1 DEF indexVars
  <2>3. Dictionaries' /\ ClusterCounts'
    BY <2>2 DEF Dictionaries, ClusterCounts, Members
  <2>4. Sizes' = Sizes
    BY <2>2 DEF Sizes, Size
  <2>5. Analysed' = Analysed
    BY <1>2, NextProgress, NextCoverage, AnalysedStays
  <2> QED BY <2>3, <2>4, <2>5 DEF Counted
<1> QED BY <1>1, <1>2
-------------------------------------------------------------------------------
(* update_recurrent_sequences: the selection of clusters.                  *)

LEMMA MinIs ==
  ASSUME NEW T, T \subseteq Nat, T # {}
  PROVE  Min(T) \in T
<1>1. \E x \in T : \A y \in T : x =< y
  BY LeastNat
<1> QED BY <1>1 DEF Min

LEMMA MaxIs ==
  ASSUME NEW n \in Nat, NEW T, T \subseteq 1..n, T # {}
  PROVE  Max(T) \in T /\ \A y \in T : Max(T) >= y
<1> DEFINE Below == {n - x : x \in T}
<1>1. Below \subseteq Nat /\ Below # {}
  <2>1. \A x \in T : n - x \in Nat
    OBVIOUS
  <2>2. PICK x \in T : TRUE
    OBVIOUS
  <2>3. n - x \in Below
    BY <2>2
  <2> QED BY <2>1, <2>3
<1>2. PICK b \in Below : \A y \in Below : b <= y
  <2> HIDE DEF Below
  <2> QED BY <1>1, LeastNat
<1>3. PICK x \in T : b = n - x
  BY <1>2
<1>4. \A y \in T : n - y \in Below /\ y \in Int
  <2>1. \A y \in T : y \in Int
    OBVIOUS
  <2>2. ASSUME NEW y \in T PROVE n - y \in Below
    OBVIOUS
  <2> QED BY <2>1, <2>2
<1> HIDE DEF Below
<1>5. \A y \in T : n - x <= n - y
  BY <1>2, <1>3, <1>4
<1>6. \E z \in T : \A y \in T : z >= y
  BY <1>3, <1>4, <1>5
<1> QED BY <1>6 DEF Max

\* What a ranking takes
Taken(r) == Range(SubSeq(r, 1, TopK(r)))

\* A ranking lists the uncaptured clusters.
LEMMA RankingIs ==
  ASSUME Dictionaries, ClusterCounts, NEW r \in Rankings
  PROVE  /\ r \in Seq(Uncaptured) /\ \A c \in Uncaptured : \E j \in 1..Len(r) : r[j] = c
         /\ \A j \in 1..Len(r) : r[j] \in Uncaptured /\ Size(r[j]) \in Nat
         /\ \A j, k \in 1..Len(r) : j < k => Size(r[j]) >= Size(r[k])
<1> DEFINE n == Cardinality(Uncaptured)
<1>1. IsFiniteSet(Uncaptured) /\ n \in Nat
  <2>1. IsFiniteSet(DOMAIN clusters)
    BY SizeType
  <2> QED BY <2>1, FS_Subset, FS_CardinalityType DEF Uncaptured
<1>2. /\ r \in [1..n -> Uncaptured] /\ \A i, j \in 1..n : i # j => r[i] # r[j]
      /\ \A j, k \in DOMAIN r : j < k => Size(r[j]) >= Size(r[k])
  BY DEF Rankings, SetToSeqs
<1> HIDE DEF n
<1>3. Len(r) = n /\ r \in Seq(Uncaptured) /\ DOMAIN r = 1..n
  BY <1>1, <1>2
<1>4. r \in Surjection(1..n, Uncaptured)
  <2>1. r \in Injection(1..n, Uncaptured)
    BY <1>2 DEF Injection, IsInjective
  <2>2. Cardinality(1..n) = n
    BY <1>1, FS_Interval
  <2> QED BY <1>1, <2>1, <2>2, FS_Injection DEF n
<1>5. \A c \in Uncaptured : \E j \in 1..n : r[j] = c
  BY <1>4 DEF Surjection
<1>6. \A c \in Uncaptured : Size(c) \in Nat
  BY SizeType DEF Uncaptured
<1> QED BY <1>2, <1>3, <1>5, <1>6

\* It is cut within its length, and not before its first cluster.
LEMMA CutIs ==
  ASSUME Dictionaries, ClusterCounts, NEW r \in Rankings
  PROVE  TopK(r) \in 0..Len(r) /\ (Len(r) # 0 => TopK(r) # 0)
<1> DEFINE n == Len(r)
           gap(j) == Size(r[j]) - Size(r[j + 1])
           G == {j \in 1 .. n - 1 : \A k \in 1 .. n - 1 : gap(k) <= gap(j)}
<1>1. n \in Nat /\ \A j \in 1..n : Size(r[j]) \in Nat
  BY RankingIs
<1>2. CASE n <= 1
  BY <1>1, <1>2 DEF TopK
<1>3. CASE ~ (n <= 1)
  <2>1. TopK(r) = Min(G)
    BY <1>3 DEF TopK
  <2>2. \A j \in 1 .. n - 1 : gap(j) \in Int
    <3>1. \A j \in 1 .. n - 1 : j \in 1..n /\ j + 1 \in 1..n
      BY <1>1
    <3> HIDE DEF n
    <3> QED BY <1>1, <3>1
  <2> DEFINE f == [j \in 1 .. n - 1 |-> gap(j)]
  <2>3. \E j \in 1 .. n - 1 : \A k \in 1 .. n - 1 : f[k] <= f[j]
    <3>1. n - 1 \in Nat \ {0} /\ \A j \in 1 .. n - 1 : f[j] \in Int
      BY <1>1, <1>3, <2>2
    <3> HIDE DEF f, n
    <3> QED BY <3>1, GreatestOfFinite
  <2>4. G # {} /\ G \subseteq 1 .. n - 1
    <3>1. \A j \in 1 .. n - 1 : f[j] = gap(j)
      OBVIOUS
    <3> HIDE DEF f, gap
    <3> QED BY <2>3, <3>1
  <2>5. Min(G) \in 1 .. n - 1
    <3>1. G \subseteq Nat
      BY <1>1, <2>4
    <3> HIDE DEF G
    <3> QED BY <2>4, <3>1, MinIs
  <2> HIDE DEF G, n
  <2>6. Min(G) \in 0..n /\ Min(G) # 0
    BY <1>1, <2>5
  <2> QED BY <2>1, <2>6 DEF n
<1> QED BY <1>2, <1>3

\* It takes uncaptured clusters, some if there are any, and none smaller than
\* one it leaves.
LEMMA TakenAre ==
  ASSUME Dictionaries, ClusterCounts, NEW r \in Rankings
  PROVE  /\ Taken(r) \subseteq Uncaptured
         /\ Uncaptured # {} => Taken(r) # {}
         /\ \A c \in Taken(r), d \in Uncaptured \ Taken(r) : Size(c) >= Size(d)
<1> DEFINE n == Len(r)
           k == TopK(r)
<1>1. /\ r \in Seq(Uncaptured) /\ \A c \in Uncaptured : \E j \in 1..n : r[j] = c
      /\ \A j \in 1..n : r[j] \in Uncaptured /\ Size(r[j]) \in Nat
      /\ \A i, j \in 1..n : i < j => Size(r[i]) >= Size(r[j])
  BY RankingIs
<1>2. k \in 0..n /\ (n # 0 => k # 0) /\ n \in Nat
  BY <1>1, CutIs
<1> HIDE DEF k
<1>3. \A c : c \in Taken(r) <=> \E j \in 1..k : c = r[j]
  <2>1. /\ DOMAIN SubSeq(r, 1, k) = 1..k
        /\ \A j \in 1..k : SubSeq(r, 1, k)[j] = r[j]
    BY <1>1, <1>2
  <2>2. Taken(r) = {SubSeq(r, 1, k)[j] : j \in DOMAIN SubSeq(r, 1, k)}
    BY DEF Taken, Range, k
  <2> QED BY <2>1, <2>2
<1> HIDE DEF n
<1>4. \A j \in 1..k : j \in 1..n
  BY <1>2
<1>5. Taken(r) \subseteq Uncaptured
  BY <1>1, <1>3, <1>4
<1>6. Uncaptured # {} => Taken(r) # {}
  <2> SUFFICES ASSUME Uncaptured # {} PROVE Taken(r) # {}
    OBVIOUS
  <2>1. n # 0
    BY <1>1, <1>2
  <2>2. 1 \in 1..k
    BY <1>2, <2>1
  <2> QED BY <1>3, <2>2
<1>7. ASSUME NEW c \in Taken(r), NEW d \in Uncaptured \ Taken(r) PROVE Size(c) >= Size(d)
  <2>1. PICK i \in 1..k : c = r[i]
    BY <1>3
  <2>2. PICK j \in 1..n : d = r[j]
    BY <1>1, <1>7
  <2>3. j \notin 1..k
    BY <1>3, <1>7, <2>2
  <2>4. i < j
    BY <1>2, <2>3
  <2> QED BY <1>1, <1>4, <2>1, <2>2, <2>4
<1> QED BY <1>5, <1>6, <1>7
-------------------------------------------------------------------------------
(* What was captured.                                                      *)

\* An update captures the chosen clusters, with the parameters used.
Recorded(chosen, used) ==
  /\ capturedCovs' = capturedCovs \cup chosen
  /\ rules' = [c \in DOMAIN rules \cup chosen |->
                 IF c \in chosen THEN DOMAIN clusters[c] ELSE rules[c]]
  /\ parameters' = [c \in DOMAIN parameters \cup chosen |->
                      IF c \notin chosen THEN parameters[c]
                      ELSE IF c \in capturedCovs
                           THEN Append(parameters[c], used[c])
                           ELSE <<used[c]>>]
  /\ prevCaptured' = [c \in DOMAIN prevCaptured \cup chosen |->
                        IF c \in chosen THEN used[c] ELSE prevCaptured[c]]

LEMMA ChosenAre ==
  ASSUME Dictionaries, ClusterCounts, NEW chosen \in ClustersToUpdate,
         capturedCovs \subseteq DOMAIN clusters
  PROVE  /\ chosen \subseteq DOMAIN clusters
         /\ Selects => /\ updatedCovs \cap capturedCovs \subseteq chosen
                       /\ \E r \in Rankings :
                            chosen = Taken(r) \cup (updatedCovs \cap capturedCovs)
         /\ ~ Selects => chosen = Uncaptured
<1>1. CASE Selects
  <2>1. PICK r \in Rankings : chosen = Taken(r) \cup (updatedCovs \cap capturedCovs)
    BY <1>1 DEF ClustersToUpdate, Taken
  <2>2. Taken(r) \subseteq Uncaptured
    BY TakenAre
  <2> QED BY <1>1, <2>1, <2>2 DEF Uncaptured
<1>2. CASE ~ Selects
  BY <1>2 DEF ClustersToUpdate, Uncaptured
<1> QED BY <1>1, <1>2

LEMMA UpdateRecords ==
  ASSUME Dictionaries, ClusterCounts, Captures, Update
  PROVE  \E chosen \in ClustersToUpdate : \E used \in [chosen -> Nat] : Recorded(chosen, used)
<1>1. PICK chosen \in ClustersToUpdate :
        \E used \in [chosen -> UNION {UsedClusters(c) : c \in chosen}] :
          (\A c \in chosen : used[c] \in UsedClusters(c)) /\ Recorded(chosen, used)
  BY DEF Update, Recorded, SavePrevCaptured
<1>2. PICK used \in [chosen -> UNION {UsedClusters(c) : c \in chosen}] :
        (\A c \in chosen : used[c] \in UsedClusters(c)) /\ Recorded(chosen, used)
  BY <1>1
<1>3. ASSUME NEW c PROVE UsedClusters(c) \subseteq Nat
  <2>1. c \in capturedCovs => prevCaptured[c] \in Nat
    BY DEF Captures
  <2> QED BY <2>1 DEF UsedClusters
<1>4. \A c \in chosen : used[c] \in Nat
  BY <1>2, <1>3
<1>5. used \in [chosen -> Nat]
  BY <1>4
<1> QED BY <1>2, <1>5

LEMMA InitCaptures == Init => Captures /\ Fresh /\ ErrorFiles
<1> SUFFICES ASSUME Init PROVE Captures /\ Fresh /\ ErrorFiles
  OBVIOUS
<1>1. /\ DOMAIN rules = {} /\ DOMAIN parameters = {} /\ DOMAIN prevCaptured = {}
      /\ DOMAIN clusters = {} /\ DOMAIN errors = {}
      /\ capturedCovs = {} /\ updatedCovs = {} /\ pc = "start"
  BY DEF Init
<1> QED BY <1>1 DEF Captures, CaptureAccounts, Fresh, RulesFresh, SelectedFresh, OthersCaptured,
                    ErrorFiles, Range

LEMMA UpdateCaptures ==
  ASSUME Dictionaries, ClusterCounts, Captures, Update
  PROVE  Captures'
<1>1. PICK chosen \in ClustersToUpdate : \E used \in [chosen -> Nat] : Recorded(chosen, used)
  BY UpdateRecords
<1>2. PICK used \in [chosen -> Nat] : Recorded(chosen, used)
  BY <1>1
<1>3. /\ capturedCovs \subseteq DOMAIN clusters /\ updatedCovs \subseteq DOMAIN clusters
      /\ DOMAIN rules = capturedCovs /\ DOMAIN parameters = capturedCovs
      /\ DOMAIN prevCaptured = capturedCovs
      /\ \A c \in capturedCovs : /\ parameters[c] \in Seq(Nat) /\ prevCaptured[c] \in Nat
                                 /\ Last(parameters[c]) = prevCaptured[c]
  BY DEF Captures, CaptureAccounts
<1>4. chosen \subseteq DOMAIN clusters
  BY <1>3, ChosenAre
<1>5. clusters' = clusters /\ updatedCovs' = updatedCovs
  BY DEF Update, indexVars
<1>6. /\ capturedCovs' = capturedCovs \cup chosen
      /\ DOMAIN rules' = capturedCovs' /\ DOMAIN parameters' = capturedCovs'
      /\ DOMAIN prevCaptured' = capturedCovs'
  BY <1>2, <1>3 DEF Recorded
<1>7. ASSUME NEW c \in capturedCovs'
      PROVE  /\ parameters'[c] \in Seq(Nat) /\ prevCaptured'[c] \in Nat
             /\ Last(parameters'[c]) = prevCaptured'[c]
  <2>1. CASE c \notin chosen
    <3>1. c \in capturedCovs /\ parameters'[c] = parameters[c] /\ prevCaptured'[c] = prevCaptured[c]
      BY <1>2, <1>3, <1>6, <2>1 DEF Recorded
    <3> QED BY <1>3, <3>1
  <2>2. CASE c \in chosen
    <3>1. used[c] \in Nat /\ prevCaptured'[c] = used[c]
      BY <1>2, <2>2 DEF Recorded
    <3>2. CASE c \in capturedCovs
      <4>1. parameters'[c] = Append(parameters[c], used[c])
        BY <1>2, <2>2, <3>2 DEF Recorded
      <4>2. parameters[c] \in Seq(Nat)
        BY <1>3, <3>2
      <4>3. \A f \in Seq(Nat), x \in Nat :
              Append(f, x) \in Seq(Nat) /\ Append(f, x)[Len(Append(f, x))] = x
        OBVIOUS
      <4> QED BY <3>1, <4>1, <4>2, <4>3 DEF Last
    <3>3. CASE c \notin capturedCovs
      <4>1. parameters'[c] = <<used[c]>>
        BY <1>2, <2>2, <3>3 DEF Recorded
      <4>2. \A x \in Nat : <<x>> \in Seq(Nat) /\ <<x>>[Len(<<x>>)] = x
        OBVIOUS
      <4> QED BY <3>1, <4>1, <4>2 DEF Last
    <3> QED BY <3>2, <3>3
  <2> QED BY <2>1, <2>2
<1> QED BY <1>3, <1>4, <1>5, <1>6, <1>7 DEF Captures, CaptureAccounts

\* Steps that leave the clusters and the records alone.
LEMMA OthersKeep ==
  ASSUME [Next]_vars, ~ Analyse, ~ Update
  PROVE  UNCHANGED <<version, clusters, captureVars>>
<1>1. CASE TestBatch
  BY <1>1 DEF TestBatch, Test, indexVars
<1> QED
  BY <1>1 DEF Next, Stopped, vars, indexVars, Analyse, FirstBatch, DecideUpdate, Generate

LEMMA NextCaptures ==
  ASSUME Progress, Dictionaries, ClusterCounts, Captures, [Next]_vars
  PROVE  Captures'
<1>1. CASE Update
  BY <1>1, UpdateCaptures
<1>2. CASE Analyse
  <2>1. PICK c \in DOMAIN clusters' : HitIn(c)
    BY <1>2, AnalyseDictionaries
  <2>2. UNCHANGED captureVars
    BY <1>2, InputType
  <2> QED BY <2>1, <2>2 DEF HitIn, captureVars, Captures, CaptureAccounts
<1>3. CASE ~ Update /\ ~ Analyse
  <2>1. UNCHANGED <<clusters, capturedCovs, rules, parameters, prevCaptured>>
    BY <1>3, OthersKeep DEF captureVars
  <2>2. updatedCovs' \in {{}, updatedCovs}
    <3>1. CASE TestBatch
      BY <3>1 DEF TestBatch, Test
    <3> QED
      BY <1>3, <3>1 DEF Next, Stopped, vars, Analyse, FirstBatch, DecideUpdate, Generate
  <2> QED BY <2>1, <2>2 DEF Captures, CaptureAccounts
<1> QED BY <1>1, <1>2, <1>3

\* An update leaves no captured cluster behind its rules, since what is behind
\* was hit by the batch, and is chosen.
LEMMA NextFresh ==
  ASSUME Progress, Dictionaries, ClusterCounts, Captures, Fresh, [Next]_vars
  PROVE  Fresh'
<1> DEFINE UpToDate(c) == rules[c] = DOMAIN clusters[c]
<1>1. CASE Update
  <2>1. PICK chosen \in ClustersToUpdate : \E used \in [chosen -> Nat] : Recorded(chosen, used)
    BY <1>1, UpdateRecords
  <2>2. PICK used \in [chosen -> Nat] : Recorded(chosen, used)
    BY <2>1
  <2>3. /\ pc = "analyse" /\ pc' # "analyse"
        /\ UNCHANGED <<version, clusters, updatedCovs>>
    BY <1>1 DEF Update, indexVars
  <2>4. /\ capturedCovs \subseteq DOMAIN clusters /\ DOMAIN rules = capturedCovs
    BY DEF Captures, CaptureAccounts
  <2>5. /\ Selects => updatedCovs \cap capturedCovs \subseteq chosen
        /\ ~ Selects => chosen = DOMAIN clusters \ capturedCovs
    BY <2>4, ChosenAre DEF Uncaptured
  <2>6. /\ capturedCovs' = capturedCovs \cup chosen
        /\ \A c \in capturedCovs' :
             rules'[c] = IF c \in chosen THEN DOMAIN clusters[c] ELSE rules[c]
    BY <2>2, <2>4 DEF Recorded
  <2>7. CASE Selects
    <3>1. \A c \in capturedCovs \ updatedCovs : UpToDate(c)
      BY <2>3, <2>7 DEF Fresh
    <3>2. \A c \in capturedCovs' : rules'[c] = DOMAIN clusters'[c]
      BY <2>3, <2>5, <2>6, <2>7, <3>1
    <3> QED BY <2>3, <2>7, <3>2 DEF Fresh, RulesFresh, SelectedFresh, OthersCaptured, Selects
  <2>8. CASE ~ Selects
    BY <2>3, <2>4, <2>5, <2>6, <2>8 DEF Fresh, RulesFresh, SelectedFresh, OthersCaptured, Selects
  <2> QED BY <2>7, <2>8
<1>2. CASE Analyse
  <2>1. PICK c \in DOMAIN clusters' : HitIn(c)
    BY <1>2, AnalyseDictionaries
  <2>2. /\ pc = "analyse" /\ pc' = "analyse"
        /\ UNCHANGED <<version, capturedCovs, rules>>
    BY <1>2, InputType DEF captureVars
  <2>3. capturedCovs \subseteq DOMAIN clusters
    BY DEF Captures
  <2>4. Selects => \A d \in capturedCovs \ updatedCovs : UpToDate(d)
    BY <2>2 DEF Fresh
  <2>5. Selects => \A d \in capturedCovs' \ updatedCovs' : rules'[d] = DOMAIN clusters'[d]
    BY <2>1, <2>2, <2>3, <2>4 DEF HitIn
  <2> QED BY <2>2, <2>5 DEF Fresh, RulesFresh, SelectedFresh, OthersCaptured, Selects
<1>3. CASE ~ Update /\ ~ Analyse
  <2>1. UNCHANGED <<version, clusters, capturedCovs, rules>>
    BY <1>3, OthersKeep DEF captureVars
  <2>2. CASE pc' = "analyse"
    <3>1. DecideUpdate \/ UNCHANGED vars
      <4>1. CASE TestBatch
        BY <2>2, <4>1 DEF TestBatch, Test
      <4> QED
        BY <1>3, <2>2, <4>1 DEF Next, Stopped, Analyse, FirstBatch, Generate
    <3>2. CASE DecideUpdate
      BY <2>1, <2>2, <3>2
         DEF DecideUpdate, Fresh, RulesFresh, SelectedFresh, OthersCaptured, Selects
    <3>3. CASE UNCHANGED vars
      BY <3>3
         DEF vars, captureVars, indexVars, Fresh, RulesFresh, SelectedFresh, OthersCaptured,
             Selects
    <3> QED BY <3>1, <3>2, <3>3
  <2>3. CASE pc' # "analyse"
    <3>1. pc # "analyse"
      BY <1>3, <2>3
         DEF Next, Stopped, vars, Analyse, FirstBatch, DecideUpdate, Generate, TestBatch
    <3> QED BY <2>1, <2>3, <3>1 DEF Fresh, RulesFresh, SelectedFresh, OthersCaptured, Selects
  <2> QED BY <2>2, <2>3
<1> QED BY <1>1, <1>2, <1>3
-------------------------------------------------------------------------------
(* The files of crashing inputs.                                           *)

\* The crashing inputs of a batch whose files are named by k
Named(batch, k) == {j \in DOMAIN batch : batch[j] \in Crashing /\ ErrorName(j) = k}

LEMMA SavedAre ==
  ASSUME NEW batch \in Batches, ErrorFiles
  PROVE  /\ Range(SaveErrors(batch)) \subseteq Trees
         /\ \A k \in 1..BatchSize : Named(batch, k) # {} =>
              /\ <<infoNum, k>> \in DOMAIN SaveErrors(batch)
              /\ SaveErrors(batch)[<<infoNum, k>>] = batch[Max(Named(batch, k))]
<1> DEFINE saved == {<<infoNum, k>> : k \in {k \in 1..BatchSize : Named(batch, k) # {}}}
           files == SaveErrors(batch)
<1>1. files = [name \in DOMAIN errors \cup saved |->
                 IF name \in saved THEN batch[Max(Named(batch, name[2]))] ELSE errors[name]]
  BY DEF SaveErrors, Named
<1>2. DOMAIN batch = 1..BatchSize /\ \A j \in 1..BatchSize : batch[j] \in Trees
  BY DEF Batches
<1>3. ASSUME NEW k, Named(batch, k) # {} PROVE batch[Max(Named(batch, k))] \in Trees
  <2>1. Named(batch, k) \subseteq 1..BatchSize
    BY <1>2 DEF Named
  <2>2. Max(Named(batch, k)) \in Named(batch, k)
    BY <1>3, <2>1, MaxIs, CaptureAssumption DEF CaptureAssumption
  <2> QED BY <1>2, <2>1, <2>2
<1>4. ASSUME NEW name \in DOMAIN files PROVE files[name] \in Trees
  <2>1. CASE name \in saved
    <3>1. PICK k \in 1..BatchSize : name = <<infoNum, k>> /\ Named(batch, k) # {}
      BY <2>1
    <3>2. files[name] = batch[Max(Named(batch, k))]
      BY <1>1, <2>1, <3>1
    <3> QED BY <1>3, <3>1, <3>2
  <2>2. CASE name \notin saved
    <3>1. name \in DOMAIN errors /\ files[name] = errors[name]
      BY <1>1, <1>4, <2>2
    <3> QED BY <3>1 DEF ErrorFiles, Range
  <2> QED BY <2>1, <2>2
<1>5. ASSUME NEW k \in 1..BatchSize, Named(batch, k) # {}
      PROVE  /\ <<infoNum, k>> \in DOMAIN files
             /\ files[<<infoNum, k>>] = batch[Max(Named(batch, k))]
  <2>1. <<infoNum, k>> \in saved
    BY <1>5
  <2> HIDE DEF saved
  <2>2. <<infoNum, k>> \in DOMAIN errors \cup saved
    BY <2>1
  <2> DEFINE name == <<infoNum, k>>
  <2>3. name[2] = k
    OBVIOUS
  <2> HIDE DEF name, files
  <2>4. name \in saved /\ name \in DOMAIN errors \cup saved
    BY <2>1 DEF name
  <2>5. name \in DOMAIN files /\ files[name] = batch[Max(Named(batch, name[2]))]
    BY <1>1, <2>4
  <2>6. name \in DOMAIN files /\ files[name] = batch[Max(Named(batch, k))]
    BY <2>3, <2>5
  <2> QED BY <2>6 DEF name
<1> QED BY <1>4, <1>5 DEF Range

\* An input keeps its files unless it is the first, names are shifted, and the
\* second crashes as well.
LEMMA LastOfName ==
  ASSUME NEW batch \in Batches, NEW j \in DOMAIN batch, batch[j] \in Crashing,
         ~ (Shifted /\ j = 1 /\ batch[2] \in Crashing)
  PROVE  /\ ErrorName(j) \in 1..BatchSize
         /\ Max(Named(batch, ErrorName(j))) = j
<1> DEFINE k == ErrorName(j)
           N == Named(batch, k)
<1>1. DOMAIN batch = 1..BatchSize /\ BatchSize \in Nat /\ Shifted \in BOOLEAN
  BY CaptureAssumption DEF CaptureAssumption, Batches
<1>2. k \in 1..BatchSize
  BY <1>1 DEF ErrorName
<1>3. j \in N /\ N \subseteq 1..BatchSize
  BY <1>1 DEF Named
<1>4. ASSUME NEW y \in N PROVE y <= j
  <2>1. y \in 1..BatchSize /\ batch[y] \in Crashing /\ ErrorName(y) = ErrorName(j)
    BY <1>1 DEF Named
  <2>2. CASE ~ Shifted
    BY <1>1, <2>1, <2>2 DEF ErrorName
  <2>3. CASE Shifted
    <3>1. (IF y > 1 THEN y - 1 ELSE y) = (IF j > 1 THEN j - 1 ELSE j)
      BY <2>1, <2>3 DEF ErrorName
    <3>2. y = j \/ (y = 1 /\ j = 2) \/ (y = 2 /\ j = 1)
      BY <1>1, <2>1, <3>1
    <3>3. ~ (y = 2 /\ j = 1)
      BY <2>1, <2>3
    <3> QED BY <1>1, <3>2, <3>3
  <2> QED BY <2>2, <2>3
<1> HIDE DEF N, k
<1>5. Max(N) \in N /\ Max(N) >= j
  <2>1. N # {}
    BY <1>3
  <2> QED BY <1>1, <1>3, <2>1, MaxIs
<1>6. Max(N) <= j /\ Max(N) \in Int /\ j \in Int
  BY <1>1, <1>3, <1>4, <1>5
<1> QED BY <1>2, <1>5, <1>6 DEF N, k

LEMMA NextErrors ==
  ASSUME Progress, ErrorFiles, [Next]_vars
  PROVE  ErrorFiles'
<1>1. CASE FirstBatch
  <2>1. PICK batch \in Batches : errors' = SaveErrors(batch)
    BY <1>1 DEF FirstBatch
  <2> QED BY <2>1, SavedAre DEF ErrorFiles
<1>2. CASE TestBatch
  <2>1. errors' = SaveErrors(testcases) /\ testcases \in Batches
    BY <1>2 DEF TestBatch, Test, Progress
  <2> QED BY <2>1, SavedAre DEF ErrorFiles
<1>3. CASE AnalyseNew
  <2>1. testcases[input] \in Trees
    BY <1>3, InputType DEF Analyse
  <2>2. errors' \in {errors, Put(errors, <<infoNum, input>>, testcases[input])}
    BY <1>3 DEF AnalyseNew
  <2>3. ASSUME NEW f, NEW x, NEW v \in Trees, Range(f) \subseteq Trees
        PROVE  Range(Put(f, x, v)) \subseteq Trees
    BY <2>3 DEF Put, Range
  <2> QED BY <2>1, <2>2, <2>3 DEF ErrorFiles
<1>4. CASE errors' = errors
  BY <1>4 DEF ErrorFiles
<1> QED
  BY <1>1, <1>2, <1>3, <1>4
     DEF Next, Stopped, vars, AnalyseKnownTree, AnalyseKnownSequences, DecideUpdate,
         Update, Generate
-------------------------------------------------------------------------------
LEMMA Invariance == Spec => []IInv
<1>1. Init => IInv
  BY InitProgress, InitCoverage, InitDictionaries, InitCounted, InitCaptures DEF IInv
<1>2. IInv /\ [Next]_vars => IInv'
  BY NextProgress, NextCoverage, NextCounted, NextCaptures, NextFresh, NextErrors DEF IInv
<1> QED BY <1>1, <1>2, PTL DEF Spec

\* The records that the loop keeps in several dictionaries and files, filled at
\* different points of an iteration, agree, and no input is counted twice or
\* dropped (create_csv, update_recurrent_sequences, run).
THEOREM RecordsInAgreement == Spec => []RecordsAgree
<1>1. IInv => TypeOK
  <2> SUFFICES ASSUME IInv PROVE TypeOK
    OBVIOUS
  <2>1. \A S, f : f \in Seq(S) => Range(f) \subseteq S
    BY DEF Range
  <2>2. /\ Range(dtIdx) \subseteq Trees /\ Range(seqsIdx) \subseteq Range(SeqsOf)
        /\ Range(covIdx) \subseteq SUBSET Lines /\ Range(covFiles) \subseteq Vectors
    BY <2>1 DEF IInv, Dictionaries, CoverageRecords
  <2>3. \A c \in DOMAIN clusters : DOMAIN clusters[c] \subseteq DOMAIN seqsIdx
    BY DEF IInv, ClusterCounts, Dictionaries, Members
  <2>4. testcases \in Batches \cup {<<>>}
    BY DEF IInv, Progress
  <2> QED
    BY <2>2, <2>3, <2>4
       DEF IInv, Progress, CoverageRecords, Dictionaries, ClusterCounts, Captures, ErrorFiles,
           TypeOK
<1>2. IInv => ClusterAccounts
  <2> SUFFICES ASSUME IInv PROVE ClusterAccounts
    OBVIOUS
  <2>1. \A c \in DOMAIN clusters : DOMAIN clusters[c] = {s \in DOMAIN uniqueDt : uniqueDt[s] = c}
    BY DEF IInv, ClusterCounts, Members
  <2> QED BY <2>1 DEF IInv, Dictionaries, Counted, Sizes, ClusterAccounts
<1>3. IInv => CaptureAccounts /\ CoverageComplete
  BY DEF IInv, Captures, CoverageRecords
<1>4. IInv => RecordsAgree
  BY <1>1, <1>2, <1>3 DEF RecordsAgree
<1> QED BY <1>4, Invariance, PTL

\* Once an update is over and until the next one, the versions with selection
\* have no captured cluster with a sequence list its rules were not computed from
\* (clusters_to_update takes the captured clusters the batch hit again).  The
\* others never capture a cluster twice: of them it says that none is left out.
THEOREM RulesUpToDate == Spec => []RulesFresh
<1>1. IInv => RulesFresh
  BY DEF IInv, Fresh
<1> QED BY <1>1, Invariance, PTL

\* Selection takes the largest uncaptured clusters, up to the first largest gap
\* between their sizes, and at least one if there is any.
THEOREM LargestSelected == Spec => SelectsLargest
<1> DEFINE A == pc = "analyse" /\ pc' # "analyse" =>
                  LET taken == capturedCovs' \ capturedCovs
                      left  == DOMAIN clusters \ capturedCovs'
                  IN  /\ Uncaptured # {} => taken # {}
                      /\ \A c \in taken, d \in left : Size(c) >= Size(d)
<1>1. IInv /\ [Next]_vars => [A]_vars
  <2> SUFFICES ASSUME IInv, Next, pc = "analyse", pc' # "analyse" PROVE A
    OBVIOUS
  <2>1. Update
    <3>1. ~ Analyse
      BY InputType DEF IInv
    <3>2. CASE UNCHANGED vars
      BY <3>2 DEF vars
    <3> QED
      BY <3>1, <3>2 DEF Next, Stopped, Analyse, FirstBatch, DecideUpdate, Generate, TestBatch
  <2>2. Dictionaries /\ ClusterCounts /\ Captures /\ capturedCovs \subseteq DOMAIN clusters
    BY DEF IInv, Captures
  <2>3. PICK chosen \in ClustersToUpdate : \E used \in [chosen -> Nat] : Recorded(chosen, used)
    BY <2>1, <2>2, UpdateRecords
  <2>4. capturedCovs' = capturedCovs \cup chosen
    BY <2>3 DEF Recorded
  <2> DEFINE taken == capturedCovs' \ capturedCovs
             left  == DOMAIN clusters \ capturedCovs'
  <2>5. taken = chosen \ capturedCovs /\ left = Uncaptured \ chosen
    BY <2>2, <2>4 DEF Uncaptured
  <2>6. CASE Selects
    <3>1. PICK r \in Rankings : chosen = Taken(r) \cup (updatedCovs \cap capturedCovs)
      BY <2>2, <2>6, ChosenAre
    <3>2. /\ Taken(r) \subseteq Uncaptured /\ (Uncaptured # {} => Taken(r) # {})
          /\ \A c \in Taken(r), d \in Uncaptured \ Taken(r) : Size(c) >= Size(d)
      BY <2>2, TakenAre
    <3>3. taken = Taken(r) /\ left = Uncaptured \ Taken(r)
      BY <2>5, <3>1, <3>2 DEF Uncaptured
    <3> QED BY <3>2, <3>3
  <2>7. CASE ~ Selects
    <3>1. chosen = Uncaptured
      BY <2>2, <2>7, ChosenAre
    <3>2. taken = Uncaptured /\ left = {}
      BY <2>5, <3>1 DEF Uncaptured
    <3> QED BY <3>2
  <2> QED BY <2>6, <2>7
<1> QED BY <1>1, Invariance, PTL DEF Spec, SelectsLargest

\* The crashing inputs of a batch have their files under the number of the
\* iteration once it is run; only get_dir_coverage_javaprog_1 lets the second
\* take the name of the first.
THEOREM CrashFilesSaved == Spec => CrashesSaved
<1> DEFINE A == pc = "start" \/ pc = "test" =>
                  \A j \in DOMAIN testcases' :
                    /\ testcases'[j] \in Crashing
                    /\ ~ (Shifted /\ j = 1 /\ testcases'[2] \in Crashing)
                    => \E k \in 1..BatchSize :
                         <<infoNum, k>> \in DOMAIN errors'
                           /\ errors'[<<infoNum, k>>] = testcases'[j]
<1>1. IInv /\ [Next]_vars => [A]_vars
  <2> SUFFICES ASSUME IInv, Next, ~ UNCHANGED vars, pc = "start" \/ pc = "test",
                      NEW j \in DOMAIN testcases', testcases'[j] \in Crashing,
                      ~ (Shifted /\ j = 1 /\ testcases'[2] \in Crashing)
               PROVE  \E k \in 1..BatchSize :
                        <<infoNum, k>> \in DOMAIN errors'
                          /\ errors'[<<infoNum, k>>] = testcases'[j]
    OBVIOUS
  <2>1. FirstBatch \/ TestBatch
    BY InputType DEF IInv, Next, Analyse, DecideUpdate, Update, Generate, Stopped
  <2>2. testcases' \in Batches /\ errors' = SaveErrors(testcases')
    <3>1. CASE FirstBatch
      BY <3>1 DEF FirstBatch
    <3>2. CASE TestBatch
      BY <3>2 DEF TestBatch, Test, IInv, Progress
    <3> QED BY <2>1, <3>1, <3>2
  <2> DEFINE batch == testcases'
             k == ErrorName(j)
  <2> HIDE DEF batch
  <2>3. k \in 1..BatchSize /\ Max(Named(batch, k)) = j
    BY <2>2, LastOfName DEF batch
  <2>4. j \in Named(batch, k)
    BY DEF Named, batch
  <2> HIDE DEF k
  <2>5. /\ <<infoNum, k>> \in DOMAIN SaveErrors(batch)
        /\ SaveErrors(batch)[<<infoNum, k>>] = batch[Max(Named(batch, k))]
    BY <2>2, <2>3, <2>4, SavedAre DEF batch, IInv
  <2> QED BY <2>2, <2>3, <2>5 DEF batch
<1> QED BY <1>1, Invariance, PTL DEF Spec, CrashesSaved
-------------------------------------------------------------------------------
\* The capture phase implements the update schedule: its steps are those of
\* UpdateSchedule or leave the schedule alone, whatever is analysed, captured
\* and generated between batches.
THEOREM ImplementsSchedule == Spec => FollowsSchedule
<1> DEFINE cover == IF beforeCov = NoVector THEN {} ELSE beforeCov
<1>1. Init => Schedule!Init
  BY DEF Init, Schedule!Init
<1>2. IInv /\ IInv' /\ [Next]_vars => [Schedule!Next]_Schedule!vars
  <2> SUFFICES ASSUME IInv, IInv', [Next]_vars
               PROVE  Schedule!Next \/ UNCHANGED Schedule!vars
    OBVIOUS
  <2>1. beforeCov \in Vectors /\ beforeCov' \in Vectors
    BY DEF IInv, CoverageRecords
  <2>2. CASE FirstBatch
    <3>1. /\ pc = "start" /\ pc' # "start"
          /\ UNCHANGED <<nChance, maxNChance, doUpdate>>
      BY <2>2 DEF FirstBatch
    <3>2. cover' \in SUBSET Lines
      BY <2>1 DEF Vectors
    <3>3. Schedule!FirstBatch
      BY <3>1, <3>2 DEF Schedule!FirstBatch
    <3> QED BY <3>3 DEF Schedule!Next
  <2>3. CASE TestBatch
    <3>1. PICK new \in Measured(testcases) : Test(new)
      BY <2>3 DEF TestBatch
    <3>2. pc = "test" /\ pc' # "start" /\ new \in Vectors
      BY <2>3, <3>1, MeasuredType DEF TestBatch, Test, IInv, Progress
    <3>3. CASE new = NoVector /\ beforeCov # NoVector
      <4>1. UNCHANGED <<nChance, maxNChance, doUpdate, beforeCov>>
        BY <3>1, <3>3 DEF Test
      <4> QED BY <3>2, <4>1 DEF Schedule!vars
    <3>4. CASE ~ (new = NoVector /\ beforeCov # NoVector) /\ NoNewLine(new)
      <4>1. /\ doUpdate' = (nChance + 1 = maxNChance)
            /\ nChance' = (IF doUpdate' THEN 0 ELSE nChance + 1)
            /\ maxNChance' = (IF doUpdate' THEN maxNChance + 1 ELSE maxNChance)
            /\ beforeCov' = beforeCov
        BY <3>1, <3>4 DEF Test, Barren
      <4>2. maxNChance' \in 1..MaxIter + 1
        BY <3>2, CaptureAssumption DEF CaptureAssumption, IInv, Progress
      <4>3. Schedule!Barren
        <5>1. CASE nChance + 1 = maxNChance
          <6>1. doUpdate' = TRUE /\ nChance' = 0 /\ maxNChance' = maxNChance + 1
            BY <4>1, <5>1
          <6>2. Schedule!Longer = maxNChance + 1
            BY <4>1, <4>2, <6>1, CaptureAssumption
               DEF CaptureAssumption, IInv, Progress, Schedule!Longer
          <6> QED
            BY <3>2, <4>1, <5>1, <6>1, <6>2
               DEF Schedule!Barren, Schedule!BarrenWith
        <5>2. CASE nChance + 1 # maxNChance
          <6>1. doUpdate' = FALSE /\ nChance' = nChance + 1 /\ maxNChance' = maxNChance
            BY <4>1, <5>2
          <6> QED
            BY <3>2, <4>1, <5>2, <6>1 DEF Schedule!Barren, Schedule!BarrenWith
        <5> QED BY <5>1, <5>2
      <4> QED BY <4>3 DEF Schedule!Next
    <3>5. CASE ~ (new = NoVector /\ beforeCov # NoVector) /\ ~ NoNewLine(new)
      <4>1. /\ doUpdate' = FALSE /\ nChance' = 0 /\ maxNChance' = maxNChance
            /\ beforeCov' = beforeCov \cup new
        BY <3>1, <3>5 DEF Test, NewLine, ExtendTotal
      <4>2. /\ beforeCov # NoVector /\ new # NoVector /\ ~ (new \subseteq beforeCov)
        BY <3>5 DEF NoNewLine
      <4>3. /\ beforeCov \in SUBSET Lines /\ new \in SUBSET Lines
            /\ beforeCov' # NoVector
        BY <2>1, <3>2, <4>1, <4>2, CaptureAssumption DEF CaptureAssumption, Vectors
      <4>4. cover = beforeCov /\ cover' = beforeCov \cup new
        BY <4>1, <4>2, <4>3
      <4>5. \E x \in SUBSET (Lines \ cover) : x # {} /\ cover' = cover \cup x
        <5>1. new \ beforeCov \in SUBSET (Lines \ cover) /\ new \ beforeCov # {}
              /\ cover' = cover \cup (new \ beforeCov)
          BY <4>2, <4>3, <4>4
        <5> QED BY <5>1
      <4>6. Schedule!NewLine
        BY <3>2, <4>1, <4>5 DEF Schedule!NewLine
      <4> QED BY <4>6 DEF Schedule!Next
    <3> QED BY <3>3, <3>4, <3>5
  <2>4. CASE \/ DecideUpdate \/ Analyse \/ Update \/ Generate
    <3>1. pc # "start" /\ pc' # "start" /\ UNCHANGED scheduleVars
      BY <2>4 DEF DecideUpdate, Analyse, AnalyseKnownTree, AnalyseKnownSequences, AnalyseNew,
                  Hit, Update, Generate
    <3> QED BY <3>1 DEF scheduleVars, Schedule!vars
  <2>5. CASE UNCHANGED vars
    BY <2>5 DEF vars, scheduleVars, Schedule!vars
  <2> QED BY <2>2, <2>3, <2>4, <2>5 DEF Next, Stopped, Analyse
<1> QED BY <1>1, <1>2, Invariance, PTL DEF Spec, FollowsSchedule, Schedule!Spec
=============================================================================
