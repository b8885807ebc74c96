--------------------------- MODULE MarkSweepProofs ---------------------------
(***************************************************************************)
(* Proofs about MarkSweep: a collection keeps exactly what is alive, in    *)
(* whatever order references are followed and wherever the recursion       *)
(* stops, and leaves weak containers, their keys and the counts in order.  *)
(*                                                                         *)
(* The argument is that of a tri-colour collector.  Whatever is visited is *)
(* alive.  Whatever a visited object refers to is visited too, unless the  *)
(* object is still pending (a root not reached, or gray) or the reference  *)
(* is still to be followed by an activation of ecma_gc_mark; for an entry  *)
(* of a weak map, this is so once its holder and its key are both visited, *)
(* of which the one marked later finds the other.  A pass that marks       *)
(* nothing has seen no gray object, so nothing is pending after it.        *)
(***************************************************************************)
EXTENDS MarkSweep, FiniteSetTheorems, TLAPS

Kinds == {"strong", "entry", "weak"} \X Objects
Activations == [object : Objects, left : SUBSET Kinds]

Types ==
  /\ heap \in Heaps
  /\ DOMAIN entries = Objects
  /\ weakRefs \in [Objects -> SUBSET Objects]
  /\ refs \in [Objects -> Int]
  /\ white \in Seq(Objects) /\ black \in Seq(Objects)
  /\ pc \in {"split", "roots", "pass", "sweep", "done"}
  /\ cursor \in Nat \ {0} /\ anything \in BOOLEAN
  /\ stack \in Seq(Activations)

\* No object is twice on a list
Once(s) == \A i, j \in DOMAIN s : s[i] = s[j] => i = j

\* Each object is on one list, once; none is missing before the sweep
Lists ==
  /\ Once(white) /\ Once(black)
  /\ ToSet(white) \cap ToSet(black) = {}
  /\ pc \in {"split", "roots", "pass"} => Objects \subseteq Allocated

Root(o) == heap.refs[o] > 0
Gray(o) == ~ Root(o) /\ refs[o] = 1

\* The weak containers are as they were until the sweep
Untouched ==
  pc \in {"split", "roots", "pass"} =>
    entries = heap.entries /\ weakRefs = [k \in Objects |-> HoldersOf(heap.entries, k)]

\* Roots keep their counts and are black, gray objects are white, and what is
\* visited is alive
Colours ==
  /\ pc = "split" => refs = heap.refs /\ black = <<>> /\ cursor = 1
  /\ pc # "split" =>
       /\ \A o \in Objects : Root(o) => refs[o] = heap.refs[o] /\ o \in ToSet(black)
       /\ \A o \in Objects : ~ Root(o) => refs[o] \in {NonVisited, 0, 1}
       /\ \A o \in ToSet(black) : ~ Root(o) => refs[o] = 0
       /\ \A o \in Objects : Visited(o) => o \in Alive

\* An activation marks a visited object, in the marking phases
Frames ==
  /\ stack # <<>> => pc \in {"roots", "pass"}
  /\ \A f \in ToSet(stack) :
       Visited(f.object) /\ f.left \subseteq References(f.object)

\* An object whose references have not been looked at
Pending(o) ==
  \/ pc = "roots" /\ \E i \in DOMAIN black : i >= cursor /\ black[i] = o
  \/ Gray(o)

\* A reference some activation has still to follow
ToFollow(o, reference) ==
  \E f \in ToSet(stack) : f.object = o /\ reference \in f.left

TracedStrong ==
  \A o \in Objects : Visited(o) =>
    \/ Pending(o)
    \/ \A x \in heap.strong[o] : Visited(x) \/ ToFollow(o, <<"strong", x>>)

TracedWeak ==
  \A h, k \in Objects : Visited(h) /\ Visited(k) /\ k \in DOMAIN heap.entries[h] =>
    \/ heap.entries[h][k] = NoObject
    \/ Visited(heap.entries[h][k])
    \/ Pending(h) \/ Pending(k)
    \/ ToFollow(h, <<"entry", k>>) \/ ToFollow(k, <<"weak", h>>)

Traced == pc \in {"roots", "pass"} => TracedStrong /\ TracedWeak

\* A pass that has marked nothing has seen no visited object it left white
Passed ==
  pc = "pass" /\ ~ anything =>
    stack = <<>> /\ \A i \in DOMAIN white : i < cursor => ~ Visited(white[i])

\* What holds in the sweep: the black list is what is alive, no container
\* has a key that is freed, and entries lead where they led before
Swept ==
  pc \in {"sweep", "done"} =>
    /\ Alive = ToSet(black)
    /\ \A h \in Allocated : \A k \in DOMAIN entries[h] :
         /\ k \in Allocated
         /\ k \in DOMAIN heap.entries[h] /\ entries[h][k] = heap.entries[h][k]
    /\ pc = "done" => white = <<>>

HoldersKnown ==
  \A k \in Allocated : weakRefs[k] = {h \in Allocated : k \in DOMAIN entries[h]}

IInv ==
  /\ Types /\ Lists /\ Untouched /\ Colours /\ Frames /\ Traced /\ Passed
  /\ Swept /\ HoldersKnown
-----------------------------------------------------------------------------
(* Sequences: what their elements are after each operation of the collector. *)

LEMMA Elements ==
  ASSUME NEW S, NEW s \in Seq(S)
  PROVE  /\ ToSet(s) \subseteq S
         /\ DOMAIN s = 1 .. Len(s) /\ Len(s) \in Nat
         /\ \A i \in 1 .. Len(s) : s[i] \in ToSet(s)
         /\ \A x \in ToSet(s) : \E i \in 1 .. Len(s) : s[i] = x
BY DEF ToSet

LEMMA Pushed ==
  ASSUME NEW S, NEW s \in Seq(S), NEW x \in S
  PROVE  <<x>> \o s \in Seq(S) /\ ToSet(<<x>> \o s) = {x} \cup ToSet(s)
<1> DEFINE t == <<x>> \o s
<1>1. t \in Seq(S) /\ Len(t) = Len(s) + 1
  OBVIOUS
<1>2. t[1] = x /\ \A i \in 1 .. Len(s) : t[i + 1] = s[i]
  OBVIOUS
<1>3. \A i \in 2 .. Len(t) : i - 1 \in 1 .. Len(s) /\ t[i] = s[i - 1]
  BY <1>1
<1>4. ToSet(t) \subseteq {x} \cup ToSet(s)
  BY <1>1, <1>2, <1>3, \A i \in 1 .. Len(t) : i = 1 \/ i \in 2 .. Len(t) DEF ToSet
<1>5. {x} \cup ToSet(s) \subseteq ToSet(t)
  <2> HIDE DEF t
  <2>1. x \in ToSet(t)
    BY <1>1, <1>2 DEF ToSet
  <2>2. \A i \in 1 .. Len(s) : i + 1 \in DOMAIN t
    BY <1>1
  <2> QED BY <2>1, <2>2, <1>2 DEF ToSet
<1> QED BY <1>1, <1>4, <1>5

LEMMA Popped ==
  ASSUME NEW S, NEW s \in Seq(S), s # <<>>
  PROVE  /\ Head(s) \in S /\ Tail(s) \in Seq(S)
         /\ ToSet(s) = {Head(s)} \cup ToSet(Tail(s))
         /\ Once(s) => Head(s) \notin ToSet(Tail(s)) /\ Once(Tail(s))
<1> DEFINE t == Tail(s)
<1>1. /\ Len(s) \in Nat \ {0} /\ Head(s) = s[1] /\ Head(s) \in S
      /\ t \in Seq(S) /\ Len(t) = Len(s) - 1
  OBVIOUS
<1>2. \A i \in 1 .. Len(t) : t[i] = s[i + 1] /\ i + 1 \in 1 .. Len(s)
  OBVIOUS
<1>3. DOMAIN s = 1 .. Len(s) /\ DOMAIN t = 1 .. Len(t)
  OBVIOUS
<1>4. ToSet(s) \subseteq {Head(s)} \cup ToSet(t)
  <2>1. \A i \in 1 .. Len(s) : i = 1 \/ (i - 1 \in 1 .. Len(t) /\ s[i] = t[i - 1])
    BY <1>1, <1>2
  <2> HIDE DEF t
  <2> QED BY <1>1, <1>3, <2>1 DEF ToSet
<1>5. {Head(s)} \cup ToSet(t) \subseteq ToSet(s)
  <2>1. 1 \in 1 .. Len(s)
    BY <1>1
  <2> HIDE DEF t
  <2> QED BY <1>1, <1>2, <1>3, <2>1 DEF ToSet
<1>6. ASSUME Once(s) PROVE Head(s) \notin ToSet(t) /\ Once(t)
  <2>1. 1 \in 1 .. Len(s) /\ \A i \in 1 .. Len(t) : i + 1 # 1
    BY <1>1
  <2>2. \A i, j \in 1 .. Len(t) : i + 1 = j + 1 => i = j
    BY <1>1
  <2> HIDE DEF t
  <2>3. Head(s) \notin ToSet(t)
    BY <1>1, <1>2, <1>3, <1>6, <2>1 DEF Once, ToSet
  <2>4. Once(t)
    BY <1>2, <1>3, <1>6, <2>2 DEF Once
  <2> QED BY <2>3, <2>4
<1> QED BY <1>1, <1>4, <1>5, <1>6

LEMMA Appended ==
  ASSUME NEW S, NEW s \in Seq(S), NEW x \in S
  PROVE  /\ Append(s, x) \in Seq(S)
         /\ ToSet(Append(s, x)) = ToSet(s) \cup {x}
         /\ Once(s) /\ x \notin ToSet(s) => Once(Append(s, x))
<1> DEFINE t == Append(s, x)
<1>1. /\ t \in Seq(S) /\ Len(s) \in Nat /\ Len(t) = Len(s) + 1
      /\ DOMAIN t = 1 .. Len(t) /\ DOMAIN s = 1 .. Len(s)
  OBVIOUS
<1>2. t[Len(t)] = x /\ \A i \in 1 .. Len(s) : t[i] = s[i]
  OBVIOUS
<1>3. /\ \A i \in 1 .. Len(t) : i \in 1 .. Len(s) \/ i = Len(t)
      /\ \A i \in 1 .. Len(s) : i \in 1 .. Len(t)
      /\ Len(t) \in 1 .. Len(t)
  BY <1>1
<1> HIDE DEF t
<1>4. ToSet(t) = ToSet(s) \cup {x}
  BY <1>1, <1>2, <1>3 DEF ToSet
<1>5. Once(s) /\ x \notin ToSet(s) => Once(t)
  BY <1>1, <1>2, <1>3 DEF Once, ToSet
<1> QED BY <1>1, <1>4, <1>5 DEF t

LEMMA Joined ==
  ASSUME NEW S, NEW a \in Seq(S), NEW b \in Seq(S)
  PROVE  /\ a \o b \in Seq(S) /\ Len(a \o b) = Len(a) + Len(b)
         /\ \A j \in 1 .. Len(a) + Len(b) :
              (a \o b)[j] = IF j <= Len(a) THEN a[j] ELSE b[j - Len(a)]
OBVIOUS

LEMMA Removed ==
  ASSUME NEW S, NEW s \in Seq(S), NEW i \in 1 .. Len(s)
  PROVE  /\ RemoveAt(s, i) \in Seq(S) /\ Len(RemoveAt(s, i)) = Len(s) - 1
         /\ \A j \in 1 .. Len(s) - 1 : j < i => RemoveAt(s, i)[j] = s[j]
         /\ Once(s) => /\ Once(RemoveAt(s, i))
                       /\ ToSet(RemoveAt(s, i)) = ToSet(s) \ {s[i]}
<1> DEFINE t == RemoveAt(s, i)
           a == SubSeq(s, 1, i - 1)
           b == SubSeq(s, i + 1, Len(s))
<1>1. /\ a \in Seq(S) /\ Len(a) = i - 1 /\ \A j \in 1 .. i - 1 : a[j] = s[j]
      /\ b \in Seq(S) /\ Len(b) = Len(s) - i
      /\ \A j \in 1 .. Len(s) - i : b[j] = s[j + i]
  OBVIOUS
<1>2. t = a \o b
  BY DEF RemoveAt
<1>3. /\ Len(s) \in Nat /\ i \in Nat /\ DOMAIN s = 1 .. Len(s)
      /\ 1 <= i /\ i <= Len(s)
  OBVIOUS
<1> HIDE DEF t, a, b
<1>4. /\ t \in Seq(S) /\ Len(t) = Len(s) - 1 /\ DOMAIN t = 1 .. Len(s) - 1
      /\ \A j \in 1 .. Len(t) : t[j] = IF j <= i - 1 THEN a[j] ELSE b[j - (i - 1)]
  <2>1. /\ t \in Seq(S) /\ Len(t) = Len(a) + Len(b)
        /\ \A j \in 1 .. Len(a) + Len(b) :
             t[j] = IF j <= Len(a) THEN a[j] ELSE b[j - Len(a)]
    BY <1>1, <1>2, Joined
  <2>3. Len(a) + Len(b) = Len(s) - 1
    BY <1>1, <1>3
  <2>4. DOMAIN t = 1 .. Len(s) - 1
    BY <2>1, <2>3
  <2> QED BY <1>1, <2>1, <2>3, <2>4
<1>5. \A j \in 1 .. Len(s) - 1 : j < i => t[j] = s[j]
  BY <1>1, <1>3, <1>4
<1>6. \A j \in 1 .. Len(s) - 1 : ~ (j < i) => t[j] = s[j + 1]
  <2> SUFFICES ASSUME NEW j \in 1 .. Len(s) - 1, ~ (j < i)
               PROVE  t[j] = s[j + 1]
    OBVIOUS
  <2>1. t[j] = b[j - (i - 1)]
    BY <1>3, <1>4
  <2>2. j - (i - 1) \in 1 .. Len(s) - i /\ j - (i - 1) + i = j + 1
    BY <1>3
  <2> QED BY <1>1, <2>1, <2>2
<1>7. ASSUME Once(s) PROVE Once(t) /\ ToSet(t) = ToSet(s) \ {s[i]}
  <2> DEFINE From(j) == IF j < i THEN j ELSE j + 1
  <2>1. \A j \in 1 .. Len(s) - 1 : From(j) \in 1 .. Len(s) /\ From(j) # i
    BY <1>3
  <2>2. \A j, k \in 1 .. Len(s) - 1 : From(j) = From(k) => j = k
    BY <1>3
  <2>3. \A k \in 1 .. Len(s) : k # i => \E j \in 1 .. Len(s) - 1 : From(j) = k
    <3> SUFFICES ASSUME NEW k \in 1 .. Len(s), k # i
                 PROVE  \E j \in 1 .. Len(s) - 1 : From(j) = k
      OBVIOUS
    <3>1. CASE k < i
      <4>1. k \in 1 .. Len(s) - 1 /\ From(k) = k
        BY <1>3, <3>1
      <4> QED BY <4>1
    <3>2. CASE i < k
      <4>1. k - 1 \in 1 .. Len(s) - 1 /\ From(k - 1) = k
        BY <1>3, <3>2
      <4> QED BY <4>1
    <3> QED BY <1>3, <3>1, <3>2
  <2>4. \A j \in 1 .. Len(s) - 1 : t[j] = s[From(j)]
    BY <1>5, <1>6
  <2> HIDE DEF From
  <2>5. Once(t)
    BY <1>3, <1>4, <1>7, <2>1, <2>2, <2>4 DEF Once
  <2>6. ToSet(t) \subseteq ToSet(s) \ {s[i]}
    <3>1. ASSUME NEW j \in 1 .. Len(s) - 1
          PROVE  t[j] \in ToSet(s) /\ t[j] # s[i]
      <4>1. From(j) \in 1 .. Len(s) /\ From(j) # i /\ t[j] = s[From(j)]
        BY ONLY <2>1, <2>4, j \in 1 .. Len(s) - 1
      <4>2. s[From(j)] # s[i]
        BY ONLY <1>3, <1>7, <4>1, i \in 1 .. Len(s) DEF Once
      <4> QED BY ONLY <1>3, <4>1, <4>2 DEF ToSet
    <3> QED BY ONLY <1>4, <3>1 DEF ToSet
  <2>7. ToSet(s) \ {s[i]} \subseteq ToSet(t)
    <3> SUFFICES ASSUME NEW k \in 1 .. Len(s), s[k] # s[i] PROVE s[k] \in ToSet(t)
      BY <1>3 DEF ToSet
    <3>1. PICK j \in 1 .. Len(s) - 1 : From(j) = k
      BY <2>3
    <3> QED BY <1>4, <2>4, <3>1 DEF ToSet
  <2> QED BY <2>5, <2>6, <2>7
<1> QED BY <1>4, <1>5, <1>7 DEF t

\* A list in list order has each of its objects once.
LEMMA Ordered ==
  ASSUME NEW T \in SUBSET Objects, NEW s \in InListOrder(T)
  PROVE  s \in Seq(Objects) /\ ToSet(s) = T /\ Once(s)
<1> DEFINE n == Cardinality(T)
<1>1. IsFiniteSet(T) /\ n \in Nat /\ T \subseteq Int
  <2>1. Objects \subseteq Int
    <3>1. Cardinality(Objects) \in Nat
      BY MarkSweepAssumption, FS_CardinalityType
    <3> QED BY <3>1, MarkSweepAssumption
  <2> QED BY <2>1, MarkSweepAssumption, FS_Subset, FS_CardinalityType
<1>2. /\ s \in [1 .. n -> T]
      /\ \A i, j \in 1 .. n : i < j => s[i] < s[j]
  BY DEF InListOrder
<1> HIDE DEF n
<1>3. \A i, j \in 1 .. n : s[i] = s[j] => i = j
  <2> SUFFICES ASSUME NEW i \in 1 .. n, NEW j \in 1 .. n, s[i] = s[j], i < j
               PROVE  FALSE
    BY <1>1
  <2>1. s[i] \in Int /\ s[i] < s[j]
    BY <1>1, <1>2
  <2> QED BY <2>1
<1>4. s \in Injection(1 .. n, T)
  BY <1>2, <1>3, <1>1 DEF Injection, IsInjective
<1>5. Cardinality(1 .. n) = Cardinality(T)
  BY <1>1, FS_Interval DEF n
<1>6. s \in Surjection(1 .. n, T)
  BY <1>1, <1>4, <1>5, FS_Injection
<1>7. ToSet(s) = T
  BY <1>2, <1>6 DEF ToSet, Surjection
<1>8. s \in Seq(Objects)
  <2>1. s \in [1 .. n -> Objects]
    BY <1>2
  <2> QED BY <1>1, <2>1
<1> QED BY <1>2, <1>3, <1>7, <1>8 DEF Once

\* A list without repetitions is as long as it has elements.
LEMMA OnceCounts ==
  ASSUME NEW S, NEW s \in Seq(S), Once(s)
  PROVE  Len(s) = Cardinality(ToSet(s))
<1>1. s \in Bijection(1 .. Len(s), ToSet(s))
  BY Elements, s \in [1 .. Len(s) -> ToSet(s)]
     DEF Bijection, Injection, Surjection, IsInjective, Once
<1>2. ExistsBijection(1 .. Len(s), ToSet(s))
  BY <1>1 DEF ExistsBijection
<1> QED BY <1>2, FS_CountingElements, Elements
-----------------------------------------------------------------------------
(* The heap and what is alive in it.                                        *)

LEMMA HeapType ==
  ASSUME heap \in Heaps
  PROVE  /\ heap.refs \in [Objects -> Nat] /\ heap.strong \in [Objects -> SUBSET Objects]
         /\ DOMAIN heap.entries = Objects
         /\ \A h \in Objects : /\ DOMAIN heap.entries[h] \subseteq Objects
                               /\ \A k \in DOMAIN heap.entries[h] :
                                    heap.entries[h][k] \in Objects \cup {NoObject}
         /\ NoObject \notin Objects
BY MarkSweepAssumption DEF Range

\* What is alive is closed, and is part of every closed set.
LEMMA AliveLeast ==
  ASSUME heap \in Heaps
  PROVE  /\ Alive \subseteq Objects /\ Closed(Alive)
         /\ \A S \in SUBSET Objects : Closed(S) => Alive \subseteq S
<1>1. \A o \in Objects : heap.refs[o] > 0 => o \in Alive
  BY DEF Alive, Closed
<1>2. \A o \in Alive : \A x \in heap.strong[o] : x \in Alive
  BY HeapType DEF Alive, Closed
<1>3. ASSUME NEW h \in Alive, NEW k \in Alive, k \in DOMAIN heap.entries[h],
             heap.entries[h][k] # NoObject
      PROVE  heap.entries[h][k] \in Alive
  <2>1. heap.entries[h][k] \in Objects
    BY HeapType, <1>3 DEF Alive
  <2>2. ASSUME NEW S \in SUBSET Objects, Closed(S) PROVE heap.entries[h][k] \in S
    <3>1. h \in S /\ k \in S
      BY <2>2 DEF Alive
    <3> QED BY <3>1, <2>2, <1>3 DEF Closed
  <2> QED BY <2>1, <2>2 DEF Alive
<1>4. Closed(Alive)
  <2>1. {o \in Objects : heap.refs[o] > 0} \subseteq Alive
    BY <1>1
  <2>2. \A o \in Alive : heap.strong[o] \subseteq Alive
    BY <1>2
  <2>3. \A h \in Alive : \A k \in Alive \cap DOMAIN heap.entries[h] :
          heap.entries[h][k] \in Alive \cup {NoObject}
    BY <1>3
  <2> QED BY <2>1, <2>2, <2>3 DEF Closed
<1> QED BY <1>4 DEF Alive

Marking == pc \in {"roots", "pass"}

LEMMA ReferencesLegal ==
  ASSUME Types, Untouched, Marking, NEW o \in Objects
  PROVE  References(o) \subseteq Kinds
<1>1. heap \in Heaps /\ entries = heap.entries /\ weakRefs[o] \subseteq Objects
  BY DEF Types, Untouched, Marking
<1>2. heap.strong[o] \subseteq Objects /\ DOMAIN entries[o] \subseteq Objects
  BY <1>1, HeapType
<1> QED BY <1>1, <1>2 DEF References, Kinds

\* A reference of a visited object leads to what is alive, if anywhere.
LEMMA LeadsToAlive ==
  ASSUME Types, Untouched, Colours, Marking,
         NEW o \in Objects, Visited(o), NEW reference \in References(o)
  PROVE  /\ reference \in Kinds
         /\ Leads(o, reference) \in Alive \cup {NoObject}
         /\ reference[1] = "strong" => Leads(o, reference) = reference[2] /\ reference[2] \in heap.strong[o]
         /\ reference[1] = "entry" /\ Visited(reference[2]) =>
              Leads(o, reference) = heap.entries[o][reference[2]]
         /\ reference[1] = "weak" /\ Visited(reference[2]) =>
              Leads(o, reference) = heap.entries[reference[2]][o]
<1>1. heap \in Heaps /\ entries = heap.entries
      /\ weakRefs = [k \in Objects |-> HoldersOf(heap.entries, k)]
  BY DEF Types, Untouched, Marking
<1>2. \A x \in Objects : Visited(x) => x \in Alive
  BY DEF Colours, Marking
<1>3. Alive \subseteq Objects /\ Closed(Alive)
  BY <1>1, AliveLeast
<1>4. CASE reference[1] = "strong" /\ reference[2] \in heap.strong[o] /\ reference = <<"strong", reference[2]>>
  <2>1. Leads(o, reference) = reference[2]
    BY <1>4 DEF Leads
  <2> QED BY <1>1, <1>2, <1>3, <1>4, <2>1, HeapType DEF Closed, Kinds
<1>5. CASE reference[1] = "entry" /\ reference[2] \in DOMAIN entries[o] /\ reference = <<"entry", reference[2]>>
  <2>1. Leads(o, reference) = IF Visited(reference[2]) THEN entries[o][reference[2]] ELSE NoObject
    BY <1>5 DEF Leads
  <2>2. reference[2] \in Objects
    BY <1>1, <1>5, HeapType
  <2>3. Visited(reference[2]) => entries[o][reference[2]] \in Alive \cup {NoObject}
    BY <1>1, <1>2, <1>3, <1>5, <2>2 DEF Closed
  <2> QED BY <1>1, <1>5, <2>1, <2>2, <2>3 DEF Kinds
<1>6. CASE reference[1] = "weak" /\ reference[2] \in weakRefs[o] /\ reference = <<"weak", reference[2]>>
  <2>1. Leads(o, reference) = IF Visited(reference[2]) THEN entries[reference[2]][o] ELSE NoObject
    BY <1>6 DEF Leads
  <2>2. reference[2] \in Objects /\ o \in DOMAIN heap.entries[reference[2]]
    BY <1>1, <1>6 DEF HoldersOf
  <2>3. Visited(reference[2]) => entries[reference[2]][o] \in Alive \cup {NoObject}
    BY <1>1, <1>2, <1>3, <1>6, <2>2 DEF Closed
  <2> QED BY <1>1, <1>6, <2>1, <2>2, <2>3 DEF Kinds
<1> QED BY <1>4, <1>5, <1>6 DEF References
-----------------------------------------------------------------------------
(* The invariant holds initially, and each action preserves it.             *)

LEMMA InitGood == Init => IInv
<1> SUFFICES ASSUME Init PROVE IInv
  OBVIOUS
<1> DEFINE n == Cardinality(Objects)
<1>1. /\ heap \in Heaps /\ entries = heap.entries /\ refs = heap.refs /\ black = <<>>
      /\ weakRefs = [k \in Objects |-> HoldersOf(heap.entries, k)]
      /\ white = [i \in 1 .. n |-> i]
      /\ pc = "split" /\ cursor = 1 /\ anything = FALSE /\ stack = <<>>
  BY DEF Init
<1>2. n \in Nat /\ Objects = 1 .. n
  BY MarkSweepAssumption, FS_CardinalityType
<1>3. white \in Seq(Objects) /\ Len(white) = n /\ \A i \in 1 .. n : white[i] = i
  <2> HIDE DEF n
  <2>1. white \in [1 .. n -> Objects]
    BY <1>1, <1>2
  <2> QED BY <1>1, <1>2, <2>1
<1>4. DOMAIN white = 1 .. n /\ DOMAIN black = {} /\ DOMAIN stack = {}
  BY <1>1, <1>3
<1>5. ToSet(white) = Objects /\ ToSet(black) = {} /\ Once(white) /\ Once(black)
      /\ ToSet(stack) = {}
  BY <1>2, <1>3, <1>4 DEF ToSet, Once
<1> HIDE DEF n
<1>6. Types
  <2>1. weakRefs \in [Objects -> SUBSET Objects]
    BY <1>1 DEF HoldersOf
  <2>2. refs \in [Objects -> Int]
    BY <1>1, HeapType
  <2>3. black \in Seq(Objects) /\ stack \in Seq(Activations)
    BY <1>1
  <2>4. cursor \in Nat \ {0}
    BY <1>1
  <2>5. anything \in BOOLEAN
    BY <1>1
  <2>6. heap \in Heaps /\ DOMAIN entries = Objects
    BY <1>1, HeapType
  <2>7. pc \in {"split", "roots", "pass", "sweep", "done"}
    BY <1>1
  <2> QED BY ONLY <1>3, <2>1, <2>2, <2>3, <2>4, <2>5, <2>6, <2>7 DEF Types
<1>7. Lists
  BY <1>5 DEF Lists, Allocated
<1>8. Untouched /\ Colours /\ Traced /\ Passed /\ Swept
  BY <1>1 DEF Untouched, Colours, Traced, Passed, Swept
<1>9. Frames
  BY <1>1, <1>5 DEF Frames
<1>10. HoldersKnown
  BY <1>1, <1>5 DEF HoldersKnown, Allocated, HoldersOf
<1> QED BY <1>6, <1>7, <1>8, <1>9, <1>10 DEF IInv

\* What ecma_gc_mark does to the activations and the colours when it follows
\* a reference: it may reach an object, which is entered or left gray.
LEMMA FollowEffect ==
  ASSUME IInv, stack # <<>>, NEW reference \in Head(stack).left, Follow(reference)
  PROVE  \E f, g \in Activations, T \in SUBSET Activations, o \in Objects \cup {NoObject} :
           /\ Marking /\ ToSet(stack) = {f} \cup T
           /\ Visited(f.object) /\ reference \in References(f.object) /\ f.object \in Objects
           /\ o = Leads(f.object, reference)
           /\ g.object = f.object /\ g.left = f.left \ {reference}
           /\ stack' \in Seq(Activations)
           /\ \/ /\ o = NoObject \/ Visited(o)
                 /\ refs' = refs /\ ToSet(stack') = {g} \cup T
              \/ /\ o \in Objects /\ ~ Visited(o)
                 /\ \/ /\ refs' = [refs EXCEPT ![o] = 0]
                       /\ ToSet(stack') = {[object |-> o, left |-> References(o)], g} \cup T
                    \/ refs' = [refs EXCEPT ![o] = 1] /\ ToSet(stack') = {g} \cup T
<1> DEFINE f == Head(stack)
           U == Tail(stack)
           g == [f EXCEPT !.left = @ \ {reference}]
           o == Leads(f.object, reference)
<1>1. /\ f \in Activations /\ U \in Seq(Activations) /\ ToSet(stack) = {f} \cup ToSet(U)
      /\ ToSet(U) \in SUBSET Activations
  BY Popped, Elements DEF IInv, Types
<1>2. /\ Marking /\ Visited(f.object) /\ f.left \subseteq References(f.object)
      /\ f.object \in Objects
  BY <1>1 DEF IInv, Frames, Marking, Activations
<1>3. /\ g \in Activations /\ g.object = f.object /\ g.left = f.left \ {reference}
  BY <1>1 DEF Activations
<1>4. reference \in References(f.object) /\ o \in Objects \cup {NoObject}
  BY <1>2, LeadsToAlive, AliveLeast DEF IInv, Types
<1>5. /\ <<g>> \o U \in Seq(Activations) /\ ToSet(<<g>> \o U) = {g} \cup ToSet(U)
  BY <1>1, <1>3, Pushed
<1>6. \/ (o = NoObject \/ o \in {x \in Objects : Visited(x)})
         /\ stack' = <<g>> \o U /\ refs' = refs
      \/ /\ o \in {x \in Objects : ~ Visited(x)}
         /\ refs' = [refs EXCEPT ![o] = 0] /\ stack' = Enter(o) \o (<<g>> \o U)
      \/ /\ o \in {x \in Objects : ~ Visited(x)} \/ (o \notin Objects /\ o # NoObject)
         /\ refs' = [refs EXCEPT ![o] = 1] /\ stack' = <<g>> \o U
  <2> HIDE DEF g, U
  <2>1. Follow(reference) <=>
          CASE o = NoObject \/ o \in {x \in Objects : Visited(x)} ->
                 stack' = <<g>> \o U /\ UNCHANGED refs
            [] o \in {x \in Objects : ~ Visited(x)} /\ DepthLeft > 0 ->
                 refs' = [refs EXCEPT ![o] = 0] /\ stack' = Enter(o) \o (<<g>> \o U)
            [] OTHER -> refs' = [refs EXCEPT ![o] = 1] /\ stack' = <<g>> \o U
    BY DEF Follow, g, U
  <2> HIDE DEF o
  <2> QED BY <2>1
<1>7. ASSUME o \in Objects
      PROVE  LET e == [object |-> o, left |-> References(o)]
             IN  /\ Enter(o) \o (<<g>> \o U) \in Seq(Activations)
                 /\ ToSet(Enter(o) \o (<<g>> \o U)) = {e, g} \cup ToSet(U)
  <2> DEFINE e == [object |-> o, left |-> References(o)]
  <2>1. References(o) \subseteq Kinds
    BY <1>2, <1>7, ReferencesLegal DEF IInv
  <2>2. e \in Activations
    BY <1>7, <2>1 DEF Activations
  <2> HIDE DEF e, g, U, o
  <2>3. /\ <<e>> \o (<<g>> \o U) \in Seq(Activations)
        /\ ToSet(<<e>> \o (<<g>> \o U)) = {e} \cup ({g} \cup ToSet(U))
    BY <2>2, <1>5, Pushed
  <2> QED BY <2>3 DEF Enter, e
<1> DEFINE T == ToSet(U)
<1>8. /\ stack' \in Seq(Activations)
      /\ \/ /\ o = NoObject \/ Visited(o)
            /\ refs' = refs /\ ToSet(stack') = {g} \cup T
         \/ /\ o \in Objects /\ ~ Visited(o)
            /\ \/ /\ refs' = [refs EXCEPT ![o] = 0]
                  /\ ToSet(stack') = {[object |-> o, left |-> References(o)], g} \cup T
               \/ refs' = [refs EXCEPT ![o] = 1] /\ ToSet(stack') = {g} \cup T
  <2> HIDE DEF g, U, o
  <2>1. CASE (o = NoObject \/ o \in {x \in Objects : Visited(x)})
             /\ stack' = <<g>> \o U /\ refs' = refs
    BY <2>1, <1>5
  <2>2. CASE /\ o \in {x \in Objects : ~ Visited(x)}
             /\ refs' = [refs EXCEPT ![o] = 0] /\ stack' = Enter(o) \o (<<g>> \o U)
    BY <2>2, <1>7
  <2>3. CASE /\ o \in {x \in Objects : ~ Visited(x)}
             /\ refs' = [refs EXCEPT ![o] = 1] /\ stack' = <<g>> \o U
    BY <2>3, <1>5
  <2> QED BY <1>4, <1>6, <2>1, <2>2, <2>3
<1> HIDE DEF f, g, o, T
<1>9. f \in Activations /\ g \in Activations /\ T \in SUBSET Activations
      /\ o \in Objects \cup {NoObject}
  BY <1>1, <1>3, <1>4 DEF T
<1>10. ToSet(stack) = {f} \cup T
  BY <1>1 DEF T
<1> QED BY <1>2, <1>3, <1>4, <1>8, <1>9, <1>10 DEF o

LEMMA FollowGood ==
  ASSUME IInv, stack # <<>>, NEW reference \in Head(stack).left, Follow(reference),
         UNCHANGED <<heap, entries, weakRefs, white, black, pc, cursor, anything>>
  PROVE  IInv'
<1>1. PICK f \in Activations, g \in Activations, T \in SUBSET Activations,
           o \in Objects \cup {NoObject} :
        /\ Marking /\ ToSet(stack) = {f} \cup T
        /\ Visited(f.object) /\ reference \in References(f.object) /\ f.object \in Objects
        /\ o = Leads(f.object, reference)
        /\ g.object = f.object /\ g.left = f.left \ {reference}
        /\ stack' \in Seq(Activations)
        /\ \/ /\ o = NoObject \/ Visited(o)
              /\ refs' = refs /\ ToSet(stack') = {g} \cup T
           \/ /\ o \in Objects /\ ~ Visited(o)
              /\ \/ /\ refs' = [refs EXCEPT ![o] = 0]
                    /\ ToSet(stack') = {[object |-> o, left |-> References(o)], g} \cup T
                 \/ refs' = [refs EXCEPT ![o] = 1] /\ ToSet(stack') = {g} \cup T
  BY FollowEffect
<1>2. /\ Types /\ Untouched /\ Colours /\ Frames /\ Traced /\ Passed /\ Swept /\ HoldersKnown
      /\ Lists /\ heap \in Heaps /\ refs \in [Objects -> Int]
  BY DEF IInv, Types
<1>3. /\ heap' = heap /\ entries' = entries /\ weakRefs' = weakRefs /\ white' = white
      /\ black' = black /\ pc' = pc /\ cursor' = cursor /\ anything' = anything
  OBVIOUS
<1>4. /\ NoObject \notin Objects /\ Alive \subseteq Objects
      /\ heap.strong \in [Objects -> SUBSET Objects]
  BY <1>2, HeapType, AliveLeast
\* What is reached is not a root, is alive, and is entered or gray.
<1>5. \/ (o = NoObject \/ Visited(o)) /\ refs' = refs
      \/ /\ o \in Objects /\ ~ Visited(o) /\ ~ Root(o) /\ o \in Alive
         /\ refs' = [refs EXCEPT ![o] = refs'[o]] /\ refs'[o] \in {0, 1}
         /\ \/ refs'[o] = 1
            \/ \E e \in ToSet(stack') : e.object = o /\ e.left = References(o)
  <2>1. CASE (o = NoObject \/ Visited(o)) /\ refs' = refs
    BY <2>1
  <2>2. CASE o \in Objects /\ ~ Visited(o)
    <3>1. ~ Root(o)
      <4>1. Root(o) => refs[o] = heap.refs[o]
        BY <1>1, <1>2, <2>2 DEF Colours, Marking
      <4>2. heap.refs[o] \in Nat
        BY <1>2, <2>2, HeapType
      <4> QED BY <2>2, <4>1, <4>2 DEF Visited, NonVisited, Root
    <3>2. o \in Alive
      BY <1>1, <1>2, <1>4, <2>2, LeadsToAlive
    <3>3. /\ refs' = [refs EXCEPT ![o] = refs'[o]] /\ refs'[o] \in {0, 1}
          /\ \/ refs'[o] = 1
             \/ \E e \in ToSet(stack') : e.object = o /\ e.left = References(o)
      <4>1. CASE /\ refs' = [refs EXCEPT ![o] = 0]
                 /\ ToSet(stack') = {[object |-> o, left |-> References(o)], g} \cup T
        <5>1. refs'[o] = 0 /\ refs' = [refs EXCEPT ![o] = refs'[o]]
          BY <1>2, <2>2, <4>1
        <5>2. \E e \in ToSet(stack') : e.object = o /\ e.left = References(o)
          <6> DEFINE e == [object |-> o, left |-> References(o)]
          <6>1. e \in ToSet(stack')
            BY <4>1
          <6>2. e.object = o /\ e.left = References(o)
            OBVIOUS
          <6> HIDE DEF e
          <6> QED BY <6>1, <6>2
        <5> QED BY <5>1, <5>2
      <4>2. CASE refs' = [refs EXCEPT ![o] = 1]
        BY <1>2, <2>2, <4>2
      <4>3. \/ /\ refs' = [refs EXCEPT ![o] = 0]
               /\ ToSet(stack') = {[object |-> o, left |-> References(o)], g} \cup T
            \/ refs' = [refs EXCEPT ![o] = 1]
        BY <1>1, <1>4, <2>2
      <4> QED BY <4>1, <4>2, <4>3
    <3> QED BY <2>2, <3>1, <3>2, <3>3
  <2> QED BY <1>1, <2>1, <2>2
<1>6. /\ \A x \in Objects : Visited(x) => Visited(x)' /\ refs'[x] = refs[x]
      /\ \A x \in Objects : Visited(x)' /\ ~ Visited(x) =>
           /\ x = o /\ x \in Alive /\ ~ Root(x)
           /\ \/ refs'[x] = 1
              \/ \E e \in ToSet(stack') : e.object = x /\ e.left = References(x)
      /\ o \in Objects => Visited(o)'
      /\ refs' \in [Objects -> Int]
  <2>1. CASE (o = NoObject \/ Visited(o)) /\ refs' = refs
    BY <1>2, <1>4, <2>1 DEF Visited
  <2>2. CASE /\ o \in Objects /\ ~ Visited(o) /\ ~ Root(o) /\ o \in Alive
             /\ refs' = [refs EXCEPT ![o] = refs'[o]] /\ refs'[o] \in {0, 1}
             /\ \/ refs'[o] = 1
                \/ \E e \in ToSet(stack') : e.object = o /\ e.left = References(o)
    <3>1. refs' \in [Objects -> Int] /\ \A x \in Objects : x # o => refs'[x] = refs[x]
      BY <1>2, <2>2
    <3>2. Visited(o)'
      BY <2>2 DEF Visited, NonVisited
    <3>3. \A x \in Objects : x # o => (Visited(x)' <=> Visited(x))
      BY <3>1 DEF Visited
    <3> QED BY <2>2, <3>1, <3>2, <3>3
  <2> QED BY <1>5, <2>1, <2>2
<1>7. \A x \in Objects : Pending(x) /\ Visited(x) => Pending(x)'
  BY <1>3, <1>6 DEF Pending, Gray, Root
<1>8. /\ g \in ToSet(stack') /\ T \subseteq ToSet(stack')
      /\ \A e \in ToSet(stack') :
           e = g \/ e \in T \/ (e.object = o /\ e.left = References(o) /\ o \in Objects)
  BY <1>1
<1>9. \A x \in Objects : References(x)' = References(x)
  BY <1>3 DEF References
<1>10. Types'
  BY <1>1, <1>2, <1>3, <1>6 DEF Types
<1>11. Lists' /\ Untouched' /\ HoldersKnown' /\ Alive' = Alive
  <2>1. Allocated' = Allocated
    BY <1>3 DEF Allocated
  <2>2. Alive' = Alive
    BY <1>3 DEF Alive, Closed
  <2> QED BY <1>2, <1>3, <2>1, <2>2 DEF Lists, Untouched, HoldersKnown, HoldersOf
<1>12. Colours'
  <2>1. pc # "split" /\ pc' # "split"
    BY <1>1, <1>3 DEF Marking
  <2>2. \A x \in Objects : Root(x)' <=> Root(x)
    BY <1>3 DEF Root
  <2>3. /\ \A x \in Objects : Root(x) => refs[x] = heap.refs[x] /\ x \in ToSet(black)
        /\ \A x \in Objects : ~ Root(x) => refs[x] \in {NonVisited, 0, 1}
        /\ \A x \in ToSet(black) : ~ Root(x) => refs[x] = 0
        /\ \A x \in Objects : Visited(x) => x \in Alive
    BY <1>2, <2>1 DEF Colours
  <2>4. \A x \in Objects : Root(x) => refs'[x] = refs[x]
    BY <1>2, <1>5
  <2>5. \A x \in Objects : ~ Root(x) => refs'[x] \in {NonVisited, 0, 1}
    BY <1>2, <1>5, <2>3
  <2>6. \A x \in ToSet(black) : x \in Objects /\ (~ Root(x) => Visited(x))
    BY <1>2, <2>3, Elements DEF Types, Visited, NonVisited
  <2>7. \A x \in Objects : Visited(x)' => x \in Alive
    BY <1>6, <2>3
  <2> QED BY <1>3, <1>6, <1>11, <2>1, <2>2, <2>3, <2>4, <2>5, <2>6, <2>7 DEF Colours
<1>13. Frames'
  <2>1. pc' \in {"roots", "pass"}
    BY <1>1, <1>3 DEF Marking
  <2>2. \A e \in {f} \cup T : Visited(e.object) /\ e.left \subseteq References(e.object)
                             /\ e.object \in Objects
    BY <1>1, <1>2 DEF Frames, Activations
  <2>3. \A e \in ToSet(stack') :
          Visited(e.object)' /\ e.left \subseteq References(e.object) /\ e.object \in Objects
    BY <1>1, <1>6, <1>8, <2>2
  <2> QED BY <1>9, <2>1, <2>3 DEF Frames
\* What was to follow still is, unless it is followed now.
<1>14. \A x \in Objects : \A r \in Kinds :
         ToFollow(x, r) => ToFollow(x, r)' \/ (x = f.object /\ r = reference)
  BY <1>1, <1>8 DEF ToFollow
\* An object visited now is pending, or all its references are to follow.
<1>15. \A x \in Objects : Visited(x)' /\ ~ Visited(x) =>
         Pending(x)' \/ \A r \in References(x) : ToFollow(x, r)'
  <2> SUFFICES ASSUME NEW x \in Objects, Visited(x)', ~ Visited(x)
               PROVE  Pending(x)' \/ \A r \in References(x) : ToFollow(x, r)'
    OBVIOUS
  <2>1. ~ Root(x)
    BY <1>6
  <2>2. CASE refs'[x] = 1
    BY <1>3, <2>1, <2>2 DEF Pending, Gray, Root
  <2>3. CASE \E e \in ToSet(stack') : e.object = x /\ e.left = References(x)
    BY <2>3 DEF ToFollow
  <2> QED BY <1>6, <2>1, <2>2, <2>3
<1>16. TracedStrong'
  <2> SUFFICES ASSUME NEW x \in Objects, Visited(x)', NEW y \in heap.strong[x],
                      ~ Pending(x)'
               PROVE  Visited(y)' \/ ToFollow(x, <<"strong", y>>)'
    BY <1>3 DEF TracedStrong
  <2>1. y \in Objects /\ <<"strong", y>> \in References(x) /\ <<"strong", y>> \in Kinds
    BY <1>4 DEF References, Kinds
  <2>2. CASE ~ Visited(x)
    BY <1>15, <2>1, <2>2
  <2>3. CASE Visited(x)
    <3>1. Visited(y) \/ ToFollow(x, <<"strong", y>>)
      BY <1>1, <1>2, <1>7, <2>3 DEF Traced, TracedStrong, Marking
    <3>2. CASE x = f.object /\ <<"strong", y>> = reference
      <4>1. o = y
        BY <1>1, <1>2, <3>2, LeadsToAlive
      <4> QED BY <1>6, <2>1, <4>1
    <3> QED BY <1>6, <1>14, <2>1, <3>1, <3>2
  <2> QED BY <2>2, <2>3
<1>17. TracedWeak'
  <2> SUFFICES ASSUME NEW h \in Objects, NEW k \in Objects, Visited(h)', Visited(k)',
                      k \in DOMAIN heap.entries[h], heap.entries[h][k] # NoObject,
                      ~ Pending(h)', ~ Pending(k)'
               PROVE  \/ Visited(heap.entries[h][k])'
                      \/ ToFollow(h, <<"entry", k>>)' \/ ToFollow(k, <<"weak", h>>)'
    BY <1>3 DEF TracedWeak
  <2> DEFINE v == heap.entries[h][k]
  <2>1. v \in Objects
    BY <1>2, HeapType
  <2>2. <<"entry", k>> \in References(h) /\ <<"weak", h>> \in References(k)
        /\ <<"entry", k>> \in Kinds /\ <<"weak", h>> \in Kinds
    BY <1>1, <1>2 DEF References, Untouched, Marking, HoldersOf, Kinds
  <2>3. CASE ~ Visited(h)
    BY <1>15, <2>2, <2>3
  <2>4. CASE ~ Visited(k)
    BY <1>15, <2>2, <2>4
  <2>5. CASE Visited(h) /\ Visited(k)
    <3>1. Visited(v) \/ ToFollow(h, <<"entry", k>>) \/ ToFollow(k, <<"weak", h>>)
      BY <1>1, <1>2, <1>7, <2>5 DEF Traced, TracedWeak, Marking
    <3>2. CASE h = f.object /\ <<"entry", k>> = reference
      <4>1. o = v
        BY <1>1, <1>2, <2>5, <3>2, LeadsToAlive
      <4> QED BY <1>6, <2>1, <4>1
    <3>3. CASE k = f.object /\ <<"weak", h>> = reference
      <4>1. o = v
        BY <1>1, <1>2, <2>5, <3>3, LeadsToAlive
      <4> QED BY <1>6, <2>1, <4>1
    <3> HIDE DEF v
    <3> QED BY <1>6, <1>14, <2>1, <2>2, <3>1, <3>2, <3>3 DEF v
  <2> QED BY <2>3, <2>4, <2>5
<1>18. Passed' /\ Swept'
  <2>1. stack # <<>> /\ pc' = pc /\ anything' = anything
    BY <1>3
  <2> QED BY <1>1, <1>2, <2>1 DEF Passed, Swept, Marking
<1> QED BY <1>10, <1>11, <1>12, <1>13, <1>16, <1>17, <1>18 DEF IInv, Traced

\* A step that visits nothing keeps what is traced traced, if what was to
\* follow still is, and what was pending still is or has been entered.
LEMMA TracedKept ==
  ASSUME Types, Untouched, Marking, TracedStrong, TracedWeak, heap' = heap,
         \A x \in Objects : Visited(x)' <=> Visited(x),
         \A x \in Objects : \A r \in Kinds : ToFollow(x, r) => ToFollow(x, r)',
         \A x \in Objects : Visited(x) /\ Pending(x) =>
           Pending(x)' \/ \A r \in References(x) : ToFollow(x, r)'
  PROVE  TracedStrong' /\ TracedWeak'
<1>1. heap \in Heaps
  BY DEF Types
<1>2. TracedStrong'
  <2> SUFFICES ASSUME NEW x \in Objects, Visited(x)', NEW y \in heap.strong[x],
                      ~ Pending(x)'
               PROVE  Visited(y)' \/ ToFollow(x, <<"strong", y>>)'
    BY DEF TracedStrong
  <2>1. y \in Objects /\ <<"strong", y>> \in References(x) /\ <<"strong", y>> \in Kinds
    BY <1>1, HeapType DEF References, Kinds
  <2>2. Pending(x) \/ Visited(y) \/ ToFollow(x, <<"strong", y>>)
    BY DEF TracedStrong
  <2> QED BY <2>1, <2>2
<1>3. TracedWeak'
  <2> SUFFICES ASSUME NEW h \in Objects, NEW k \in Objects, Visited(h)', Visited(k)',
                      k \in DOMAIN heap.entries[h], heap.entries[h][k] # NoObject,
                      ~ Pending(h)', ~ Pending(k)'
               PROVE  \/ Visited(heap.entries[h][k])'
                      \/ ToFollow(h, <<"entry", k>>)' \/ ToFollow(k, <<"weak", h>>)'
    BY DEF TracedWeak
  <2>1. heap.entries[h][k] \in Objects
    BY <1>1, HeapType
  <2>2. <<"entry", k>> \in References(h) /\ <<"weak", h>> \in References(k)
        /\ <<"entry", k>> \in Kinds /\ <<"weak", h>> \in Kinds
    BY DEF References, Untouched, Marking, HoldersOf, Kinds
  <2>3. \/ Visited(heap.entries[h][k]) \/ Pending(h) \/ Pending(k)
        \/ ToFollow(h, <<"entry", k>>) \/ ToFollow(k, <<"weak", h>>)
    BY DEF TracedWeak
  <2> QED BY <2>1, <2>2, <2>3
<1> QED BY <1>2, <1>3

\* What no step of the marking phases changes.
LEMMA StandStill ==
  ASSUME IInv, UNCHANGED <<heap, entries, weakRefs>>
  PROVE  /\ Alive' = Alive /\ heap' = heap /\ \A x : Root(x)' <=> Root(x)
         /\ \A x : References(x)' = References(x)
         /\ Allocated' = Allocated => HoldersKnown'
         /\ pc' \in {"split", "roots", "pass"} /\ pc \in {"split", "roots", "pass"}
              => Untouched'
<1>1. Alive' = Alive
  BY DEF Alive, Closed
<1>2. \A x : Root(x)' <=> Root(x)
  BY DEF Root
<1>3. \A x : References(x)' = References(x)
  BY DEF References
<1>4. Allocated' = Allocated => HoldersKnown'
  BY DEF IInv, HoldersKnown
<1>5. pc' \in {"split", "roots", "pass"} /\ pc \in {"split", "roots", "pass"} => Untouched'
  BY DEF IInv, Untouched, HoldersOf
<1> QED BY <1>1, <1>2, <1>3, <1>4, <1>5

LEMMA MarkGood == IInv /\ Mark => IInv'
<1> SUFFICES ASSUME IInv, Mark PROVE IInv'
  OBVIOUS
<1>1. ASSUME NEW reference \in Head(stack).left, Follow(reference) PROVE IInv'
  BY <1>1, FollowGood DEF Mark
<1>2. CASE Head(stack).left = {} /\ stack' = Tail(stack) /\ UNCHANGED refs
  <2>1. /\ stack # <<>> /\ refs' = refs /\ white' = white /\ black' = black /\ pc' = pc
        /\ cursor' = cursor /\ anything' = anything /\ heap' = heap /\ entries' = entries
        /\ weakRefs' = weakRefs
    BY <1>2 DEF Mark
  <2>2. /\ Types /\ Lists /\ Untouched /\ Colours /\ Frames /\ Traced /\ Passed /\ Swept
        /\ Marking
    BY <2>1 DEF IInv, Frames, Marking
  <2>3. stack' \in Seq(Activations) /\ ToSet(stack) = {Head(stack)} \cup ToSet(stack')
    BY <1>2, <2>1, <2>2, Popped DEF Types
  <2>4. Types' /\ Lists' /\ Allocated' = Allocated
    BY <2>1, <2>2, <2>3 DEF Types, Lists, Allocated
  <2>5. /\ Alive' = Alive /\ HoldersKnown' /\ Untouched'
        /\ \A x : References(x)' = References(x) /\ (Root(x)' <=> Root(x))
    BY <2>1, <2>2, <2>4, StandStill DEF Marking
  <2>6. \A x : Visited(x)' <=> Visited(x)
    BY <2>1 DEF Visited
  <2>7. Colours'
    BY <2>1, <2>2, <2>5, <2>6 DEF Colours
  <2>8. Frames'
    BY <2>1, <2>2, <2>3, <2>5, <2>6 DEF Frames, Marking
  <2>9. \A x \in Objects : \A r \in Kinds : ToFollow(x, r) => ToFollow(x, r)'
    BY <1>2, <2>3 DEF ToFollow
  <2>10. \A x \in Objects : Pending(x) => Pending(x)'
    BY <2>1, <2>5 DEF Pending, Gray
  <2>11. TracedStrong' /\ TracedWeak'
    BY <2>1, <2>2, <2>6, <2>9, <2>10, TracedKept DEF Traced, Marking
  <2>12. Passed' /\ Swept'
    BY <2>1, <2>2 DEF Passed, Swept, Marking
  <2> QED BY <2>4, <2>5, <2>7, <2>8, <2>11, <2>12 DEF IInv, Traced
<1> QED BY <1>1, <1>2 DEF Mark

LEMMA SplitGood == IInv /\ Split => IInv'
<1> SUFFICES ASSUME IInv, Split PROVE IInv'
  OBVIOUS
<1>1. /\ pc = "split" /\ pc' = "roots" /\ stack' = stack /\ cursor' = cursor
      /\ anything' = anything /\ heap' = heap /\ entries' = entries /\ weakRefs' = weakRefs
      /\ refs' = [o \in Objects |-> IF refs[o] = 0 THEN NonVisited ELSE refs[o]]
  BY DEF Split
<1>2. /\ Types /\ Lists /\ Untouched /\ Colours /\ Frames /\ refs = heap.refs /\ cursor = 1
      /\ heap \in Heaps /\ black = <<>>
  BY <1>1 DEF IInv, Colours, Types
<1>3. stack = <<>> /\ ToSet(stack) = {}
  BY <1>1, <1>2 DEF Frames, ToSet
<1>4. ToSet(white) = Objects
  <2>1. ToSet(black) = {} /\ ToSet(white) \subseteq Objects
    BY <1>2, Elements DEF Types, ToSet
  <2> QED BY <1>1, <1>2, <2>1 DEF Lists, Allocated
<1>5. refs \in [Objects -> Nat]
  BY <1>2, HeapType
<1>6. /\ black' \in Seq(Objects) /\ Once(black')
      /\ ToSet(black') = {o \in Objects : Root(o)}
      /\ white' \in Seq(Objects) /\ Once(white')
      /\ ToSet(white') = {o \in Objects : ~ Root(o)}
  <2>1. /\ black' \in InListOrder({o \in Objects : refs[o] > 0})
        /\ white' \in InListOrder({o \in Objects : refs[o] = 0})
    BY <1>4 DEF Split
  <2>2. /\ {o \in Objects : refs[o] > 0} = {o \in Objects : Root(o)}
        /\ {o \in Objects : refs[o] = 0} = {o \in Objects : ~ Root(o)}
    BY <1>2, <1>5 DEF Root
  <2> QED BY <2>1, <2>2, Ordered
<1>7. \A o \in Objects : /\ Root(o) => refs'[o] = heap.refs[o] /\ Visited(o)'
                         /\ ~ Root(o) => refs'[o] = NonVisited
  BY <1>1, <1>2, <1>5 DEF Root, Visited, NonVisited
<1>8. Allocated' = Objects /\ Allocated = Objects
  BY <1>2, <1>4, <1>6 DEF Allocated, ToSet
<1>9. /\ Alive' = Alive /\ HoldersKnown' /\ Untouched'
      /\ \A x : References(x)' = References(x) /\ (Root(x)' <=> Root(x))
  BY <1>1, <1>8, StandStill
<1>10. Types'
  <2>1. refs' \in [Objects -> Int]
    BY <1>1, <1>5 DEF NonVisited
  <2> QED BY <1>1, <1>2, <1>6, <2>1 DEF Types
<1>11. Lists'
  BY <1>6, <1>8 DEF Lists
<1>12. Colours'
  <2>1. \A o \in Objects : Visited(o)' => Root(o)
    BY <1>7 DEF Visited
  <2>2. \A o \in Objects : Root(o) => o \in Alive
    BY <1>2, AliveLeast DEF Closed, Root
  <2> QED BY <1>1, <1>6, <1>7, <1>9, <2>1, <2>2 DEF Colours
<1>13. Frames'
  BY <1>1, <1>3 DEF Frames
<1>14. \A o \in Objects : Visited(o)' => Pending(o)'
  <2> SUFFICES ASSUME NEW o \in Objects, Visited(o)' PROVE Pending(o)'
    OBVIOUS
  <2>1. o \in ToSet(black')
    BY <1>6, <1>7 DEF Visited
  <2>2. PICK i \in DOMAIN black' : black'[i] = o
    BY <2>1 DEF ToSet
  <2>3. i >= 1
    BY <1>6, Elements
  <2> QED BY <1>1, <1>2, <2>2, <2>3 DEF Pending
<1>15. Traced' /\ Passed' /\ Swept'
  BY <1>1, <1>14 DEF Traced, TracedStrong, TracedWeak, Passed, Swept
<1> QED BY <1>9, <1>10, <1>11, <1>12, <1>13, <1>15 DEF IInv

LEMMA MarkRootGood == IInv /\ MarkRoot => IInv'
<1> SUFFICES ASSUME IInv, MarkRoot PROVE IInv'
  OBVIOUS
<1> DEFINE o == black[cursor]
           e == [object |-> o, left |-> References(o)]
<1>1. /\ pc = "roots" /\ pc' = pc /\ stack = <<>> /\ stack' = <<e>> /\ cursor' = cursor + 1
      /\ anything' = anything /\ heap' = heap /\ entries' = entries /\ weakRefs' = weakRefs
      /\ refs' = refs /\ white' = white /\ black' = black /\ cursor <= Len(black)
  BY DEF MarkRoot, Enter
<1>2. /\ Types /\ Lists /\ Untouched /\ Colours /\ Frames /\ Traced /\ Marking
      /\ cursor \in Nat \ {0} /\ black \in Seq(Objects)
  BY <1>1 DEF IInv, Marking, Types
<1>3. cursor \in DOMAIN black /\ DOMAIN black = 1 .. Len(black) /\ o \in ToSet(black)
      /\ o \in Objects
  <2>1. cursor \in 1 .. Len(black)
    BY <1>1, <1>2
  <2> QED BY <1>2, <2>1, Elements
<1>4. Visited(o)
  <2>1. IF Root(o) THEN refs[o] = heap.refs[o] ELSE refs[o] = 0
    BY <1>1, <1>2, <1>3 DEF Colours
  <2> QED BY <2>1 DEF Visited, NonVisited, Root
<1>5. e \in Activations
  BY <1>2, <1>3, ReferencesLegal DEF Activations
<1> HIDE DEF o
<1>6. /\ stack' \in Seq(Activations) /\ ToSet(stack') = {e} /\ ToSet(stack) = {}
  <2> HIDE DEF e
  <2>1. <<e>> \in Seq(Activations) /\ DOMAIN <<e>> = {1}
    BY <1>5
  <2> QED BY <1>1, <2>1 DEF ToSet
<1>7. e.object = o /\ e.left = References(o)
  OBVIOUS
<1> HIDE DEF e
<1>8. Types' /\ Lists' /\ Allocated' = Allocated
  BY <1>1, <1>2, <1>6 DEF Types, Lists, Allocated
<1>9. /\ Alive' = Alive /\ HoldersKnown' /\ Untouched'
      /\ \A x : References(x)' = References(x) /\ (Root(x)' <=> Root(x))
      /\ \A x : Visited(x)' <=> Visited(x)
  BY <1>1, <1>8, StandStill DEF Visited
<1>10. Colours'
  BY <1>1, <1>2, <1>9 DEF Colours
<1>11. Frames'
  BY <1>1, <1>4, <1>6, <1>7, <1>9 DEF Frames
<1>12. \A x \in Objects : \A r \in Kinds : ToFollow(x, r) => ToFollow(x, r)'
  BY <1>6 DEF ToFollow
<1>13. \A x \in Objects : Pending(x) =>
         Pending(x)' \/ \A r \in References(x) : ToFollow(x, r)'
  <2> SUFFICES ASSUME NEW x \in Objects, Pending(x), x # o PROVE Pending(x)'
    BY <1>6, <1>7 DEF ToFollow
  <2>1. CASE Gray(x)
    BY <1>1, <1>9, <2>1 DEF Pending, Gray
  <2>2. CASE \E i \in DOMAIN black : i >= cursor /\ black[i] = x
    <3>1. PICK i \in DOMAIN black : i >= cursor /\ black[i] = x
      BY <2>2
    <3>2. i >= cursor + 1
      BY <1>2, <1>3, <3>1 DEF o
    <3> QED BY <1>1, <3>1, <3>2 DEF Pending
  <2> QED BY <2>1, <2>2 DEF Pending
<1>14. TracedStrong' /\ TracedWeak'
  BY <1>1, <1>2, <1>9, <1>12, <1>13, TracedKept DEF Traced, Marking
<1>15. Passed' /\ Swept'
  BY <1>1 DEF Passed, Swept
<1> QED BY <1>8, <1>9, <1>10, <1>11, <1>14, <1>15 DEF IInv, Traced

LEMMA EndRootsGood == IInv /\ EndRoots => IInv'
<1> SUFFICES ASSUME IInv, EndRoots PROVE IInv'
  OBVIOUS
<1>1. /\ pc = "roots" /\ pc' = "pass" /\ stack = <<>> /\ stack' = stack /\ cursor' = 1
      /\ anything' = FALSE /\ heap' = heap /\ entries' = entries /\ weakRefs' = weakRefs
      /\ refs' = refs /\ white' = white /\ black' = black /\ cursor > Len(black)
  BY DEF EndRoots
<1>2. /\ Types /\ Lists /\ Untouched /\ Colours /\ Traced /\ Marking
      /\ cursor \in Nat \ {0} /\ black \in Seq(Objects) /\ white \in Seq(Objects)
  BY <1>1 DEF IInv, Marking, Types
<1>3. Types' /\ Lists' /\ Allocated' = Allocated
  <2>1. anything' \in BOOLEAN
    BY <1>1
  <2>2. cursor' \in Nat \ {0}
    BY <1>1
  <2>3. Types'
    BY <1>1, <1>2, <2>1, <2>2 DEF Types
  <2>4. Lists' /\ Allocated' = Allocated
    BY <1>1, <1>2 DEF Lists, Allocated
  <2> QED BY <2>3, <2>4
<1>4. /\ Alive' = Alive /\ HoldersKnown' /\ Untouched'
      /\ \A x : References(x)' = References(x) /\ (Root(x)' <=> Root(x))
      /\ \A x : Visited(x)' <=> Visited(x)
  BY <1>1, <1>3, StandStill DEF Visited
<1>5. Colours' /\ Frames'
  BY <1>1, <1>2, <1>4 DEF Colours, Frames, ToSet
<1>6. \A x \in Objects : Pending(x) => Pending(x)'
  <2>1. \A i \in DOMAIN black : ~ (i >= cursor)
    BY <1>1, <1>2
  <2> QED BY <1>1, <1>4, <2>1 DEF Pending, Gray
<1>7. \A x \in Objects : \A r \in Kinds : ToFollow(x, r) => ToFollow(x, r)'
  BY <1>1 DEF ToFollow
<1>8. TracedStrong' /\ TracedWeak'
  BY <1>1, <1>2, <1>4, <1>6, <1>7, TracedKept DEF Traced, Marking
<1>9. Passed' /\ Swept'
  <2>1. \A i \in DOMAIN white : ~ (i < 1)
    BY <1>2
  <2> QED BY <1>1, <2>1 DEF Passed, Swept
<1> QED BY <1>3, <1>4, <1>5, <1>8, <1>9 DEF IInv, Traced

LEMMA PassWhiteGood == IInv /\ PassWhite => IInv'
<1> SUFFICES ASSUME IInv, PassWhite PROVE IInv'
  OBVIOUS
<1>1. /\ pc = "pass" /\ pc' = pc /\ stack = <<>> /\ stack' = stack /\ cursor' = cursor + 1
      /\ anything' = anything /\ heap' = heap /\ entries' = entries /\ weakRefs' = weakRefs
      /\ refs' = refs /\ white' = white /\ black' = black /\ ~ Visited(white[cursor])
  BY DEF PassWhite
<1>2. /\ Types /\ Lists /\ Untouched /\ Colours /\ Traced /\ Marking /\ Passed
      /\ cursor \in Nat \ {0} /\ white \in Seq(Objects)
  BY <1>1 DEF IInv, Marking, Types
<1>3. Types' /\ Lists' /\ Allocated' = Allocated
  <2>1. cursor + 1 \in Nat \ {0}
    BY <1>2
  <2> QED BY <1>1, <1>2, <2>1 DEF Types, Lists, Allocated
<1>4. /\ Alive' = Alive /\ HoldersKnown' /\ Untouched'
      /\ \A x : References(x)' = References(x) /\ (Root(x)' <=> Root(x))
      /\ \A x : Visited(x)' <=> Visited(x)
  BY <1>1, <1>3, StandStill DEF Visited
<1>5. Colours' /\ Frames'
  BY <1>1, <1>2, <1>4 DEF Colours, Frames, ToSet
<1>6. \A x \in Objects : Pending(x) => Pending(x)'
  BY <1>1, <1>4 DEF Pending, Gray
<1>7. \A x \in Objects : \A r \in Kinds : ToFollow(x, r) => ToFollow(x, r)'
  BY <1>1 DEF ToFollow
<1>8. TracedStrong' /\ TracedWeak'
  BY <1>1, <1>2, <1>4, <1>6, <1>7, TracedKept DEF Traced, Marking
<1>9. Passed' /\ Swept'
  <2>1. \A i \in DOMAIN white : i < cursor + 1 => i < cursor \/ i = cursor
    BY <1>2
  <2> QED BY <1>1, <1>2, <1>4, <2>1 DEF Passed, Swept
<1> QED BY <1>3, <1>4, <1>5, <1>8, <1>9 DEF IInv, Traced

LEMMA PassVisitedGood == IInv /\ PassVisited => IInv'
<1> SUFFICES ASSUME IInv, PassVisited PROVE IInv'
  OBVIOUS
<1> DEFINE o == white[cursor]
           e == [object |-> o, left |-> References(o)]
<1>1. /\ pc = "pass" /\ pc' = pc /\ stack = <<>> /\ cursor' = cursor
      /\ heap' = heap /\ entries' = entries /\ weakRefs' = weakRefs
      /\ cursor <= Len(white) /\ Visited(o)
      /\ white' = RemoveAt(white, cursor) /\ black' = Append(black, o)
      /\ \/ /\ refs[o] >= 1 /\ refs' = [refs EXCEPT ![o] = 0]
            /\ stack' = <<e>> /\ anything' = TRUE
         \/ /\ ~ (refs[o] >= 1) /\ refs' = refs /\ stack' = stack /\ anything' = anything
  BY DEF PassVisited, Enter
<1>2. /\ Types /\ Lists /\ Untouched /\ Colours /\ Frames /\ Traced /\ Passed /\ Marking
      /\ cursor \in Nat \ {0} /\ black \in Seq(Objects) /\ white \in Seq(Objects)
      /\ refs \in [Objects -> Int] /\ heap \in Heaps
  BY <1>1 DEF IInv, Marking, Types
<1>3. /\ cursor \in 1 .. Len(white) /\ o \in ToSet(white) /\ o \in Objects
      /\ o \notin ToSet(black)
  <2>1. cursor \in 1 .. Len(white)
    BY <1>1, <1>2
  <2> QED BY <1>2, <2>1, Elements DEF Lists
<1>4. ~ Root(o) /\ (refs[o] = 0 \/ refs[o] = 1) /\ o \in Alive
  <2>1. ~ Root(o) /\ refs[o] \in {NonVisited, 0, 1} /\ o \in Alive
    BY <1>1, <1>2, <1>3 DEF Colours
  <2> QED BY <1>1, <2>1 DEF Visited
<1> HIDE DEF o
<1>5. /\ white' \in Seq(Objects) /\ Len(white') = Len(white) - 1 /\ Once(white')
      /\ \A j \in 1 .. Len(white) - 1 : j < cursor => white'[j] = white[j]
      /\ ToSet(white') = ToSet(white) \ {o}
  <2> DEFINE t == RemoveAt(white, cursor)
  <2>1. /\ t \in Seq(Objects) /\ Len(t) = Len(white) - 1
        /\ \A j \in 1 .. Len(white) - 1 : j < cursor => t[j] = white[j]
        /\ Once(white) => /\ Once(t)
                          /\ ToSet(t) = ToSet(white) \ {white[cursor]}
    BY <1>2, <1>3, Removed
  <2>2. Once(white) /\ white' = t
    BY <1>1, <1>2 DEF Lists
  <2> HIDE DEF t
  <2> QED BY <2>1, <2>2 DEF o
<1>6. /\ black' \in Seq(Objects) /\ Once(black') /\ ToSet(black') = ToSet(black) \cup {o}
  BY <1>1, <1>2, <1>3, Appended DEF Lists
<1>7. e \in Activations /\ e.object = o /\ e.left = References(o)
  BY <1>2, <1>3, ReferencesLegal DEF Activations
<1> HIDE DEF e
<1>8. /\ refs' \in [Objects -> Int] /\ refs'[o] = 0
      /\ \A x \in Objects : x # o => refs'[x] = refs[x]
      /\ \A x \in Objects : Visited(x)' <=> Visited(x)
  <2>1. /\ refs' \in [Objects -> Int] /\ refs'[o] = 0
        /\ \A x \in Objects : x # o => refs'[x] = refs[x]
    BY <1>1, <1>2, <1>3, <1>4
  <2> QED BY <1>1, <1>3, <2>1 DEF Visited, NonVisited
<1>9. /\ stack' \in Seq(Activations) /\ ToSet(stack') \subseteq {e} /\ ToSet(stack) = {}
      /\ refs[o] = 1 => ToSet(stack') = {e} /\ anything' = TRUE
      /\ refs[o] = 0 => stack' = stack /\ anything' = anything
  <2>1. ToSet(stack) = {} /\ stack \in Seq(Activations)
    BY <1>1 DEF ToSet
  <2>2. <<e>> \in Seq(Activations) /\ DOMAIN <<e>> = {1} /\ <<e>>[1] = e
    BY <1>7
  <2>3. ToSet(<<e>>) = {e}
    BY <2>2 DEF ToSet
  <2>4. CASE refs[o] = 1
    <3>1. stack' = <<e>> /\ anything' = TRUE
      BY <1>1, <2>4
    <3> QED BY <2>1, <2>2, <2>3, <2>4, <3>1
  <2>5. CASE refs[o] = 0
    <3>1. stack' = stack /\ anything' = anything
      BY <1>1, <2>5
    <3> QED BY <2>1, <2>5, <3>1
  <2> QED BY <1>4, <2>4, <2>5
<1>10. Types'
  <2>1. anything' \in BOOLEAN
    <3>1. CASE anything' = TRUE
      BY <3>1
    <3>2. CASE anything' = anything
      BY <1>2, <3>2 DEF Types
    <3> QED BY <1>1, <3>1, <3>2
  <2> QED BY <1>1, <1>2, <1>5, <1>6, <1>8, <1>9, <2>1 DEF Types
<1>11. Lists' /\ Allocated' = Allocated
  <2>1. Allocated' = Allocated
    BY <1>3, <1>5, <1>6 DEF Allocated
  <2> QED BY <1>1, <1>2, <1>5, <1>6, <2>1 DEF Lists
<1>12. /\ Alive' = Alive /\ HoldersKnown' /\ Untouched'
       /\ \A x : References(x)' = References(x) /\ (Root(x)' <=> Root(x))
  BY <1>1, <1>11, StandStill
<1>13. Colours'
  <2>1. \A x \in Objects : Root(x) => refs'[x] = heap.refs[x] /\ x \in ToSet(black')
    BY <1>1, <1>2, <1>4, <1>6, <1>8 DEF Colours
  <2>2. \A x \in Objects : ~ Root(x) => refs'[x] \in {NonVisited, 0, 1}
    BY <1>1, <1>2, <1>8 DEF Colours
  <2>3. ToSet(black) \subseteq Objects
    BY <1>2, Elements
  <2>4. \A x \in ToSet(black') : ~ Root(x) => refs'[x] = 0
    BY <1>1, <1>2, <1>6, <1>8, <2>3 DEF Colours
  <2>5. \A x \in Objects : Visited(x) => x \in Alive
    BY <1>1, <1>2 DEF Colours
  <2> QED BY <1>1, <1>8, <1>12, <2>1, <2>2, <2>4, <2>5 DEF Colours
<1>14. Frames'
  BY <1>1, <1>3, <1>7, <1>8, <1>9, <1>12 DEF Frames
<1>15. \A x \in Objects : \A r \in Kinds : ToFollow(x, r) => ToFollow(x, r)'
  BY <1>9 DEF ToFollow
<1>16. \A x \in Objects : Pending(x) =>
         Pending(x)' \/ \A r \in References(x) : ToFollow(x, r)'
  <2> SUFFICES ASSUME NEW x \in Objects, Gray(x)
               PROVE  Pending(x)' \/ \A r \in References(x) : ToFollow(x, r)'
    BY <1>1 DEF Pending
  <2>1. CASE x = o
    BY <1>7, <1>9, <2>1 DEF Gray, ToFollow
  <2>2. CASE x # o
    BY <1>8, <1>12, <2>2 DEF Pending, Gray
  <2> QED BY <2>1, <2>2
<1>17. TracedStrong' /\ TracedWeak'
  BY <1>1, <1>2, <1>8, <1>15, <1>16, TracedKept DEF Traced, Marking
<1>18. Passed'
  <2> SUFFICES ASSUME ~ anything'
               PROVE  stack' = <<>> /\ \A i \in DOMAIN white' : i < cursor => ~ Visited(white[i])'
    BY <1>1 DEF Passed
  <2>1. stack' = <<>> /\ ~ anything
    BY <1>1, <1>4, <1>9
  <2>2. \A i \in DOMAIN white : i < cursor => ~ Visited(white[i])
    BY <1>1, <1>2, <2>1 DEF Passed
  <2>3. ASSUME NEW i \in DOMAIN white', i < cursor PROVE ~ Visited(white[i])'
    <3>1. i \in 1 .. Len(white) - 1 /\ i \in 1 .. Len(white)
      BY <1>2, <1>5
    <3>2. white'[i] = white[i]
      BY <1>5, <2>3, <3>1
    <3>3. white[i] \in Objects /\ i \in DOMAIN white
      BY <1>2, <3>1
    <3> QED BY <1>8, <2>2, <2>3, <3>2, <3>3 DEF Visited
  <2> QED BY <2>1, <2>3
<1>19. Swept'
  BY <1>1 DEF Swept
<1> QED BY <1>10, <1>11, <1>12, <1>13, <1>14, <1>17, <1>18, <1>19 DEF IInv, Traced

LEMMA EndPassGood == IInv /\ EndPass => IInv'
<1> SUFFICES ASSUME IInv, EndPass PROVE IInv'
  OBVIOUS
<1>1. /\ pc = "pass" /\ stack = <<>> /\ stack' = stack /\ cursor' = 1 /\ anything' = FALSE
      /\ heap' = heap /\ entries' = entries /\ weakRefs' = weakRefs
      /\ refs' = refs /\ white' = white /\ black' = black /\ cursor > Len(white)
      /\ pc' = IF anything THEN pc ELSE "sweep"
  BY DEF EndPass
<1>2. /\ Types /\ Lists /\ Untouched /\ Colours /\ Traced /\ Passed /\ Marking
      /\ cursor \in Nat \ {0} /\ black \in Seq(Objects) /\ white \in Seq(Objects)
      /\ anything \in BOOLEAN /\ heap \in Heaps /\ entries = heap.entries
  BY <1>1 DEF IInv, Marking, Types, Untouched
<1>3. Types' /\ Lists' /\ Allocated' = Allocated
  <2>1. pc' \in {"pass", "sweep"}
    BY <1>1
  <2>2. anything' \in BOOLEAN
    BY <1>1
  <2>3. cursor' \in Nat \ {0}
    BY <1>1
  <2>4. pc' \in {"split", "roots", "pass", "sweep", "done"}
    BY <2>1
  <2>5. Types'
    BY <1>1, <1>2, <2>2, <2>3, <2>4 DEF Types
  <2>6. Lists' /\ Allocated' = Allocated
    BY <1>1, <1>2 DEF Lists, Allocated
  <2> QED BY <2>5, <2>6
<1>4. /\ Alive' = Alive /\ HoldersKnown'
      /\ \A x : References(x)' = References(x) /\ (Root(x)' <=> Root(x))
      /\ \A x : Visited(x)' <=> Visited(x)
      /\ pc' = "pass" => Untouched'
  BY <1>1, <1>3, StandStill DEF Visited
<1>5. pc' \in {"pass", "sweep"}
  BY <1>1
<1>6. Colours' /\ Frames'
  BY <1>1, <1>2, <1>4, <1>5 DEF Colours, Frames, ToSet
<1>7. CASE pc' = "pass"
  <2>1. \A x \in Objects : Pending(x) => Pending(x)'
    BY <1>1, <1>4 DEF Pending, Gray
  <2>2. \A x \in Objects : \A r \in Kinds : ToFollow(x, r) => ToFollow(x, r)'
    BY <1>1 DEF ToFollow
  <2>3. TracedStrong' /\ TracedWeak'
    BY <1>1, <1>2, <1>4, <2>1, <2>2, TracedKept DEF Traced, Marking
  <2>4. Passed' /\ Swept'
    <3>1. \A i \in DOMAIN white : ~ (i < 1)
      BY <1>2
    <3> QED BY <1>1, <1>7, <3>1 DEF Passed, Swept
  <2> QED BY <1>3, <1>4, <1>6, <1>7, <2>3, <2>4 DEF IInv, Traced
<1>8. CASE pc' = "sweep"
  <2>1. anything = FALSE
    BY <1>1, <1>2, <1>8
  <2>2. \A x \in ToSet(white) : ~ Visited(x)
    <3>1. \A i \in DOMAIN white : i < cursor
      BY <1>1, <1>2
    <3> QED BY <1>1, <1>2, <2>1, <3>1 DEF Passed, ToSet
  <2>3. Objects = Allocated /\ ToSet(black) \subseteq Objects
    <3>1. ToSet(black) \subseteq Objects /\ ToSet(white) \subseteq Objects
      BY <1>2, Elements
    <3> QED BY <1>1, <1>2, <3>1 DEF Lists, Allocated
  <2>4. \A x \in Objects : Visited(x) <=> x \in ToSet(black)
    <3>1. \A x \in ToSet(black) : Visited(x)
      <4> SUFFICES ASSUME NEW x \in ToSet(black) PROVE Visited(x)
        OBVIOUS
      <4>1. IF Root(x) THEN refs[x] = heap.refs[x] ELSE refs[x] = 0
        BY <1>1, <1>2, <2>3 DEF Colours
      <4> QED BY <4>1 DEF Visited, NonVisited, Root
    <3> QED BY <2>2, <2>3, <3>1 DEF Allocated
  <2>5. \A x \in ToSet(black) : ~ Pending(x)
    BY <1>1, <1>2 DEF Pending, Gray, Colours
  <2>6. \A x, r : ~ ToFollow(x, r)
    BY <1>1 DEF ToFollow, ToSet
  <2>7. Closed(ToSet(black))
    <3>1. \A x \in Objects : heap.refs[x] > 0 => x \in ToSet(black)
      BY <1>1, <1>2 DEF Colours, Root
    <3>2. \A x \in ToSet(black) : heap.strong[x] \subseteq ToSet(black)
      <4> SUFFICES ASSUME NEW x \in ToSet(black), NEW y \in heap.strong[x]
                   PROVE  y \in ToSet(black)
        OBVIOUS
      <4>1. x \in Objects /\ y \in Objects
        BY <1>2, <2>3, HeapType
      <4>2. Visited(y)
        BY <1>1, <1>2, <2>4, <2>5, <2>6, <4>1 DEF Traced, TracedStrong
      <4> QED BY <2>4, <4>1, <4>2
    <3>3. \A h \in ToSet(black) : \A k \in ToSet(black) \cap DOMAIN heap.entries[h] :
            heap.entries[h][k] \in ToSet(black) \cup {NoObject}
      <4> SUFFICES ASSUME NEW h \in ToSet(black), NEW k \in ToSet(black),
                          k \in DOMAIN heap.entries[h], heap.entries[h][k] # NoObject
                   PROVE  heap.entries[h][k] \in ToSet(black)
        OBVIOUS
      <4>1. h \in Objects /\ k \in Objects /\ heap.entries[h][k] \in Objects
        BY <1>2, <2>3, HeapType
      <4>2. Visited(heap.entries[h][k])
        BY <1>1, <1>2, <2>4, <2>5, <2>6, <4>1 DEF Traced, TracedWeak
      <4> QED BY <2>4, <4>1, <4>2
    <3> QED BY <3>1, <3>2, <3>3 DEF Closed
  <2>8. Alive = ToSet(black)
    <3>1. Alive \subseteq ToSet(black)
      BY <1>2, <2>3, <2>7, AliveLeast
    <3>2. ToSet(black) \subseteq Alive
      BY <1>1, <1>2, <2>3, <2>4 DEF Colours
    <3> QED BY <3>1, <3>2
  <2>9. Swept'
    <3>1. \A h \in Objects : \A k \in DOMAIN entries[h] : k \in Objects
      BY <1>2, HeapType
    <3> QED BY <1>1, <1>2, <1>3, <1>4, <1>8, <2>3, <2>8, <3>1 DEF Swept
  <2>10. Untouched' /\ Traced' /\ Passed'
    BY <1>8 DEF Untouched, Traced, Passed
  <2> QED BY <1>3, <1>4, <1>6, <2>9, <2>10 DEF IInv
<1> QED BY <1>5, <1>7, <1>8

LEMMA FreeObjectGood == IInv /\ FreeObject => IInv'
<1> SUFFICES ASSUME IInv, FreeObject PROVE IInv'
  OBVIOUS
<1> DEFINE o == Head(white)
<1>1. /\ pc = "sweep" /\ pc' = pc /\ white # <<>> /\ white' = Tail(white)
      /\ weakRefs' = [k \in Objects |-> IF k = o THEN {} ELSE weakRefs[k] \ {o}]
      /\ entries' = [h \in Objects |->
                       CASE h = o -> <<>>
                         [] h \in weakRefs[o] \ {o} -> Restrict(entries[h], DOMAIN entries[h] \ {o})
                         [] OTHER -> entries[h]]
      /\ heap' = heap /\ refs' = refs /\ black' = black /\ cursor' = cursor
      /\ anything' = anything /\ stack' = stack
  BY DEF FreeObject
<1>2. /\ Types /\ Lists /\ Colours /\ Frames /\ Swept /\ HoldersKnown
      /\ white \in Seq(Objects) /\ black \in Seq(Objects)
      /\ weakRefs \in [Objects -> SUBSET Objects]
  BY DEF IInv, Types
<1>3. /\ o \in Objects /\ white' \in Seq(Objects) /\ Once(white')
      /\ ToSet(white) = {o} \cup ToSet(white') /\ o \notin ToSet(white')
  BY <1>1, <1>2, Popped DEF Lists
<1> HIDE DEF o
<1>4. Allocated' = Allocated \ {o} /\ o \in Allocated /\ Allocated \subseteq Objects
  <2>1. ToSet(white) \subseteq Objects /\ ToSet(black) \subseteq Objects
    BY <1>2, Elements
  <2> QED BY <1>1, <1>2, <1>3, <2>1 DEF Allocated, Lists
\* What is left of the entries.
<1>5. ASSUME NEW h \in Allocated, h # o
      PROVE  /\ DOMAIN entries'[h] = DOMAIN entries[h] \ {o}
             /\ \A k \in DOMAIN entries'[h] : entries'[h][k] = entries[h][k]
  <2>1. h \in weakRefs[o] <=> o \in DOMAIN entries[h]
    BY <1>2, <1>4, <1>5 DEF HoldersKnown
  <2>2. CASE h \in weakRefs[o]
    <3>1. entries'[h] = Restrict(entries[h], DOMAIN entries[h] \ {o})
      BY <1>1, <1>4, <1>5, <2>2
    <3> QED BY <3>1 DEF Restrict
  <2>3. CASE h \notin weakRefs[o]
    <3>1. entries'[h] = entries[h]
      BY <1>1, <1>4, <1>5, <2>3
    <3> QED BY <2>1, <2>3, <3>1
  <2> QED BY <2>2, <2>3
<1>6. Types'
  <2>1. weakRefs' \in [Objects -> SUBSET Objects] /\ DOMAIN entries' = Objects
    BY <1>1, <1>2
  <2> QED BY <1>1, <1>2, <1>3, <2>1 DEF Types
<1>7. Lists'
  BY <1>1, <1>2, <1>3 DEF Lists
<1>8. Alive' = Alive
  BY <1>1 DEF Alive, Closed
<1>9. Colours' /\ Frames'
  <2>1. \A x : (Root(x)' <=> Root(x)) /\ (Visited(x)' <=> Visited(x))
    BY <1>1 DEF Root, Visited
  <2>2. stack = <<>> /\ ToSet(stack') = {}
    BY <1>1, <1>2 DEF Frames, ToSet
  <2> QED BY <1>1, <1>2, <1>8, <2>1, <2>2 DEF Colours, Frames
<1>10. Untouched' /\ Traced' /\ Passed'
  BY <1>1 DEF Untouched, Traced, Passed
<1>11. Swept'
  <2>1. /\ Alive = ToSet(black)
        /\ \A h \in Allocated : \A k \in DOMAIN entries[h] :
             /\ k \in Allocated
             /\ k \in DOMAIN heap.entries[h] /\ entries[h][k] = heap.entries[h][k]
    BY <1>1, <1>2 DEF Swept
  <2>2. \A h \in Allocated' : \A k \in DOMAIN entries'[h] :
          /\ k \in Allocated'
          /\ k \in DOMAIN heap.entries[h] /\ entries'[h][k] = heap.entries[h][k]
    BY <1>4, <1>5, <2>1
  <2>3. pc' = "sweep" /\ pc' # "done" /\ black' = black /\ heap' = heap
    BY <1>1
  <2> QED BY ONLY <1>8, <2>1, <2>2, <2>3 DEF Swept
<1>12. HoldersKnown'
  <2> SUFFICES ASSUME NEW k \in Allocated'
               PROVE  weakRefs'[k] = {h \in Allocated' : k \in DOMAIN entries'[h]}
    BY DEF HoldersKnown
  <2>1. k \in Allocated /\ k # o /\ k \in Objects
    BY <1>4
  <2>2. weakRefs'[k] = weakRefs[k] \ {o}
    BY <1>1, <2>1
  <2>3. weakRefs[k] = {h \in Allocated : k \in DOMAIN entries[h]}
    BY <1>2, <2>1 DEF HoldersKnown
  <2> QED BY <1>4, <1>5, <2>1, <2>2, <2>3
<1> QED BY <1>6, <1>7, <1>9, <1>10, <1>11, <1>12 DEF IInv

LEMMA EndSweepGood == IInv /\ EndSweep => IInv'
<1> SUFFICES ASSUME IInv, EndSweep PROVE IInv'
  OBVIOUS
<1>1. /\ pc = "sweep" /\ pc' = "done" /\ white = <<>> /\ white' = white
      /\ heap' = heap /\ refs' = refs /\ black' = black /\ cursor' = cursor
      /\ anything' = anything /\ stack' = stack /\ entries' = entries /\ weakRefs' = weakRefs
  BY DEF EndSweep
<1>2. Types /\ Lists /\ Colours /\ Frames /\ Swept
  BY DEF IInv
<1>3. Types' /\ Lists' /\ Allocated' = Allocated
  BY <1>1, <1>2 DEF Types, Lists, Allocated
<1>4. /\ Alive' = Alive /\ HoldersKnown'
      /\ \A x : (Root(x)' <=> Root(x)) /\ (Visited(x)' <=> Visited(x))
  BY <1>1, <1>3, StandStill DEF Visited
<1>5. Colours'
  BY <1>1, <1>2, <1>4 DEF Colours
<1>6. Frames'
  BY <1>1, <1>2 DEF Frames, ToSet
<1>7. Swept' /\ Untouched' /\ Traced' /\ Passed'
  BY <1>1, <1>2, <1>3, <1>4 DEF Swept, Untouched, Traced, Passed
<1> QED BY <1>3, <1>4, <1>5, <1>6, <1>7 DEF IInv

LEMMA NextGood == IInv /\ [Next]_vars => IInv'
<1> SUFFICES ASSUME IInv, [Next]_vars PROVE IInv'
  OBVIOUS
<1>1. CASE UNCHANGED vars
  <2>1. /\ heap' = heap /\ entries' = entries /\ weakRefs' = weakRefs /\ refs' = refs
        /\ white' = white /\ black' = black /\ pc' = pc /\ cursor' = cursor
        /\ anything' = anything /\ stack' = stack
    BY <1>1 DEF vars
  <2>2. /\ Types /\ Lists /\ Untouched /\ Colours /\ Frames /\ Traced /\ Passed
        /\ Swept /\ HoldersKnown
    BY DEF IInv
  <2>3. /\ Allocated' = Allocated /\ Alive' = Alive
        /\ \A x : References(x)' = References(x) /\ (Root(x)' <=> Root(x))
        /\ \A x : (Visited(x)' <=> Visited(x)) /\ (Gray(x)' <=> Gray(x))
    BY <2>1 DEF Allocated, Alive, Closed, References, Root, Visited, Gray
  <2>4. Types' /\ Lists' /\ Untouched'
    BY <2>1, <2>2, <2>3 DEF Types, Lists, Untouched, HoldersOf
  <2>5. Colours' /\ Frames' /\ Passed'
    BY <2>1, <2>2, <2>3 DEF Colours, Frames, Passed
  <2>6. \A x : /\ Pending(x)' <=> Pending(x)
               /\ \A r : ToFollow(x, r)' <=> ToFollow(x, r)
    BY <2>1, <2>3 DEF Pending, ToFollow
  <2>7. Traced'
    BY <2>1, <2>2, <2>3, <2>6 DEF Traced, TracedStrong, TracedWeak
  <2>8. Swept' /\ HoldersKnown'
    BY <2>1, <2>2, <2>3 DEF Swept, HoldersKnown
  <2> QED BY <2>4, <2>5, <2>7, <2>8 DEF IInv
<1>2. CASE Next
  BY <1>2, MarkGood, SplitGood, MarkRootGood, EndRootsGood, PassVisitedGood, PassWhiteGood,
     EndPassGood, FreeObjectGood, EndSweepGood DEF Next
<1> QED BY <1>1, <1>2

LEMMA Invariance == Spec => []IInv
<1>1. Init => IInv
  BY InitGood
<1>2. IInv /\ [Next]_vars => IInv'
  BY NextGood
<1> QED BY <1>1, <1>2, PTL DEF Spec
-----------------------------------------------------------------------------
(* The collector's properties.                                              *)

\* When the sweep of ecma_gc_run begins, and from then on, the black list is
\* exactly what is alive, for every heap, recursion limit and order in which
\* references are followed: nothing reachable is freed, nothing else is kept.
THEOREM KeepsAlive == Spec => []KeepsExactlyAlive
<1>1. IInv => KeepsExactlyAlive
  BY DEF IInv, Swept, KeepsExactlyAlive
<1> QED BY <1>1, Invariance, PTL

\* The weak containers and the WEAK_REFS of their keys agree at every step of
\* the collection, and when it is over no survivor's entry leads to an object
\* ecma_gc_free_object has freed.
THEOREM WeakLinks == Spec => []WeakLinksAgree
<1>1. IInv => WeakLinksAgree
  <2> SUFFICES ASSUME IInv PROVE WeakLinksAgree
    OBVIOUS
  <2>1. HoldersKnown /\ Swept /\ heap \in Heaps
    BY DEF IInv, Types
  <2>2. ASSUME pc = "done", NEW h \in Allocated
        PROVE  DOMAIN entries[h] \cup Range(entries[h]) \subseteq Allocated \cup {NoObject}
    <3>1. /\ Alive = ToSet(black) /\ white = <<>>
          /\ \A k \in DOMAIN entries[h] :
               /\ k \in Allocated
               /\ k \in DOMAIN heap.entries[h] /\ entries[h][k] = heap.entries[h][k]
      BY <2>1, <2>2 DEF Swept
    <3>2. Allocated = Alive
      BY <3>1 DEF Allocated, ToSet
    <3>3. Closed(Alive)
      BY <2>1, AliveLeast
    <3>4. \A k \in DOMAIN entries[h] : entries[h][k] \in Alive \cup {NoObject}
      BY <2>2, <3>1, <3>2, <3>3 DEF Closed
    <3> QED BY <3>1, <3>2, <3>4 DEF Range
  <2> QED BY <2>1, <2>2 DEF HoldersKnown, WeakLinksAgree
<1> QED BY <1>1, Invariance, PTL

\* A survivor has the reference count it had before the collection, and is on
\* the list of objects once.
THEOREM CountsBack == Spec => []CountsRestored
<1>1. IInv => CountsRestored
  <2> SUFFICES ASSUME IInv, pc = "done" PROVE CountsRestored
    BY DEF CountsRestored
  <2>1. /\ white = <<>> /\ black \in Seq(Objects) /\ Once(black) /\ heap \in Heaps
        /\ \A o \in Objects : Root(o) => refs[o] = heap.refs[o]
        /\ \A o \in ToSet(black) : ~ Root(o) => refs[o] = 0
    BY DEF IInv, Swept, Types, Lists, Colours
  <2>2. Allocated = ToSet(black) /\ ToSet(black) \subseteq Objects
    BY <2>1, Elements DEF Allocated, ToSet
  <2>3. \A o \in Objects : heap.refs[o] \in Nat
    BY <2>1, HeapType
  <2>4. \A o \in Allocated : refs[o] = heap.refs[o]
    BY <2>1, <2>2, <2>3 DEF Root
  <2>5. Len(black) = Cardinality(ToSet(black))
    BY <2>1, OnceCounts
  <2> QED BY <2>4, <2>5 DEF CountsRestored
<1> QED BY <1>1, Invariance, PTL
=============================================================================
