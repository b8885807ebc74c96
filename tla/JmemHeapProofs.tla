--------------------------- MODULE JmemHeapProofs ---------------------------
(***************************************************************************)
(* Proofs about JmemHeap, for every size of the area, alignment, limit and *)
(* set of requests: the free list and the blocks partition the heap, what  *)
(* an owner wrote stays, the accounts agree, and a request fails only when *)
(* no room is left.                                                        *)
(***************************************************************************)
EXTENDS JmemHeap, FiniteSetTheorems, WellFoundedInduction, TLAPS

(* Multiples of the alignment.                                             *)

Multiple(x) == x \in Int /\ x % Alignment = 0

LEMMA ConstantTypes ==
  /\ HeapSize \in Nat \ {0} /\ Alignment \in Nat \ {0} /\ GCLimit \in Nat \ {0}
  /\ GCLimit >= Alignment
  /\ First \in Int /\ First = -Alignment /\ First < 0
  /\ EndOfList \in Nat /\ EndOfList = HeapSize + Alignment /\ EndOfList > HeapSize
BY HeapAssumption DEF HeapAssumption, First, EndOfList

LEMMA MultipleIs ==
  ASSUME NEW x \in Int
  PROVE  Multiple(x) <=> \E k \in Int : x = Alignment * k
<1>1. Alignment \in Nat \ {0}
  BY ConstantTypes
<1>2. x = (Alignment * (x \div Alignment)) + (x % Alignment) /\ x \div Alignment \in Int
  BY <1>1
<1>3. \A k \in Int : (Alignment * k) % Alignment = 0
  BY <1>1
<1> QED BY <1>1, <1>2, <1>3 DEF Multiple

\* Multiples are closed under sums and differences, and are an alignment apart.
LEMMA Multiples ==
  ASSUME NEW x, NEW y, Multiple(x), Multiple(y)
  PROVE  /\ x \in Int /\ y \in Int
         /\ Multiple(x + y) /\ Multiple(x - y)
         /\ x < y => x + Alignment <= y
<1>1. Alignment \in Nat \ {0} /\ x \in Int /\ y \in Int
  BY ConstantTypes DEF Multiple
<1>2. PICK j \in Int : x = Alignment * j
  BY <1>1, MultipleIs
<1>3. PICK k \in Int : y = Alignment * k
  BY <1>1, MultipleIs
<1>4. /\ x + y = Alignment * (j + k) /\ x - y = Alignment * (j - k)
      /\ j + k \in Int /\ j - k \in Int
  BY <1>1, <1>2, <1>3
<1>5. Multiple(x + y) /\ Multiple(x - y)
  <2>1. x + y \in Int /\ x - y \in Int
    BY <1>1
  <2>2. (\E i \in Int : x + y = Alignment * i) /\ (\E i \in Int : x - y = Alignment * i)
    BY <1>4
  <2>3. Multiple(x + y)
    BY <2>1, <2>2, MultipleIs, Zenon
  <2>4. Multiple(x - y)
    BY <2>1, <2>2, MultipleIs, Zenon
  <2> QED BY <2>3, <2>4
<1>6. x < y => x + Alignment <= y
  BY <1>1, <1>2, <1>3
<1> QED BY <1>1, <1>5, <1>6

LEMMA SomeMultiples ==
  Multiple(0) /\ Multiple(Alignment) /\ Multiple(First) /\ Multiple(HeapSize)
  /\ HeapSize >= Alignment
<1>1. Alignment \in Nat \ {0} /\ 0 = Alignment * 0 /\ Alignment = Alignment * 1
      /\ First \in Int /\ First = Alignment * (-1)
  BY ConstantTypes
<1>2. Multiple(0) /\ Multiple(Alignment) /\ Multiple(First)
  BY <1>1, MultipleIs
<1>3. Multiple(HeapSize)
  BY HeapAssumption, ConstantTypes DEF HeapAssumption, Multiple
<1>4. 0 < HeapSize => 0 + Alignment <= HeapSize
  BY <1>2, <1>3, Multiples, Zenon
<1> QED BY <1>2, <1>3, <1>4, ConstantTypes

LEMMA WordIs ==
  ASSUME NEW w
  PROVE  w \in Words <=> Multiple(w) /\ 0 <= w /\ w < HeapSize
BY ConstantTypes DEF Words, Multiple

\* Sizes are rounded up.
LEMMA AlignedIs ==
  ASSUME NEW n \in Nat \ {0}
  PROVE  /\ Aligned(n) \in Nat /\ Multiple(Aligned(n))
         /\ Aligned(n) >= n /\ Aligned(n) >= Alignment
         /\ Multiple(n) => Aligned(n) = n
<1>1. Alignment \in Nat \ {0}
  BY ConstantTypes
<1> DEFINE q == (n + Alignment - 1) \div Alignment
<1>2. q \in Int /\ Alignment * q <= n + Alignment - 1
      /\ n + Alignment - 1 < Alignment * q + Alignment
  BY <1>1
<1>3. Aligned(n) = Alignment * q
  BY <1>1, <1>2 DEF Aligned
<1> HIDE DEF q
<1>4. Aligned(n) \in Nat /\ Aligned(n) >= n
  BY <1>1, <1>2, <1>3
<1>5. Multiple(Aligned(n))
  BY <1>2, <1>3, <1>4, MultipleIs
<1>6. Aligned(n) >= Alignment
  <2>1. 0 < Aligned(n) => 0 + Alignment <= Aligned(n)
    BY <1>5, SomeMultiples, Multiples, Zenon
  <2> QED BY <1>1, <1>4, <2>1
<1>7. ASSUME Multiple(n) PROVE Aligned(n) = n
  <2>1. n < Aligned(n) => n + Alignment <= Aligned(n)
    BY <1>5, <1>7, Multiples, Zenon
  <2>2. ~ (n < Aligned(n))
    BY <1>1, <1>2, <1>3, <1>4, <2>1
  <2> QED BY <1>4, <2>2
<1> QED BY <1>4, <1>5, <1>6, <1>7
-----------------------------------------------------------------------------
(* The area: the free list in it and the bytes of its regions.             *)

Headers  == [size : Nat, next : Nat]
Contents == [owner : Owners \cup {Nobody}, offset : Int]
Memories == [Words \cup {First} -> Headers \cup Contents \cup {Junk}]

\* The words with a header, and with the head of the list
Heads(m) == {w \in Words : m[w] \in Headers}
Nodes(m) == Heads(m) \cup {First}

\* What comes after a node of the list
Linked(m, p) ==
  /\ m[p] \in Headers /\ Multiple(m[p].size) /\ p + m[p].size <= HeapSize
  /\ m[p].next \in Heads(m) \cup {EndOfList}
  /\ p + m[p].size < m[p].next
  /\ \A r \in Heads(m) : r <= p \/ m[p].next <= r

FreeList(m) ==
  /\ m \in Memories
  /\ m[First].size = 0
  /\ \A p \in Nodes(m) : Linked(m, p)
  /\ \A r \in Heads(m) : m[r].size # 0

FreeBytes(m) == {b \in 0 .. HeapSize - 1 : \E r \in Heads(m) : r <= b /\ b < r + m[r].size}

LEMMA ListedIs ==
  ASSUME NEW h
  PROVE  Regions(h) = Heads(h.mem) /\ Listed(h) = Nodes(h.mem)
BY DEF Regions, Heads, Listed, Nodes, Headers

LEMMA NotHeaders ==
  /\ Junk \notin Headers
  /\ \A o, d : Content(o, d) \notin Headers
  /\ \A s, n : Header(s, n) \in Headers <=> s \in Nat /\ n \in Nat
  /\ \A s, n : Header(s, n).size = s /\ Header(s, n).next = n
<1>1. Junk \notin Headers
  BY DEF Junk, Headers
<1>2. \A o, d : Content(o, d) \notin Headers
  BY DEF Content, Headers
<1>3. \A s, n : Header(s, n) \in Headers <=> s \in Nat /\ n \in Nat
  BY DEF Header, Headers
<1>4. \A s, n : Header(s, n).size = s /\ Header(s, n).next = n
  BY DEF Header
<1> QED BY <1>1, <1>2, <1>3, <1>4

\* A node of the list and its successor.
LEMMA NodeFacts ==
  ASSUME NEW m, FreeList(m), NEW p \in Nodes(m)
  PROVE  /\ Multiple(p) /\ p \in Words \cup {First} /\ First <= p /\ p < HeapSize
         /\ m[p] \in Headers /\ m[p].size \in Nat /\ Multiple(m[p].size) /\ m[p].next \in Nat
         /\ p # First => p \in Words /\ p \in Heads(m) /\ Alignment <= m[p].size
         /\ p + m[p].size <= HeapSize /\ p + m[p].size < m[p].next /\ p < m[p].next
         /\ m[p].next # EndOfList => m[p].next \in Heads(m)
         /\ \A r \in Heads(m) : r <= p \/ m[p].next <= r
<1>1. Linked(m, p)
  BY DEF FreeList
<1>2. m[p] \in Headers /\ m[p].size \in Nat /\ m[p].next \in Nat
  BY <1>1 DEF Linked, Headers
<1>3. p \in Words \cup {First} /\ Multiple(p) /\ First <= p /\ p < HeapSize /\ p \in Int
  BY WordIs, SomeMultiples, ConstantTypes DEF Nodes, Heads, Multiple
<1>4. ASSUME p # First
      PROVE  p \in Words /\ p \in Heads(m) /\ Alignment <= m[p].size
  <2>1. p \in Words /\ p \in Heads(m) /\ m[p].size # 0
    BY <1>4 DEF Nodes, Heads, FreeList
  <2>2. 0 < m[p].size => 0 + Alignment <= m[p].size
    BY <1>1, SomeMultiples, Multiples, Zenon DEF Linked
  <2> QED BY <1>2, <2>1, <2>2, ConstantTypes
<1> QED BY <1>1, <1>2, <1>3, <1>4 DEF Linked

\* A free byte is in one region.
LEMMA FreeByteIs ==
  ASSUME NEW m, FreeList(m), NEW r \in Heads(m), NEW b \in Int,
         r <= b, b < r + m[r].size
  PROVE  /\ b \in FreeBytes(m)
         /\ \A q \in Heads(m) : q <= b /\ b < q + m[q].size => q = r
<1>1. r \in Nodes(m) /\ r \in Words /\ r # First
  BY WordIs, ConstantTypes DEF Nodes, Heads
<1>2. 0 <= r /\ r \in Int /\ r + m[r].size <= HeapSize /\ m[r].size \in Nat
  BY <1>1, NodeFacts, WordIs DEF Multiple
<1>3. b \in FreeBytes(m)
  BY <1>2, ConstantTypes DEF FreeBytes
<1>4. ASSUME NEW q \in Heads(m), q <= b, b < q + m[q].size PROVE q = r
  <2>1. q \in Nodes(m) /\ q \in Int /\ m[q].size \in Nat
    BY NodeFacts DEF Nodes, Multiple
  <2>2. /\ q <= r \/ m[r].next <= q
        /\ r <= q \/ m[q].next <= r
        /\ r + m[r].size < m[r].next /\ m[r].next \in Nat
        /\ q + m[q].size < m[q].next /\ m[q].next \in Nat
    BY <1>1, <2>1, NodeFacts
  <2> QED BY <1>2, <1>4, <2>1, <2>2
<1> QED BY <1>3, <1>4

HeapTypes == [mem : Memories, skip : Int, allocated : Int, limit : Int]

\* Memories with the same headers have the same list.
LEMMA SameList ==
  ASSUME NEW m, FreeList(m), NEW l, l \in Memories, Heads(l) = Heads(m),
         \A p \in Nodes(m) : l[p] = m[p]
  PROVE  FreeList(l) /\ FreeBytes(l) = FreeBytes(m) /\ Nodes(l) = Nodes(m)
<1>1. Nodes(l) = Nodes(m) /\ First \in Nodes(m) /\ Heads(m) \subseteq Nodes(m)
  BY DEF Nodes
<1>2. \A p \in Nodes(l) : Linked(l, p)
  BY <1>1 DEF FreeList, Linked
<1>3. FreeList(l)
  BY <1>1, <1>2 DEF FreeList
<1>4. FreeBytes(l) = FreeBytes(m)
  BY <1>1 DEF FreeBytes
<1> QED BY <1>1, <1>3, <1>4

\* The heap f is h without some bytes that were free ...
HandedOut(f, h, at, n, prev) ==
  /\ f \in HeapTypes /\ f.skip = h.skip /\ f.allocated = h.allocated /\ f.limit = h.limit
  /\ FreeList(f.mem) /\ prev \in Nodes(f.mem)
  /\ f.mem[prev].next \in Heads(f.mem) \cup {EndOfList}
  /\ at \in Heads(h.mem) /\ at .. (at + n - 1) \subseteq FreeBytes(h.mem)
  /\ Heads(f.mem) = IF h.mem[at].size > n THEN (Heads(h.mem) \ {at}) \cup {at + n}
                                          ELSE Heads(h.mem) \ {at}
  /\ FreeBytes(f.mem) = FreeBytes(h.mem) \ (at .. (at + n - 1))
  /\ \A w \in Words : w \notin FreeBytes(h.mem) => f.mem[w] = h.mem[w]

\* ... or with some more of them free.
GivenBack(f, h, at, n, prev) ==
  /\ f \in HeapTypes /\ f.skip = prev /\ f.allocated = h.allocated /\ f.limit = h.limit
  /\ FreeList(f.mem) /\ prev \in Nodes(f.mem)
  /\ FreeBytes(f.mem) = FreeBytes(h.mem) \cup (at .. (at + n - 1))
  /\ \A w \in Words : w \notin FreeBytes(f.mem) => f.mem[w] = h.mem[w]

\* Taking bytes off the front of a region.
LEMMA TakeFrontKeeps ==
  ASSUME NEW h \in HeapTypes, FreeList(h.mem), NEW p \in Nodes(h.mem),
         h.mem[p].next # EndOfList,
         NEW n, Multiple(n), 0 < n, n <= h.mem[h.mem[p].next].size
  PROVE  HandedOut(TakeFront(h, p, n), h, h.mem[p].next, n, p)
<1> DEFINE m == h.mem
           r == m[p].next
           l == TakeFront(h, p, n).mem
           rest == Header(m[r].size - n, m[r].next)
<1>1. /\ r \in Heads(m) /\ r \in Nodes(m) /\ r # First /\ p # r /\ r \in Words /\ r \in Int
      /\ m[r].size \in Nat /\ m[r].next \in Nat /\ m[r] \in Headers /\ n \in Nat
      /\ p \in Words \cup {First} /\ p \in Int /\ m[p] \in Headers /\ p \in Nodes(m)
      /\ m[p].size \in Nat /\ m[p].next = r /\ p < r
  <2>1. r \in Heads(m) /\ p \in Int /\ p \in Words \cup {First} /\ m[p] \in Headers /\ p < r
        /\ m[p].size \in Nat
    BY NodeFacts DEF Multiple
  <2>2. r \in Nodes(m) /\ r \in Words /\ r # First /\ r \in Int
    BY <2>1, WordIs, ConstantTypes DEF Nodes, Heads, Multiple
  <2>3. m[r].size \in Nat /\ m[r].next \in Nat /\ m[r] \in Headers
    BY <2>2, NodeFacts
  <2> QED BY <2>1, <2>2, <2>3 DEF Multiple
<1>2. m \in Memories /\ m \in [Words \cup {First} -> Headers \cup Contents \cup {Junk}]
  BY DEF FreeList, Memories
<1>3. h = [mem |-> h.mem, skip |-> h.skip, allocated |-> h.allocated, limit |-> h.limit]
  BY DEF HeapTypes
<1>4. TakeFront(h, p, n) = [h EXCEPT !.mem = l]
  BY <1>3 DEF TakeFront
<1> DEFINE taken == r .. (r + n - 1)
<1>5. \A b \in taken : b \in FreeBytes(m)
                        /\ \A q \in Heads(m) : q <= b /\ b < q + m[q].size => q = r
  BY <1>1, FreeByteIs
<1>6. \A w \in Words : w \notin FreeBytes(m) => w # p /\ ~ (r <= w /\ w < r + m[r].size)
  <2>1. p \in Words => p \in FreeBytes(m)
    <3>1. p \in Words => p \in Heads(m) /\ Alignment <= m[p].size /\ p < p + m[p].size
      BY <1>1, NodeFacts, WordIs, ConstantTypes
    <3> QED BY <1>1, <3>1, FreeByteIs
  <2>2. \A w \in Words : r <= w /\ w < r + m[r].size => w \in FreeBytes(m)
    BY <1>1, FreeByteIs, WordIs DEF Multiple
  <2> QED BY <2>1, <2>2
<1> DEFINE Goal == /\ FreeList(l) /\ p \in Nodes(l)
                   /\ r \in Heads(m) /\ taken \subseteq FreeBytes(m)
                   /\ Heads(l) = IF m[r].size > n THEN (Heads(m) \ {r}) \cup {r + n}
                                                  ELSE Heads(m) \ {r}
                   /\ l[p].next \in Heads(l) \cup {EndOfList}
                   /\ FreeBytes(l) = FreeBytes(m) \ taken
                   /\ \A w \in Words : w \notin FreeBytes(m) => l[w] = m[w]
<1>7. ASSUME m[r].size > n PROVE Goal
  <2>1. r + n \in Words /\ r + n # r /\ r + n # p /\ r + n # First /\ r + n \in Int
    <3>1. Multiple(r) /\ Multiple(r + n)
      BY <1>1, WordIs, Multiples, Zenon
    <3>2. r + m[r].size <= HeapSize /\ 0 <= r
      BY <1>1, NodeFacts, WordIs
    <3> QED BY <1>1, <1>7, <3>1, <3>2, WordIs, ConstantTypes
  <2>2. rest \in Headers /\ rest.size = m[r].size - n /\ rest.next = m[r].next
    <3>1. PICK s \in Nat, t \in Nat : s = m[r].size - n /\ t = m[r].next
      BY <1>1, <1>7
    <3>2. rest = Header(s, t)
      BY <3>1
    <3> HIDE DEF rest, m, r
    <3> QED BY <3>1, <3>2, NotHeaders
  <2>3. l = [[m EXCEPT ![r] = Junk] EXCEPT ![p].next = r + n, ![r + n] = rest]
    BY <1>3, <1>7 DEF TakeFront
  <2>4. /\ l \in [Words \cup {First} -> Headers \cup Contents \cup {Junk}]
        /\ l[p] = [m[p] EXCEPT !.next = r + n] /\ l[r] = Junk /\ l[r + n] = rest
        /\ \A w \in Words \cup {First} : w # p /\ w # r /\ w # r + n => l[w] = m[w]
    <3>1. [m[p] EXCEPT !.next = r + n] \in Headers
      BY <1>1, WordIs, <2>1 DEF Headers
    <3> HIDE DEF m, l
    <3> QED BY <1>1, <1>2, <2>1, <2>2, <2>3, <3>1
  <2>5. l[p] \in Headers /\ l[p].size = m[p].size /\ l[p].next = r + n
    BY <1>1, <2>1, <2>4, WordIs DEF Headers
  <2> HIDE DEF l, m, rest
  <2>6. Heads(l) = (Heads(m) \ {r}) \cup {r + n}
    BY <1>1, <2>1, <2>2, <2>4, <2>5, NotHeaders DEF Heads
  <2>7. Nodes(l) = (Nodes(m) \ {r}) \cup {r + n} /\ p \in Nodes(l)
    BY <1>1, <2>1, <2>6 DEF Nodes
  <2>8. \A q \in Nodes(m) : q # p /\ q # r => l[q] = m[q]
    <3> SUFFICES ASSUME NEW q \in Nodes(m), q # p, q # r PROVE l[q] = m[q]
      OBVIOUS
    <3>1. q # r + n /\ q \in Words \cup {First}
      <4>1. q \in Int /\ q \in Words \cup {First} /\ (q \in Heads(m) \/ q = First)
        BY NodeFacts DEF m, Multiple, Nodes
      <4>2. q \in Heads(m) => q <= r \/ m[r].next <= q
        BY <1>1, NodeFacts DEF m
      <4>3. r + m[r].size < m[r].next
        BY <1>1, NodeFacts DEF m
      <4> QED BY <1>1, <1>7, <2>1, <4>1, <4>2, <4>3
    <3> QED BY <2>4, <3>1
  <2>9. \A q \in Nodes(l) : Linked(l, q)
    <3> SUFFICES ASSUME NEW q \in Nodes(l) PROVE Linked(l, q)
      OBVIOUS
    <3>1. Linked(m, r) /\ Linked(m, p)
      BY <1>1 DEF FreeList, m
    <3>2. CASE q = p
      <4>1. \A x \in Heads(l) : x <= p \/ r + n <= x
        <5> SUFFICES ASSUME NEW x \in Heads(l), x # r + n PROVE x <= p \/ r + n <= x
          BY <1>1, <2>1
        <5>1. x \in Heads(m) /\ x # r /\ x \in Int
          BY <2>6, WordIs DEF Heads, Multiple
        <5>2. (x <= p \/ r <= x) /\ (x <= r \/ m[r].next <= x) /\ r + m[r].size < m[r].next
          BY <1>1, <3>1, <5>1 DEF Linked
        <5> QED BY <1>1, <1>7, <5>1, <5>2
      <4> QED BY <1>1, <2>1, <2>5, <2>6, <3>1, <3>2, <4>1 DEF Linked
    <3>3. CASE q = r + n
      <4>1. Multiple(m[r].size - n)
        BY <3>1, Multiples, Zenon DEF Linked
      <4>2. \A x \in Heads(l) : x <= r + n \/ m[r].next <= x
        <5> SUFFICES ASSUME NEW x \in Heads(l), x # r + n PROVE x <= r \/ m[r].next <= x
          BY <1>1, <2>1, WordIs DEF Heads, Multiple
        <5> QED BY <2>6, <3>1 DEF Linked
      <4>3. m[r].next \in Heads(l) \cup {EndOfList}
        BY <1>1, <2>6, <3>1 DEF Linked
      <4>4. l[q] \in Headers /\ l[q].size = m[r].size - n /\ l[q].next = m[r].next
        BY <2>2, <2>4, <3>3
      <4>5. r + m[r].size <= HeapSize /\ r + m[r].size < m[r].next
        BY <3>1 DEF Linked
      <4>6. q + l[q].size = r + m[r].size
        BY <1>1, <3>3, <4>4
      <4> QED BY <3>3, <4>1, <4>2, <4>3, <4>4, <4>5, <4>6 DEF Linked
    <3>4. CASE q # p /\ q # r + n
      <4>1. q \in Nodes(m) /\ q # r /\ l[q] = m[q] /\ Linked(m, q)
        BY <2>7, <2>8, <3>4 DEF FreeList, m
      <4>2. q \in Int /\ m[q].next \in Nat /\ m[q].size \in Nat
        BY <4>1, NodeFacts DEF m, Multiple
      <4>3. m[q].next # r
        <5> SUFFICES ASSUME m[q].next = r PROVE FALSE
          OBVIOUS
        <5>1. /\ q < r /\ (p \in Heads(m) => p <= q \/ r <= p)
              /\ (q \in Heads(m) => q <= p \/ r <= q)
          BY <3>1, <4>1, <4>2, NodeFacts DEF Linked, m
        <5>2. q = First \/ q \in Heads(m)
          BY <4>1 DEF Nodes
        <5>3. p = First \/ p \in Heads(m)
          BY DEF Nodes, m
        <5>4. First <= q /\ First <= p
          BY <4>1, NodeFacts DEF m
        <5> QED BY <1>1, <3>4, <4>2, <5>1, <5>2, <5>3, <5>4, ConstantTypes
      <4>4. m[q].next \in Heads(l) \cup {EndOfList}
        BY <2>6, <4>1, <4>3 DEF Linked
      <4>5. r + n <= q \/ m[q].next <= r + n
        <5>1. r <= q \/ m[q].next <= r
          BY <1>1, <4>1 DEF Linked
        <5>2. q \in Heads(m) => q <= r \/ m[r].next <= q
          BY <3>1 DEF Linked
        <5>3. q = First \/ q \in Heads(m)
          BY <4>1 DEF Nodes
        <5>4. r + m[r].size < m[r].next /\ First < 0 /\ 0 <= r
          BY <1>1, <3>1, WordIs, ConstantTypes DEF Linked
        <5> QED BY <1>1, <1>7, <2>1, <4>1, <4>2, <5>1, <5>2, <5>3, <5>4, ConstantTypes
      <4>6. \A x \in Heads(l) : x <= q \/ m[q].next <= x
        <5>1. r + n <= q \/ m[q].next <= r + n
          BY <4>5
        <5> QED BY <2>6, <4>1, <5>1 DEF Linked
      <4> QED BY <4>1, <4>4, <4>6 DEF Linked
    <3> QED BY <3>2, <3>3, <3>4
  <2>10. FreeList(l)
    <3>1. \A x \in Heads(l) : l[x].size # 0
      <4> SUFFICES ASSUME NEW x \in Heads(l), x # r + n PROVE l[x].size # 0
        BY <1>1, <1>7, <2>2, <2>4
      <4>1. x \in Heads(m) /\ x # r /\ m[x].size # 0
        BY <2>6 DEF FreeList, m
      <4> QED BY <2>5, <2>8, <4>1 DEF Nodes
    <3>2. l[First].size = 0
      <4>1. m[First].size = 0 /\ First \in Nodes(m)
        BY DEF FreeList, m, Nodes
      <4> QED BY <1>1, <2>5, <2>8, <4>1
    <3> QED BY <2>4, <2>9, <3>1, <3>2 DEF FreeList, Memories
  <2>11. \A q \in Heads(m) : q # r => q \in Heads(l) /\ l[q].size = m[q].size
    BY <2>5, <2>6, <2>8 DEF Nodes
  <2>12. FreeBytes(l) = FreeBytes(m) \ taken
    <3>1. ASSUME NEW b \in FreeBytes(l) PROVE b \in FreeBytes(m) \ taken
      <4>1. PICK q \in Heads(l) : b \in 0 .. HeapSize - 1 /\ q <= b /\ b < q + l[q].size
        BY DEF FreeBytes
      <4>2. CASE q = r + n
        <5>1. l[q].size = m[r].size - n
          BY <2>2, <2>4, <4>2
        <5>2. b \in Int /\ r + n <= b /\ r <= b /\ b < r + m[r].size
          BY <1>1, <4>1, <4>2, <5>1
        <5>3. b \in FreeBytes(m)
          BY <1>1, <5>2, FreeByteIs DEF m
        <5> QED BY <1>1, <5>2, <5>3
      <4>3. CASE q # r + n
        <5>1. q \in Heads(m) /\ q # r /\ l[q].size = m[q].size
          BY <2>6, <2>11, <4>3
        <5>2. b \in FreeBytes(m)
          BY <4>1, <5>1 DEF FreeBytes
        <5> QED BY <1>5, <4>1, <5>1, <5>2
      <4> QED BY <4>2, <4>3
    <3>2. ASSUME NEW b \in FreeBytes(m), b \notin taken PROVE b \in FreeBytes(l)
      <4>1. PICK q \in Heads(m) : b \in 0 .. HeapSize - 1 /\ q <= b /\ b < q + m[q].size
        BY DEF FreeBytes
      <4>2. CASE q = r
        <5>1. r + n \in Heads(l) /\ r + n <= b /\ b < (r + n) + l[r + n].size
          BY <1>1, <2>1, <2>2, <2>4, <2>6, <3>2, <4>1, <4>2
        <5> QED BY <4>1, <5>1 DEF FreeBytes
      <4>3. CASE q # r
        BY <2>11, <4>1, <4>3 DEF FreeBytes
      <4> QED BY <4>2, <4>3
    <3> QED BY <3>1, <3>2
  <2>13. \A w \in Words : w \notin FreeBytes(m) => l[w] = m[w]
    <3> SUFFICES ASSUME NEW w \in Words, w \notin FreeBytes(m) PROVE l[w] = m[w]
      OBVIOUS
    <3>1. w # p /\ ~ (r <= w /\ w < r + m[r].size)
      BY <1>6
    <3> QED BY <1>1, <1>7, <2>4, <3>1
  <2> QED BY <1>1, <1>4, <1>5, <1>7, <2>5, <2>6, <2>7, <2>10, <2>12, <2>13 DEF l, m
<1>8. ASSUME ~ (m[r].size > n) PROVE Goal
  <2>1. m[r].size = n
    BY <1>1, <1>8 DEF m
  <2>2. l = [[m EXCEPT ![r] = Junk] EXCEPT ![p].next = m[r].next]
    BY <1>3, <1>8 DEF TakeFront
  <2>3. /\ l \in [Words \cup {First} -> Headers \cup Contents \cup {Junk}]
        /\ l[p] = [m[p] EXCEPT !.next = m[r].next] /\ l[r] = Junk
        /\ \A w \in Words \cup {First} : w # p /\ w # r => l[w] = m[w]
    <3>1. [m[p] EXCEPT !.next = m[r].next] \in Headers
      BY <1>1 DEF Headers
    <3> HIDE DEF m, l
    <3> QED BY <1>1, <1>2, <2>2, <3>1
  <2>4. l[p] \in Headers /\ l[p].size = m[p].size /\ l[p].next = m[r].next
    BY <1>1, <2>3 DEF Headers
  <2> HIDE DEF l, m, rest
  <2>5. Heads(l) = Heads(m) \ {r}
    BY <1>1, <2>3, <2>4, NotHeaders DEF Heads
  <2>6. Nodes(l) = Nodes(m) \ {r} /\ p \in Nodes(l)
    BY <1>1, <2>5 DEF Nodes
  <2>7. \A q \in Nodes(m) : q # p /\ q # r => l[q] = m[q]
    BY <1>1, <2>3 DEF Nodes, Heads
  <2>8. \A q \in Nodes(l) : Linked(l, q)
    <3> SUFFICES ASSUME NEW q \in Nodes(l) PROVE Linked(l, q)
      OBVIOUS
    <3>1. Linked(m, r) /\ Linked(m, p)
      BY <1>1 DEF FreeList, m
    <3>2. CASE q = p
      <4>1. \A x \in Heads(l) : x <= p \/ m[r].next <= x
        <5> SUFFICES ASSUME NEW x \in Heads(l) PROVE x <= p \/ m[r].next <= x
          OBVIOUS
        <5>1. x \in Heads(m) /\ x # r /\ x \in Int
          BY <2>5, WordIs DEF Heads, Multiple
        <5>2. (x <= p \/ r <= x) /\ (x <= r \/ m[r].next <= x)
          BY <1>1, <3>1, <5>1 DEF Linked
        <5> QED BY <1>1, <5>1, <5>2
      <4>2. r + m[r].size < m[r].next /\ p + m[p].size < r
        BY <1>1, <3>1 DEF Linked
      <4>3. p + m[p].size < m[r].next
        BY <1>1, <4>2
      <4>4. m[r].next \in Heads(l) \cup {EndOfList}
        BY <1>1, <2>5, <3>1, <4>2 DEF Linked
      <4> QED BY <2>4, <3>1, <3>2, <4>1, <4>3, <4>4 DEF Linked
    <3>3. CASE q # p
      <4>1. q \in Nodes(m) /\ q # r /\ l[q] = m[q] /\ Linked(m, q)
        BY <2>6, <2>7, <3>3 DEF FreeList, m
      <4>2. q \in Int /\ m[q].next \in Nat /\ m[q].size \in Nat
        BY <4>1, NodeFacts DEF m, Multiple
      <4>3. m[q].next # r
        <5> SUFFICES ASSUME m[q].next = r PROVE FALSE
          OBVIOUS
        <5>1. /\ q < r /\ (p \in Heads(m) => p <= q \/ r <= p)
              /\ (q \in Heads(m) => q <= p \/ r <= q)
          BY <3>1, <4>1, <4>2, NodeFacts DEF Linked, m
        <5>2. q = First \/ q \in Heads(m)
          BY <4>1 DEF Nodes
        <5>3. p = First \/ p \in Heads(m)
          BY <1>1 DEF Nodes
        <5>4. First <= q /\ First <= p
          BY <4>1, NodeFacts DEF m
        <5> QED BY <1>1, <3>3, <4>2, <5>1, <5>2, <5>3, <5>4, ConstantTypes
      <4> QED BY <2>5, <4>1, <4>3 DEF Linked
    <3> QED BY <3>2, <3>3
  <2>9. FreeList(l)
    <3>1. \A x \in Heads(l) : l[x].size # 0
      <4> SUFFICES ASSUME NEW x \in Heads(l) PROVE l[x].size # 0
        OBVIOUS
      <4>1. x \in Heads(m) /\ x # r /\ m[x].size # 0
        BY <2>5 DEF FreeList, m
      <4> QED BY <2>4, <2>7, <4>1 DEF Nodes
    <3>2. l[First].size = 0
      <4>1. m[First].size = 0 /\ First \in Nodes(m)
        BY DEF FreeList, m, Nodes
      <4> QED BY <1>1, <2>4, <2>7, <4>1
    <3> QED BY <2>3, <2>8, <3>1, <3>2 DEF FreeList, Memories
  <2>10. \A q \in Heads(m) : q # r => q \in Heads(l) /\ l[q].size = m[q].size
    BY <2>4, <2>5, <2>7 DEF Nodes
  <2>11. FreeBytes(l) = FreeBytes(m) \ taken
    <3>1. ASSUME NEW b \in FreeBytes(l) PROVE b \in FreeBytes(m) \ taken
      <4>1. PICK q \in Heads(l) : b \in 0 .. HeapSize - 1 /\ q <= b /\ b < q + l[q].size
        BY DEF FreeBytes
      <4>2. q \in Heads(m) /\ q # r /\ l[q].size = m[q].size
        BY <2>5, <2>10
      <4>3. b \in FreeBytes(m)
        BY <4>1, <4>2 DEF FreeBytes
      <4> QED BY <1>5, <4>1, <4>2, <4>3
    <3>2. ASSUME NEW b \in FreeBytes(m), b \notin taken PROVE b \in FreeBytes(l)
      <4>1. PICK q \in Heads(m) : b \in 0 .. HeapSize - 1 /\ q <= b /\ b < q + m[q].size
        BY DEF FreeBytes
      <4>2. q # r
        BY <1>1, <2>1, <3>2, <4>1
      <4> QED BY <2>10, <4>1, <4>2 DEF FreeBytes
    <3> QED BY <3>1, <3>2
  <2>12. \A w \in Words : w \notin FreeBytes(m) => l[w] = m[w]
    <3> SUFFICES ASSUME NEW w \in Words, w \notin FreeBytes(m) PROVE l[w] = m[w]
      OBVIOUS
    <3>1. w # p /\ ~ (r <= w /\ w < r + m[r].size)
      BY <1>6
    <3> QED BY <1>1, <2>1, <2>3, <3>1
  <2>13. l[p].next \in Heads(l) \cup {EndOfList}
    BY <2>6, <2>8 DEF Linked
  <2> QED BY <1>1, <1>4, <1>5, <1>8, <2>5, <2>6, <2>9, <2>11, <2>12, <2>13 DEF l, m
<1>9. Goal
  BY <1>7, <1>8
<1>10. TakeFront(h, p, n) \in HeapTypes
  <2>1. l \in Memories
    BY <1>9 DEF FreeList
  <2> HIDE DEF l
  <2> QED BY <1>3, <1>4, <2>1 DEF HeapTypes
<1>11. /\ TakeFront(h, p, n).skip = h.skip /\ TakeFront(h, p, n).allocated = h.allocated
       /\ TakeFront(h, p, n).limit = h.limit
  <2> HIDE DEF l
  <2> QED BY <1>3, <1>4
<1> QED BY <1>9, <1>10, <1>11 DEF HandedOut, l, m

\* Putting bytes back between two regions.
LEMMA InsertBlockKeeps ==
  ASSUME NEW h \in HeapTypes, FreeList(h.mem), NEW prev \in Nodes(h.mem),
         NEW block, Multiple(block), 0 <= block,
         NEW n, Multiple(n), 0 < n, block + n <= HeapSize,
         prev + h.mem[prev].size <= block, block + n <= h.mem[prev].next
  PROVE  GivenBack(InsertBlock(h, block, prev, n), h, block, n, prev)
<1> DEFINE m == h.mem
           next == m[prev].next
           l == InsertBlock(h, block, prev, n).mem
           joinsPrev == prev + m[prev].size = block
           b == IF joinsPrev THEN prev ELSE block
           bSize == IF joinsPrev THEN m[prev].size + n ELSE n
           joinsNext == b + bSize = next
           total == IF joinsNext THEN bSize + m[next].size ELSE bSize
           after == IF joinsNext THEN m[next].next ELSE next
           mem == IF joinsPrev THEN m ELSE [m EXCEPT ![prev].next = block]
<1>1. /\ prev \in Words \cup {First} /\ prev \in Int /\ prev \in Nodes(m) /\ m[prev] \in Headers
      /\ m[prev].size \in Nat /\ m[prev].next = next /\ next \in Nat /\ prev < next
      /\ prev + m[prev].size < next
      /\ next # EndOfList => next \in Heads(m)
      /\ \A r \in Heads(m) : r <= prev \/ next <= r
      /\ prev # First => prev \in Words /\ prev \in Heads(m) /\ Alignment <= m[prev].size
  BY NodeFacts DEF Multiple
<1>2. m \in Memories /\ m \in [Words \cup {First} -> Headers \cup Contents \cup {Junk}]
  BY DEF FreeList, Memories
<1>3. h = [mem |-> h.mem, skip |-> h.skip, allocated |-> h.allocated, limit |-> h.limit]
  BY DEF HeapTypes
<1>4. /\ block \in Words /\ block \in Nat /\ n \in Nat /\ block # First /\ block \notin Heads(m)
      /\ prev # block /\ prev < block /\ block < next
  <2>1. block \in Int /\ n \in Int /\ block < HeapSize /\ block # First /\ block \in Words
    BY WordIs, ConstantTypes DEF Multiple
  <2>2. prev < block
    BY <1>1, <2>1, NodeFacts, ConstantTypes, Multiples, SomeMultiples
  <2>3. block < next
    BY <1>1, <2>1
  <2> QED BY <1>1, <2>1, <2>2, <2>3
<1>5. joinsPrev => prev # First /\ prev \in Words /\ prev \in Heads(m)
  <2>1. m[First].size = 0
    BY DEF FreeList
  <2> QED BY <1>1, <1>4, <2>1, ConstantTypes
<1>6. /\ b \in Words /\ b \in Int /\ bSize \in Nat /\ bSize > 0 /\ b + bSize = block + n
      /\ b <= block /\ Multiple(bSize) /\ prev <= b /\ b < next /\ b # First /\ b # next
  <2>1. Multiple(m[prev].size + n)
    BY NodeFacts, Multiples, Zenon
  <2>2. CASE joinsPrev
    BY <1>1, <1>4, <1>5, <2>1, <2>2
  <2>3. CASE ~ joinsPrev
    BY <1>1, <1>4, <2>3
  <2> QED BY <2>2, <2>3
<1>7. joinsNext => /\ next \in Words /\ next \in Heads(m) /\ next \in Nodes(m) /\ next # prev
                   /\ m[next].size \in Nat /\ m[next].next \in Nat /\ next # First /\ Linked(m, next)
                   /\ Alignment <= m[next].size
  <2> SUFFICES ASSUME joinsNext
               PROVE  /\ next \in Words /\ next \in Heads(m) /\ next \in Nodes(m) /\ next # prev
                      /\ m[next].size \in Nat /\ m[next].next \in Nat /\ next # First
                      /\ Linked(m, next) /\ Alignment <= m[next].size
    OBVIOUS
  <2>1. next # EndOfList
    BY <1>6, ConstantTypes
  <2>2. next \in Heads(m) /\ next \in Nodes(m) /\ next \in Words
    BY <1>1, <2>1 DEF Nodes, Heads
  <2>3. next # First
    BY <2>2, WordIs, ConstantTypes
  <2>4. Linked(m, next)
    BY <2>2 DEF FreeList
  <2> QED BY <1>1, <2>2, <2>3, <2>4, NodeFacts
<1>8. total \in Nat /\ after \in Nat /\ Multiple(total) /\ total >= bSize
  <2>1. ASSUME joinsNext PROVE Multiple(bSize + m[next].size)
    <3>1. Multiple(m[next].size)
      BY <1>7, <2>1 DEF Linked
    <3> QED BY <1>6, <3>1, Multiples, Zenon
  <2>2. CASE joinsNext
    <3>1. total = bSize + m[next].size /\ after = m[next].next
      BY <2>2
    <3> HIDE DEF total, after, bSize, b, next, m
    <3>2. m[next].size \in Nat /\ m[next].next \in Nat
      BY <1>7, <2>2
    <3> QED BY <1>6, <2>1, <2>2, <3>1, <3>2
  <2>3. CASE ~ joinsNext
    <3>1. total = bSize /\ after = next
      BY <2>3
    <3> HIDE DEF total, after, bSize, b, next, m
    <3> QED BY <1>1, <1>6, <3>1
  <2> QED BY <2>2, <2>3
<1>9. /\ InsertBlock(h, block, prev, n) = [h EXCEPT !.mem = l, !.skip = prev]
      /\ l = IF joinsNext
             THEN [mem EXCEPT ![b] = Header(bSize + mem[next].size, mem[next].next),
                              ![next] = Junk]
             ELSE [mem EXCEPT ![b] = Header(bSize, next)]
  BY <1>3 DEF InsertBlock
<1>10. /\ mem \in [Words \cup {First} -> Headers \cup Contents \cup {Junk}]
       /\ mem[prev] \in Headers /\ mem[prev].size = m[prev].size
       /\ mem[prev].next = IF joinsPrev THEN next ELSE block
       /\ \A w \in Words \cup {First} : w # prev => mem[w] = m[w]
  <2>1. [m[prev] EXCEPT !.next = block] \in Headers
    BY <1>1, <1>4 DEF Headers
  <2>2. /\ [m[prev] EXCEPT !.next = block].size = m[prev].size
        /\ [m[prev] EXCEPT !.next = block].next = block
    BY <1>1 DEF Headers
  <2>3. CASE joinsPrev
    BY <1>1, <1>2, <2>3
  <2>4. CASE ~ joinsPrev
    <3>1. mem = [m EXCEPT ![prev] = [m[prev] EXCEPT !.next = block]]
      BY <2>4
    <3> HIDE DEF mem, m
    <3> QED BY <1>1, <1>2, <2>1, <2>2, <2>4, <3>1
  <2> QED BY <2>3, <2>4
<1>11. /\ l \in [Words \cup {First} -> Headers \cup Contents \cup {Junk}]
       /\ l[b] = Header(total, after)
       /\ joinsNext => l[next] = Junk
       /\ ~ joinsPrev => l[prev] \in Headers /\ l[prev].size = m[prev].size /\ l[prev].next = b
       /\ \A w \in Words \cup {First} :
            w # prev /\ w # b /\ (joinsNext => w # next) => l[w] = m[w]
  <2>1. Header(total, after) \in Headers
    BY <1>8, NotHeaders
  <2>2. CASE joinsNext
    <3>1. mem[next] = m[next]
      BY <1>7, <1>10, <2>2
    <3>2. l = [mem EXCEPT ![b] = Header(total, after), ![next] = Junk]
      BY <1>9, <2>2, <3>1
    <3>3. ~ joinsPrev => b = block
      OBVIOUS
    <3> HIDE DEF mem, m, l, b, bSize, next, joinsPrev, total, after
    <3>4. /\ l \in [Words \cup {First} -> Headers \cup Contents \cup {Junk}]
          /\ l[b] = Header(total, after) /\ l[next] = Junk
          /\ \A w \in Words \cup {First} : w # b /\ w # next => l[w] = mem[w]
      BY <1>6, <1>7, <1>10, <2>1, <2>2, <3>2
    <3>5. ~ joinsPrev => prev # b /\ prev # next
      BY <1>4, <1>1, <3>3
    <3> QED BY <1>1, <1>10, <2>2, <3>3, <3>4, <3>5
  <2>3. CASE ~ joinsNext
    <3>1. l = [mem EXCEPT ![b] = Header(total, after)]
      BY <1>9, <2>3
    <3>2. ~ joinsPrev => b = block
      OBVIOUS
    <3> HIDE DEF mem, m, l, b, bSize, next, joinsPrev, total, after
    <3>3. /\ l \in [Words \cup {First} -> Headers \cup Contents \cup {Junk}]
          /\ l[b] = Header(total, after)
          /\ \A w \in Words \cup {First} : w # b => l[w] = mem[w]
      BY <1>6, <1>10, <2>1, <3>1
    <3> QED BY <1>1, <1>4, <1>10, <2>3, <3>2, <3>3
  <2> QED BY <2>2, <2>3
<1>12. l[b] \in Headers /\ l[b].size = total /\ l[b].next = after
  <2> HIDE DEF l, b, total, after
  <2>1. /\ Header(total, after) \in Headers
        /\ Header(total, after).size = total /\ Header(total, after).next = after
    BY <1>8, NotHeaders
  <2> QED BY <1>11, <2>1
<1>13. joinsPrev => prev = b
  OBVIOUS
<1>14. ~ joinsPrev => b = block /\ prev # b /\ prev + m[prev].size < b
  BY <1>1, <1>4
<1>15. joinsNext => after = m[next].next /\ total = bSize + m[next].size /\ b + bSize = next
  OBVIOUS
<1>16. ~ joinsNext => after = next /\ total = bSize /\ b + bSize < next
  BY <1>1, <1>4, <1>6
<1> HIDE DEF l, b, bSize, total, after, joinsPrev, joinsNext, mem, next
<1>17. Heads(l) = (Heads(m) \ (IF joinsNext THEN {next} ELSE {})) \cup {b}
  <2>1. \A w \in Words : w # prev /\ w # b /\ (joinsNext => w # next) =>
                           (w \in Heads(l) <=> w \in Heads(m))
    BY <1>11 DEF Heads
  <2>2. b \in Heads(l) /\ (joinsNext => next \notin Heads(l))
    BY <1>6, <1>11, <1>12, NotHeaders DEF Heads
  <2>3. prev # b /\ prev \in Words => prev \in Heads(l) /\ prev \in Heads(m)
    BY <1>1, <1>11, <1>13 DEF Heads
  <2>4. First \notin Words /\ Heads(l) \subseteq Words /\ Heads(m) \subseteq Words
    BY WordIs, ConstantTypes DEF Heads
  <2>5. prev # next
    BY <1>1
  <2> QED BY <1>1, <1>6, <2>1, <2>2, <2>3, <2>4, <2>5
<1>18. \A q \in Nodes(m) : q # prev /\ q # b /\ (joinsNext => q # next) => l[q] = m[q]
  BY <1>11 DEF Nodes, Heads
<1>19. /\ Nodes(l) = (Nodes(m) \ (IF joinsNext THEN {next} ELSE {})) \cup {b}
       /\ prev \in Nodes(l)
  BY <1>1, <1>7, <1>13, <1>17 DEF Nodes
<1>20. Linked(m, prev)
  BY <1>1 DEF FreeList, m
<1>21. Linked(l, b)
  <2>1. Multiple(total) /\ b + total <= HeapSize /\ b + total < after
    <3>1. CASE joinsNext
      BY <1>6, <1>7, <1>8, <1>15, <3>1 DEF Linked
    <3>2. CASE ~ joinsNext
      BY <1>6, <1>8, <1>16, <3>2
    <3> QED BY <3>1, <3>2
  <2>2. after \in Heads(l) \cup {EndOfList}
    <3>1. CASE joinsNext
      <4>1. after \in Heads(m) \cup {EndOfList} /\ after # next
        BY <1>7, <1>15, <3>1 DEF Linked
      <4> QED BY <1>17, <4>1
    <3>2. CASE ~ joinsNext
      BY <1>1, <1>16, <1>17, <3>2
    <3> QED BY <3>1, <3>2
  <2>3. \A x \in Heads(l) : x <= b \/ after <= x
    <3> SUFFICES ASSUME NEW x \in Heads(l), x # b PROVE x <= b \/ after <= x
      BY <1>6
    <3>1. x \in Heads(m) /\ (joinsNext => x # next) /\ x \in Int
      BY <1>17, WordIs DEF Heads, Multiple
    <3>2. x <= prev \/ next <= x
      BY <1>1, <3>1
    <3>3. joinsNext => x <= next \/ after <= x
      BY <1>7, <1>15, <3>1 DEF Linked
    <3>4. CASE joinsNext
      BY <1>1, <1>6, <3>1, <3>2, <3>3, <3>4
    <3>5. CASE ~ joinsNext
      BY <1>1, <1>6, <1>16, <3>1, <3>2, <3>5
    <3> QED BY <3>4, <3>5
  <2> QED BY <1>12, <2>1, <2>2, <2>3 DEF Linked
<1>22. ~ joinsPrev => Linked(l, prev)
  <2> SUFFICES ASSUME ~ joinsPrev PROVE Linked(l, prev)
    OBVIOUS
  <2>1. \A x \in Heads(l) : x <= prev \/ b <= x
    <3> SUFFICES ASSUME NEW x \in Heads(l), x # b PROVE x <= prev \/ b <= x
      BY <1>6
    <3>1. x \in Heads(m) /\ x \in Int /\ (x <= prev \/ next <= x)
      BY <1>1, <1>17, WordIs DEF Heads, Multiple
    <3> QED BY <1>1, <1>6, <3>1
  <2> QED BY <1>11, <1>14, <1>17, <1>20, <2>1 DEF Linked
<1>23. ASSUME NEW q \in Nodes(l), q # prev, q # b PROVE Linked(l, q)
  <2>1. q \in Nodes(m) /\ (joinsNext => q # next) /\ l[q] = m[q] /\ Linked(m, q)
    BY <1>18, <1>19, <1>23 DEF FreeList, m
  <2>2. /\ q \in Int /\ m[q].next \in Nat /\ m[q].size \in Nat /\ q < m[q].next
        /\ First <= q /\ First <= prev
    BY <1>1, <2>1, NodeFacts DEF m, Multiple
  <2>3. (q = First \/ q \in Heads(m)) /\ (prev = First \/ prev \in Heads(m))
    BY <1>1, <2>1 DEF Nodes
  <2>4. /\ prev \in Heads(m) => prev <= q \/ m[q].next <= prev
        /\ q \in Heads(m) => q <= prev \/ next <= q
    BY <1>1, <2>1 DEF Linked
  <2>5. q <= prev \/ next <= q
    BY <1>1, <2>2, <2>3, <2>4, ConstantTypes
  <2>6. q < prev => m[q].next <= prev
    BY <1>1, <2>2, <2>3, <2>4, ConstantTypes
  <2>7. m[q].next # next
    BY <1>1, <1>23, <2>2, <2>5, <2>6
  <2>8. m[q].next \in Heads(l) \cup {EndOfList}
    BY <1>17, <2>1, <2>7 DEF Linked
  <2>9. b <= q \/ m[q].next <= b
    BY <1>1, <1>6, <1>23, <2>2, <2>5, <2>6
  <2>10. \A x \in Heads(l) : x <= q \/ m[q].next <= x
    BY <1>17, <2>1, <2>9 DEF Linked
  <2> QED BY <2>1, <2>8, <2>10 DEF Linked
<1>24. FreeList(l)
  <2>1. \A q \in Nodes(l) : Linked(l, q)
    <3> SUFFICES ASSUME NEW q \in Nodes(l) PROVE Linked(l, q)
      OBVIOUS
    <3>1. CASE q = b
      BY <1>21, <3>1
    <3>2. CASE q = prev /\ q # b
      BY <1>13, <1>22, <3>2
    <3>3. CASE q # prev /\ q # b
      BY <1>23, <3>3
    <3> QED BY <3>1, <3>2, <3>3
  <2>2. \A x \in Heads(l) : l[x].size # 0
    <3> SUFFICES ASSUME NEW x \in Heads(l) PROVE l[x].size # 0
      OBVIOUS
    <3>1. CASE x = b
      BY <1>6, <1>8, <1>12, <3>1
    <3>2. CASE x # b
      <4>1. x \in Heads(m) /\ x \in Nodes(m) /\ m[x].size # 0 /\ (joinsNext => x # next)
        BY <1>17, <3>2 DEF FreeList, m, Nodes
      <4> QED BY <1>11, <1>13, <1>18, <3>2, <4>1
    <3> QED BY <3>1, <3>2
  <2>3. l[First].size = 0
    <3>1. First \in Nodes(m) /\ m[First].size = 0
      BY DEF FreeList, m, Nodes
    <3>2. joinsNext => First # next
      BY <1>7
    <3> QED BY <1>6, <1>11, <1>13, <1>18, <3>1, <3>2
  <2> QED BY <1>11, <2>1, <2>2, <2>3 DEF FreeList, Memories
<1> DEFINE given == block .. (block + n - 1)
<1>25. \A q \in Heads(m) : q # b /\ (joinsNext => q # next)
                             => q \in Heads(l) /\ l[q].size = m[q].size
  <2> SUFFICES ASSUME NEW q \in Heads(m), q # b, joinsNext => q # next
               PROVE  q \in Heads(l) /\ l[q].size = m[q].size
    OBVIOUS
  <2>1. q \in Nodes(m) /\ q \in Heads(l)
    BY <1>17 DEF Nodes
  <2> QED BY <1>11, <1>13, <1>18, <2>1
<1>26. /\ joinsPrev => b = prev /\ prev \in Heads(m) /\ block = b + m[b].size
       /\ ~ joinsPrev => b = block /\ b \notin Heads(m)
  BY <1>4, <1>5 DEF b, joinsPrev, m
<1>27. FreeBytes(l) = FreeBytes(m) \cup given
  <2>1. ASSUME NEW x \in FreeBytes(l) PROVE x \in FreeBytes(m) \cup given
    <3>1. PICK q \in Heads(l) : x \in 0 .. HeapSize - 1 /\ q <= x /\ x < q + l[q].size
      BY DEF FreeBytes
    <3>2. CASE q # b
      <4>1. q \in Heads(m) /\ l[q].size = m[q].size
        BY <1>17, <1>25, <3>2
      <4> QED BY <3>1, <4>1 DEF FreeBytes
    <3>3. CASE q = b
      <4>1. b <= x /\ x < b + total /\ x \in Int
        BY <1>12, <3>1, <3>3
      <4>2. CASE x < block
        <5>1. joinsPrev /\ b \in Heads(m) /\ x < b + m[b].size
          BY <1>26, <4>1, <4>2, <1>4
        <5> QED BY <3>1, <4>1, <5>1 DEF FreeBytes
      <4>3. CASE block <= x /\ x < block + n
        BY <1>4, <4>1, <4>3
      <4>4. CASE block + n <= x
        <5>1. joinsNext /\ next <= x /\ x < next + m[next].size
          BY <1>4, <1>6, <1>7, <1>15, <1>16, <4>1, <4>4
        <5> QED BY <1>7, <3>1, <5>1 DEF FreeBytes
      <4> QED BY <1>4, <4>1, <4>2, <4>3, <4>4
    <3> QED BY <3>2, <3>3
  <2>2. ASSUME NEW x \in given PROVE x \in FreeBytes(l)
    <3>1. x \in Int /\ b <= x /\ x < b + total
      BY <1>4, <1>6, <1>8, <2>2
    <3>2. b \in Heads(l)
      BY <1>17
    <3> QED BY <1>12, <1>24, <3>1, <3>2, FreeByteIs
  <2>3. ASSUME NEW x \in FreeBytes(m) PROVE x \in FreeBytes(l)
    <3>1. PICK q \in Heads(m) : x \in 0 .. HeapSize - 1 /\ q <= x /\ x < q + m[q].size
      BY DEF FreeBytes
    <3>2. CASE q # b /\ (joinsNext => q # next)
      BY <1>25, <3>1, <3>2 DEF FreeBytes
    <3>3. CASE q = b \/ (joinsNext /\ q = next)
      <4>1. b <= x /\ x < b + total
        <5>1. CASE q = b
          <6>1. joinsPrev /\ m[b].size \in Nat /\ b + m[b].size = block
            BY <1>1, <1>26, <3>1, <5>1
          <6> QED BY <1>4, <1>6, <1>8, <3>1, <5>1, <6>1
        <5>2. CASE joinsNext /\ q = next
          BY <1>1, <1>6, <1>7, <1>15, <3>1, <5>2
        <5> QED BY <3>3, <5>1, <5>2
      <4> QED BY <1>12, <1>17, <3>1, <4>1 DEF FreeBytes
    <3> QED BY <3>2, <3>3
  <2> QED BY <2>1, <2>2, <2>3
<1>28. \A w \in Words : w \notin FreeBytes(l) => l[w] = m[w]
  <2> SUFFICES ASSUME NEW w \in Words, w \notin FreeBytes(l) PROVE l[w] = m[w]
    OBVIOUS
  <2>1. w \in Int
    BY WordIs DEF Multiple
  <2>2. \A r \in Heads(m) : w # r
    <3> SUFFICES ASSUME NEW r \in Heads(m), w = r PROVE FALSE
      OBVIOUS
    <3>1. r \in Nodes(m) /\ r # First
      BY WordIs, ConstantTypes DEF Nodes, Heads
    <3>2. r < r + m[r].size
      BY <2>1, <3>1, NodeFacts, ConstantTypes DEF m
    <3>3. w \in FreeBytes(m)
      BY <2>1, <3>2, FreeByteIs DEF m
    <3> QED BY <1>27, <3>3
  <2>3. w # b
    <3>1. b \in Heads(l) /\ b < b + l[b].size
      BY <1>6, <1>8, <1>12, <1>17
    <3> QED BY <1>6, <1>24, <2>1, <3>1, FreeByteIs
  <2>4. w # prev
    BY <1>1, <2>2, WordIs, ConstantTypes
  <2>5. joinsNext => w # next
    BY <1>7, <2>2
  <2> QED BY <1>11, <2>3, <2>4, <2>5
<1>29. InsertBlock(h, block, prev, n) = [h EXCEPT !.mem = l, !.skip = prev]
  BY <1>9
<1>30. l \in Memories
  BY <1>24 DEF FreeList
<1> DEFINE f == InsertBlock(h, block, prev, n)
<1>31. f \in HeapTypes /\ f.skip = prev /\ f.allocated = h.allocated /\ f.limit = h.limit
  <2> HIDE DEF l
  <2> QED BY <1>1, <1>3, <1>29, <1>30 DEF HeapTypes
<1> QED BY <1>19, <1>24, <1>27, <1>28, <1>31 DEF GivenBack, l, m
-----------------------------------------------------------------------------
(* The two walks along the list.                                           *)

\* Every nonempty set of natural numbers has a least element.
LEMMA LeastNat ==
  ASSUME NEW T, T \subseteq Nat, T # {}
  PROVE  \E x \in T : \A y \in T : x <= y
<1> DEFINE R == {ss \in Nat \X Nat : ss[1] < ss[2]}
<1>1. IsWellFoundedOn(R, Nat)
  BY NatLessThanWellFounded DEF OpToRel
<1>2. \E x \in T : \A y \in T : ~ (<<y, x>> \in R)
  <2> HIDE DEF R
  <2> QED BY <1>1, WFMin
<1>3. PICK x \in T : \A y \in T : ~ (<<y, x>> \in R)
  BY <1>2
<1>4. \A y \in T : ~ (y < x)
  BY <1>3
<1> QED BY <1>4

\* The node of the list before an address, wherever the skip pointer is.
LEMMA FindPrevIs ==
  ASSUME NEW h, FreeList(h.mem), h.skip \in Nodes(h.mem) \cup {EndOfList},
         NEW block \in Words
  PROVE  /\ FindPrev(h, block) \in Nodes(h.mem)
         /\ FindPrev(h, block) < block /\ block <= h.mem[FindPrev(h, block)].next
<1> DEFINE m == h.mem
           D == Listed(h)
           Step(f) == [p \in D |-> IF m[p].next < block THEN f[m[p].next] ELSE p]
           walk == CHOOSE f : f = Step(f)
           start == IF block > h.skip THEN h.skip ELSE First
           Found(q) == q \in D /\ q < block /\ block <= m[q].next
           goal == CHOOSE q : Found(q)
           g == [p \in D |-> IF p < block THEN goal ELSE p]
<1>1. FindPrev(h, block) = walk[start]
  BY DEF FindPrev
<1>0. D = Nodes(m)
  BY ListedIs
<1>2. block \in Int /\ block < EndOfList /\ First < block
  BY WordIs, ConstantTypes DEF Multiple
<1>3. \A p \in D : /\ p \in Int /\ m[p].next \in Nat /\ p < m[p].next
                   /\ m[p].next < block => m[p].next \in D
  BY <1>0, <1>2, NodeFacts, ConstantTypes DEF Nodes, Multiple
<1>4. ASSUME NEW p \in D, NEW q \in D, Found(p), Found(q), p < q PROVE FALSE
  <2>1. q # First
    BY <1>0, <1>3, <1>4, NodeFacts, ConstantTypes
  <2>2. q \in Heads(m)
    BY <1>0, <2>1 DEF Nodes
  <2>3. q <= p \/ m[p].next <= q
    BY <1>0, <2>2, NodeFacts
  <2> QED BY <1>2, <1>3, <1>4, <2>3
<1>5. g = Step(g)
  <2> HIDE DEF goal, D, m
  <2> SUFFICES ASSUME NEW p \in D
               PROVE  g[p] = IF m[p].next < block THEN g[m[p].next] ELSE p
    OBVIOUS
  <2>1. CASE m[p].next < block
    BY <1>2, <1>3, <2>1
  <2>2. CASE ~ (m[p].next < block) /\ p < block
    <3>1. Found(p)
      BY <1>2, <1>3, <2>2
    <3>2. Found(goal)
      BY <3>1 DEF goal
    <3>3. goal = p
      BY <1>3, <1>4, <3>1, <3>2
    <3> QED BY <2>2, <3>3
  <2>3. CASE ~ (m[p].next < block) /\ ~ (p < block)
    BY <2>3
  <2> QED BY <2>1, <2>2, <2>3
<1>6. walk = Step(walk)
  BY <1>5
<1> HIDE DEF walk, D, m
<1>7. \A p \in D : walk[p] = IF m[p].next < block THEN walk[m[p].next] ELSE p
  BY <1>6
<1> DEFINE Bad == {d \in Nat : \E p \in D : p < block /\ d = block - p /\ ~ Found(walk[p])}
<1>8. Bad = {}
  <2> SUFFICES ASSUME Bad # {} PROVE FALSE
    OBVIOUS
  <2>1. PICK d \in Bad : \A e \in Bad : d <= e
    <3>1. Bad \subseteq Nat
      OBVIOUS
    <3> HIDE DEF Bad
    <3> QED BY <3>1, <2>1, LeastNat
  <2>2. PICK p \in D : p < block /\ d = block - p /\ ~ Found(walk[p])
    OBVIOUS
  <2>3. CASE m[p].next < block
    <3>1. m[p].next \in D /\ walk[p] = walk[m[p].next]
      BY <1>3, <1>7, <2>3
    <3>2. /\ block - m[p].next \in Nat /\ ~ (d <= block - m[p].next)
      BY <1>2, <1>3, <2>2, <2>3
    <3>3. block - m[p].next \in Bad
      BY <2>2, <2>3, <3>1, <3>2
    <3> QED BY <2>1, <3>2, <3>3
  <2>4. CASE ~ (m[p].next < block)
    BY <1>2, <1>3, <1>7, <2>2, <2>4
  <2> QED BY <2>3, <2>4
<1>9. \A p \in D : p < block => Found(walk[p])
  <2> SUFFICES ASSUME NEW p \in D, p < block, ~ Found(walk[p]) PROVE FALSE
    OBVIOUS
  <2>1. block - p \in Nat
    BY <1>2, <1>3
  <2>2. block - p \in Bad
    BY <2>1
  <2> QED BY <1>8, <2>2
<1>10. start \in D /\ start < block
  <2>1. First \in D
    BY <1>0 DEF Nodes
  <2> QED BY <1>0, <1>2, <2>1, ConstantTypes DEF m
<1> QED BY <1>0, <1>1, <1>9, <1>10 DEF m

\* The first region that is large enough, if there is one.
LEMMA FirstFitIs ==
  ASSUME NEW h, FreeList(h.mem), NEW size \in Nat
  PROVE  LET p == FirstFit(h, size)
         IN  \/ p = NoBlock /\ \A r \in Heads(h.mem) : h.mem[r].size < size
             \/ /\ p \in Nodes(h.mem) /\ p # NoBlock
                /\ h.mem[p].next \in Heads(h.mem) /\ h.mem[p].next # EndOfList
                /\ h.mem[h.mem[p].next].size >= size
<1> DEFINE m == h.mem
           D == Listed(h)
           Fits(q) == m[q].next # EndOfList /\ m[m[q].next].size >= size
           Step(f) == [p \in D |-> IF m[p].next = EndOfList THEN NoBlock
                                   ELSE IF m[m[p].next].size >= size THEN p ELSE f[m[p].next]]
           search == CHOOSE f : f = Step(f)
           From(p) == {q \in D : p <= q /\ Fits(q)}
           Least(S) == CHOOSE x \in S : \A y \in S : x <= y
           g == [p \in D |-> IF From(p) = {} THEN NoBlock ELSE Least(From(p))]
<1>1. FirstFit(h, size) = search[First]
  BY DEF FirstFit
<1>0. D = Nodes(m)
  BY ListedIs
<1>2. \A p \in D : /\ p \in Int /\ m[p].next \in Nat /\ p < m[p].next /\ First <= p
                   /\ p < HeapSize /\ p # NoBlock
                   /\ m[p].next # EndOfList =>
                        /\ m[p].next \in D /\ m[p].next \in Heads(m)
                        /\ m[m[p].next].size \in Nat
  <2>1. NoBlock \notin Int
    BY HeapAssumption DEF HeapAssumption
  <2> QED BY <1>0, <2>1, NodeFacts DEF Nodes, Multiple
<1>3. ASSUME NEW p \in D, NEW q \in D, p < q PROVE q \in Heads(m) /\ m[p].next <= q
  <2>1. q \in Heads(m)
    BY <1>0, <1>2, <1>3, ConstantTypes DEF Nodes
  <2>2. q <= p \/ m[p].next <= q
    BY <1>0, <2>1, NodeFacts
  <2>3. p \in Int /\ q \in Int
    BY <1>2
  <2> HIDE DEF D, m
  <2> QED BY <1>3, <2>1, <2>2, <2>3
<1> HIDE DEF D, m
<1>4. g = Step(g)
  <2> HIDE DEF From, Least
  <2> SUFFICES ASSUME NEW p \in D
               PROVE  g[p] = IF m[p].next = EndOfList THEN NoBlock
                             ELSE IF m[m[p].next].size >= size THEN p ELSE g[m[p].next]
    OBVIOUS
  <2>1. CASE m[p].next = EndOfList
    <3>1. From(p) = {}
      <4> SUFFICES ASSUME NEW q \in D, p <= q, Fits(q) PROVE FALSE
        BY DEF From
      <4>1. p < q
        BY <1>2, <2>1
      <4>2. EndOfList <= q
        BY <1>3, <2>1, <4>1
      <4> QED BY <1>2, <4>2, ConstantTypes
    <3> QED BY <2>1, <3>1
  <2>2. CASE m[p].next # EndOfList /\ m[m[p].next].size >= size
    <3>1. p \in From(p) /\ \A y \in From(p) : p <= y
      BY <1>2, <2>2 DEF From
    <3>2. Least(From(p)) \in From(p) /\ \A y \in From(p) : Least(From(p)) <= y
      BY <3>1 DEF Least
    <3>3. From(p) \subseteq Int
      BY <1>2 DEF From
    <3>4. Least(From(p)) = p
      BY <3>1, <3>2, <3>3
    <3> QED BY <2>2, <3>1, <3>4
  <2>3. CASE m[p].next # EndOfList /\ ~ (m[m[p].next].size >= size)
    <3>1. From(p) = From(m[p].next)
      <4>1. ASSUME NEW q \in From(p) PROVE q \in From(m[p].next)
        <5>1. q # p /\ p < q
          BY <1>2, <2>3 DEF From
        <5> QED BY <1>3, <5>1 DEF From
      <4>2. ASSUME NEW q \in From(m[p].next) PROVE q \in From(p)
        BY <1>2, <2>3 DEF From
      <4> QED BY <4>1, <4>2
    <3> QED BY <1>2, <2>3, <3>1
  <2> QED BY <2>1, <2>2, <2>3
<1>5. search = Step(search)
  <2> HIDE DEF g
  <2> QED BY <1>4
<1> HIDE DEF search, g
<1>6. \A p \in D : search[p] = IF m[p].next = EndOfList THEN NoBlock
                               ELSE IF m[m[p].next].size >= size THEN p
                               ELSE search[m[p].next]
  BY <1>5
<1> DEFINE Right(p) == \/ search[p] = NoBlock /\ \A r \in Heads(m) : p < r => m[r].size < size
                       \/ search[p] \in D /\ Fits(search[p])
           Bad == {d \in Nat : \E p \in D : d = HeapSize - p /\ ~ Right(p)}
<1>7. Bad = {}
  <2> SUFFICES ASSUME Bad # {} PROVE FALSE
    OBVIOUS
  <2>1. PICK d \in Bad : \A e \in Bad : d <= e
    <3>1. Bad \subseteq Nat
      OBVIOUS
    <3> HIDE DEF Bad
    <3> QED BY <3>1, <2>1, LeastNat
  <2>2. PICK p \in D : d = HeapSize - p /\ ~ Right(p)
    OBVIOUS
  <2>3. Heads(m) \subseteq D
    BY <1>0 DEF Nodes
  <2>4. CASE m[p].next = EndOfList
    <3>1. \A r \in Heads(m) : ~ (p < r)
      BY <1>2, <1>3, <2>3, <2>4, ConstantTypes
    <3> QED BY <1>6, <2>2, <2>4, <3>1
  <2>5. CASE m[p].next # EndOfList /\ m[m[p].next].size >= size
    BY <1>6, <2>2, <2>5
  <2>6. CASE m[p].next # EndOfList /\ ~ (m[m[p].next].size >= size)
    <3> DEFINE n == m[p].next
    <3>1. n \in D /\ search[p] = search[n] /\ p < n /\ n \in Int /\ m[n].size \in Nat /\ p \in Int
      BY <1>2, <1>6, <2>6
    <3>2. HeapSize - n \in Nat /\ ~ (d <= HeapSize - n)
      <4> HIDE DEF n, Right, Bad
      <4>1. HeapSize \in Int
        BY ConstantTypes
      <4>2. n < HeapSize
        BY <1>2, <3>1
      <4>3. d = HeapSize - p
        BY <2>2
      <4> QED BY <3>1, <4>1, <4>2, <4>3
    <3>3. Right(n)
      <4> SUFFICES ASSUME ~ Right(n) PROVE FALSE
        OBVIOUS
      <4>1. HeapSize - n \in Bad
        BY <3>1, <3>2
      <4> QED BY <2>1, <3>2, <4>1
    <3>4. \A r \in Heads(m) : p < r => r = n \/ n < r
      <4> HIDE DEF Bad
      <4> SUFFICES ASSUME NEW r \in Heads(m), p < r PROVE r = n \/ n < r
        OBVIOUS
      <4>1. r \in D /\ r \in Int /\ n <= r
        BY <1>2, <1>3, <2>3
      <4> QED BY <3>1, <4>1
    <3>5. m[n].size < size
      BY <2>6, <3>1
    <3> HIDE DEF n
    <3> QED BY <2>2, <3>1, <3>3, <3>4, <3>5
  <2> QED BY <2>4, <2>5, <2>6
<1>8. First \in D /\ \A r \in Heads(m) : First < r
  BY <1>0, WordIs, ConstantTypes DEF Nodes, Heads, Multiple
<1>9. Right(First)
  <2> SUFFICES ASSUME ~ Right(First) PROVE FALSE
    OBVIOUS
  <2>1. HeapSize - First \in Nat
    BY ConstantTypes
  <2>2. HeapSize - First \in Bad
    BY <1>8, <2>1
  <2> QED BY <1>7, <2>2
<1> QED BY <1>0, <1>1, <1>2, <1>8, <1>9 DEF m
-----------------------------------------------------------------------------
(* The blocks, and the bytes they take.                                    *)

Bytes(at, size) == at .. (at + Aligned(size) - 1)
Taken(B) == UNION {Bytes(a, B[a].size) : a \in DOMAIN B}

Block == [owner : Owners \cup {Nobody}, size : Nat \ {0}, chunk : BOOLEAN]

\* Blocks lie in the area and after one another
Placed(B) ==
  /\ B \in [DOMAIN B -> Block]
  /\ \A a \in DOMAIN B : /\ a \in Words /\ a + Aligned(B[a].size) <= HeapSize
                         /\ B[a].chunk => B[a].size = Alignment
  /\ \A a, c \in DOMAIN B : a < c => a + Aligned(B[a].size) <= c

Bytewise == 0 .. (HeapSize - 1)

\* The list holds exactly the bytes that are not taken
Layout(h, T) ==
  /\ h \in HeapTypes /\ FreeList(h.mem)
  /\ h.skip \in Nodes(h.mem) \cup {EndOfList}
  /\ FreeBytes(h.mem) = Bytewise \ T

\* What the owners of some blocks wrote is still there
Kept(h, B, L) ==
  \A a \in L : \A w \in WordsOf(a, B[a].size) : h.mem[w] = Content(B[a].owner, w - a)

MovingBytes == IF req.kind = "move" THEN Aligned(blocks[req.at].size) ELSE 0

\* The pool holds chunks, each once
Pooled(B, G, p) ==
  /\ p \in Seq(DOMAIN B)
  /\ \A i, j \in 1..Len(p) : p[i] = p[j] => i = j
  /\ \A a \in ToSet(p) : a \notin G /\ B[a].chunk

\* Area, blocks, garbage and pool together
Sound(h, B, G, p) ==
  /\ Placed(B) /\ G \subseteq DOMAIN B /\ Pooled(B, G, p)
  /\ Layout(h, Taken(B))
  /\ Kept(h, B, DOMAIN B \ (G \cup ToSet(p)))

Requests ==
  [kind : {"alloc", "chunk"}, owner : Owners, size : Nat \ {0}, max : {High, Full}]
    \cup [kind : {"grow", "move"}, at : Words, owner : Owners \cup {Nobody}, size : Nat \ {0}, max : {Full}]

Requested ==
  /\ pc \in {"idle", "gc", "try", "grow", "fatal"}
  /\ pressure \in {None, Low, High, Full}
  /\ pressure = Full => pc = "fatal"
  /\ pc = "idle" => req = NoRequest /\ pressure = None
  /\ pc # "idle" => req \in Requests
  /\ pc = "grow" => req.kind = "grow"
  /\ pc = "try" => req.kind # "grow"
  /\ req.kind = "chunk" => req.size = Alignment /\ req.max = Full
  /\ req.kind \in {"grow", "move"} =>
       req.at \in Live /\ ~ blocks[req.at].chunk /\ req.owner = blocks[req.at].owner
       /\ GrowthOf(req) > 0
  /\ pc = "try" /\ pressure = High => garbage = {} /\ pool = <<>>

Within(h, moving) == h.allocated <= h.limit /\ h.limit <= h.allocated + moving + GCLimit

Accounts ==
  /\ heap.allocated + MovingBytes = Cardinality(Taken(blocks))
  /\ Within(heap, MovingBytes)

JmemInv == Sound(heap, blocks, garbage, pool) /\ Requested /\ Accounts
-----------------------------------------------------------------------------
(* Handing out and giving back bytes, seen from the blocks.                *)

LEMMA BytesAre ==
  ASSUME NEW at \in Int, NEW size \in Nat \ {0}
  PROVE  /\ \A b : b \in Bytes(at, size) <=> b \in Int /\ at <= b /\ b < at + Aligned(size)
         /\ at \in Bytes(at, size)
         /\ IsFiniteSet(Bytes(at, size)) /\ Cardinality(Bytes(at, size)) = Aligned(size)
<1>1. Aligned(size) \in Nat /\ Aligned(size) > 0
  BY AlignedIs, ConstantTypes
<1>2. at + Aligned(size) - 1 \in Int
  BY <1>1
<1>3. \A b : b \in Bytes(at, size) <=> b \in Int /\ at <= b /\ b < at + Aligned(size)
  BY <1>1 DEF Bytes
<1>4. IsFiniteSet(Bytes(at, size)) /\ Cardinality(Bytes(at, size)) = Aligned(size)
  BY <1>1, <1>2, FS_Interval DEF Bytes
<1> QED BY <1>1, <1>3, <1>4

LEMMA TakenIs ==
  ASSUME NEW B, Placed(B)
  PROVE  /\ Taken(B) \subseteq Bytewise
         /\ IsFiniteSet(Taken(B)) /\ Cardinality(Taken(B)) \in Nat
         /\ \A a \in DOMAIN B : Bytes(a, B[a].size) \subseteq Taken(B)
         /\ \A a \in DOMAIN B : /\ a \in Int /\ a \in Words /\ B[a].size \in Nat \ {0}
                                /\ B[a].owner \in Owners \cup {Nobody} /\ B[a].chunk \in BOOLEAN
                                /\ Aligned(B[a].size) \in Nat /\ Aligned(B[a].size) > 0
                                /\ Multiple(a) /\ Multiple(Aligned(B[a].size)) /\ 0 <= a
                                /\ B[a].size <= Aligned(B[a].size)
                                /\ a + Aligned(B[a].size) <= HeapSize
<1>1. \A a \in DOMAIN B : B[a].size \in Nat \ {0} /\ B[a].owner \in Owners \cup {Nobody}
                          /\ B[a].chunk \in BOOLEAN
  BY DEF Placed, Block
<1>2. \A a \in DOMAIN B : a \in Words /\ a \in Int /\ Multiple(a) /\ 0 <= a
                          /\ a + Aligned(B[a].size) <= HeapSize
  BY WordIs DEF Placed, Multiple
<1>3. \A a \in DOMAIN B : Aligned(B[a].size) \in Nat /\ Aligned(B[a].size) > 0
                          /\ Multiple(Aligned(B[a].size)) /\ B[a].size <= Aligned(B[a].size)
  BY <1>1, AlignedIs, ConstantTypes
<1>4. Taken(B) \subseteq Bytewise
  BY <1>1, <1>2, <1>3, BytesAre, ConstantTypes DEF Taken, Bytewise
<1>5. IsFiniteSet(Bytewise)
  BY FS_Interval, ConstantTypes DEF Bytewise
<1>6. IsFiniteSet(Taken(B)) /\ Cardinality(Taken(B)) \in Nat
  BY <1>4, <1>5, FS_Subset, FS_CardinalityType
<1>7. \A a \in DOMAIN B : Bytes(a, B[a].size) \subseteq Taken(B)
  BY DEF Taken
<1> QED BY <1>1, <1>2, <1>3, <1>4, <1>6, <1>7

\* A block that is given back.
LEMMA RemoveBlock ==
  ASSUME NEW B, Placed(B), NEW at \in DOMAIN B
  PROVE  LET C == WithoutBlock(B, at)
             bytes == Bytes(at, B[at].size)
         IN  /\ Placed(C) /\ DOMAIN C = DOMAIN B \ {at}
             /\ \A a \in DOMAIN C : C[a] = B[a]
             /\ Taken(C) = Taken(B) \ bytes
             /\ Cardinality(Taken(B)) = Cardinality(Taken(C)) + Aligned(B[at].size)
<1> DEFINE C == WithoutBlock(B, at)
           bytes == Bytes(at, B[at].size)
<1>1. DOMAIN C = DOMAIN B \ {at} /\ C = [a \in DOMAIN B \ {at} |-> B[a]]
  BY DEF WithoutBlock, Restrict
<1>2. \A a \in DOMAIN C : C[a] = B[a]
  BY <1>1
<1>3. C \in [DOMAIN C -> Block]
  BY <1>1 DEF Placed
<1> HIDE DEF C
<1>4. Placed(C)
  BY <1>1, <1>2, <1>3 DEF Placed
<1>5. \A a \in DOMAIN B \ {at} : Bytes(a, B[a].size) \cap bytes = {}
  <2> SUFFICES ASSUME NEW a \in DOMAIN B \ {at}, NEW b \in Bytes(a, B[a].size), b \in bytes
               PROVE  FALSE
    OBVIOUS
  <2>1. a \in Int /\ at \in Int /\ B[a].size \in Nat \ {0} /\ B[at].size \in Nat \ {0}
        /\ Aligned(B[a].size) \in Nat /\ Aligned(B[at].size) \in Nat
    BY TakenIs
  <2>2. b \in Int /\ a <= b /\ b < a + Aligned(B[a].size) /\ at <= b /\ b < at + Aligned(B[at].size)
    BY <2>1, BytesAre
  <2>3. (a < at => a + Aligned(B[a].size) <= at) /\ (at < a => at + Aligned(B[at].size) <= a)
    BY DEF Placed
  <2> QED BY <2>1, <2>2, <2>3
<1>6. Taken(C) = Taken(B) \ bytes
  <2>1. ASSUME NEW b \in Taken(C) PROVE b \in Taken(B) \ bytes
    <3>1. PICK a \in DOMAIN C : b \in Bytes(a, C[a].size)
      BY DEF Taken
    <3>2. a \in DOMAIN B \ {at} /\ b \in Bytes(a, B[a].size)
      BY <1>1, <1>2, <3>1
    <3> QED BY <1>5, <3>2 DEF Taken
  <2>2. ASSUME NEW b \in Taken(B), b \notin bytes PROVE b \in Taken(C)
    <3>1. PICK a \in DOMAIN B : b \in Bytes(a, B[a].size)
      BY DEF Taken
    <3>2. a \in DOMAIN C /\ b \in Bytes(a, C[a].size)
      BY <1>1, <1>2, <2>2, <3>1
    <3> QED BY <3>2 DEF Taken
  <2> QED BY <2>1, <2>2
<1>7. Cardinality(Taken(B)) = Cardinality(Taken(C)) + Aligned(B[at].size)
  <2>1. /\ IsFiniteSet(Taken(B)) /\ Cardinality(Taken(B)) \in Nat /\ bytes \subseteq Taken(B)
        /\ at \in Int /\ B[at].size \in Nat \ {0} /\ Aligned(B[at].size) \in Nat
    BY TakenIs
  <2>2. Cardinality(bytes) = Aligned(B[at].size)
    BY <2>1, BytesAre
  <2>3. Taken(B) \cap bytes = bytes
    BY <2>1
  <2>4. Cardinality(Taken(B) \ bytes) = Cardinality(Taken(B)) - Cardinality(Taken(B) \cap bytes)
    BY <2>1, FS_Difference
  <2>5. Cardinality(Taken(C)) = Cardinality(Taken(B)) - Cardinality(bytes)
    BY <1>6, <2>3, <2>4, Zenon
  <2> QED BY <2>1, <2>2, <2>5
<1> QED BY <1>1, <1>2, <1>4, <1>6, <1>7 DEF C

\* A block that is handed out of bytes nobody has.
LEMMA AddBlock ==
  ASSUME NEW B, Placed(B), NEW at \in Words, NEW r \in Block,
         r.chunk => r.size = Alignment,
         Bytes(at, r.size) \subseteq Bytewise \ Taken(B)
  PROVE  LET C == WithBlock(B, at, r)
         IN  /\ Placed(C) /\ DOMAIN C = DOMAIN B \cup {at} /\ at \notin DOMAIN B
             /\ C[at] = r /\ \A a \in DOMAIN B : C[a] = B[a]
             /\ Taken(C) = Taken(B) \cup Bytes(at, r.size)
             /\ Cardinality(Taken(C)) = Cardinality(Taken(B)) + Aligned(r.size)
<1> DEFINE C == WithBlock(B, at, r)
           bytes == Bytes(at, r.size)
<1>1. /\ r.size \in Nat \ {0} /\ at \in Int /\ Aligned(r.size) \in Nat /\ Aligned(r.size) > 0
      /\ 0 <= at /\ Multiple(at)
  BY AlignedIs, WordIs, ConstantTypes DEF Block, Multiple
<1>2. /\ \A b : b \in bytes <=> b \in Int /\ at <= b /\ b < at + Aligned(r.size)
      /\ at \in bytes /\ IsFiniteSet(bytes) /\ Cardinality(bytes) = Aligned(r.size)
  BY <1>1, BytesAre
<1>3. \A a \in DOMAIN B : /\ a \in Int /\ B[a].size \in Nat \ {0} /\ Aligned(B[a].size) \in Nat
                          /\ Bytes(a, B[a].size) \subseteq Taken(B) /\ a \in Bytes(a, B[a].size)
  BY TakenIs, BytesAre
<1>4. at \notin DOMAIN B
  BY <1>2, <1>3
<1>5. /\ DOMAIN C = DOMAIN B \cup {at}
      /\ C = [a \in DOMAIN B \cup {at} |-> IF a = at THEN r ELSE B[a]]
  BY DEF WithBlock
<1>6. C[at] = r /\ \A a \in DOMAIN B : C[a] = B[a]
  BY <1>4, <1>5
<1>7. C \in [DOMAIN C -> Block]
  BY <1>5 DEF Placed
<1> HIDE DEF C, bytes
<1>8. at + Aligned(r.size) <= HeapSize
  <2>1. at + Aligned(r.size) - 1 \in bytes
    BY <1>1, <1>2
  <2>2. at + Aligned(r.size) - 1 <= HeapSize - 1
    BY <2>1, ConstantTypes DEF Bytewise, bytes
  <2> QED BY <1>1, <2>2, ConstantTypes
<1>9. ASSUME NEW a \in DOMAIN B
      PROVE  /\ a < at => a + Aligned(B[a].size) <= at
             /\ at < a => at + Aligned(r.size) <= a
  <2>1. at \notin Bytes(a, B[a].size) /\ a \notin bytes
    BY <1>2, <1>3 DEF bytes
  <2>2. a < at => a + Aligned(B[a].size) <= at
    <3>1. \A b : b \in Bytes(a, B[a].size)
                  <=> b \in Int /\ a <= b /\ b < a + Aligned(B[a].size)
      BY <1>3, BytesAre
    <3> QED BY <1>1, <1>3, <2>1, <3>1
  <2>3. at < a => at + Aligned(r.size) <= a
    BY <1>1, <1>2, <1>3, <2>1
  <2> QED BY <2>2, <2>3
<1>10. Placed(C)
  <2>1. ASSUME NEW a \in DOMAIN C
        PROVE  a \in Words /\ a + Aligned(C[a].size) <= HeapSize
               /\ (C[a].chunk => C[a].size = Alignment)
    <3>1. CASE a = at
      BY <1>6, <1>8, <3>1
    <3>2. CASE a \in DOMAIN B
      BY <1>6, <3>2 DEF Placed
    <3> QED BY <1>5, <3>1, <3>2
  <2>2. ASSUME NEW a \in DOMAIN C, NEW c \in DOMAIN C, a < c
        PROVE  a + Aligned(C[a].size) <= c
    <3>1. CASE a = at /\ c = at
      BY <1>1, <2>2, <3>1
    <3>2. CASE a = at /\ c \in DOMAIN B
      BY <1>6, <1>9, <2>2, <3>2
    <3>3. CASE a \in DOMAIN B /\ c = at
      BY <1>6, <1>9, <2>2, <3>3
    <3>4. CASE a \in DOMAIN B /\ c \in DOMAIN B
      BY <1>6, <2>2, <3>4 DEF Placed
    <3> QED BY <1>5, <3>1, <3>2, <3>3, <3>4
  <2> QED BY <1>7, <2>1, <2>2 DEF Placed
<1>11. Taken(C) = Taken(B) \cup bytes
  <2>1. ASSUME NEW b \in Taken(C) PROVE b \in Taken(B) \cup bytes
    <3>1. PICK a \in DOMAIN C : b \in Bytes(a, C[a].size)
      BY DEF Taken
    <3>2. CASE a = at
      BY <1>6, <3>1, <3>2 DEF bytes
    <3>3. CASE a \in DOMAIN B
      BY <1>3, <1>6, <3>1, <3>3
    <3> QED BY <1>5, <3>2, <3>3
  <2>2. bytes \subseteq Taken(C)
    BY <1>5, <1>6 DEF Taken, bytes
  <2>3. Taken(B) \subseteq Taken(C)
    BY <1>5, <1>6 DEF Taken
  <2> QED BY <2>1, <2>2, <2>3
<1>12. Cardinality(Taken(C)) = Cardinality(Taken(B)) + Aligned(r.size)
  <2>1. Taken(B) \cap bytes = {} /\ Cardinality({}) = 0
    BY FS_EmptySet DEF bytes
  <2>2. IsFiniteSet(Taken(B)) /\ Cardinality(Taken(B)) \in Nat
    BY TakenIs
  <2>3. Cardinality(Taken(B) \cup bytes)
          = Cardinality(Taken(B)) + Cardinality(bytes) - Cardinality(Taken(B) \cap bytes)
    BY <1>2, <2>2, FS_Union
  <2>4. Cardinality(Taken(C)) = Cardinality(Taken(B)) + Cardinality(bytes) - 0
    BY <1>11, <2>1, <2>3, Zenon
  <2> QED BY <1>1, <1>2, <2>2, <2>4
<1> QED BY <1>4, <1>5, <1>6, <1>10, <1>11, <1>12 DEF C, bytes

\* Blocks that change hands.
LEMMA SameShape ==
  ASSUME NEW B, Placed(B), NEW C \in [DOMAIN B -> Block],
         \A a \in DOMAIN B : C[a].size = B[a].size /\ C[a].chunk = B[a].chunk
  PROVE  Placed(C) /\ DOMAIN C = DOMAIN B /\ Taken(C) = Taken(B)
<1>1. DOMAIN C = DOMAIN B
  OBVIOUS
<1>2. Placed(C)
  BY <1>1 DEF Placed
<1>3. Taken(C) = Taken(B)
  BY <1>1 DEF Taken
<1> QED BY <1>1, <1>2, <1>3
-----------------------------------------------------------------------------
(* The same, seen from the area.                                           *)

\* Words outside the free regions may be written, with what is not a header.
Rewritten(l, m, X) ==
  /\ X \subseteq Words /\ X \cap FreeBytes(m) = {}
  /\ l \in [Words \cup {First} -> Headers \cup Contents \cup {Junk}]
  /\ \A w \in X : l[w] \in Contents \cup {Junk}
  /\ \A w \in Words \cup {First} : w \notin X => l[w] = m[w]

LEMMA WriteKeeps ==
  ASSUME NEW m, FreeList(m), NEW X, NEW l, Rewritten(l, m, X)
  PROVE  FreeList(l) /\ FreeBytes(l) = FreeBytes(m) /\ Nodes(l) = Nodes(m)
         /\ \A p \in Nodes(m) : l[p] = m[p]
<1>0. /\ X \subseteq Words /\ X \cap FreeBytes(m) = {}
      /\ l \in [Words \cup {First} -> Headers \cup Contents \cup {Junk}]
      /\ \A w \in X : l[w] \in Contents \cup {Junk}
      /\ \A w \in Words \cup {First} : w \notin X => l[w] = m[w]
  BY DEF Rewritten
<1>1. \A r \in Heads(m) : r \in FreeBytes(m)
  <2> SUFFICES ASSUME NEW r \in Heads(m) PROVE r \in FreeBytes(m)
    OBVIOUS
  <2>1. r \in Nodes(m) /\ r \in Words /\ r \in Int /\ r # First
    BY WordIs, ConstantTypes DEF Nodes, Heads, Multiple
  <2>2. m[r].size \in Nat /\ Alignment <= m[r].size
    BY <2>1, NodeFacts
  <2> QED BY <2>1, <2>2, FreeByteIs, ConstantTypes
<1>2. \A p \in Nodes(m) : p \notin X /\ l[p] = m[p]
  <2>1. First \notin Words
    BY WordIs, ConstantTypes
  <2> QED BY <1>0, <1>1, <2>1 DEF Nodes, Heads
<1>3. \A c : c \in Contents \cup {Junk} => c \notin Headers
  BY DEF Contents, Junk, Headers
<1>4. Heads(l) = Heads(m)
  <2>1. ASSUME NEW w \in Heads(l) PROVE w \in Heads(m)
    <3>1. w \notin X
      BY <1>0, <1>3 DEF Heads
    <3> QED BY <1>0, <3>1 DEF Heads
  <2>2. ASSUME NEW w \in Heads(m) PROVE w \in Heads(l)
    BY <1>2 DEF Heads, Nodes
  <2> QED BY <2>1, <2>2
<1> QED BY <1>0, <1>2, <1>4, SameList DEF Memories

\* Bytes that are not free lie in one gap of the list.
LEMMA GapAround ==
  ASSUME NEW m, FreeList(m), NEW p \in Nodes(m), NEW at \in Words, p < at, at <= m[p].next,
         NEW n \in Nat, 0 < n, at + n <= HeapSize,
         \A b \in Int : at <= b /\ b < at + n => b \notin FreeBytes(m)
  PROVE  p + m[p].size <= at /\ at + n <= m[p].next
<1>1. /\ p \in Int /\ m[p].size \in Nat /\ m[p].next \in Nat
      /\ p + m[p].size < m[p].next /\ at \in Int
      /\ m[p].next # EndOfList => m[p].next \in Heads(m)
  BY NodeFacts, WordIs DEF Multiple
<1>2. p + m[p].size <= at
  <2>1. CASE p = First
    BY <1>1, <2>1 DEF FreeList
  <2>2. CASE p # First
    <3>1. p \in Heads(m)
      BY <2>2 DEF Nodes
    <3>2. at < p + m[p].size => at \in FreeBytes(m)
      BY <1>1, <3>1, FreeByteIs
    <3> QED BY <1>1, <3>2
  <2> QED BY <2>1, <2>2
<1>3. at + n <= m[p].next
  <2> SUFFICES ASSUME m[p].next < at + n PROVE FALSE
    BY <1>1
  <2> DEFINE q == m[p].next
  <2>1. q # EndOfList /\ q \in Heads(m) /\ at <= q
    BY <1>1, ConstantTypes
  <2>2. q \in Nodes(m) /\ q # First
    BY <1>1, <2>1, ConstantTypes DEF Nodes
  <2>3. Alignment <= m[q].size /\ m[q].size \in Nat
    BY <2>2, NodeFacts
  <2>4. q \in FreeBytes(m)
    BY <1>1, <2>1, <2>3, FreeByteIs, ConstantTypes
  <2> QED BY <1>1, <2>1, <2>4
<1> QED BY <1>2, <1>3

\* Bytes given back, with the search starting anywhere before them.
Returned(f, g, T, bytes) ==
  /\ Layout(f, T \ bytes)
  /\ f.allocated = g.allocated /\ f.limit = g.limit
  /\ \A w \in Words : w \notin FreeBytes(f.mem) => f.mem[w] = g.mem[w]

LEMMA GiveBack ==
  ASSUME NEW h, NEW T, Layout(h, T),
         NEW from \in Words, NEW at \in Words, NEW n, Multiple(n), 0 < n,
         from <= at, at + n <= HeapSize,
         \A b \in Int : from <= b /\ b < at + n => b \in T,
         NEW X, NEW g \in HeapTypes, Rewritten(g.mem, h.mem, X)
  PROVE  Returned(InsertBlock(g, at, FindPrev(h, from), n), g, T, at .. (at + n - 1))
<1> DEFINE p == FindPrev(h, from)
           f == InsertBlock(g, at, p, n)
<1>1. /\ FreeList(h.mem) /\ h.skip \in Nodes(h.mem) \cup {EndOfList}
      /\ FreeBytes(h.mem) = Bytewise \ T
  BY DEF Layout
<1>2. p \in Nodes(h.mem) /\ p < from /\ from <= h.mem[p].next
  BY <1>1, FindPrevIs
<1>3. from \in Int /\ at \in Int /\ n \in Int /\ 0 <= at /\ 0 <= from /\ Multiple(at)
  BY WordIs DEF Multiple
<1>4. g.mem \in Memories /\ g = [mem |-> g.mem, skip |-> g.skip, allocated |-> g.allocated, limit |-> g.limit]
      /\ g.skip \in Int /\ g.allocated \in Int /\ g.limit \in Int
  BY DEF HeapTypes
<1>5. FreeList(g.mem) /\ FreeBytes(g.mem) = FreeBytes(h.mem) /\ p \in Nodes(g.mem)
      /\ g.mem[p] = h.mem[p]
  <2> HIDE DEF p
  <2> QED BY <1>1, <1>2, WriteKeeps
<1>6. p + h.mem[p].size <= from /\ from + (at + n - from) <= h.mem[p].next
  <2>1. at + n - from \in Nat /\ 0 < at + n - from /\ from + (at + n - from) <= HeapSize
    BY <1>3
  <2>2. \A b \in Int : from <= b /\ b < from + (at + n - from) => b \notin FreeBytes(h.mem)
    BY <1>1, <1>3
  <2> HIDE DEF p
  <2> QED BY <1>1, <1>2, <2>1, <2>2, GapAround
<1> HIDE DEF p
<1>7. p + g.mem[p].size <= at /\ at + n <= g.mem[p].next
  <2>1. p \in Int /\ h.mem[p].size \in Nat /\ h.mem[p].next \in Nat
    BY <1>1, <1>2, NodeFacts DEF Multiple
  <2> QED BY <1>3, <1>5, <1>6, <2>1
<1>8. GivenBack(f, g, at, n, p)
  <2>1. /\ g \in HeapTypes /\ FreeList(g.mem) /\ p \in Nodes(g.mem)
        /\ Multiple(at) /\ 0 <= at /\ Multiple(n) /\ 0 < n /\ at + n <= HeapSize
        /\ p + g.mem[p].size <= at /\ at + n <= g.mem[p].next
    BY <1>3, <1>5, <1>7
  <2> HIDE DEF p
  <2> QED BY <2>1, InsertBlockKeeps, Zenon
<1> HIDE DEF f
<1>9. FreeBytes(f.mem) = Bytewise \ (T \ (at .. (at + n - 1)))
  <2>1. \A b \in at .. (at + n - 1) : b \in Bytewise
    BY <1>3, ConstantTypes DEF Bytewise
  <2> QED BY <1>1, <1>5, <1>8, <2>1 DEF GivenBack
<1> QED BY <1>8, <1>9 DEF Layout, GivenBack, Returned, f, p
-----------------------------------------------------------------------------
(* Allocation, and the accounts.                                           *)

LEMMA HeapIs ==
  ASSUME NEW h \in HeapTypes
  PROVE  /\ h.mem \in Memories /\ h.skip \in Int /\ h.allocated \in Int /\ h.limit \in Int
         /\ h = [mem |-> h.mem, skip |-> h.skip, allocated |-> h.allocated, limit |-> h.limit]
BY DEF HeapTypes

LEMMA DivBounds ==
  ASSUME NEW d \in Nat \ {0}, NEW x \in Nat
  PROVE  /\ x \div d \in Nat
         /\ (x \div d) * d \in Nat /\ (x \div d) * d <= x /\ x < ((x \div d) + 1) * d
         /\ ((x \div d) + 1) * d = (x \div d) * d + d
<1>1. x \div d \in Nat
  OBVIOUS
<1>2. x = d * (x \div d) + (x % d) /\ 0 <= x % d /\ x % d < d /\ x % d \in Int
  OBVIOUS
<1> DEFINE q == x \div d
           r == x % d
<1> HIDE DEF q, r
<1>3. q \in Nat /\ x = d * q + r /\ 0 <= r /\ r < d /\ r \in Int
  BY <1>1, <1>2 DEF q, r
<1>4. q * d = d * q /\ (q + 1) * d = d * q + d /\ d * q \in Nat
  BY <1>3
<1>5. q * d \in Nat /\ q * d <= x /\ x < (q + 1) * d /\ (q + 1) * d = q * d + d
  BY <1>3, <1>4
<1> QED BY <1>3, <1>5 DEF q

LEMMA RaiseLimitIs ==
  ASSUME NEW h \in HeapTypes, NEW moving \in Nat, h.limit <= h.allocated + moving + GCLimit
  PROVE  /\ RaiseLimit(h) \in HeapTypes /\ Within(RaiseLimit(h), moving)
         /\ RaiseLimit(h).mem = h.mem /\ RaiseLimit(h).skip = h.skip
         /\ RaiseLimit(h).allocated = h.allocated
<1>1. h.allocated \in Int /\ h.limit \in Int /\ GCLimit \in Nat \ {0}
  BY HeapIs, ConstantTypes
<1>2. CASE h.allocated < h.limit
  BY <1>1, <1>2 DEF RaiseLimit, Within
<1>3. CASE ~ (h.allocated < h.limit)
  <2> DEFINE q == (h.allocated - h.limit) \div GCLimit
             up == (q + 1) * GCLimit
  <2>1. h.allocated - h.limit \in Nat
    BY <1>1, <1>3
  <2>2. /\ q * GCLimit \in Nat /\ q * GCLimit <= h.allocated - h.limit
        /\ h.allocated - h.limit < up /\ up = q * GCLimit + GCLimit
    BY <1>1, <2>1, DivBounds
  <2>3. RaiseLimit(h) = [h EXCEPT !.limit = @ + up]
    BY <1>3 DEF RaiseLimit
  <2> DEFINE qg == q * GCLimit
  <2> HIDE DEF qg, up
  <2>4. qg \in Nat /\ qg <= h.allocated - h.limit /\ h.allocated - h.limit < up /\ up = qg + GCLimit
    BY <2>2 DEF qg, up
  <2>5. /\ RaiseLimit(h).limit = h.limit + up /\ RaiseLimit(h).allocated = h.allocated
        /\ RaiseLimit(h).mem = h.mem /\ RaiseLimit(h).skip = h.skip
    BY <2>3 DEF HeapTypes
  <2>6. RaiseLimit(h) \in HeapTypes
    BY <1>1, <2>3, <2>4 DEF HeapTypes
  <2>7. Within(RaiseLimit(h), moving)
    BY <1>1, <2>4, <2>5 DEF Within
  <2> QED BY <2>5, <2>6, <2>7
<1> QED BY <1>2, <1>3

LEMMA LowerLimitIs ==
  ASSUME NEW h \in HeapTypes, h.allocated <= h.limit
  PROVE  /\ LowerLimit(h) \in HeapTypes /\ Within(LowerLimit(h), 0)
         /\ LowerLimit(h).mem = h.mem /\ LowerLimit(h).skip = h.skip
         /\ LowerLimit(h).allocated = h.allocated
<1>1. h.allocated \in Int /\ h.limit \in Int /\ GCLimit \in Nat \ {0}
  BY HeapIs, ConstantTypes
<1>2. CASE h.limit < h.allocated + GCLimit
  BY <1>1, <1>2 DEF LowerLimit, Within
<1>3. CASE ~ (h.limit < h.allocated + GCLimit)
  <2> DEFINE q == (h.limit - h.allocated) \div GCLimit
             down == q * GCLimit
  <2>1. h.limit - h.allocated \in Nat
    BY <1>1
  <2>2. /\ down \in Nat /\ down <= h.limit - h.allocated
        /\ h.limit - h.allocated < (q + 1) * GCLimit /\ (q + 1) * GCLimit = down + GCLimit
    BY <1>1, <2>1, DivBounds
  <2>3. LowerLimit(h) = [h EXCEPT !.limit = @ - down]
    BY <1>3 DEF LowerLimit
  <2>4. h.limit - h.allocated < down + GCLimit
    BY <2>2, Zenon
  <2> HIDE DEF down
  <2>5. /\ LowerLimit(h).limit = h.limit - down /\ LowerLimit(h).allocated = h.allocated
        /\ LowerLimit(h).mem = h.mem /\ LowerLimit(h).skip = h.skip
    BY <2>3 DEF HeapTypes
  <2>6. LowerLimit(h) \in HeapTypes
    BY <1>1, <2>2, <2>3 DEF HeapTypes
  <2>7. Within(LowerLimit(h), 0)
    BY <1>1, <2>2, <2>4, <2>5 DEF Within
  <2> QED BY <2>5, <2>6, <2>7
<1> QED BY <1>2, <1>3

\* What jmem_heap_alloc finds and does.
Allocated(r, h, T, bytes) ==
  LET new == r.at .. (r.at + Aligned(bytes) - 1)
  IN /\ r.at \in Words /\ new \subseteq Bytewise \ T
     /\ Layout(r.heap, T \cup new)
     /\ r.heap.allocated = h.allocated + Aligned(bytes)
     /\ \A moving \in Nat : Within(h, moving) /\ moving <= Aligned(bytes) => Within(r.heap, 0)
     /\ \A w \in Words : w \notin FreeBytes(h.mem) => r.heap.mem[w] = h.mem[w]

LEMMA FastAllocIs ==
  ASSUME NEW h, NEW T, Layout(h, T), NEW bytes \in Nat \ {0}, Aligned(bytes) = Alignment,
         h.mem[First].next # EndOfList
  PROVE  Allocated([at |-> h.mem[First].next, heap |-> FastAlloc(h)], h, T, bytes)
<1> DEFINE m == h.mem
           at == h.mem[First].next
           t == TakeFront(h, First, Alignment)
           f == FastAlloc(h)
           new == at .. (at + Alignment - 1)
<1>1. h \in HeapTypes /\ FreeList(m) /\ First \in Nodes(m) /\ h.skip \in Nodes(m) \cup {EndOfList}
      /\ FreeBytes(m) = Bytewise \ T
  BY DEF Layout, Nodes
<1>2. at \in Heads(m) /\ at \in Nodes(m) /\ at # First /\ at \in Words
  BY <1>1, NodeFacts, WordIs, ConstantTypes DEF Nodes, Heads
<1>3. Alignment <= m[at].size /\ Multiple(Alignment) /\ 0 < Alignment
  BY <1>1, <1>2, NodeFacts, SomeMultiples, ConstantTypes
<1>4. HandedOut(t, h, at, Alignment, First)
  <2> HIDE DEF m
  <2>1. FreeList(h.mem) /\ First \in Nodes(h.mem) /\ Alignment <= h.mem[h.mem[First].next].size
    BY <1>1, <1>3 DEF m
  <2> QED BY <1>1, <1>3, <2>1, TakeFrontKeeps, Zenon
<1>5. /\ f = [t EXCEPT !.allocated = @ + Alignment,
                       !.limit = IF h.allocated + Alignment >= @ THEN @ + GCLimit ELSE @,
                       !.skip = IF @ = at THEN t.mem[First].next ELSE @]
  BY DEF FastAlloc
<1>6. t \in HeapTypes /\ t.skip = h.skip /\ t.allocated = h.allocated /\ t.limit = h.limit
  BY <1>4 DEF HandedOut
<1> HIDE DEF t, f, at, m
<1>7. /\ f.mem = t.mem /\ f.allocated = h.allocated + Alignment
      /\ f.limit = (IF h.allocated + Alignment >= h.limit THEN h.limit + GCLimit ELSE h.limit)
      /\ f.skip = (IF h.skip = at THEN t.mem[First].next ELSE h.skip)
  BY <1>5, <1>6 DEF HeapTypes
<1>8. FreeList(f.mem) /\ f.skip \in Nodes(f.mem) \cup {EndOfList}
  BY <1>1, <1>4, <1>7 DEF HandedOut, Nodes, m
<1>9. f \in HeapTypes
  <2>1. h.allocated \in Int /\ h.limit \in Int /\ Alignment \in Int /\ GCLimit \in Int
    BY <1>1, HeapIs, ConstantTypes
  <2>2. f.skip \in Int
    BY <1>8, NodeFacts, ConstantTypes DEF Multiple
  <2>3. f.mem \in Memories
    BY <1>8 DEF FreeList
  <2>4. f = [mem |-> f.mem, skip |-> f.skip, allocated |-> f.allocated, limit |-> f.limit]
    BY <1>5, <1>6 DEF HeapTypes
  <2>5. f.allocated \in Int /\ f.limit \in Int
    BY <1>7, <2>1
  <2> QED BY <2>2, <2>3, <2>4, <2>5 DEF HeapTypes
<1>10. Layout(f, T \cup new) /\ new \subseteq Bytewise \ T
  <2>1. FreeBytes(f.mem) = Bytewise \ (T \cup new)
    BY <1>1, <1>4, <1>7 DEF HandedOut, m
  <2> QED BY <1>1, <1>4, <1>8, <1>9, <2>1 DEF Layout, HandedOut, m
<1>11. ASSUME NEW moving \in Nat, Within(h, moving), moving <= Alignment PROVE Within(f, 0)
  <2>1. h.allocated \in Int /\ h.limit \in Int /\ Alignment \in Nat /\ GCLimit \in Nat
        /\ GCLimit >= Alignment
    BY <1>1, HeapIs, ConstantTypes
  <2> QED BY <1>7, <1>11, <2>1 DEF Within
<1>12. \A w \in Words : w \notin FreeBytes(h.mem) => f.mem[w] = h.mem[w]
  BY <1>4, <1>7 DEF HandedOut
<1> QED BY <1>2, <1>7, <1>10, <1>11, <1>12 DEF Allocated, f, at

LEMMA SlowAllocIs ==
  ASSUME NEW h, NEW T, Layout(h, T), NEW bytes \in Nat \ {0},
         NEW prev \in Nodes(h.mem), h.mem[prev].next # EndOfList,
         Aligned(bytes) <= h.mem[h.mem[prev].next].size
  PROVE  Allocated([at |-> h.mem[prev].next, heap |-> SlowAlloc(h, prev, Aligned(bytes))],
                   h, T, bytes)
<1> DEFINE n == Aligned(bytes)
           at == h.mem[prev].next
           t == TakeFront(h, prev, n)
           g == [t EXCEPT !.allocated = @ + n, !.skip = prev]
           f == SlowAlloc(h, prev, n)
           new == at .. (at + n - 1)
<1>1. h \in HeapTypes /\ FreeList(h.mem) /\ FreeBytes(h.mem) = Bytewise \ T
  BY DEF Layout
<1>2. n \in Nat /\ 0 < n /\ Multiple(n) /\ n <= h.mem[h.mem[prev].next].size
  BY AlignedIs, ConstantTypes
<1> HIDE DEF n
<1>3. HandedOut(t, h, at, n, prev)
  BY <1>1, <1>2, TakeFrontKeeps, Zenon
<1>4. t \in HeapTypes /\ t.skip = h.skip /\ t.allocated = h.allocated /\ t.limit = h.limit
      /\ at \in Words
  BY <1>3 DEF HandedOut, Heads
<1>5. f = RaiseLimit(g)
  BY DEF SlowAlloc
<1> HIDE DEF t, f, at
<1>6. h.allocated \in Int /\ h.limit \in Int /\ GCLimit \in Nat /\ prev \in Int
  BY <1>1, HeapIs, ConstantTypes, NodeFacts DEF Multiple
<1>7. /\ g \in HeapTypes /\ g.mem = t.mem /\ g.allocated = h.allocated + n
      /\ g.limit = h.limit /\ g.skip = prev
  <2>1. t = [mem |-> t.mem, skip |-> t.skip, allocated |-> t.allocated, limit |-> t.limit]
        /\ t.mem \in Memories
    BY <1>4, HeapIs
  <2>0. g = [t EXCEPT !.allocated = @ + n, !.skip = prev]
    OBVIOUS
  <2> HIDE DEF g
  <2>2. g = [mem |-> t.mem, skip |-> prev, allocated |-> t.allocated + n, limit |-> t.limit]
    BY <1>4, <2>0 DEF HeapTypes
  <2>3. h.allocated + n \in Int
    BY <1>2, <1>6
  <2> QED BY <1>4, <1>6, <2>1, <2>2, <2>3 DEF HeapTypes
<1> HIDE DEF g
<1>8. ASSUME NEW moving \in Nat, Within(h, moving), moving <= n PROVE Within(f, 0)
  <2>1. g.limit <= g.allocated + 0 + GCLimit
    BY <1>2, <1>6, <1>7, <1>8 DEF Within
  <2> QED BY <1>5, <1>7, <2>1, RaiseLimitIs
<1>9. /\ f \in HeapTypes /\ f.mem = t.mem /\ f.skip = prev /\ f.allocated = h.allocated + n
  <2>1. CASE g.allocated < g.limit
    BY <1>5, <1>7, <2>1 DEF RaiseLimit
  <2>2. CASE ~ (g.allocated < g.limit)
    <3>1. g.limit <= g.allocated + 0 + GCLimit
      BY <1>2, <1>6, <1>7, <2>2
    <3> QED BY <1>5, <1>7, <3>1, RaiseLimitIs
  <2> QED BY <2>1, <2>2
<1>10. Layout(f, T \cup new) /\ new \subseteq Bytewise \ T
  <2>1. FreeBytes(f.mem) = Bytewise \ (T \cup new)
    BY <1>1, <1>3, <1>9 DEF HandedOut
  <2> QED BY <1>1, <1>3, <1>9, <2>1 DEF Layout, HandedOut
<1>11. \A w \in Words : w \notin FreeBytes(h.mem) => f.mem[w] = h.mem[w]
  BY <1>3, <1>9 DEF HandedOut
<1> QED BY <1>4, <1>8, <1>9, <1>10, <1>11 DEF Allocated, f, at, n

LEMMA HeapAllocIs ==
  ASSUME NEW h, NEW T, Layout(h, T), NEW bytes \in Nat \ {0}
  PROVE  \/ /\ HeapAlloc(h, bytes).at = NoBlock
            /\ \A q \in Heads(h.mem) : h.mem[q].size < Aligned(bytes)
         \/ HeapAlloc(h, bytes).at # NoBlock /\ Allocated(HeapAlloc(h, bytes), h, T, bytes)
<1> DEFINE n == Aligned(bytes)
           prev == FirstFit(h, n)
           end == h.mem[First].next = EndOfList
           fast == [at |-> h.mem[First].next, heap |-> FastAlloc(h)]
           slow == [at |-> h.mem[prev].next, heap |-> SlowAlloc(h, prev, n)]
<1>1. FreeList(h.mem) /\ n \in Nat /\ \A w \in Words : w # NoBlock
  <2>1. \A w \in Words : w # NoBlock
    BY HeapAssumption, WordIs DEF HeapAssumption, Multiple
  <2> QED BY <2>1, AlignedIs DEF Layout
<1>2. \/ prev = NoBlock /\ \A r \in Heads(h.mem) : h.mem[r].size < n
      \/ /\ prev \in Nodes(h.mem) /\ prev # NoBlock
         /\ h.mem[prev].next # EndOfList /\ h.mem[h.mem[prev].next].size >= n
  <2> HIDE DEF n
  <2> QED BY <1>1, FirstFitIs, Zenon
<1> HIDE DEF n, prev, fast, slow
<1>3. HeapAlloc(h, bytes) =
        CASE n = Alignment /\ ~ end -> fast
          [] (n # Alignment \/ end) /\ prev # NoBlock -> slow
          [] OTHER -> [at |-> NoBlock, heap |-> h]
  BY DEF HeapAlloc, n, prev, fast, slow
<1>4. CASE n = Alignment /\ ~ end
  <2>1. Allocated(fast, h, T, bytes)
    BY <1>4, FastAllocIs DEF n, fast
  <2>2. HeapAlloc(h, bytes) = fast
    BY <1>3, <1>4
  <2> QED BY <1>1, <2>1, <2>2 DEF Allocated
<1>5. CASE (n # Alignment \/ end) /\ prev # NoBlock
  <2>1. Allocated(slow, h, T, bytes)
    BY <1>1, <1>2, <1>5, SlowAllocIs, Zenon DEF n, slow
  <2>2. HeapAlloc(h, bytes) = slow
    BY <1>3, <1>5
  <2> QED BY <1>1, <2>1, <2>2 DEF Allocated
<1>6. CASE (n # Alignment \/ end) /\ prev = NoBlock
  <2>1. HeapAlloc(h, bytes) = [at |-> NoBlock, heap |-> h]
    BY <1>3, <1>6
  <2> QED BY <1>2, <1>6, <2>1 DEF n
<1> QED BY <1>4, <1>5, <1>6
-----------------------------------------------------------------------------
(* Writing to the words of a block, and freeing it.                        *)

LEMMA WordsOfIs ==
  ASSUME NEW at, NEW size
  PROVE  /\ WordsOf(at, size) \subseteq Words /\ First \notin Words
         /\ \A w : w \in WordsOf(at, size)
                     <=> w \in Words /\ w \in Int /\ Multiple(w) /\ at <= w /\ w < at + Aligned(size)
BY WordIs, ConstantTypes DEF WordsOf, Multiple

LEMMA WordsAreBytes ==
  ASSUME NEW at \in Int, NEW size \in Nat \ {0}
  PROVE  WordsOf(at, size) \subseteq Bytes(at, size)
BY BytesAre, WordsOfIs

Written(g, h, X) ==
  /\ g \in HeapTypes /\ g.skip = h.skip /\ g.allocated = h.allocated /\ g.limit = h.limit
  /\ Rewritten(g.mem, h.mem, X)

LEMMA WrittenKeeps ==
  ASSUME NEW h, NEW T, Layout(h, T), NEW g, NEW X, Written(g, h, X)
  PROVE  Layout(g, T)
<1>1. FreeList(h.mem) /\ Rewritten(g.mem, h.mem, X)
  BY DEF Layout, Written
<1>2. FreeList(g.mem) /\ FreeBytes(g.mem) = FreeBytes(h.mem) /\ Nodes(g.mem) = Nodes(h.mem)
  BY <1>1, WriteKeeps
<1> QED BY <1>2 DEF Layout, Written

LEMMA WipeIs ==
  ASSUME NEW h, NEW T, Layout(h, T), NEW at, NEW size, WordsOf(at, size) \subseteq T
  PROVE  /\ Written(Wipe(h, at, size), h, WordsOf(at, size))
         /\ Layout(Wipe(h, at, size), T)
         /\ \A w \in Words \cup {First} : w \notin WordsOf(at, size)
              => Wipe(h, at, size).mem[w] = h.mem[w]
<1> DEFINE g == Wipe(h, at, size)
           X == WordsOf(at, size)
           l == [w \in DOMAIN h.mem |-> IF w \in X THEN Junk ELSE h.mem[w]]
<1>1. h \in HeapTypes /\ FreeBytes(h.mem) = Bytewise \ T
      /\ h.mem \in [Words \cup {First} -> Headers \cup Contents \cup {Junk}]
  BY HeapIs DEF Layout, Memories
<1>2. g = [h EXCEPT !.mem = l]
  BY <1>1, HeapIs DEF Wipe
<1>3. X \subseteq Words
  BY WordsOfIs
<1> HIDE DEF X
<1>4. /\ l \in [Words \cup {First} -> Headers \cup Contents \cup {Junk}]
      /\ \A w \in X : l[w] = Junk
      /\ \A w \in Words \cup {First} : w \notin X => l[w] = h.mem[w]
  BY <1>1, <1>3
<1> HIDE DEF l, g
<1>5. g \in HeapTypes /\ g.mem = l /\ g.skip = h.skip /\ g.allocated = h.allocated /\ g.limit = h.limit
  BY <1>1, <1>2, <1>4 DEF HeapTypes, Memories
<1>6. X \cap FreeBytes(h.mem) = {}
  BY <1>1 DEF X
<1>7. Rewritten(g.mem, h.mem, X)
  BY <1>3, <1>4, <1>5, <1>6 DEF Rewritten
<1>8. Written(g, h, X)
  BY <1>5, <1>7 DEF Written
<1>9. Layout(g, T)
  BY <1>8, WrittenKeeps
<1> QED BY <1>4, <1>5, <1>8, <1>9 DEF g, X

Filled(g, h, at, size, owner, kept) ==
  /\ g \in HeapTypes /\ g.skip = h.skip /\ g.allocated = h.allocated /\ g.limit = h.limit
  /\ \A w \in WordsOf(at, size) : w - at >= kept => g.mem[w] = Content(owner, w - at)
  /\ \A w \in Words \cup {First} : ~ (w \in WordsOf(at, size) /\ w - at >= kept)
       => g.mem[w] = h.mem[w]

LEMMA FillIs ==
  ASSUME NEW h \in HeapTypes, NEW at \in Int, NEW size, NEW owner \in Owners \cup {Nobody},
         NEW kept
  PROVE  Filled(Fill(h, at, size, owner, kept), h, at, size, owner, kept)
<1> DEFINE g == Fill(h, at, size, owner, kept)
           X == {w \in WordsOf(at, size) : w - at >= kept}
           l == [w \in DOMAIN h.mem |-> IF w \in WordsOf(at, size) /\ w - at >= kept
                                        THEN Content(owner, w - at) ELSE h.mem[w]]
<1>1. h.mem \in [Words \cup {First} -> Headers \cup Contents \cup {Junk}]
  BY HeapIs DEF Memories
<1>2. g = [h EXCEPT !.mem = l]
  BY HeapIs DEF Fill
<1>3. WordsOf(at, size) \subseteq Words /\ \A w \in WordsOf(at, size) : Content(owner, w - at) \in Contents
  BY WordsOfIs DEF Content, Contents
<1>4. /\ l \in [Words \cup {First} -> Headers \cup Contents \cup {Junk}]
      /\ \A w \in WordsOf(at, size) : w - at >= kept => l[w] = Content(owner, w - at)
      /\ \A w \in Words \cup {First} : ~ (w \in WordsOf(at, size) /\ w - at >= kept)
           => l[w] = h.mem[w]
  BY <1>1, <1>3
<1> HIDE DEF l, g
<1>5. g \in HeapTypes /\ g.mem = l /\ g.skip = h.skip /\ g.allocated = h.allocated /\ g.limit = h.limit
  BY <1>2, <1>4 DEF HeapTypes, Memories
<1> QED BY <1>4, <1>5 DEF Filled, g

\* A block that is copied and then filled to its new size.
LEMMA CopyIs ==
  ASSUME NEW h \in HeapTypes, NEW from \in Words, NEW to \in Words,
         NEW old \in Nat \ {0}, NEW size \in Nat \ {0}, Aligned(old) <= Aligned(size),
         NEW owner \in Owners \cup {Nobody},
         from + Aligned(old) <= HeapSize, to + Aligned(size) <= HeapSize,
         \A w \in WordsOf(from, old) : h.mem[w] = Content(owner, w - from)
  PROVE  Filled(Fill(Copy(h, from, to, old), to, size, owner, Aligned(old)), h, to, size, owner, 0)
<1> DEFINE c == Copy(h, from, to, old)
           g == Fill(c, to, size, owner, Aligned(old))
           l == [w \in DOMAIN h.mem |-> IF w \in WordsOf(to, old)
                                        THEN h.mem[w - to + from] ELSE h.mem[w]]
<1>1. h.mem \in [Words \cup {First} -> Headers \cup Contents \cup {Junk}]
  BY HeapIs DEF Memories
<1>2. c = [h EXCEPT !.mem = l]
  BY HeapIs DEF Copy
<1>3. from \in Int /\ to \in Int /\ Multiple(from) /\ Multiple(to) /\ 0 <= from /\ 0 <= to
      /\ Aligned(old) \in Nat /\ Aligned(size) \in Nat
  BY WordIs, AlignedIs DEF Multiple
<1>4. ASSUME NEW w \in WordsOf(to, old)
      PROVE  /\ w \in Words /\ w - to + from \in Words
             /\ h.mem[w - to + from] = Content(owner, w - to) /\ Content(owner, w - to) \in Contents
  <2>1. w \in Int /\ Multiple(w) /\ to <= w /\ w < to + Aligned(old) /\ w \in Words
    BY WordsOfIs
  <2>2. Multiple(w - to)
    BY <1>3, <2>1, Multiples
  <2>3. Multiple((w - to) + from)
    BY <1>3, <2>2, Multiples
  <2>4. /\ w - to + from \in Words /\ from <= w - to + from /\ w - to + from \in Int
        /\ w - to + from < from + Aligned(old)
    <3>1. /\ 0 <= w - to + from /\ w - to + from < HeapSize /\ from <= w - to + from
          /\ w - to + from \in Int /\ w - to + from < from + Aligned(old)
      BY <1>3, <2>1, ConstantTypes
    <3>2. w - to + from \in Words
      BY <2>3, <3>1, WordIs, Zenon
    <3> QED BY <3>1, <3>2
  <2>5. w - to + from \in WordsOf(from, old)
    BY <2>3, <2>4, WordsOfIs
  <2>6. h.mem[w - to + from] = Content(owner, (w - to + from) - from)
    BY <2>5
  <2>7. (w - to + from) - from = w - to /\ w - to \in Int
    BY <1>3, <2>1
  <2>8. Content(owner, w - to) \in Contents
    BY <2>7 DEF Content, Contents
  <2> QED BY <2>1, <2>4, <2>6, <2>7, <2>8
<1>5. /\ l \in [Words \cup {First} -> Headers \cup Contents \cup {Junk}]
      /\ \A w \in WordsOf(to, old) : l[w] = Content(owner, w - to)
      /\ \A w \in Words \cup {First} : w \notin WordsOf(to, old) => l[w] = h.mem[w]
  <2>1. \A w \in Words \cup {First} :
          l[w] = IF w \in WordsOf(to, old) THEN Content(owner, w - to) ELSE h.mem[w]
    BY <1>1, <1>4
  <2>2. \A w \in Words \cup {First} : l[w] \in Headers \cup Contents \cup {Junk}
    <3> HIDE DEF l
    <3> QED BY <1>1, <1>4, <2>1
  <2>3. DOMAIN l = Words \cup {First}
    BY <1>1
  <2>4. l = [w \in DOMAIN l |-> l[w]]
    OBVIOUS
  <2>5. l \in [Words \cup {First} -> Headers \cup Contents \cup {Junk}]
    <3> HIDE DEF l
    <3> QED BY <2>2, <2>3, <2>4
  <2> QED BY <1>4, <2>1, <2>5
<1> HIDE DEF l, c
<1>6. c \in HeapTypes /\ c.mem = l /\ c.skip = h.skip /\ c.allocated = h.allocated /\ c.limit = h.limit
  BY <1>2, <1>5 DEF HeapTypes, Memories
<1>7. Filled(g, c, to, size, owner, Aligned(old))
  <2> HIDE DEF g
  <2>1. g = Fill(c, to, size, owner, Aligned(old))
    BY DEF g
  <2> QED BY <1>3, <1>6, <2>1, FillIs, Zenon
<1> HIDE DEF g
<1>8. ASSUME NEW w \in WordsOf(to, size), ~ (w - to >= Aligned(old)) PROVE w \in WordsOf(to, old)
  BY <1>3, <1>8, WordsOfIs
<1>9. ASSUME NEW w, w \notin WordsOf(to, size) PROVE w \notin WordsOf(to, old)
  BY <1>3, <1>9, WordsOfIs
<1>10. \A w \in WordsOf(to, size) : g.mem[w] = Content(owner, w - to)
  <2> SUFFICES ASSUME NEW w \in WordsOf(to, size) PROVE g.mem[w] = Content(owner, w - to)
    OBVIOUS
  <2>1. w \in Words
    BY WordsOfIs
  <2>2. CASE w - to >= Aligned(old)
    BY <1>7, <2>2 DEF Filled
  <2>3. CASE ~ (w - to >= Aligned(old))
    BY <1>5, <1>6, <1>7, <1>8, <2>1, <2>3 DEF Filled
  <2> QED BY <2>2, <2>3
<1>11. \A w \in Words \cup {First} : w \notin WordsOf(to, size) => g.mem[w] = h.mem[w]
  BY <1>5, <1>6, <1>7, <1>9 DEF Filled
<1>12. \A w : w \in WordsOf(to, size) => w - to >= 0
  BY <1>3, WordsOfIs
<1> QED BY <1>6, <1>7, <1>10, <1>11, <1>12 DEF Filled, c, g

\* What jmem_heap_free_block_internal does.
FreedBlock(f, h, T, at, size) ==
  /\ Layout(f, T \ Bytes(at, size)) /\ Within(f, 0)
  /\ f.allocated = h.allocated - Aligned(size)
  /\ \A w \in Words : w \notin FreeBytes(f.mem) => f.mem[w] = h.mem[w]

LEMMA HeapFreeIs ==
  ASSUME NEW h, NEW T, Layout(h, T), h.allocated <= h.limit,
         NEW at \in Words, NEW size \in Nat \ {0}, at + Aligned(size) <= HeapSize,
         Bytes(at, size) \subseteq T
  PROVE  FreedBlock(HeapFree(h, at, size), h, T, at, size)
<1> DEFINE f == HeapFree(h, at, size)
           n == Aligned(size)
           g == Wipe(h, at, size)
           i == InsertBlock(g, at, FindPrev(h, at), n)
           j == [i EXCEPT !.allocated = @ - n]
<1>1. n \in Nat /\ n > 0 /\ Multiple(n) /\ at \in Int
  BY AlignedIs, WordIs, ConstantTypes DEF Multiple
<1>2. WordsOf(at, size) \subseteq T /\ \A b : b \in Bytes(at, size) <=> b \in Int /\ at <= b /\ b < at + n
  BY <1>1, WordsAreBytes, BytesAre
<1>3. /\ Written(g, h, WordsOf(at, size))
      /\ \A w \in Words : w \notin WordsOf(at, size) => g.mem[w] = h.mem[w]
  BY <1>2, WipeIs
<1>4. f = LowerLimit(j)
  BY DEF HeapFree
<1> HIDE DEF f, g, n
<1>5. Returned(i, g, T, at .. (at + n - 1))
  <2>1. \A b \in Int : at <= b /\ b < at + n => b \in T
    BY <1>2
  <2>2. at <= at /\ at + n <= HeapSize /\ 0 < n
    BY <1>1 DEF n
  <2>3. g \in HeapTypes /\ Rewritten(g.mem, h.mem, WordsOf(at, size))
    BY <1>3 DEF Written
  <2> QED BY <1>1, <2>1, <2>2, <2>3, GiveBack, Zenon
<1> HIDE DEF i
<1>6. i \in HeapTypes /\ i.allocated = h.allocated /\ i.limit = h.limit /\ h.allocated \in Int /\ h.limit \in Int
  BY <1>3, <1>5, HeapIs DEF Layout, Written, Returned
<1>7. j \in HeapTypes /\ j.mem = i.mem /\ j.skip = i.skip /\ j.allocated = h.allocated - n /\ j.limit = h.limit
  BY <1>1, <1>6 DEF HeapTypes
<1> HIDE DEF j
<1>8. /\ f \in HeapTypes /\ Within(f, 0) /\ f.mem = i.mem /\ f.skip = i.skip
      /\ f.allocated = h.allocated - n
  <2>1. j.allocated <= j.limit
    BY <1>1, <1>6, <1>7
  <2> QED BY <1>4, <1>7, <2>1, LowerLimitIs
<1>9. at .. (at + n - 1) = Bytes(at, size)
  BY DEF Bytes, n
<1>10. Layout(f, T \ Bytes(at, size))
  BY <1>5, <1>8, <1>9 DEF Layout, Returned
<1>11. \A w \in Words : w \notin FreeBytes(f.mem) => f.mem[w] = h.mem[w]
  <2> SUFFICES ASSUME NEW w \in Words, w \notin FreeBytes(f.mem) PROVE f.mem[w] = h.mem[w]
    OBVIOUS
  <2>1. w \notin WordsOf(at, size)
    <3>1. FreeBytes(f.mem) = Bytewise \ (T \ Bytes(at, size)) /\ w \in Bytewise
      BY <1>10, WordIs, ConstantTypes DEF Layout, Bytewise, Multiple
    <3>2. WordsOf(at, size) \subseteq Bytes(at, size)
      BY <1>1, WordsAreBytes
    <3> QED BY <3>1, <3>2
  <2> QED BY <1>3, <1>5, <1>8, <2>1 DEF Returned
<1> QED BY <1>8, <1>10, <1>11 DEF FreedBlock, f, n
-----------------------------------------------------------------------------
(* The pool of chunks.                                                     *)

LEMMA PoolPop ==
  ASSUME NEW B, NEW G, NEW p, Pooled(B, G, p), p # <<>>
  PROVE  /\ Head(p) \in ToSet(p) /\ Head(p) \in DOMAIN B
         /\ Tail(p) \in Seq(DOMAIN B)
         /\ ToSet(Tail(p)) = ToSet(p) \ {Head(p)}
         /\ \A i, j \in 1..Len(Tail(p)) : Tail(p)[i] = Tail(p)[j] => i = j
<1>1. p \in Seq(DOMAIN B) /\ \A i, j \in 1..Len(p) : p[i] = p[j] => i = j
  BY DEF Pooled
<1>2. Len(p) \in Nat /\ Len(p) > 0 /\ DOMAIN p = 1..Len(p)
  BY <1>1
<1>3. Head(p) = p[1] /\ Head(p) \in DOMAIN B
  BY <1>1, <1>2
<1>4. /\ Tail(p) \in Seq(DOMAIN B) /\ Len(Tail(p)) = Len(p) - 1
      /\ DOMAIN Tail(p) = 1..(Len(p) - 1)
      /\ \A i \in 1..(Len(p) - 1) : Tail(p)[i] = p[i + 1]
  BY <1>1, <1>2
<1>5. ToSet(Tail(p)) = ToSet(p) \ {Head(p)}
  <2>1. ASSUME NEW a \in ToSet(Tail(p)) PROVE a \in ToSet(p) \ {Head(p)}
    <3>1. PICK i \in 1..(Len(p) - 1) : a = p[i + 1]
      BY <1>4 DEF ToSet
    <3>2. i + 1 \in 1..Len(p) /\ 1 \in 1..Len(p) /\ i + 1 # 1
      BY <1>2
    <3> QED BY <1>1, <1>2, <1>3, <3>1, <3>2 DEF ToSet
  <2>2. ASSUME NEW a \in ToSet(p), a # Head(p) PROVE a \in ToSet(Tail(p))
    <3>1. PICK i \in 1..Len(p) : a = p[i]
      BY <1>2 DEF ToSet
    <3>2. i - 1 \in 1..(Len(p) - 1) /\ (i - 1) + 1 = i
      BY <1>2, <1>3, <2>2, <3>1
    <3>3. Tail(p)[i - 1] = a
      BY <1>4, <3>1, <3>2
    <3> QED BY <1>4, <3>2, <3>3 DEF ToSet
  <2> QED BY <2>1, <2>2
<1>6. \A i, j \in 1..Len(Tail(p)) : Tail(p)[i] = Tail(p)[j] => i = j
  <2> SUFFICES ASSUME NEW i \in 1..(Len(p) - 1), NEW j \in 1..(Len(p) - 1), p[i + 1] = p[j + 1]
               PROVE  i = j
    BY <1>4
  <2>1. i + 1 \in 1..Len(p) /\ j + 1 \in 1..Len(p)
    BY <1>2
  <2>2. i + 1 = j + 1
    BY <1>1, <2>1
  <2> QED BY <2>2
<1>7. Head(p) \in ToSet(p)
  BY <1>2, <1>3 DEF ToSet
<1> QED BY <1>3, <1>4, <1>5, <1>6, <1>7

LEMMA PoolPush ==
  ASSUME NEW B, NEW G, NEW p, Pooled(B, G, p), NEW at \in DOMAIN B, at \notin ToSet(p)
  PROVE  /\ <<at>> \o p \in Seq(DOMAIN B)
         /\ ToSet(<<at>> \o p) = ToSet(p) \cup {at}
         /\ \A i, j \in 1..Len(<<at>> \o p) : (<<at>> \o p)[i] = (<<at>> \o p)[j] => i = j
<1> DEFINE q == <<at>> \o p
<1>1. p \in Seq(DOMAIN B) /\ \A i, j \in 1..Len(p) : p[i] = p[j] => i = j
  BY DEF Pooled
<1>2. Len(p) \in Nat /\ DOMAIN p = 1..Len(p)
  BY <1>1
<1>3. /\ q \in Seq(DOMAIN B) /\ Len(q) = Len(p) + 1 /\ DOMAIN q = 1..(Len(p) + 1)
      /\ \A i \in 1..(Len(p) + 1) : q[i] = IF i = 1 THEN at ELSE p[i - 1]
  BY <1>1, <1>2
<1> HIDE DEF q
<1>4. \A i \in 1..(Len(p) + 1) : i # 1 => i - 1 \in 1..Len(p)
  BY <1>2
<1>5. \A i \in 1..Len(p) : i + 1 \in 1..(Len(p) + 1) /\ i + 1 # 1 /\ (i + 1) - 1 = i /\ p[i] # at
  BY <1>2 DEF ToSet
<1>6. ToSet(q) = ToSet(p) \cup {at}
  <2>1. ASSUME NEW a \in ToSet(q) PROVE a \in ToSet(p) \cup {at}
    <3>1. PICK i \in 1..(Len(p) + 1) : a = q[i]
      BY <1>3 DEF ToSet
    <3> QED BY <1>2, <1>3, <1>4, <3>1 DEF ToSet
  <2>2. at \in ToSet(q)
    <3>1. 1 \in 1..(Len(p) + 1)
      BY <1>2
    <3> QED BY <1>3, <3>1 DEF ToSet
  <2>3. ASSUME NEW a \in ToSet(p) PROVE a \in ToSet(q)
    <3>1. PICK i \in 1..Len(p) : a = p[i]
      BY <1>2 DEF ToSet
    <3>2. q[i + 1] = a
      BY <1>3, <1>5, <3>1
    <3> QED BY <1>3, <1>5, <3>2 DEF ToSet
  <2> QED BY <2>1, <2>2, <2>3
<1>7. ASSUME NEW i \in 1..(Len(p) + 1), NEW j \in 1..(Len(p) + 1), q[i] = q[j] PROVE i = j
  <2>1. CASE i = 1 /\ j = 1
    BY <2>1
  <2>2. CASE i = 1 /\ j # 1
    BY <1>3, <1>4, <1>5, <1>7, <2>2
  <2>3. CASE i # 1 /\ j = 1
    BY <1>3, <1>4, <1>5, <1>7, <2>3
  <2>4. CASE i # 1 /\ j # 1
    <3>1. i - 1 \in 1..Len(p) /\ j - 1 \in 1..Len(p) /\ p[i - 1] = p[j - 1]
      BY <1>3, <1>4, <1>7, <2>4
    <3>2. i - 1 = j - 1
      BY <1>1, <3>1
    <3> QED BY <1>2, <3>2
  <2> QED BY <2>1, <2>2, <2>3, <2>4
<1> QED BY <1>3, <1>6, <1>7 DEF q
-----------------------------------------------------------------------------
(* Steps of the area, the blocks, the garbage and the pool.                *)

LEMMA SoundFacts ==
  ASSUME NEW h, NEW B, NEW G, NEW p, Sound(h, B, G, p)
  PROVE  /\ Placed(B) /\ Layout(h, Taken(B)) /\ h \in HeapTypes
         /\ FreeBytes(h.mem) \cap Taken(B) = {}
         /\ \A a \in DOMAIN B : /\ WordsOf(a, B[a].size) \subseteq Taken(B)
                                /\ \A w \in WordsOf(a, B[a].size) : w \notin FreeBytes(h.mem)
         /\ \A a, c \in DOMAIN B : a # c => WordsOf(a, B[a].size) \cap WordsOf(c, B[c].size) = {}
<1>1. Placed(B) /\ Layout(h, Taken(B)) /\ h \in HeapTypes /\ FreeBytes(h.mem) = Bytewise \ Taken(B)
  BY DEF Sound, Layout
<1>2. \A a \in DOMAIN B : WordsOf(a, B[a].size) \subseteq Taken(B)
  <2> SUFFICES ASSUME NEW a \in DOMAIN B PROVE WordsOf(a, B[a].size) \subseteq Taken(B)
    OBVIOUS
  <2>1. a \in Int /\ B[a].size \in Nat \ {0} /\ Bytes(a, B[a].size) \subseteq Taken(B)
    BY <1>1, TakenIs
  <2>2. WordsOf(a, B[a].size) \subseteq Bytes(a, B[a].size)
    BY <2>1, WordsAreBytes
  <2> QED BY <2>1, <2>2
<1>3. ASSUME NEW a \in DOMAIN B, NEW c \in DOMAIN B, a # c,
             NEW w \in WordsOf(a, B[a].size), w \in WordsOf(c, B[c].size)
      PROVE  FALSE
  <2>1. a \in Int /\ c \in Int /\ Aligned(B[a].size) \in Nat /\ Aligned(B[c].size) \in Nat
    BY <1>1, TakenIs
  <2>2. /\ w \in Int /\ a <= w /\ w < a + Aligned(B[a].size)
        /\ c <= w /\ w < c + Aligned(B[c].size)
    BY <1>3, WordsOfIs
  <2>3. (a < c => a + Aligned(B[a].size) <= c) /\ (c < a => c + Aligned(B[c].size) <= a)
    BY <1>1 DEF Placed
  <2> QED BY <1>3, <2>1, <2>2, <2>3
<1> QED BY <1>1, <1>2, <1>3

\* Blocks whose words and records stay as they are keep what was written.
LEMMA KeptOn ==
  ASSUME NEW h, NEW B, NEW L, Kept(h, B, L), NEW g, NEW C, NEW K,
         \A a \in K : /\ a \in L /\ C[a] = B[a]
                      /\ \A w \in WordsOf(a, B[a].size) : g.mem[w] = h.mem[w]
  PROVE  Kept(g, C, K)
BY DEF Kept

\* The pool q is p without a chunk.
Unpooled(q, p, B, at) ==
  /\ q \in Seq(DOMAIN B) /\ ToSet(q) = ToSet(p) \ {at}
  /\ \A i, j \in 1..Len(q) : q[i] = q[j] => i = j

LEMMA SoundFree ==
  ASSUME NEW h, NEW B, NEW G, NEW p, Sound(h, B, G, p), h.allocated <= h.limit,
         NEW at \in DOMAIN B, NEW q, Unpooled(q, p, B, at)
  PROVE  LET f == HeapFree(h, at, B[at].size)
             C == WithoutBlock(B, at)
         IN  /\ Sound(f, C, G \ {at}, q) /\ Within(f, 0)
             /\ f.allocated = h.allocated - Aligned(B[at].size)
             /\ Cardinality(Taken(B)) = Cardinality(Taken(C)) + Aligned(B[at].size)
<1> DEFINE f == HeapFree(h, at, B[at].size)
           C == WithoutBlock(B, at)
<1>0. /\ q \in Seq(DOMAIN B) /\ ToSet(q) = ToSet(p) \ {at}
      /\ \A i, j \in 1..Len(q) : q[i] = q[j] => i = j
  BY DEF Unpooled
<1>1. /\ at \in Words /\ at \in Int /\ B[at].size \in Nat \ {0}
      /\ at + Aligned(B[at].size) <= HeapSize /\ Bytes(at, B[at].size) \subseteq Taken(B)
  BY SoundFacts, TakenIs
<1>2. FreedBlock(f, h, Taken(B), at, B[at].size)
  BY <1>1, SoundFacts, HeapFreeIs, Zenon
<1>3. /\ Placed(C) /\ DOMAIN C = DOMAIN B \ {at}
      /\ \A a \in DOMAIN C : C[a] = B[a]
      /\ Taken(C) = Taken(B) \ Bytes(at, B[at].size)
      /\ Cardinality(Taken(B)) = Cardinality(Taken(C)) + Aligned(B[at].size)
  BY SoundFacts, RemoveBlock
<1> HIDE DEF f, C
<1>4. Layout(f, Taken(C))
  BY <1>2, <1>3 DEF FreedBlock
<1>5. q \in Seq(DOMAIN C)
  <2>1. \A i \in 1..Len(q) : q[i] \in DOMAIN C
    BY <1>0, <1>3 DEF ToSet
  <2> QED BY <1>0, <2>1
<1>6. Pooled(C, G \ {at}, q) /\ G \ {at} \subseteq DOMAIN C
  <2>1. \A a \in ToSet(q) : a \notin G \ {at} /\ C[a].chunk
    <3> SUFFICES ASSUME NEW a \in ToSet(q) PROVE a \notin G \ {at} /\ C[a].chunk
      OBVIOUS
    <3>1. a \in DOMAIN C
      BY <1>5 DEF ToSet
    <3> QED BY <1>0, <1>3, <3>1 DEF Sound, Pooled
  <2> QED BY <1>0, <1>3, <1>5, <2>1 DEF Pooled, Sound
<1>7. Kept(f, C, DOMAIN C \ ((G \ {at}) \cup ToSet(q)))
  <2> DEFINE K == DOMAIN C \ ((G \ {at}) \cup ToSet(q))
             L == DOMAIN B \ (G \cup ToSet(p))
  <2>1. Kept(h, B, L)
    BY DEF Sound
  <2>2. ASSUME NEW a \in K
        PROVE  /\ a \in L /\ C[a] = B[a]
               /\ \A w \in WordsOf(a, B[a].size) : f.mem[w] = h.mem[w]
    <3>1. a \in DOMAIN B /\ a # at /\ a \in DOMAIN C /\ a \in L /\ C[a] = B[a]
      BY <1>0, <1>3
    <3>2. ASSUME NEW w \in WordsOf(a, B[a].size) PROVE f.mem[w] = h.mem[w]
      <4>1. w \in Words /\ w \notin WordsOf(at, B[at].size) /\ w \in Taken(B)
        BY <3>1, SoundFacts, WordsOfIs
      <4>2. w \in Taken(C)
        <5>1. Placed(C) /\ WordsOf(a, C[a].size) \subseteq Bytes(a, C[a].size) /\ Bytes(a, C[a].size) \subseteq Taken(C)
          BY <1>3, <3>1, TakenIs, WordsAreBytes
        <5> QED BY <3>1, <5>1
      <4>3. w \notin FreeBytes(f.mem)
        BY <1>4, <4>2 DEF Layout
      <4> QED BY <1>2, <4>1, <4>3 DEF FreedBlock
    <3> QED BY <3>1, <3>2
  <2> HIDE DEF K, L
  <2>3. Kept(f, C, K)
    BY <2>1, <2>2, KeptOn
  <2> QED BY <2>3 DEF K
<1>8. Sound(f, C, G \ {at}, q)
  BY <1>3, <1>4, <1>6, <1>7 DEF Sound
<1> QED BY <1>2, <1>3, <1>8 DEF FreedBlock, f, C

\* A block that loses its owner: it goes to the pool or becomes garbage.
LEMMA SoundLeave ==
  ASSUME NEW h, NEW B, NEW G, NEW p, Sound(h, B, G, p),
         NEW at \in DOMAIN B, NEW F, NEW q,
         F \subseteq DOMAIN B, Pooled(B, F, q),
         at \in F \cup ToSet(q), G \cup ToSet(p) \subseteq F \cup ToSet(q)
  PROVE  LET g == Wipe(h, at, B[at].size)
             C == [B EXCEPT ![at].owner = Nobody]
         IN  /\ Sound(g, C, F, q) /\ g.allocated = h.allocated /\ g.limit = h.limit
             /\ Taken(C) = Taken(B) /\ DOMAIN C = DOMAIN B
             /\ \A a \in DOMAIN B : a # at => C[a] = B[a]
<1> DEFINE g == Wipe(h, at, B[at].size)
           C == [B EXCEPT ![at].owner = Nobody]
<1>1. WordsOf(at, B[at].size) \subseteq Taken(B) /\ Layout(h, Taken(B)) /\ Placed(B)
  BY SoundFacts
<1>2. /\ Written(g, h, WordsOf(at, B[at].size)) /\ Layout(g, Taken(B))
      /\ \A w \in Words \cup {First} : w \notin WordsOf(at, B[at].size) => g.mem[w] = h.mem[w]
  BY <1>1, WipeIs
<1>3. B \in [DOMAIN B -> Block]
  BY <1>1 DEF Placed
<1>4. /\ C \in [DOMAIN B -> Block]
      /\ \A a \in DOMAIN B : C[a].size = B[a].size /\ C[a].chunk = B[a].chunk
      /\ \A a \in DOMAIN B : a # at => C[a] = B[a]
  <2>1. [B[at] EXCEPT !.owner = Nobody] \in Block
    BY <1>3 DEF Block
  <2>2. /\ [B[at] EXCEPT !.owner = Nobody].size = B[at].size
        /\ [B[at] EXCEPT !.owner = Nobody].chunk = B[at].chunk
    BY <1>3 DEF Block
  <2> QED BY <1>3, <2>1, <2>2
<1> HIDE DEF g, C
<1>5. Placed(C) /\ DOMAIN C = DOMAIN B /\ Taken(C) = Taken(B)
  BY <1>1, <1>4, SameShape
<1>6. Pooled(C, F, q)
  <2>1. \A a \in ToSet(q) : a \in DOMAIN B
    BY DEF Pooled, ToSet
  <2> QED BY <1>4, <1>5, <2>1 DEF Pooled
<1>7. Kept(g, C, DOMAIN C \ (F \cup ToSet(q)))
  <2>1. Kept(h, B, DOMAIN B \ (G \cup ToSet(p)))
    BY DEF Sound
  <2>2. ASSUME NEW a \in DOMAIN C \ (F \cup ToSet(q))
        PROVE  /\ a \in DOMAIN B \ (G \cup ToSet(p)) /\ C[a] = B[a]
               /\ \A w \in WordsOf(a, B[a].size) : g.mem[w] = h.mem[w]
    <3>1. a \in DOMAIN B /\ a # at
      BY <1>5
    <3>2. \A w \in WordsOf(a, B[a].size) : w \in Words /\ w \notin WordsOf(at, B[at].size)
      BY <3>1, SoundFacts, WordsOfIs
    <3> QED BY <1>2, <1>4, <1>5, <3>1, <3>2
  <2> QED BY <2>1, <2>2, KeptOn
<1>8. Sound(g, C, F, q)
  BY <1>2, <1>5, <1>6, <1>7 DEF Sound
<1> QED BY <1>2, <1>4, <1>5, <1>8 DEF Written, g, C

\* A free chunk that is handed out again.
LEMMA SoundReuse ==
  ASSUME NEW h, NEW B, NEW G, NEW p, Sound(h, B, G, p), p # <<>>,
         NEW o \in Owners
  PROVE  LET at == Head(p)
             g == Fill(h, at, Alignment, o, 0)
             C == [B EXCEPT ![at].owner = o]
         IN  /\ Sound(g, C, G, Tail(p)) /\ g.allocated = h.allocated /\ g.limit = h.limit
             /\ Taken(C) = Taken(B)
<1> DEFINE at == Head(p)
           q == Tail(p)
           g == Fill(h, at, Alignment, o, 0)
           C == [B EXCEPT ![at].owner = o]
           X == WordsOf(at, Alignment)
<1>1. Pooled(B, G, p) /\ Placed(B) /\ Layout(h, Taken(B)) /\ h \in HeapTypes
  BY SoundFacts DEF Sound
<1>2. /\ at \in ToSet(p) /\ at \in DOMAIN B /\ q \in Seq(DOMAIN B) /\ ToSet(q) = ToSet(p) \ {at}
      /\ \A i, j \in 1..Len(q) : q[i] = q[j] => i = j
  BY <1>1, PoolPop
<1> HIDE DEF at, q
<1>3. B[at].size = Alignment /\ at \in Int /\ at \in Words /\ at \notin G
  BY <1>1, <1>2, TakenIs DEF Pooled, Placed
<1>4. Filled(g, h, at, Alignment, o, 0)
  BY <1>1, <1>3, FillIs
<1> HIDE DEF g
<1>5. \A w \in X : w - at >= 0 /\ w \in Words
  BY <1>3, WordsOfIs
<1>6. Written(g, h, X)
  <2>1. h.mem \in Memories /\ g.mem \in Memories
    BY <1>1, <1>4, HeapIs DEF Filled
  <2>2. X \subseteq Words /\ X \cap FreeBytes(h.mem) = {}
    BY <1>2, <1>3, <1>5, SoundFacts
  <2>3. \A w \in X : g.mem[w] \in Contents \cup {Junk}
    <3>1. \A w \in X : g.mem[w] = Content(o, w - at) /\ w - at \in Int
      BY <1>3, <1>4, <1>5, WordsOfIs DEF Filled
    <3>2. \A i \in Int : Content(o, i) \in Contents
      BY DEF Content, Contents
    <3> QED BY <3>1, <3>2
  <2>4. \A w \in Words \cup {First} : w \notin X => g.mem[w] = h.mem[w]
    BY <1>4 DEF Filled
  <2>5. Rewritten(g.mem, h.mem, X)
    BY <2>1, <2>2, <2>3, <2>4 DEF Rewritten, Memories
  <2> QED BY <1>4, <2>5 DEF Written, Filled
<1>7. Layout(g, Taken(B))
  BY <1>1, <1>6, WrittenKeeps
<1>8. B \in [DOMAIN B -> Block]
  BY <1>1 DEF Placed
<1>9. /\ C \in [DOMAIN B -> Block]
      /\ \A a \in DOMAIN B : C[a].size = B[a].size /\ C[a].chunk = B[a].chunk
      /\ \A a \in DOMAIN B : a # at => C[a] = B[a]
      /\ C[at].owner = o
  <2>1. [B[at] EXCEPT !.owner = o] \in Block
    BY <1>2, <1>8 DEF Block
  <2>2. /\ [B[at] EXCEPT !.owner = o].size = B[at].size
        /\ [B[at] EXCEPT !.owner = o].chunk = B[at].chunk
        /\ [B[at] EXCEPT !.owner = o].owner = o
    BY <1>2, <1>8 DEF Block
  <2> QED BY <1>2, <1>8, <2>1, <2>2
<1> HIDE DEF C
<1>10. Placed(C) /\ DOMAIN C = DOMAIN B /\ Taken(C) = Taken(B)
  BY <1>1, <1>9, SameShape
<1>11. Pooled(C, G, q)
  <2>1. \A a \in ToSet(q) : a \in DOMAIN B /\ a \notin G /\ B[a].chunk
    BY <1>1, <1>2 DEF Pooled, ToSet
  <2> QED BY <1>2, <1>9, <1>10, <2>1 DEF Pooled
<1>12. Kept(g, C, DOMAIN C \ (G \cup ToSet(q)))
  <2> SUFFICES ASSUME NEW a \in DOMAIN B \ (G \cup ToSet(q)), NEW w \in WordsOf(a, C[a].size)
               PROVE  g.mem[w] = Content(C[a].owner, w - a)
    BY <1>10 DEF Kept
  <2>1. CASE a = at
    BY <1>3, <1>4, <1>5, <1>9, <2>1 DEF Filled
  <2>2. CASE a # at
    <3>1. w \in WordsOf(a, B[a].size) /\ C[a] = B[a] /\ a \in DOMAIN B \ (G \cup ToSet(p))
      BY <1>2, <1>9, <2>2
    <3>2. h.mem[w] = Content(B[a].owner, w - a)
      BY <3>1 DEF Sound, Kept
    <3>3. w \in Words /\ w \notin X
      BY <1>2, <1>3, <2>2, <3>1, SoundFacts, WordsOfIs
    <3> QED BY <1>4, <3>1, <3>2, <3>3 DEF Filled
  <2> QED BY <2>1, <2>2
<1>13. Sound(g, C, G, q)
  BY <1>1, <1>7, <1>10, <1>11, <1>12 DEF Sound
<1> QED BY <1>4, <1>10, <1>13 DEF Filled, g, C, at, q

\* A block that is placed among those that stay.
Staying(E, B, X) ==
  /\ Placed(E) /\ DOMAIN E \subseteq DOMAIN B /\ \A a \in DOMAIN E : E[a] = B[a]
  /\ X \subseteq DOMAIN E

Arriving(k, h, E, to, r) ==
  /\ to \in Words /\ r \in Block /\ (r.chunk => r.size = Alignment)
  /\ Bytes(to, r.size) \subseteq Bytewise \ Taken(E)
  /\ Layout(k, Taken(E) \cup Bytes(to, r.size))
  /\ \A w \in WordsOf(to, r.size) : k.mem[w] = Content(r.owner, w - to)
  /\ \A w \in Words : w \in Taken(E) => k.mem[w] = h.mem[w]

LEMMA SoundPlace ==
  ASSUME NEW h, NEW B, NEW G, NEW p, Sound(h, B, G, p),
         NEW E, Staying(E, B, G \cup ToSet(p)),
         NEW to, NEW r, NEW k, Arriving(k, h, E, to, r)
  PROVE  /\ Sound(k, WithBlock(E, to, r), G, p)
         /\ Cardinality(Taken(WithBlock(E, to, r))) = Cardinality(Taken(E)) + Aligned(r.size)
<1> DEFINE C == WithBlock(E, to, r)
<1>0. /\ Placed(E) /\ DOMAIN E \subseteq DOMAIN B /\ \A a \in DOMAIN E : E[a] = B[a]
      /\ G \cup ToSet(p) \subseteq DOMAIN E
      /\ to \in Words /\ r \in Block /\ (r.chunk => r.size = Alignment)
      /\ Bytes(to, r.size) \subseteq Bytewise \ Taken(E)
      /\ Layout(k, Taken(E) \cup Bytes(to, r.size))
      /\ \A w \in WordsOf(to, r.size) : k.mem[w] = Content(r.owner, w - to)
      /\ \A w \in Words : w \in Taken(E) => k.mem[w] = h.mem[w]
  BY DEF Staying, Arriving
<1>1. /\ Placed(C) /\ DOMAIN C = DOMAIN E \cup {to} /\ to \notin DOMAIN E
      /\ C[to] = r /\ \A a \in DOMAIN E : C[a] = E[a]
      /\ Taken(C) = Taken(E) \cup Bytes(to, r.size)
      /\ Cardinality(Taken(C)) = Cardinality(Taken(E)) + Aligned(r.size)
  BY <1>0, AddBlock
<1> HIDE DEF C
<1>2. Pooled(B, G, p)
  BY DEF Sound
<1>3. Pooled(C, G, p) /\ G \subseteq DOMAIN C
  <2>1. \A a \in ToSet(p) : a \in DOMAIN C /\ C[a] = B[a]
    BY <1>0, <1>1
  <2>2. \A i \in 1..Len(p) : p[i] \in DOMAIN C
    BY <1>2, <2>1 DEF ToSet, Pooled
  <2>3. p \in Seq(DOMAIN C)
    BY <1>2, <2>2 DEF Pooled
  <2> QED BY <1>0, <1>1, <1>2, <2>1, <2>3 DEF Pooled
<1>4. Kept(k, C, DOMAIN C \ (G \cup ToSet(p)))
  <2> SUFFICES ASSUME NEW a \in DOMAIN C \ (G \cup ToSet(p)), NEW w \in WordsOf(a, C[a].size)
               PROVE  k.mem[w] = Content(C[a].owner, w - a)
    BY DEF Kept
  <2>1. CASE a = to
    BY <1>0, <1>1, <2>1
  <2>2. CASE a # to
    <3>1. a \in DOMAIN E /\ a \in DOMAIN B \ (G \cup ToSet(p)) /\ C[a] = B[a] /\ C[a] = E[a]
      BY <1>0, <1>1, <2>2
    <3>2. h.mem[w] = Content(B[a].owner, w - a)
      BY <3>1 DEF Sound, Kept
    <3>3. w \in Words /\ w \in Taken(E)
      <4>1. a \in Int /\ E[a].size \in Nat \ {0} /\ Bytes(a, E[a].size) \subseteq Taken(E)
        BY <1>0, <3>1, TakenIs
      <4> QED BY <1>0, <1>1, <3>1, <4>1, WordsAreBytes, WordsOfIs
    <3> QED BY <1>0, <3>1, <3>2, <3>3
  <2> QED BY <2>1, <2>2
<1>5. Sound(k, C, G, p)
  BY <1>0, <1>1, <1>3, <1>4 DEF Sound
<1> QED BY <1>1, <1>5 DEF C

\* Filling a block leaves the list as it is.
Over(at, size, kept) == {w \in WordsOf(at, size) : w - at >= kept}

LEMMA FilledKeeps ==
  ASSUME NEW h \in HeapTypes, NEW T, FreeList(h.mem), FreeBytes(h.mem) = Bytewise \ T,
         NEW at \in Int, NEW size, NEW owner \in Owners \cup {Nobody}, NEW kept, NEW g,
         Filled(g, h, at, size, owner, kept),
         Over(at, size, kept) \subseteq T
  PROVE  Written(g, h, Over(at, size, kept))
<1> DEFINE X == Over(at, size, kept)
<1>1. h.mem \in Memories /\ g.mem \in Memories
  BY HeapIs DEF Filled
<1>2. X \subseteq Words /\ X \cap FreeBytes(h.mem) = {}
  BY WordsOfIs DEF Over
<1>3. \A w \in X : g.mem[w] \in Contents \cup {Junk}
  <2>1. \A w \in X : g.mem[w] = Content(owner, w - at) /\ w - at \in Int
    BY WordsOfIs DEF Filled, Over
  <2>2. \A i \in Int : Content(owner, i) \in Contents
    BY DEF Content, Contents
  <2> QED BY <2>1, <2>2
<1>4. \A w \in Words \cup {First} : w \notin X => g.mem[w] = h.mem[w]
  BY DEF Filled, Over
<1> HIDE DEF X
<1>5. Rewritten(g.mem, h.mem, X)
  BY <1>1, <1>2, <1>3, <1>4 DEF Rewritten, Memories
<1> QED BY <1>5 DEF Written, Filled, X

\* A block for an owner that asked for one.
LEMMA SoundNew ==
  ASSUME NEW h, NEW B, NEW G, NEW p, Sound(h, B, G, p),
         NEW blk \in Block, blk.chunk => blk.size = Alignment,
         NEW r, Allocated(r, h, Taken(B), blk.size)
  PROVE  LET k == Fill(r.heap, r.at, blk.size, blk.owner, 0)
             C == WithBlock(B, r.at, blk)
         IN  /\ Sound(k, C, G, p)
             /\ k.allocated = r.heap.allocated /\ k.limit = r.heap.limit
             /\ Cardinality(Taken(C)) = Cardinality(Taken(B)) + Aligned(blk.size)
<1> DEFINE at == r.at
           size == blk.size
           k == Fill(r.heap, at, size, blk.owner, 0)
           T == Taken(B) \cup Bytes(at, size)
<1>1. /\ size \in Nat \ {0} /\ blk.owner \in Owners \cup {Nobody}
      /\ at \in Words /\ at \in Int /\ Bytes(at, size) \subseteq Bytewise \ Taken(B)
      /\ Layout(r.heap, T) /\ r.heap \in HeapTypes
      /\ \A w \in Words : w \notin FreeBytes(h.mem) => r.heap.mem[w] = h.mem[w]
  BY WordIs DEF Block, Allocated, Bytes, Multiple, Layout
<1> HIDE DEF at, size
<1>2. Filled(k, r.heap, at, size, blk.owner, 0)
  BY <1>1, FillIs
<1> HIDE DEF k
<1>3. WordsOf(at, size) \subseteq Bytes(at, size) /\ \A w \in WordsOf(at, size) : w - at >= 0
  BY <1>1, WordsAreBytes, WordsOfIs
<1>4. Layout(k, T)
  <2>1. FreeList(r.heap.mem) /\ FreeBytes(r.heap.mem) = Bytewise \ T
    BY <1>1 DEF Layout
  <2>2. Over(at, size, 0) \subseteq T
    BY <1>3 DEF Over
  <2> HIDE DEF T
  <2>3. Written(k, r.heap, Over(at, size, 0))
    BY <1>1, <1>2, <2>1, <2>2, FilledKeeps, Zenon
  <2> QED BY <1>1, <2>3, WrittenKeeps
<1>5. \A w \in WordsOf(at, size) : k.mem[w] = Content(blk.owner, w - at)
  BY <1>2, <1>3 DEF Filled
<1>6. \A w \in Words : w \in Taken(B) => k.mem[w] = h.mem[w]
  <2> SUFFICES ASSUME NEW w \in Words, w \in Taken(B) PROVE k.mem[w] = h.mem[w]
    OBVIOUS
  <2>1. w \notin FreeBytes(h.mem) /\ w \notin WordsOf(at, size)
    BY <1>1, <1>3, SoundFacts
  <2> QED BY <1>1, <1>2, <2>1 DEF Filled
<1>7. /\ Placed(B) /\ G \cup ToSet(p) \subseteq DOMAIN B
  BY DEF Sound, Pooled, ToSet
<1>8. /\ Sound(k, WithBlock(B, at, blk), G, p)
      /\ Cardinality(Taken(WithBlock(B, at, blk))) = Cardinality(Taken(B)) + Aligned(size)
  <2>1. Staying(B, B, G \cup ToSet(p))
    BY <1>7 DEF Staying
  <2>2. Arriving(k, h, B, at, blk)
    BY <1>1, <1>4, <1>5, <1>6 DEF Arriving, size
  <2> QED BY <2>1, <2>2, SoundPlace DEF size
<1> QED BY <1>2, <1>8 DEF Filled, k, at, size

\* A block that realloc moves.
LEMMA SoundMoved ==
  ASSUME NEW h, NEW B, NEW G, NEW p, Sound(h, B, G, p),
         NEW from \in DOMAIN B, from \notin G \cup ToSet(p),
         NEW blk \in Block, blk.chunk => blk.size = Alignment, blk.owner = B[from].owner,
         Aligned(B[from].size) < Aligned(blk.size),
         NEW r, Allocated(r, h, Taken(B), blk.size)
  PROVE  LET old == B[from].size
             copied == Fill(Copy(r.heap, from, r.at, old), r.at, blk.size, blk.owner, Aligned(old))
             k == InsertBlock(Wipe(copied, from, old), from, FindPrev(r.heap, from), Aligned(old))
             C == WithBlock(WithoutBlock(B, from), r.at, blk)
         IN  /\ Sound(k, C, G, p)
             /\ k.allocated = r.heap.allocated /\ k.limit = r.heap.limit
             /\ Cardinality(Taken(C)) + Aligned(old) = Cardinality(Taken(B)) + Aligned(blk.size)
<1> DEFINE at == r.at
           g == r.heap
           size == blk.size
           old == B[from].size
           n == Aligned(old)
           new == Bytes(at, size)
           gone == Bytes(from, old)
           T == Taken(B) \cup new
           copied == Fill(Copy(g, from, at, old), at, size, blk.owner, Aligned(old))
           wiped == Wipe(copied, from, old)
           k == InsertBlock(wiped, from, FindPrev(g, from), n)
           E == WithoutBlock(B, from)
           C == WithBlock(E, at, blk)
<1>1. /\ size \in Nat \ {0} /\ blk.owner \in Owners \cup {Nobody} /\ blk.chunk \in BOOLEAN
      /\ at \in Words /\ at \in Int /\ new \subseteq Bytewise \ Taken(B)
      /\ Layout(g, T) /\ g \in HeapTypes /\ Placed(B) /\ h \in HeapTypes
      /\ \A w \in Words : w \notin FreeBytes(h.mem) => g.mem[w] = h.mem[w]
  BY WordIs, SoundFacts DEF Block, Allocated, Bytes, Multiple, Layout
<1>2. /\ old \in Nat \ {0} /\ from \in Words /\ from \in Int /\ n \in Nat /\ n > 0 /\ Multiple(n)
      /\ from + n <= HeapSize /\ gone \subseteq Taken(B) /\ Aligned(size) \in Nat /\ Aligned(size) > 0
      /\ B[from].owner = blk.owner
  BY <1>1, TakenIs, AlignedIs, ConstantTypes
<1>3. /\ Placed(E) /\ DOMAIN E = DOMAIN B \ {from} /\ \A a \in DOMAIN E : E[a] = B[a]
      /\ Taken(E) = Taken(B) \ gone
      /\ Cardinality(Taken(B)) = Cardinality(Taken(E)) + n
  BY <1>1, RemoveBlock
<1> HIDE DEF at, g, size, old, n, E
<1>4. at + Aligned(size) <= HeapSize
  <2>1. at + Aligned(size) - 1 \in new
    <3>1. \A b : b \in new <=> b \in Int /\ at <= b /\ b < at + Aligned(size)
      BY <1>1, BytesAre
    <3> QED BY <1>1, <1>2, <3>1
  <2>2. at + Aligned(size) - 1 <= HeapSize - 1
    BY <1>1, <2>1, ConstantTypes DEF Bytewise
  <2> QED BY <1>1, <1>2, <2>2, ConstantTypes
<1>5. \A w \in WordsOf(from, old) : g.mem[w] = Content(blk.owner, w - from) /\ w \in gone
  <2> SUFFICES ASSUME NEW w \in WordsOf(from, old)
               PROVE  g.mem[w] = Content(blk.owner, w - from) /\ w \in gone
    OBVIOUS
  <2>1. h.mem[w] = Content(blk.owner, w - from)
    BY <1>2 DEF Sound, Kept, old
  <2>2. w \in Words /\ w \notin FreeBytes(h.mem) /\ w \in gone
    BY <1>2, SoundFacts, WordsOfIs, WordsAreBytes DEF old
  <2> QED BY <1>1, <2>1, <2>2
<1>6. Filled(copied, g, at, size, blk.owner, 0)
  <2>1. Aligned(old) <= Aligned(size) /\ from + Aligned(old) <= HeapSize
    BY <1>2 DEF old, n, size
  <2>2. \A w \in WordsOf(from, old) : g.mem[w] = Content(blk.owner, w - from)
    BY <1>5
  <2> QED BY <1>1, <1>2, <1>4, <2>1, <2>2, CopyIs, Zenon
<1> HIDE DEF copied
<1>7. /\ WordsOf(at, size) \subseteq new /\ \A w \in WordsOf(at, size) : w - at >= 0
      /\ WordsOf(from, old) \subseteq gone /\ new \cap gone = {}
  <2>1. WordsOf(at, size) \subseteq new /\ \A w \in WordsOf(at, size) : w - at >= 0
    BY <1>1, WordsAreBytes, WordsOfIs
  <2> QED BY <1>1, <1>2, <1>5, <2>1
<1>8. Written(copied, g, Over(at, size, 0)) /\ Layout(copied, T)
  <2>1. FreeList(g.mem) /\ FreeBytes(g.mem) = Bytewise \ T
    BY <1>1 DEF Layout
  <2>2. Over(at, size, 0) \subseteq T
    BY <1>7 DEF Over
  <2> HIDE DEF T
  <2>3. Written(copied, g, Over(at, size, 0))
    BY <1>1, <1>6, <2>1, <2>2, FilledKeeps, Zenon
  <2> QED BY <1>1, <2>3, WrittenKeeps
<1>9. /\ Written(wiped, copied, WordsOf(from, old)) /\ Layout(wiped, T)
      /\ \A w \in Words \cup {First} : w \notin WordsOf(from, old) => wiped.mem[w] = copied.mem[w]
  <2>1. WordsOf(from, old) \subseteq T
    BY <1>2, <1>7
  <2> QED BY <1>8, <2>1, WipeIs
<1> HIDE DEF wiped
<1> DEFINE X == Over(at, size, 0) \cup WordsOf(from, old)
<1>10. wiped \in HeapTypes /\ Rewritten(wiped.mem, g.mem, X)
  <2>1. Rewritten(copied.mem, g.mem, Over(at, size, 0))
        /\ Rewritten(wiped.mem, copied.mem, WordsOf(from, old))
    BY <1>8, <1>9 DEF Written
  <2>2. FreeBytes(copied.mem) = FreeBytes(g.mem)
    BY <1>1, <1>8 DEF Layout
  <2> QED BY <1>9, <2>1, <2>2 DEF Rewritten, Written
<1>11. Returned(k, wiped, T, from .. (from + n - 1))
  <2>1. \A b \in Int : from <= b /\ b < from + n => b \in T
    BY <1>2, BytesAre DEF n
  <2>2. from <= from /\ 0 < n
    BY <1>2
  <2> HIDE DEF X, T
  <2> QED BY <1>1, <1>2, <1>10, <2>1, <2>2, GiveBack, Zenon
<1> HIDE DEF k
<1>12. T \ (from .. (from + n - 1)) = Taken(E) \cup new
  <2>1. from .. (from + n - 1) = gone
    BY DEF Bytes, n
  <2> QED BY <1>3, <1>7, <2>1
<1>13. Layout(k, Taken(E) \cup new)
  BY <1>11, <1>12 DEF Returned
<1>14. \A w \in Words : w \in Taken(E) \cup new => k.mem[w] = copied.mem[w]
  <2> SUFFICES ASSUME NEW w \in Words, w \in Taken(E) \cup new PROVE k.mem[w] = copied.mem[w]
    OBVIOUS
  <2>1. w \notin FreeBytes(k.mem)
    BY <1>13 DEF Layout
  <2>2. w \notin WordsOf(from, old)
    BY <1>3, <1>7
  <2> QED BY <1>9, <1>11, <2>1, <2>2 DEF Returned
<1>15. \A w \in WordsOf(at, size) : k.mem[w] = Content(blk.owner, w - at)
  <2>1. \A w \in WordsOf(at, size) : w \in Words /\ w \in new /\ w - at >= 0
    BY <1>7, WordsOfIs
  <2> QED BY <1>6, <1>14, <2>1 DEF Filled
<1>16. \A w \in Words : w \in Taken(E) => k.mem[w] = h.mem[w]
  <2> SUFFICES ASSUME NEW w \in Words, w \in Taken(E) PROVE k.mem[w] = h.mem[w]
    OBVIOUS
  <2>1. w \in Taken(B) /\ w \notin FreeBytes(h.mem) /\ w \notin WordsOf(at, size)
    BY <1>1, <1>3, <1>7, SoundFacts
  <2> QED BY <1>1, <1>6, <1>14, <2>1 DEF Filled
<1>17. G \cup ToSet(p) \subseteq DOMAIN E
  BY <1>3 DEF Sound, Pooled, ToSet
<1>18. new \subseteq Bytewise \ Taken(E)
  BY <1>1, <1>3
<1>19. /\ Sound(k, C, G, p)
       /\ Cardinality(Taken(C)) = Cardinality(Taken(E)) + Aligned(size)
  <2>1. Staying(E, B, G \cup ToSet(p))
    BY <1>3, <1>17 DEF Staying
  <2>2. Arriving(k, h, E, at, blk)
    BY <1>1, <1>13, <1>15, <1>16, <1>18 DEF Arriving, size
  <2>3. /\ Sound(k, WithBlock(E, at, blk), G, p)
        /\ Cardinality(Taken(WithBlock(E, at, blk))) = Cardinality(Taken(E)) + Aligned(blk.size)
    BY <2>1, <2>2, SoundPlace
  <2> QED BY <2>3 DEF size
<1>20. k.allocated = g.allocated /\ k.limit = g.limit
  BY <1>8, <1>9, <1>11 DEF Returned, Written
<1>21. Cardinality(Taken(C)) + n = Cardinality(Taken(B)) + Aligned(size)
  <2>1. Cardinality(Taken(E)) \in Nat /\ Cardinality(Taken(B)) \in Nat
    BY <1>1, <1>3, TakenIs
  <2> HIDE DEF C
  <2> QED BY <1>2, <1>3, <1>19, <2>1
<1> QED BY <1>19, <1>20, <1>21 DEF k, copied, wiped, E, g, at, size, old, n

\* A block gets a new size in place: its record goes and comes back.
LEMMA ResizeIs ==
  ASSUME NEW B, Placed(B), NEW at \in DOMAIN B, NEW size \in Nat \ {0}
  PROVE  LET r == [B[at] EXCEPT !.size = size]
         IN  /\ [B EXCEPT ![at].size = size] = WithBlock(WithoutBlock(B, at), at, r)
             /\ r \in Block /\ r.size = size /\ r.owner = B[at].owner /\ r.chunk = B[at].chunk
<1> DEFINE r == [B[at] EXCEPT !.size = size]
           E == WithoutBlock(B, at)
<1>1. B \in [DOMAIN B -> Block]
  BY DEF Placed
<1>2. r \in Block /\ r.size = size /\ r.owner = B[at].owner /\ r.chunk = B[at].chunk
  BY <1>1 DEF Block
<1>3. DOMAIN E = DOMAIN B \ {at} /\ \A a \in DOMAIN E : E[a] = B[a]
  BY RemoveBlock
<1> HIDE DEF r, E
<1>4. WithBlock(E, at, r) = [a \in DOMAIN B |-> IF a = at THEN r ELSE B[a]]
  BY <1>3 DEF WithBlock
<1>5. [B EXCEPT ![at].size = size] = [a \in DOMAIN B |-> IF a = at THEN r ELSE B[a]]
  BY <1>1 DEF r
<1>6. [B EXCEPT ![at].size = size] = WithBlock(E, at, r)
  BY <1>4, <1>5
<1> QED BY <1>2, <1>6 DEF r, E

\* A block gives its last words back.
Shrinks(k, C, h, B, G, p, n) ==
  /\ Sound(k, C, G, p) /\ Within(k, 0) /\ k.allocated = h.allocated - n
  /\ Cardinality(Taken(B)) = Cardinality(Taken(C)) + n

LEMMA SoundShrunk ==
  ASSUME NEW h, NEW B, NEW G, NEW p, Sound(h, B, G, p), Within(h, 0),
         NEW at \in DOMAIN B, at \notin G \cup ToSet(p), ~ B[at].chunk,
         NEW size \in Nat \ {0}, Aligned(size) <= Aligned(B[at].size)
  PROVE  LET old == Aligned(B[at].size)
             new == Aligned(size)
             i == InsertBlock(Wipe(h, at + new, old - new), at + new, FindPrev(h, at), old - new)
             k == IF new = old THEN h ELSE LowerLimit([i EXCEPT !.allocated = @ - (old - new)])
             C == [B EXCEPT ![at].size = size]
         IN  Shrinks(k, C, h, B, G, p, old - new)
<1> DEFINE old == Aligned(B[at].size)
           new == Aligned(size)
           n == old - new
           tail == at + new
           w1 == Wipe(h, tail, n)
           i == InsertBlock(w1, tail, FindPrev(h, at), n)
           j == [i EXCEPT !.allocated = @ - n]
           k == IF new = old THEN h ELSE LowerLimit(j)
           C == [B EXCEPT ![at].size = size]
           E == WithoutBlock(B, at)
           r == [B[at] EXCEPT !.size = size]
           T == Taken(B)
<1>1. /\ Layout(h, T) /\ Placed(B) /\ h \in HeapTypes
      /\ h.allocated \in Int /\ h.limit \in Int
  BY SoundFacts, HeapIs
<1>2. /\ B[at].size \in Nat \ {0} /\ at \in Words /\ at \in Int /\ 0 <= at /\ Multiple(at)
      /\ old \in Nat /\ old > 0 /\ Multiple(old) /\ at + old <= HeapSize
      /\ Bytes(at, B[at].size) \subseteq T
  BY <1>1, TakenIs
<1>3. new \in Nat /\ new > 0 /\ Multiple(new)
  BY AlignedIs, ConstantTypes
<1>4. /\ C = WithBlock(E, at, r) /\ r \in Block /\ r.size = size /\ r.owner = B[at].owner
      /\ ~ r.chunk
  BY <1>1, ResizeIs
<1>5. /\ Placed(E) /\ DOMAIN E = DOMAIN B \ {at} /\ \A a \in DOMAIN E : E[a] = B[a]
      /\ Taken(E) = T \ Bytes(at, B[at].size)
      /\ Cardinality(T) = Cardinality(Taken(E)) + old
  BY <1>1, RemoveBlock
<1> HIDE DEF old, new, C, E, r, T
<1>6. /\ \A b : b \in Bytes(at, B[at].size) <=> b \in Int /\ at <= b /\ b < at + old
      /\ \A b : b \in Bytes(at, size) <=> b \in Int /\ at <= b /\ b < at + new
  BY <1>2, BytesAre DEF old, new
<1>7. Bytes(at, size) \subseteq Bytes(at, B[at].size) /\ new <= old
  BY <1>2, <1>3, <1>6 DEF old, new
<1>8. ASSUME NEW g, Layout(g, Taken(E) \cup Bytes(at, size)),
             \A w \in Words : w \in Taken(E) \cup Bytes(at, size) => g.mem[w] = h.mem[w]
      PROVE  Sound(g, C, G, p) /\ Cardinality(Taken(C)) = Cardinality(Taken(E)) + new
  <2>1. DOMAIN E \subseteq DOMAIN B /\ G \cup ToSet(p) \subseteq DOMAIN E
    BY <1>5 DEF Sound, Pooled, ToSet
  <2>2. Bytes(at, r.size) \subseteq Bytewise \ Taken(E)
    <3>1. T \subseteq Bytewise
      BY <1>1, TakenIs DEF T
    <3> QED BY <1>2, <1>4, <1>5, <1>7, <3>1
  <2>3. \A w \in WordsOf(at, r.size) : g.mem[w] = Content(r.owner, w - at)
    <3> SUFFICES ASSUME NEW w \in WordsOf(at, size) PROVE g.mem[w] = Content(B[at].owner, w - at)
      BY <1>4
    <3>1. w \in Words /\ w \in Bytes(at, size) /\ w \in Bytes(at, B[at].size)
      BY <1>2, <1>7, WordsOfIs, WordsAreBytes
    <3>2. w \in WordsOf(at, B[at].size)
      BY <1>6, <3>1, WordIs, WordsOfIs DEF old
    <3>3. h.mem[w] = Content(B[at].owner, w - at)
      BY <3>2 DEF Sound, Kept
    <3> QED BY <1>8, <3>1, <3>3
  <2>4. Layout(g, Taken(E) \cup Bytes(at, r.size))
    BY <1>4, <1>8
  <2>5. \A w \in Words : w \in Taken(E) => g.mem[w] = h.mem[w]
    BY <1>8
  <2>6. /\ Sound(g, WithBlock(E, at, r), G, p)
        /\ Cardinality(Taken(WithBlock(E, at, r))) = Cardinality(Taken(E)) + Aligned(r.size)
    <3>1. Staying(E, B, G \cup ToSet(p))
      BY <1>5, <2>1 DEF Staying
    <3>2. Arriving(g, h, E, at, r)
      BY <1>2, <1>4, <2>2, <2>3, <2>4, <2>5 DEF Arriving
    <3> QED BY <3>1, <3>2, SoundPlace
  <2> QED BY <1>4, <2>6 DEF new
<1>9. Cardinality(Taken(E)) \in Nat /\ Cardinality(T) \in Nat
  BY <1>1, <1>5, TakenIs DEF T
<1>10. CASE new = old
  <2>1. Taken(E) \cup Bytes(at, size) = T
    <3>1. Bytes(at, size) = Bytes(at, B[at].size)
      BY <1>6, <1>10
    <3> QED BY <1>2, <1>5, <3>1
  <2>2. Sound(h, C, G, p) /\ Cardinality(Taken(C)) = Cardinality(Taken(E)) + new
    BY <1>1, <1>8, <2>1
  <2>3. k = h
    BY <1>10
  <2> HIDE DEF k
  <2> QED BY <1>1, <1>2, <1>3, <1>5, <1>9, <1>10, <2>2, <2>3 DEF Shrinks, k, C, T, old, new
<1>11. CASE new # old
  <2>1. n \in Nat /\ n > 0 /\ Multiple(n) /\ n \in Nat \ {0} /\ tail + n = at + old /\ tail \in Int
    <3>1. Multiple(n)
      BY <1>2, <1>3, Multiples
    <3> QED BY <1>2, <1>3, <1>7, <1>11, <3>1
  <2>2. tail \in Words /\ Multiple(tail) /\ at < tail
    <3>1. Multiple(tail)
      BY <1>2, <1>3, Multiples
    <3>2. 0 <= tail /\ tail < HeapSize /\ at < tail
      BY <1>2, <1>3, <2>1, ConstantTypes
    <3> QED BY <3>1, <3>2, WordIs, Zenon
  <2>3. k = LowerLimit(j)
    BY <1>11
  <2> HIDE DEF k, j, n, tail
  <2>4. Aligned(n) = n
    BY <2>1, AlignedIs
  <2>5. WordsOf(tail, n) \subseteq T
    <3>1. \A w \in WordsOf(tail, n) : w \in Int /\ tail <= w /\ w < tail + n
      BY <2>4, WordsOfIs
    <3> QED BY <1>2, <1>6, <2>1, <2>2, <3>1
  <2>6. /\ Written(w1, h, WordsOf(tail, n))
        /\ \A w \in Words : w \notin WordsOf(tail, n) => w1.mem[w] = h.mem[w]
    BY <1>1, <2>5, WipeIs
  <2> HIDE DEF w1
  <2>7. Returned(i, w1, T, tail .. (tail + n - 1))
    <3>1. \A b \in Int : at <= b /\ b < tail + n => b \in T
      BY <1>2, <1>6, <2>1
    <3>2. at <= tail /\ 0 < n /\ tail + n <= HeapSize
      BY <1>2, <2>1, <2>2
    <3>3. w1 \in HeapTypes /\ Rewritten(w1.mem, h.mem, WordsOf(tail, n))
      BY <2>6 DEF Written
    <3> QED BY <1>1, <1>2, <2>1, <2>2, <3>1, <3>2, <3>3, GiveBack, Zenon
  <2> HIDE DEF i
  <2>8. T \ (tail .. (tail + n - 1)) = Taken(E) \cup Bytes(at, size)
    <3>1. \A b : b \in tail .. (tail + n - 1) <=> b \in Int /\ tail <= b /\ b < tail + n
      BY <2>1
    <3>2. \A b \in Bytes(at, B[at].size) : b \in tail .. (tail + n - 1) <=> b \notin Bytes(at, size)
      BY <1>2, <1>3, <1>6, <2>1, <3>1 DEF tail
    <3>3. tail .. (tail + n - 1) \subseteq Bytes(at, B[at].size)
      BY <1>2, <1>6, <2>1, <2>2, <3>1
    <3> QED BY <1>2, <1>5, <1>7, <3>2, <3>3
  <2>9. /\ i \in HeapTypes /\ i.allocated = h.allocated /\ i.limit = h.limit
        /\ Layout(i, Taken(E) \cup Bytes(at, size))
    BY <2>6, <2>7, <2>8 DEF Returned, Layout, Written
  <2>10. /\ j \in HeapTypes /\ j.mem = i.mem /\ j.skip = i.skip
         /\ j.allocated = h.allocated - n /\ j.limit = h.limit
    BY <1>1, <2>1, <2>9 DEF HeapTypes, j
  <2>11. /\ k \in HeapTypes /\ Within(k, 0) /\ k.mem = i.mem /\ k.skip = i.skip
         /\ k.allocated = h.allocated - n
    <3>1. j.allocated <= j.limit
      BY <1>1, <2>1, <2>10 DEF Within
    <3> QED BY <2>3, <2>10, <3>1, LowerLimitIs
  <2>12. Layout(k, Taken(E) \cup Bytes(at, size))
    BY <2>9, <2>11 DEF Layout
  <2>13. \A w \in Words : w \in Taken(E) \cup Bytes(at, size) => k.mem[w] = h.mem[w]
    <3> SUFFICES ASSUME NEW w \in Words, w \in Taken(E) \cup Bytes(at, size)
                 PROVE  k.mem[w] = h.mem[w]
      OBVIOUS
    <3>1. w \notin FreeBytes(k.mem) /\ w \notin tail .. (tail + n - 1)
      BY <2>8, <2>12 DEF Layout
    <3>2. w \notin WordsOf(tail, n)
      BY <2>1, <2>4, <3>1, WordsOfIs
    <3> QED BY <2>6, <2>7, <2>11, <3>1, <3>2 DEF Returned
  <2>14. Sound(k, C, G, p) /\ Cardinality(Taken(C)) = Cardinality(Taken(E)) + new
    BY <1>8, <2>12, <2>13
  <2>15. Cardinality(T) = Cardinality(Taken(C)) + n
    <3> HIDE DEF C
    <3> QED BY <1>2, <1>3, <1>5, <1>9, <2>14 DEF n
  <2> QED BY <2>11, <2>14, <2>15 DEF Shrinks, k, j, i, w1, tail, n, C, T, old, new
<1> QED BY <1>10, <1>11 DEF Shrinks, k, j, i, w1, tail, n, C, T, old, new
-----------------------------------------------------------------------------
(* A block that grows over the region after it or the one before it.       *)

\* Taking bytes off the back of a region.
TakenBack(g, h, q, n) ==
  LET end == q + h.mem[q].size
  IN  /\ g \in HeapTypes /\ g.allocated = h.allocated /\ g.limit = h.limit
      /\ FreeList(g.mem) /\ q \in Nodes(g.mem)
      /\ (end - n) .. (end - 1) \subseteq FreeBytes(h.mem)
      /\ FreeBytes(g.mem) = FreeBytes(h.mem) \ ((end - n) .. (end - 1))
      /\ \A w \in Words \cup {First} : w # q => g.mem[w] = h.mem[w]

LEMMA TakeBackKeeps ==
  ASSUME NEW h \in HeapTypes, FreeList(h.mem), NEW q \in Heads(h.mem),
         NEW n, Multiple(n), 0 < n, n < h.mem[q].size,
         NEW g, g = [h EXCEPT !.mem = [h.mem EXCEPT ![q].size = @ - n]]
  PROVE  TakenBack(g, h, q, n)
<1> DEFINE m == h.mem
           l == [m EXCEPT ![q].size = @ - n]
           end == q + m[q].size
           back == (end - n) .. (end - 1)
<1>1. /\ m \in [Words \cup {First} -> Headers \cup Contents \cup {Junk}]
      /\ q \in Nodes(m) /\ q \in Words /\ q \in Int /\ q # First /\ 0 <= q
  BY WordIs, ConstantTypes DEF FreeList, Memories, Nodes, Heads, Multiple
<1>2. /\ m[q] \in Headers /\ m[q].size \in Nat /\ Multiple(m[q].size) /\ m[q].next \in Nat
      /\ q + m[q].size <= HeapSize /\ q + m[q].size < m[q].next /\ n \in Int
      /\ m[q].size - n \in Nat /\ m[q].size - n # 0
  <2>1. /\ m[q] \in Headers /\ m[q].size \in Nat /\ Multiple(m[q].size) /\ m[q].next \in Nat
        /\ q + m[q].size <= HeapSize /\ q + m[q].size < m[q].next
    BY <1>1, NodeFacts
  <2>2. n \in Int
    BY DEF Multiple
  <2> QED BY <2>1, <2>2
<1>3. Multiple(m[q].size - n)
  BY <1>2, Multiples
<1> DEFINE less == [m[q] EXCEPT !.size = @ - n]
<1>4. less \in Headers /\ less.size = m[q].size - n /\ less.next = m[q].next
  BY <1>2 DEF Headers
<1>5. l = [m EXCEPT ![q] = less]
  OBVIOUS
<1>6. g = [h EXCEPT !.mem = l]
  BY HeapIs
<1> HIDE DEF l, less, m
<1>7. /\ l \in [Words \cup {First} -> Headers \cup Contents \cup {Junk}]
      /\ l[q] = less /\ \A w \in Words \cup {First} : w # q => l[w] = m[w]
  BY <1>1, <1>4, <1>5
<1>8. /\ g \in HeapTypes /\ g.mem = l /\ g.allocated = h.allocated /\ g.limit = h.limit
  BY <1>6, <1>7 DEF HeapTypes, Memories
<1>9. Heads(l) = Heads(m) /\ Nodes(l) = Nodes(m)
  <2>1. Heads(l) = Heads(m)
    BY <1>1, <1>2, <1>4, <1>7 DEF Heads
  <2> QED BY <2>1 DEF Nodes
<1>10. FreeList(l)
  <2>1. ASSUME NEW x \in Nodes(l) PROVE Linked(l, x)
    <3>1. Linked(m, x)
      BY <1>9 DEF FreeList, m
    <3>2. CASE x = q
      <4>1. q + (m[q].size - n) <= HeapSize /\ q + (m[q].size - n) < m[q].next
        BY <1>1, <1>2, ConstantTypes
      <4> QED BY <1>3, <1>4, <1>7, <1>9, <3>1, <3>2, <4>1 DEF Linked
    <3>3. CASE x # q
      BY <1>7, <1>9, <3>1, <3>3 DEF Linked, Nodes, Heads
    <3> QED BY <3>2, <3>3
  <2>2. \A r \in Heads(l) : l[r].size # 0
    <3> SUFFICES ASSUME NEW r \in Heads(m) PROVE l[r].size # 0
      BY <1>9
    <3>1. r \in Words /\ m[r].size # 0
      BY DEF FreeList, Heads, m
    <3> QED BY <1>2, <1>4, <1>7, <3>1
  <2>3. l[First].size = 0
    BY <1>1, <1>7 DEF FreeList, m
  <2> QED BY <1>7, <2>1, <2>2, <2>3 DEF FreeList, Memories
<1>11. \A b \in Int : end - n <= b /\ b < end =>
          b \in FreeBytes(m) /\ \A x \in Heads(m) : x <= b /\ b < x + m[x].size => x = q
  <2> SUFFICES ASSUME NEW b \in Int, end - n <= b, b < end
               PROVE  b \in FreeBytes(m) /\ \A x \in Heads(m) : x <= b /\ b < x + m[x].size => x = q
    OBVIOUS
  <2>1. q <= b /\ b < q + m[q].size
    BY <1>1, <1>2
  <2> QED BY <2>1, FreeByteIs DEF m
<1>12. \A b : b \in back <=> b \in Int /\ end - n <= b /\ b < end
  BY <1>1, <1>2
<1> HIDE DEF back
<1>13. FreeBytes(l) = FreeBytes(m) \ back
  <2>1. ASSUME NEW b \in FreeBytes(l) PROVE b \in FreeBytes(m) \ back
    <3>1. PICK x \in Heads(m) : b \in 0 .. HeapSize - 1 /\ x <= b /\ b < x + l[x].size
      BY <1>9 DEF FreeBytes
    <3>2. x \in Words /\ x \in Int /\ b \in Int
      BY <3>1, WordIs, ConstantTypes DEF Heads, Multiple
    <3>3. CASE x = q
      <4>1. b < q + (m[q].size - n)
        BY <1>4, <1>7, <3>1, <3>3
      <4>2. b \notin back /\ b < q + m[q].size
        BY <1>1, <1>2, <1>12, <3>2, <4>1
      <4> QED BY <3>1, <3>3, <4>2 DEF FreeBytes
    <3>4. CASE x # q
      <4>1. b < x + m[x].size
        BY <1>7, <3>1, <3>2, <3>4
      <4>2. b \notin back
        BY <1>11, <1>12, <3>1, <3>4, <4>1
      <4> QED BY <3>1, <4>1, <4>2 DEF FreeBytes
    <3> QED BY <3>3, <3>4
  <2>2. ASSUME NEW b \in FreeBytes(m), b \notin back PROVE b \in FreeBytes(l)
    <3>1. PICK x \in Heads(m) : b \in 0 .. HeapSize - 1 /\ x <= b /\ b < x + m[x].size
      BY DEF FreeBytes
    <3>2. x \in Words /\ b \in Int
      BY <3>1, ConstantTypes DEF Heads
    <3>3. b < x + l[x].size
      <4>1. CASE x = q
        BY <1>1, <1>2, <1>4, <1>7, <1>12, <2>2, <3>1, <3>2, <4>1
      <4>2. CASE x # q
        BY <1>7, <3>1, <3>2, <4>2
      <4> QED BY <4>1, <4>2
    <3> QED BY <1>9, <3>1, <3>3 DEF FreeBytes
  <2> QED BY <2>1, <2>2
<1>14. back \subseteq FreeBytes(m)
  BY <1>11, <1>12
<1> QED BY <1>1, <1>7, <1>8, <1>9, <1>10, <1>13, <1>14 DEF TakenBack, l, m, back

LEMMA GrownIs ==
  ASSUME NEW g \in HeapTypes, NEW T, FreeList(g.mem), FreeBytes(g.mem) = Bytewise \ T,
         NEW prev \in Nodes(g.mem), NEW n \in Nat, Within(g, 0)
  PROVE  LET k == RaiseLimit([g EXCEPT !.skip = prev, !.allocated = @ + n])
         IN  /\ Layout(k, T) /\ Within(k, 0) /\ k.mem = g.mem
             /\ k.allocated = g.allocated + n
<1> DEFINE j == [g EXCEPT !.skip = prev, !.allocated = @ + n]
<1>1. prev \in Int /\ g.allocated \in Int /\ g.limit \in Int /\ GCLimit \in Nat
  BY NodeFacts, HeapIs, ConstantTypes DEF Multiple
<1>2. /\ j \in HeapTypes /\ j.mem = g.mem /\ j.skip = prev /\ j.allocated = g.allocated + n
      /\ j.limit = g.limit
  <2>1. j = [g EXCEPT !.skip = prev, !.allocated = @ + n]
    OBVIOUS
  <2> HIDE DEF j
  <2>2. j = [mem |-> g.mem, skip |-> prev, allocated |-> g.allocated + n, limit |-> g.limit]
    BY <2>1 DEF HeapTypes
  <2>3. g.allocated + n \in Int /\ g.mem \in Memories
    BY <1>1, HeapIs
  <2> QED BY <1>1, <2>2, <2>3 DEF HeapTypes
<1> HIDE DEF j
<1>3. j.limit <= j.allocated + 0 + GCLimit
  BY <1>1, <1>2 DEF Within
<1>4. /\ RaiseLimit(j) \in HeapTypes /\ Within(RaiseLimit(j), 0)
      /\ RaiseLimit(j).mem = j.mem /\ RaiseLimit(j).skip = j.skip
      /\ RaiseLimit(j).allocated = j.allocated
  BY <1>2, <1>3, RaiseLimitIs
<1>5. Layout(RaiseLimit(j), T)
  BY <1>2, <1>4 DEF Layout
<1> QED BY <1>2, <1>4, <1>5 DEF j

\* The block at `at` is to be found at `to` with a new size: the list f has given up
\* the bytes for it, and in g the block has its contents.
Enlarged(g, f, h, E, to, r, prev) ==
  /\ to \in Words /\ r \in Block /\ ~ r.chunk
  /\ Bytes(to, r.size) \subseteq Bytewise \ Taken(E)
  /\ f \in HeapTypes /\ FreeList(f.mem) /\ prev \in Nodes(f.mem)
  /\ FreeBytes(f.mem) = Bytewise \ (Taken(E) \cup Bytes(to, r.size))
  /\ f.allocated = h.allocated /\ f.limit = h.limit
  /\ \A w \in Words : w \in Taken(E) => f.mem[w] = h.mem[w]
  /\ \E kept : Filled(g, f, to, r.size, r.owner, kept)
  /\ \A w \in WordsOf(to, r.size) : g.mem[w] = Content(r.owner, w - to)

Grows(k, C, h, B, G, p, n) ==
  /\ Sound(k, C, G, p) /\ Within(k, 0) /\ k.allocated = h.allocated + n
  /\ Cardinality(Taken(C)) = Cardinality(Taken(B)) + n

LEMMA SoundGrown ==
  ASSUME NEW h, NEW B, NEW G, NEW p, Sound(h, B, G, p), Within(h, 0),
         NEW at \in DOMAIN B, at \notin G \cup ToSet(p),
         NEW to, NEW r, NEW f, NEW g, NEW prev,
         Enlarged(g, f, h, WithoutBlock(B, at), to, r, prev),
         NEW n \in Nat, Aligned(r.size) = Aligned(B[at].size) + n
  PROVE  LET k == RaiseLimit([g EXCEPT !.skip = prev, !.allocated = @ + n])
             C == WithBlock(WithoutBlock(B, at), to, r)
         IN  Grows(k, C, h, B, G, p, n)
<1> DEFINE E == WithoutBlock(B, at)
           C == WithBlock(E, to, r)
           k == RaiseLimit([g EXCEPT !.skip = prev, !.allocated = @ + n])
           size == r.size
           T == Taken(E) \cup Bytes(to, size)
<1>1. Layout(h, Taken(B)) /\ Placed(B) /\ h \in HeapTypes
  BY SoundFacts
<1>2. /\ Placed(E) /\ DOMAIN E = DOMAIN B \ {at} /\ \A a \in DOMAIN E : E[a] = B[a]
      /\ Cardinality(Taken(B)) = Cardinality(Taken(E)) + Aligned(B[at].size)
      /\ Cardinality(Taken(E)) \in Nat /\ Cardinality(Taken(B)) \in Nat
      /\ Aligned(B[at].size) \in Nat
  <2>1. /\ Placed(E) /\ DOMAIN E = DOMAIN B \ {at} /\ \A a \in DOMAIN E : E[a] = B[a]
        /\ Cardinality(Taken(B)) = Cardinality(Taken(E)) + Aligned(B[at].size)
    BY <1>1, RemoveBlock
  <2> QED BY <1>1, <2>1, TakenIs
<1> HIDE DEF E
<1>3. /\ to \in Words /\ r \in Block /\ ~ r.chunk
      /\ Bytes(to, size) \subseteq Bytewise \ Taken(E)
      /\ f \in HeapTypes /\ FreeList(f.mem) /\ prev \in Nodes(f.mem)
      /\ FreeBytes(f.mem) = Bytewise \ T
      /\ f.allocated = h.allocated /\ f.limit = h.limit
      /\ \A w \in Words : w \in Taken(E) => f.mem[w] = h.mem[w]
      /\ \A w \in WordsOf(to, size) : g.mem[w] = Content(r.owner, w - to)
  BY DEF Enlarged, E
<1>4. PICK kept : Filled(g, f, to, size, r.owner, kept)
  BY DEF Enlarged
<1>5. to \in Int /\ size \in Nat \ {0} /\ r.owner \in Owners \cup {Nobody}
  BY <1>3, WordIs DEF Block, Multiple
<1>6. WordsOf(to, size) \subseteq Bytes(to, size) /\ Over(to, size, kept) \subseteq WordsOf(to, size)
  BY <1>5, WordsAreBytes DEF Over
<1> HIDE DEF size
<1>7. Written(g, f, Over(to, size, kept))
  <2>1. Over(to, size, kept) \subseteq T
    BY <1>6
  <2> HIDE DEF T
  <2> QED BY <1>3, <1>4, <1>5, <2>1, FilledKeeps, Zenon
<1>8. /\ g \in HeapTypes /\ FreeList(g.mem) /\ prev \in Nodes(g.mem)
      /\ FreeBytes(g.mem) = Bytewise \ T
      /\ g.allocated = h.allocated /\ g.limit = h.limit
  <2>1. Rewritten(g.mem, f.mem, Over(to, size, kept))
    BY <1>7 DEF Written
  <2>2. FreeList(g.mem) /\ FreeBytes(g.mem) = FreeBytes(f.mem) /\ Nodes(g.mem) = Nodes(f.mem)
    BY <1>3, <2>1, WriteKeeps
  <2> QED BY <1>3, <1>7, <2>2 DEF Written
<1>9. /\ Layout(k, T) /\ Within(k, 0) /\ k.mem = g.mem /\ k.allocated = h.allocated + n
  <2>1. Within(g, 0)
    BY <1>8 DEF Within
  <2> HIDE DEF T
  <2>2. Layout(k, T) /\ Within(k, 0) /\ k.mem = g.mem /\ k.allocated = g.allocated + n
    BY <1>8, <2>1, GrownIs
  <2> HIDE DEF k
  <2> QED BY <1>8, <2>2
<1> HIDE DEF k
<1>10. Arriving(k, h, E, to, r)
  <2>1. ASSUME NEW w \in Words, w \in Taken(E) PROVE k.mem[w] = h.mem[w]
    <3>1. w \notin WordsOf(to, size)
      BY <1>3, <1>6, <2>1
    <3> QED BY <1>3, <1>4, <1>9, <2>1, <3>1 DEF Filled
  <2> QED BY <1>3, <1>9, <2>1 DEF Arriving, size
<1>11. Staying(E, B, G \cup ToSet(p))
  <2>1. G \cup ToSet(p) \subseteq DOMAIN E
    BY <1>2 DEF Sound, Pooled, ToSet
  <2> QED BY <1>2, <2>1 DEF Staying
<1>12. Sound(k, C, G, p) /\ Cardinality(Taken(C)) = Cardinality(Taken(E)) + Aligned(size)
  BY <1>10, <1>11, SoundPlace DEF size
<1>13. Cardinality(Taken(C)) = Cardinality(Taken(B)) + n
  <2> HIDE DEF C
  <2>1. Aligned(size) = Aligned(B[at].size) + n
    BY DEF size
  <2> QED BY <1>2, <1>12, <2>1
<1> QED BY <1>9, <1>12, <1>13 DEF Grows, k, C, E

\* A block that takes over bytes of the region right after it.
LEMMA SoundExtended ==
  ASSUME NEW h, NEW B, NEW G, NEW p, Sound(h, B, G, p), Within(h, 0),
         NEW at \in DOMAIN B, at \notin G \cup ToSet(p), ~ B[at].chunk,
         NEW size \in Nat \ {0}, NEW n \in Nat, n > 0,
         Aligned(size) = Aligned(B[at].size) + n,
         NEW prev \in Nodes(h.mem), h.mem[prev].next = at + Aligned(B[at].size),
         n <= h.mem[h.mem[prev].next].size
  PROVE  LET g == Fill(TakeFront(h, prev, n), at, size, B[at].owner, Aligned(B[at].size))
             k == RaiseLimit([g EXCEPT !.skip = prev, !.allocated = @ + n])
             C == [B EXCEPT ![at].size = size]
         IN  Grows(k, C, h, B, G, p, n)
<1> DEFINE old == Aligned(B[at].size)
           next == h.mem[prev].next
           f == TakeFront(h, prev, n)
           g == Fill(f, at, size, B[at].owner, old)
           k == RaiseLimit([g EXCEPT !.skip = prev, !.allocated = @ + n])
           C == [B EXCEPT ![at].size = size]
           E == WithoutBlock(B, at)
           r == [B[at] EXCEPT !.size = size]
           X == next .. (next + n - 1)
<1>1. /\ Layout(h, Taken(B)) /\ Placed(B) /\ h \in HeapTypes
      /\ FreeList(h.mem) /\ FreeBytes(h.mem) = Bytewise \ Taken(B)
  BY SoundFacts DEF Layout
<1>2. /\ B[at].size \in Nat \ {0} /\ at \in Words /\ at \in Int /\ 0 <= at /\ Multiple(at)
      /\ old \in Nat /\ old > 0 /\ Multiple(old) /\ at + old <= HeapSize
      /\ Bytes(at, B[at].size) \subseteq Taken(B) /\ Taken(B) \subseteq Bytewise
      /\ B[at].owner \in Owners \cup {Nobody}
  BY <1>1, TakenIs
<1>3. /\ C = WithBlock(E, at, r) /\ r \in Block /\ r.size = size /\ r.owner = B[at].owner
      /\ ~ r.chunk
  BY <1>1, ResizeIs
<1>4. Taken(E) = Taken(B) \ Bytes(at, B[at].size)
  BY <1>1, RemoveBlock
<1> HIDE DEF old, C, E, r
<1>5. /\ \A b : b \in Bytes(at, B[at].size) <=> b \in Int /\ at <= b /\ b < at + old
      /\ \A b : b \in Bytes(at, size) <=> b \in Int /\ at <= b /\ b < at + (old + n)
  BY <1>2, BytesAre DEF old
<1>6. next = at + old /\ next # EndOfList
  BY <1>2, ConstantTypes DEF old
<1>7. Multiple(n)
  <2>1. Multiple(Aligned(size)) /\ Aligned(size) - old = n
    BY <1>2, AlignedIs DEF old
  <2>2. Multiple(Aligned(size) - old)
    BY <1>2, <2>1, Multiples, Zenon
  <2> QED BY <2>1, <2>2
<1>8. HandedOut(f, h, next, n, prev)
  <2>1. 0 < n /\ n <= h.mem[h.mem[prev].next].size /\ h.mem[prev].next # EndOfList
    BY <1>6
  <2> QED BY <1>1, <1>7, <2>1, TakeFrontKeeps, Zenon
<1> HIDE DEF next, f
<1>9. /\ f \in HeapTypes /\ f.allocated = h.allocated /\ f.limit = h.limit
      /\ FreeList(f.mem) /\ prev \in Nodes(f.mem)
      /\ X \subseteq FreeBytes(h.mem) /\ FreeBytes(f.mem) = FreeBytes(h.mem) \ X
      /\ \A w \in Words : w \notin FreeBytes(h.mem) => f.mem[w] = h.mem[w]
  BY <1>8 DEF HandedOut
<1>10. \A b : b \in X <=> b \in Int /\ at + old <= b /\ b < at + (old + n)
  BY <1>2, <1>6
<1> HIDE DEF X
<1>11. Bytes(at, size) = Bytes(at, B[at].size) \cup X
  <2>1. \A b : b \in Bytes(at, size) <=> b \in Bytes(at, B[at].size) \/ b \in X
    <3> SUFFICES ASSUME NEW b \in Int
                 PROVE  (at <= b /\ b < at + (old + n))
                          <=> (at <= b /\ b < at + old) \/ (at + old <= b /\ b < at + (old + n))
      BY <1>5, <1>10
    <3> QED BY <1>2
  <2> QED BY <2>1
<1>12. /\ Bytes(at, size) \subseteq Bytewise \ Taken(E)
       /\ FreeBytes(f.mem) = Bytewise \ (Taken(E) \cup Bytes(at, size))
  BY <1>1, <1>2, <1>4, <1>9, <1>11
<1>13. Filled(g, f, at, size, B[at].owner, old)
  BY <1>2, <1>9, FillIs
<1> HIDE DEF g
<1>14. ASSUME NEW w \in WordsOf(at, size) PROVE g.mem[w] = Content(B[at].owner, w - at)
  <2>1. CASE w - at >= old
    BY <1>13, <2>1 DEF Filled
  <2>2. CASE ~ (w - at >= old)
    <3>1. w \in Words /\ w \in Int /\ Multiple(w) /\ at <= w
      BY WordsOfIs
    <3>2. w \in WordsOf(at, B[at].size)
      BY <1>2, <2>2, <3>1, WordsOfIs DEF old
    <3>3. h.mem[w] = Content(B[at].owner, w - at)
      BY <3>2 DEF Sound, Kept
    <3>4. w \notin FreeBytes(h.mem)
      BY <3>2, SoundFacts
    <3> QED BY <1>9, <1>13, <2>2, <3>1, <3>3, <3>4 DEF Filled
  <2> QED BY <2>1, <2>2
<1>15. \A w \in Words : w \in Taken(E) => f.mem[w] = h.mem[w]
  BY <1>1, <1>4, <1>9
<1>16. Enlarged(g, f, h, E, at, r, prev)
  <2>1. \E kept : Filled(g, f, at, r.size, r.owner, kept)
    BY <1>3, <1>13
  <2> QED BY <1>2, <1>3, <1>9, <1>12, <1>14, <1>15, <2>1 DEF Enlarged
<1>17. Grows(k, C, h, B, G, p, n)
  <2>1. Aligned(r.size) = Aligned(B[at].size) + n
    BY <1>3
  <2>2. Enlarged(g, f, h, WithoutBlock(B, at), at, r, prev)
    BY <1>16 DEF E
  <2>3. Grows(k, WithBlock(WithoutBlock(B, at), at, r), h, B, G, p, n)
    BY <2>1, <2>2, SoundGrown
  <2> QED BY <1>3, <2>3 DEF E
<1> QED BY <1>17 DEF k, C, g, f, old

\* The list f has given up the n bytes from `to`; L may still have a header there.
FrontTaken(f, L, h, to, n, prev) ==
  /\ f \in HeapTypes /\ f.allocated = h.allocated /\ f.limit = h.limit
  /\ FreeList(f.mem) /\ prev \in Nodes(f.mem)
  /\ to .. (to + n - 1) \subseteq FreeBytes(h.mem)
  /\ FreeBytes(f.mem) = FreeBytes(h.mem) \ (to .. (to + n - 1))
  /\ L \in HeapTypes /\ L.skip = f.skip /\ L.allocated = h.allocated /\ L.limit = h.limit
  /\ \A w \in Words \cup {First} : w # to => L.mem[w] = f.mem[w]
  /\ \A w \in Words : w \notin FreeBytes(h.mem) => L.mem[w] = h.mem[w]

\* The whole region before the block is taken ...
LEMMA FrontWhole ==
  ASSUME NEW h, NEW T, Layout(h, T), NEW q \in Heads(h.mem)
  PROVE  LET prev == FindPrev(h, q)
             n == h.mem[q].size
             L == [h EXCEPT !.mem = [h.mem EXCEPT ![prev].next = h.mem[q].next]]
         IN  FrontTaken(TakeFront(h, prev, n), L, h, q, n, prev)
<1> DEFINE m == h.mem
           prev == FindPrev(h, q)
           n == m[q].size
           f == TakeFront(h, prev, n)
           l == [h.mem EXCEPT ![prev].next = h.mem[q].next]
           L == [h EXCEPT !.mem = l]
           old == m[q]
           new == [m[prev] EXCEPT !.next = old.next]
<1>1. /\ h \in HeapTypes /\ FreeList(m) /\ h.skip \in Nodes(m) \cup {EndOfList}
      /\ m \in [Words \cup {First} -> Headers \cup Contents \cup {Junk}]
  BY HeapIs DEF Layout, Memories
<1>2. /\ q \in Words /\ q \in Nodes(m) /\ q # First /\ q \in Int
      /\ m[q] \in Headers /\ n \in Nat /\ Multiple(n) /\ n >= Alignment /\ n > 0
      /\ m[q].next \in Nat
  <2>1. q \in Words /\ q \in Nodes(m) /\ q # First /\ q \in Int
    BY WordIs, ConstantTypes DEF Heads, Nodes, Multiple
  <2>2. /\ m[q] \in Headers /\ n \in Nat /\ Multiple(n) /\ n >= Alignment /\ m[q].next \in Nat
    BY <1>1, <2>1, NodeFacts
  <2> QED BY <2>1, <2>2, ConstantTypes
<1>3. prev \in Nodes(m) /\ prev < q /\ q <= m[prev].next
  BY <1>1, <1>2, FindPrevIs
<1> HIDE DEF prev
<1>4. /\ m[prev] \in Headers /\ m[prev].next \in Nat /\ prev \in Words \cup {First} /\ prev \in Int
      /\ q <= prev \/ m[prev].next <= q
  BY <1>1, <1>3, NodeFacts DEF Multiple
<1>5. m[prev].next = q /\ q # EndOfList /\ prev # q
  BY <1>2, <1>3, <1>4, WordIs, ConstantTypes
<1>6. HandedOut(f, h, q, n, prev)
  <2>1. HandedOut(f, h, m[prev].next, n, prev)
    <3>1. 0 < n /\ n <= m[m[prev].next].size /\ m[prev].next # EndOfList
      BY <1>2, <1>5
    <3> HIDE DEF n, f
    <3> QED BY <1>1, <1>2, <1>3, <3>1, TakeFrontKeeps, Zenon DEF f
  <2> QED BY <1>5, <2>1
<1>7. f.mem = [[m EXCEPT ![q] = Junk] EXCEPT ![prev].next = old.next]
  <2>1. ~ (m[q].size > n)
    BY <1>2
  <2> QED BY <1>1, <1>5, <2>1, HeapIs DEF TakeFront
<1>8. new \in Headers
  BY <1>2, <1>4 DEF Headers
<1>9. /\ l = [m EXCEPT ![prev] = new]
      /\ [[m EXCEPT ![q] = Junk] EXCEPT ![prev].next = old.next]
           = [[m EXCEPT ![q] = Junk] EXCEPT ![prev] = new]
  BY <1>1, <1>2, <1>4, <1>5
<1> HIDE DEF l, new, old, f, n
<1>10. /\ l \in [Words \cup {First} -> Headers \cup Contents \cup {Junk}]
       /\ \A w \in Words \cup {First} : w # prev => l[w] = m[w]
  BY <1>1, <1>4, <1>8, <1>9
<1>11. \A w \in Words \cup {First} : w # q => l[w] = f.mem[w]
  BY <1>1, <1>2, <1>4, <1>5, <1>7, <1>9
<1>12. L \in HeapTypes /\ L.mem = l /\ L.skip = h.skip /\ L.allocated = h.allocated /\ L.limit = h.limit
  BY <1>1, <1>10, HeapIs DEF HeapTypes, Memories
<1>13. ASSUME NEW w \in Words, w \notin FreeBytes(m) PROVE L.mem[w] = m[w]
  <2>1. CASE w = prev
    <3>1. prev # First
      BY <2>1, WordsOfIs
    <3>2. prev \in Heads(m) /\ Alignment <= m[prev].size /\ m[prev].size \in Nat
      BY <1>1, <1>3, <3>1, NodeFacts
    <3>3. prev < prev + m[prev].size
      BY <1>4, <3>2, ConstantTypes
    <3>4. prev \in FreeBytes(m)
      BY <1>1, <1>4, <3>2, <3>3, FreeByteIs
    <3> QED BY <1>13, <2>1, <3>4
  <2>2. CASE w # prev
    BY <1>10, <1>12, <2>2
  <2> QED BY <2>1, <2>2
<1> HIDE DEF L
<1>14. FrontTaken(f, L, h, q, n, prev)
  BY <1>6, <1>11, <1>12, <1>13 DEF FrontTaken, HandedOut
<1> QED BY <1>14 DEF f, L, l, n, prev

\* ... or its last bytes are.
LEMMA FrontPart ==
  ASSUME NEW h, NEW T, Layout(h, T), NEW q \in Heads(h.mem),
         NEW n, Multiple(n), 0 < n, n < h.mem[q].size
  PROVE  LET L == [h EXCEPT !.mem = [h.mem EXCEPT ![q].size = @ - n]]
         IN  FrontTaken(L, L, h, (q + h.mem[q].size) - n, n, q)
<1> DEFINE L == [h EXCEPT !.mem = [h.mem EXCEPT ![q].size = @ - n]]
           end == q + h.mem[q].size
<1>1. h \in HeapTypes /\ FreeList(h.mem)
  BY DEF Layout
<1>2. /\ q \in Words /\ q \in Nodes(h.mem) /\ q \in Int /\ h.mem[q].size \in Nat /\ n \in Int
  <2>1. q \in Words /\ q \in Nodes(h.mem) /\ q \in Int /\ n \in Int
    BY WordIs, ConstantTypes DEF Heads, Nodes, Multiple
  <2> QED BY <1>1, <2>1, NodeFacts
<1>3. /\ L \in HeapTypes /\ L.allocated = h.allocated /\ L.limit = h.limit
      /\ FreeList(L.mem) /\ q \in Nodes(L.mem)
      /\ (end - n) .. (end - 1) \subseteq FreeBytes(h.mem)
      /\ FreeBytes(L.mem) = FreeBytes(h.mem) \ ((end - n) .. (end - 1))
      /\ \A w \in Words \cup {First} : w # q => L.mem[w] = h.mem[w]
  <2>1. L = [h EXCEPT !.mem = [h.mem EXCEPT ![q].size = @ - n]]
    OBVIOUS
  <2> HIDE DEF L
  <2>2. TakenBack(L, h, q, n)
    BY <1>1, <2>1, TakeBackKeeps
  <2> QED BY <2>2 DEF TakenBack
<1>4. (end - n) + n - 1 = end - 1
  BY <1>2
<1>5. q \in FreeBytes(h.mem)
  BY <1>1, <1>2, FreeByteIs
<1>6. FrontTaken(L, L, h, end - n, n, q)
  <2> HIDE DEF L, end
  <2> QED BY <1>3, <1>4, <1>5 DEF FrontTaken
<1> QED BY <1>6

\* A block that takes over bytes of the region right before it.
LEMMA SoundFront ==
  ASSUME NEW h, NEW B, NEW G, NEW p, Sound(h, B, G, p), Within(h, 0),
         NEW at \in DOMAIN B, at \notin G \cup ToSet(p), ~ B[at].chunk,
         NEW size \in Nat \ {0}, NEW n \in Nat, n > 0,
         Aligned(size) = Aligned(B[at].size) + n, 0 <= at - n,
         NEW f, NEW L, NEW prev, FrontTaken(f, L, h, at - n, n, prev)
  PROVE  LET to == at - n
             g == Fill(Copy(L, at, to, B[at].size), to, size, B[at].owner, Aligned(B[at].size))
             k == RaiseLimit([g EXCEPT !.skip = prev, !.allocated = @ + n])
             C == WithBlock(WithoutBlock(B, at), to, [B[at] EXCEPT !.size = size])
         IN  Grows(k, C, h, B, G, p, n)
<1> DEFINE old == Aligned(B[at].size)
           to == at - n
           g == Fill(Copy(L, at, to, B[at].size), to, size, B[at].owner, old)
           k == RaiseLimit([g EXCEPT !.skip = prev, !.allocated = @ + n])
           E == WithoutBlock(B, at)
           r == [B[at] EXCEPT !.size = size]
           X == to .. (to + n - 1)
<1>1. /\ Layout(h, Taken(B)) /\ Placed(B) /\ h \in HeapTypes
      /\ FreeList(h.mem) /\ FreeBytes(h.mem) = Bytewise \ Taken(B)
  BY SoundFacts DEF Layout
<1>2. /\ B[at].size \in Nat \ {0} /\ at \in Words /\ at \in Int /\ 0 <= at /\ Multiple(at)
      /\ old \in Nat /\ old > 0 /\ Multiple(old) /\ at + old <= HeapSize
      /\ Bytes(at, B[at].size) \subseteq Taken(B) /\ Taken(B) \subseteq Bytewise
      /\ B[at].owner \in Owners \cup {Nobody}
  BY <1>1, TakenIs
<1>3. r \in Block /\ r.size = size /\ r.owner = B[at].owner /\ ~ r.chunk
  <2>1. B[at] \in Block
    BY <1>1 DEF Placed
  <2> QED BY <2>1 DEF Block
<1>4. Taken(E) = Taken(B) \ Bytes(at, B[at].size)
  BY <1>1, RemoveBlock
<1> HIDE DEF old, E, r
<1>7. Multiple(n)
  <2>1. Multiple(Aligned(size)) /\ Aligned(size) - old = n
    BY <1>2, AlignedIs DEF old
  <2>2. Multiple(Aligned(size) - old)
    BY <1>2, <2>1, Multiples, Zenon
  <2> QED BY <2>1, <2>2
<1>8. /\ to \in Words /\ to \in Int /\ 0 <= to /\ to + (old + n) <= HeapSize /\ to + n = at
      /\ to + (old + n) = at + old
  <2>1. Multiple(to)
    BY <1>2, <1>7, Multiples
  <2>2. to \in Int /\ 0 <= to /\ to + (old + n) <= HeapSize /\ to < HeapSize /\ to + n = at
        /\ to + (old + n) = at + old
    BY <1>2, ConstantTypes
  <2> QED BY <2>1, <2>2, WordIs, Zenon
<1>9. /\ f \in HeapTypes /\ f.allocated = h.allocated /\ f.limit = h.limit
      /\ FreeList(f.mem) /\ prev \in Nodes(f.mem)
      /\ X \subseteq FreeBytes(h.mem) /\ FreeBytes(f.mem) = FreeBytes(h.mem) \ X
      /\ L \in HeapTypes /\ L.skip = f.skip /\ L.allocated = h.allocated /\ L.limit = h.limit
      /\ \A w \in Words \cup {First} : w # to => L.mem[w] = f.mem[w]
      /\ \A w \in Words : w \notin FreeBytes(h.mem) => L.mem[w] = h.mem[w]
  BY DEF FrontTaken
<1>5. /\ \A b : b \in Bytes(at, B[at].size) <=> b \in Int /\ at <= b /\ b < at + old
      /\ \A b : b \in Bytes(to, size) <=> b \in Int /\ to <= b /\ b < to + (old + n)
  BY <1>2, <1>8, BytesAre DEF old
<1>10. \A b : b \in X <=> b \in Int /\ to <= b /\ b < at
  BY <1>2, <1>8
<1> HIDE DEF X
<1>11. Bytes(to, size) = Bytes(at, B[at].size) \cup X
  <2>1. \A b : b \in Bytes(to, size) <=> b \in Bytes(at, B[at].size) \/ b \in X
    <3> SUFFICES ASSUME NEW b \in Int
                 PROVE  (to <= b /\ b < to + (old + n))
                          <=> (at <= b /\ b < at + old) \/ (to <= b /\ b < at)
      BY <1>5, <1>10
    <3> QED BY <1>2, <1>8
  <2> QED BY <2>1
<1>12. /\ Bytes(to, size) \subseteq Bytewise \ Taken(E)
       /\ FreeBytes(f.mem) = Bytewise \ (Taken(E) \cup Bytes(to, size))
  BY <1>1, <1>2, <1>4, <1>9, <1>11
<1> HIDE DEF to
<1>13. Filled(g, L, to, size, B[at].owner, 0)
  <2>1. \A w \in WordsOf(at, B[at].size) : L.mem[w] = Content(B[at].owner, w - at)
    <3> SUFFICES ASSUME NEW w \in WordsOf(at, B[at].size)
                 PROVE  L.mem[w] = Content(B[at].owner, w - at)
      OBVIOUS
    <3>1. h.mem[w] = Content(B[at].owner, w - at)
      BY DEF Sound, Kept
    <3>2. w \in Words /\ w \notin FreeBytes(h.mem)
      BY SoundFacts, WordsOfIs
    <3> QED BY <1>9, <3>1, <3>2
  <2>2. Aligned(B[at].size) <= Aligned(size) /\ to + Aligned(size) <= HeapSize
    BY <1>2, <1>8 DEF old
  <2>3. L \in HeapTypes /\ at + Aligned(B[at].size) <= HeapSize
    BY <1>2, <1>9 DEF old
  <2> QED BY <1>2, <1>8, <2>1, <2>2, <2>3, CopyIs, Zenon DEF old
<1> HIDE DEF g
<1>14. to \in WordsOf(to, size) /\ \A w \in WordsOf(to, size) : w - to >= 0
  <2>1. to < to + Aligned(size)
    BY <1>2, <1>8 DEF old
  <2> QED BY <1>8, <2>1, WordsOfIs, WordIs
<1>15. Filled(g, f, to, size, B[at].owner, 0)
  <2>1. ASSUME NEW w \in Words \cup {First}, ~ (w \in WordsOf(to, size) /\ w - to >= 0)
        PROVE  g.mem[w] = f.mem[w]
    <3>1. w # to
      BY <1>14, <2>1
    <3> QED BY <1>9, <1>13, <2>1, <3>1 DEF Filled
  <2> QED BY <1>9, <1>13, <2>1 DEF Filled
<1>16. \A w \in WordsOf(to, size) : g.mem[w] = Content(B[at].owner, w - to)
  BY <1>14, <1>15 DEF Filled
<1>17. \A w \in Words : w \in Taken(E) => f.mem[w] = h.mem[w]
  <2> SUFFICES ASSUME NEW w \in Words, w \in Taken(E) PROVE f.mem[w] = h.mem[w]
    OBVIOUS
  <2>1. w \notin FreeBytes(h.mem) /\ w # to
    <3>1. to \in Bytes(to, size)
      BY <1>8, BytesAre
    <3> QED BY <1>1, <1>4, <1>12, <3>1
  <2> QED BY <1>9, <2>1
<1>18. Enlarged(g, f, h, WithoutBlock(B, at), to, r, prev)
  <2>1. \E kept : Filled(g, f, to, r.size, r.owner, kept)
    BY <1>3, <1>15
  <2> QED BY <1>3, <1>8, <1>9, <1>12, <1>16, <1>17, <2>1 DEF Enlarged, E
<1>19. Grows(k, WithBlock(WithoutBlock(B, at), to, r), h, B, G, p, n)
  <2>1. Aligned(r.size) = Aligned(B[at].size) + n
    BY <1>3
  <2> QED BY <1>18, <2>1, SoundGrown
<1> QED BY <1>19 DEF k, r, g, to, old
-----------------------------------------------------------------------------
(* The states of the heap.                                                 *)

LEMMA InitHolds == Init => JmemInv
<1> SUFFICES ASSUME Init PROVE JmemInv
  OBVIOUS
<1> DEFINE m == [w \in Words \cup {First} |->
                   CASE w = First -> Header(0, 0)
                     [] w = 0 -> Header(HeapSize, EndOfList)
                     [] OTHER -> Junk]
<1>1. /\ heap = [mem |-> m, skip |-> First, allocated |-> 0, limit |-> GCLimit]
      /\ blocks = <<>> /\ garbage = {} /\ pool = <<>>
      /\ pc = "idle" /\ req = NoRequest /\ pressure = None
  BY DEF Init
<1>2. 0 \in Words /\ First \notin Words /\ First # 0
  BY WordIs, SomeMultiples, ConstantTypes
<1>3. /\ m \in [Words \cup {First} -> Headers \cup Contents \cup {Junk}]
      /\ m[First] = Header(0, 0) /\ m[0] = Header(HeapSize, EndOfList)
      /\ \A w \in Words : w # 0 => m[w] = Junk
  BY <1>2, NotHeaders, ConstantTypes
<1> HIDE DEF m
<1>4. /\ m[First] \in Headers /\ m[First].size = 0 /\ m[First].next = 0
      /\ m[0] \in Headers /\ m[0].size = HeapSize /\ m[0].next = EndOfList
  BY <1>3, NotHeaders, ConstantTypes
<1>5. Heads(m) = {0} /\ Nodes(m) = {0, First}
  BY <1>2, <1>3, <1>4, NotHeaders DEF Heads, Nodes
<1>6. FreeList(m)
  <2>1. Linked(m, First)
    BY <1>4, <1>5, SomeMultiples, ConstantTypes DEF Linked
  <2>2. Linked(m, 0)
    BY <1>4, <1>5, SomeMultiples, ConstantTypes DEF Linked
  <2> QED BY <1>3, <1>4, <1>5, <2>1, <2>2, ConstantTypes DEF FreeList, Memories
<1>7. FreeBytes(m) = Bytewise
  BY <1>4, <1>5, ConstantTypes DEF FreeBytes, Bytewise
<1>8. DOMAIN blocks = {} /\ ToSet(pool) = {} /\ Len(pool) = 0
  BY <1>1 DEF ToSet
<1>9. Placed(blocks) /\ Taken(blocks) = {}
  BY <1>1, <1>8 DEF Placed, Taken
<1>10. Layout(heap, Taken(blocks))
  <2>1. heap \in HeapTypes /\ heap.mem = m /\ heap.skip = First
    BY <1>1, <1>3, ConstantTypes DEF HeapTypes, Memories
  <2> QED BY <1>5, <1>6, <1>7, <1>9, <2>1 DEF Layout
<1>11. Pooled(blocks, garbage, pool)
  BY <1>1, <1>8 DEF Pooled
<1>12. Sound(heap, blocks, garbage, pool)
  BY <1>1, <1>8, <1>9, <1>10, <1>11 DEF Sound, Kept
<1>13. Requested
  BY <1>1 DEF Requested, NoRequest, None, Low, High, Full
<1>14. Accounts
  <2>1. MovingBytes = 0
    BY <1>1 DEF MovingBytes, NoRequest
  <2>2. Cardinality(Taken(blocks)) = 0
    BY <1>9, FS_EmptySet
  <2>3. heap.allocated = 0 /\ heap.limit = GCLimit
    BY <1>1
  <2> QED BY <2>1, <2>2, <2>3, ConstantTypes DEF Accounts, Within
<1> QED BY <1>12, <1>13, <1>14 DEF JmemInv

\* The bytes that are counted and those that are taken change by the same number.
Balanced(h, B, k, C) ==
  k.allocated + Cardinality(Taken(B)) = h.allocated + Cardinality(Taken(C))

\* The blocks in use other than `at` stay as they are.
LiveIn(B, G, p) == DOMAIN B \ (G \cup ToSet(p))

Released(h, B, G, p, k, C, F, q, at) ==
  /\ Sound(k, C, F, q) /\ Balanced(h, B, k, C)
  /\ \A moving \in Nat : Within(h, moving) => Within(k, moving)
  /\ LiveIn(C, F, q) = LiveIn(B, G, p) \ {at}
  /\ \A a \in LiveIn(B, G, p) \ {at} : C[a] = B[a]

LEMMA HeapFreeReleases ==
  ASSUME NEW h, NEW B, NEW G, NEW p, Sound(h, B, G, p), h.allocated <= h.limit,
         NEW at \in DOMAIN B, NEW q, Unpooled(q, p, B, at)
  PROVE  Released(h, B, G, p, HeapFree(h, at, B[at].size), WithoutBlock(B, at), G \ {at}, q, at)
<1> DEFINE f == HeapFree(h, at, B[at].size)
           C == WithoutBlock(B, at)
<1>1. /\ Sound(f, C, G \ {at}, q) /\ Within(f, 0)
      /\ f.allocated = h.allocated - Aligned(B[at].size)
      /\ Cardinality(Taken(B)) = Cardinality(Taken(C)) + Aligned(B[at].size)
  BY SoundFree
<1>2. Placed(B) /\ DOMAIN C = DOMAIN B \ {at} /\ \A a \in DOMAIN C : C[a] = B[a]
  BY SoundFacts, RemoveBlock
<1> HIDE DEF f, C
<1>3. /\ h.allocated \in Int /\ f.allocated \in Int /\ f.limit \in Int
      /\ Aligned(B[at].size) \in Nat
      /\ Cardinality(Taken(B)) \in Nat /\ Cardinality(Taken(C)) \in Nat
  <2>1. h \in HeapTypes /\ f \in HeapTypes /\ Placed(C)
    BY <1>1, SoundFacts
  <2> QED BY <1>2, <2>1, HeapIs, TakenIs
<1>4. Balanced(h, B, f, C)
  BY <1>1, <1>3 DEF Balanced
<1>5. \A moving \in Nat : Within(f, moving)
  BY <1>1, <1>3, ConstantTypes DEF Within
<1>6. /\ LiveIn(C, G \ {at}, q) = LiveIn(B, G, p) \ {at}
      /\ \A a \in LiveIn(B, G, p) \ {at} : C[a] = B[a]
  BY <1>2 DEF LiveIn, Unpooled
<1> QED BY <1>1, <1>4, <1>5, <1>6 DEF Released, f, C

\* A block that loses its owner leaves the blocks in use.
LEMMA LeaveReleases ==
  ASSUME NEW h, NEW B, NEW G, NEW p, Sound(h, B, G, p),
         NEW at \in DOMAIN B, NEW F, NEW q,
         F \subseteq DOMAIN B, Pooled(B, F, q),
         F \cup ToSet(q) = G \cup ToSet(p) \cup {at}
  PROVE  Released(h, B, G, p, Wipe(h, at, B[at].size), [B EXCEPT ![at].owner = Nobody], F, q, at)
<1> DEFINE g == Wipe(h, at, B[at].size)
           C == [B EXCEPT ![at].owner = Nobody]
<1>1. /\ Sound(g, C, F, q) /\ g.allocated = h.allocated /\ g.limit = h.limit
      /\ Taken(C) = Taken(B) /\ DOMAIN C = DOMAIN B
      /\ \A a \in DOMAIN B : a # at => C[a] = B[a]
  <2>1. at \in F \cup ToSet(q) /\ G \cup ToSet(p) \subseteq F \cup ToSet(q)
    OBVIOUS
  <2> HIDE DEF g, C
  <2> QED BY <2>1, SoundLeave DEF g, C
<1> HIDE DEF g, C
<1>2. Balanced(h, B, g, C)
  BY <1>1 DEF Balanced
<1>3. \A moving \in Nat : Within(h, moving) => Within(g, moving)
  BY <1>1 DEF Within
<1>4. /\ LiveIn(C, F, q) = LiveIn(B, G, p) \ {at}
      /\ \A a \in LiveIn(B, G, p) \ {at} : C[a] = B[a]
  BY <1>1 DEF LiveIn
<1> QED BY <1>1, <1>2, <1>3, <1>4 DEF Released, g, C

LEMMA LiveIs ==
  /\ Live = LiveIn(blocks, garbage, pool)
  /\ Live' = LiveIn(blocks', garbage', pool')
BY DEF Live, LiveIn

\* What the moved block takes is bounded by what is taken.
LEMMA MovingIs ==
  ASSUME JmemInv
  PROVE  /\ MovingBytes \in Nat
         /\ req.kind # "move" => MovingBytes = 0
         /\ req.kind = "move" => MovingBytes = Aligned(blocks[req.at].size)
         /\ heap.allocated \in Int /\ heap.limit \in Int /\ heap.allocated <= heap.limit
         /\ heap \in HeapTypes /\ Placed(blocks)
<1>1. heap \in HeapTypes /\ Placed(blocks)
  BY SoundFacts DEF JmemInv
<1>2. heap.allocated \in Int /\ heap.limit \in Int
  BY <1>1, HeapIs
<1>3. heap.allocated <= heap.limit
  BY DEF JmemInv, Accounts, Within
<1>4. ASSUME req.kind = "move"
      PROVE  MovingBytes = Aligned(blocks[req.at].size) /\ MovingBytes \in Nat
  <2>1. req.at \in DOMAIN blocks
    BY <1>4 DEF JmemInv, Requested, Live
  <2>2. Aligned(blocks[req.at].size) \in Nat
    BY <1>1, <2>1, TakenIs
  <2> QED BY <1>4, <2>2 DEF MovingBytes
<1>5. ASSUME req.kind # "move" PROVE MovingBytes = 0
  BY <1>5 DEF MovingBytes
<1> QED BY <1>1, <1>2, <1>3, <1>4, <1>5

\* jmem_heap_free_block and jmem_pools_free.
LEMMA FreeBlockReleases ==
  ASSUME JmemInv, NEW at \in DOMAIN blocks, at \notin ToSet(pool), FreeBlock(at),
         garbage' = garbage \ {at}
  PROVE  Released(heap, blocks, garbage, pool, heap', blocks', garbage', pool', at)
<1>1. Sound(heap, blocks, garbage, pool) /\ heap.allocated <= heap.limit
  BY MovingIs DEF JmemInv
<1>2. Pooled(blocks, garbage, pool) /\ Placed(blocks) /\ garbage \subseteq DOMAIN blocks
  BY <1>1 DEF Sound
<1>3. CASE blocks[at].chunk
  <2>1. /\ heap' = Wipe(heap, at, Alignment)
        /\ blocks' = [blocks EXCEPT ![at].owner = Nobody]
        /\ pool' = <<at>> \o pool
    BY <1>3 DEF FreeBlock
  <2>2. blocks[at].size = Alignment
    BY <1>2, <1>3 DEF Placed
  <2>3. /\ pool' \in Seq(DOMAIN blocks) /\ ToSet(pool') = ToSet(pool) \cup {at}
        /\ \A i, j \in 1..Len(pool') : pool'[i] = pool'[j] => i = j
    BY <1>2, <2>1, PoolPush
  <2>4. Pooled(blocks, garbage', pool')
    BY <1>2, <1>3, <2>3 DEF Pooled
  <2>5. garbage' \subseteq DOMAIN blocks
        /\ garbage' \cup ToSet(pool') = garbage \cup ToSet(pool) \cup {at}
    BY <1>2, <2>3
  <2>6. Released(heap, blocks, garbage, pool, Wipe(heap, at, blocks[at].size),
                 [blocks EXCEPT ![at].owner = Nobody], garbage', pool', at)
    BY <1>1, <2>4, <2>5, LeaveReleases
  <2> QED BY <2>1, <2>2, <2>6
<1>4. CASE ~ blocks[at].chunk
  <2>1. /\ heap' = HeapFree(heap, at, blocks[at].size)
        /\ blocks' = WithoutBlock(blocks, at) /\ pool' = pool
    BY <1>4 DEF FreeBlock
  <2>2. Unpooled(pool, pool, blocks, at)
    BY <1>2 DEF Unpooled, Pooled
  <2>3. Released(heap, blocks, garbage, pool, HeapFree(heap, at, blocks[at].size),
                 WithoutBlock(blocks, at), garbage \ {at}, pool, at)
    BY <1>1, <2>2, HeapFreeReleases
  <2> QED BY <2>1, <2>3
<1> QED BY <1>3, <1>4

\* A step that changes no request and keeps the block it is about.
LEMMA RequestStays ==
  ASSUME JmemInv, UNCHANGED <<pc, req, pressure>>, pc \in {"idle", "gc"},
         pc = "gc" => \A a \in Live : a \in Live' /\ blocks'[a] = blocks[a]
  PROVE  Requested' /\ MovingBytes' = MovingBytes
<1>1. Requested
  BY DEF JmemInv
<1>2. CASE pc = "idle"
  <2>1. req = NoRequest /\ pressure = None /\ req.kind = "none"
    BY <1>1, <1>2 DEF Requested, NoRequest
  <2>2. Requested'
    BY <1>2, <2>1 DEF Requested, None, Low, High, Full
  <2> QED BY <2>1, <2>2 DEF MovingBytes
<1>3. CASE pc = "gc"
  <2>1. ASSUME req.kind \in {"grow", "move"}
        PROVE  /\ req.at \in Live' /\ ~ blocks'[req.at].chunk
               /\ req.owner = blocks'[req.at].owner /\ GrowthOf(req)' > 0
               /\ blocks'[req.at].size = blocks[req.at].size
    <3>1. /\ req.at \in Live /\ ~ blocks[req.at].chunk
          /\ req.owner = blocks[req.at].owner /\ GrowthOf(req) > 0
      BY <1>1, <2>1 DEF Requested
    <3>2. req.at \in Live' /\ blocks'[req.at] = blocks[req.at]
      BY <1>3, <3>1
    <3> QED BY <3>1, <3>2 DEF GrowthOf
  <2>2. Requested'
    BY <1>1, <1>3, <2>1 DEF Requested
  <2>3. MovingBytes' = MovingBytes
    BY <2>1 DEF MovingBytes
  <2> QED BY <2>2, <2>3
<1> QED BY <1>2, <1>3

\* The accounts after a balanced step.
LEMMA AccountsStay ==
  ASSUME JmemInv, Sound(heap', blocks', garbage', pool'),
         Balanced(heap, blocks, heap', blocks'),
         Within(heap', MovingBytes), MovingBytes' = MovingBytes
  PROVE  Accounts'
<1>1. /\ heap.allocated + MovingBytes = Cardinality(Taken(blocks)) /\ MovingBytes \in Nat
      /\ heap.allocated \in Int
  BY MovingIs DEF JmemInv, Accounts
<1>2. heap' \in HeapTypes /\ Placed(blocks') /\ Placed(blocks)
  BY SoundFacts DEF JmemInv
<1>3. heap'.allocated \in Int /\ Cardinality(Taken(blocks')) \in Nat /\ Cardinality(Taken(blocks)) \in Nat
  BY <1>2, HeapIs, TakenIs
<1>4. heap'.allocated + Cardinality(Taken(blocks)) = heap.allocated + Cardinality(Taken(blocks'))
  BY DEF Balanced
<1>5. heap'.allocated + MovingBytes = Cardinality(Taken(blocks'))
  BY <1>1, <1>3, <1>4
<1>6. heap'.allocated + MovingBytes' = Cardinality(Taken(blocks')) /\ Within(heap', MovingBytes')
  BY <1>5
<1> QED BY <1>6 DEF Accounts

LEMMA ReleaseStep ==
  ASSUME JmemInv, NEW at,
         Released(heap, blocks, garbage, pool, heap', blocks', garbage', pool', at),
         UNCHANGED <<pc, req, pressure>>, pc \in {"idle", "gc"}, pc = "gc" => at \notin Live
  PROVE  JmemInv'
<1>1. /\ Sound(heap', blocks', garbage', pool')
      /\ Balanced(heap, blocks, heap', blocks')
      /\ \A moving \in Nat : Within(heap, moving) => Within(heap', moving)
      /\ Live' = Live \ {at}
      /\ \A a \in Live \ {at} : blocks'[a] = blocks[a]
  BY LiveIs DEF Released
<1>2. Requested' /\ MovingBytes' = MovingBytes
  BY <1>1, RequestStays
<1>3. Within(heap', MovingBytes)
  BY <1>1, MovingIs DEF JmemInv, Accounts
<1>4. Accounts'
  BY <1>1, <1>2, <1>3, AccountsStay
<1> QED BY <1>1, <1>2, <1>4 DEF JmemInv

LEMMA FreeStep ==
  ASSUME JmemInv, NEW at, Free(at)
  PROVE  JmemInv'
<1>1. /\ at \in DOMAIN blocks /\ at \notin garbage /\ at \notin ToSet(pool)
      /\ FreeBlock(at) /\ garbage' = garbage /\ UNCHANGED <<pc, req, pressure>> /\ pc = "idle"
  BY DEF Free, Live, Idle
<1>2. garbage' = garbage \ {at}
  BY <1>1
<1>3. Released(heap, blocks, garbage, pool, heap', blocks', garbage', pool', at)
  BY <1>1, <1>2, FreeBlockReleases
<1> QED BY <1>1, <1>3, ReleaseStep

LEMMA CollectStep ==
  ASSUME JmemInv, NEW at, Collect(at)
  PROVE  JmemInv'
<1>1. /\ at \in garbage /\ FreeBlock(at) /\ garbage' = garbage \ {at}
      /\ UNCHANGED <<pc, req, pressure>> /\ pc = "gc"
  BY DEF Collect
<1>2. at \in DOMAIN blocks /\ at \notin ToSet(pool) /\ at \notin Live
  BY <1>1 DEF JmemInv, Sound, Pooled, Live
<1>3. Released(heap, blocks, garbage, pool, heap', blocks', garbage', pool', at)
  BY <1>1, <1>2, FreeBlockReleases
<1> QED BY <1>1, <1>2, <1>3, ReleaseStep

LEMMA CollectEmptyStep ==
  ASSUME JmemInv, CollectEmpty
  PROVE  JmemInv'
<1>1. /\ pool # <<>> /\ garbage = {} /\ garbage' = garbage
      /\ heap' = HeapFree(heap, Head(pool), Alignment)
      /\ blocks' = WithoutBlock(blocks, Head(pool)) /\ pool' = Tail(pool)
      /\ UNCHANGED <<pc, req, pressure>> /\ pc = "gc"
  BY DEF CollectEmpty
<1>2. Sound(heap, blocks, garbage, pool) /\ heap.allocated <= heap.limit
  BY MovingIs DEF JmemInv
<1>3. Pooled(blocks, garbage, pool) /\ Placed(blocks)
  BY <1>2 DEF Sound
<1>4. /\ Head(pool) \in ToSet(pool) /\ Head(pool) \in DOMAIN blocks
      /\ Unpooled(Tail(pool), pool, blocks, Head(pool))
  BY <1>1, <1>3, PoolPop DEF Unpooled
<1>5. blocks[Head(pool)].size = Alignment
  BY <1>3, <1>4 DEF Pooled, Placed
<1>6. Released(heap, blocks, garbage, pool, HeapFree(heap, Head(pool), blocks[Head(pool)].size),
               WithoutBlock(blocks, Head(pool)), garbage \ {Head(pool)}, Tail(pool), Head(pool))
  BY <1>2, <1>4, HeapFreeReleases
<1>7. garbage \ {Head(pool)} = garbage'
  BY <1>1
<1>8. Released(heap, blocks, garbage, pool, heap', blocks', garbage', pool', Head(pool))
  BY <1>1, <1>5, <1>6, <1>7
<1>9. Head(pool) \notin Live
  BY <1>4 DEF Live
<1> QED BY <1>1, <1>8, <1>9, ReleaseStep

LEMMA DropStep ==
  ASSUME JmemInv, NEW at, Drop(at)
  PROVE  JmemInv'
<1>1. /\ at \in DOMAIN blocks /\ at \notin garbage /\ at \notin ToSet(pool)
      /\ heap' = Wipe(heap, at, blocks[at].size)
      /\ blocks' = [blocks EXCEPT ![at].owner = Nobody]
      /\ garbage' = garbage \cup {at} /\ pool' = pool
      /\ UNCHANGED <<pc, req, pressure>> /\ pc = "idle"
  BY DEF Drop, Live, Idle
<1>2. Sound(heap, blocks, garbage, pool)
  BY DEF JmemInv
<1>3. /\ garbage' \subseteq DOMAIN blocks /\ Pooled(blocks, garbage', pool)
      /\ garbage' \cup ToSet(pool) = garbage \cup ToSet(pool) \cup {at}
  BY <1>1, <1>2 DEF Sound, Pooled
<1>4. Released(heap, blocks, garbage, pool, Wipe(heap, at, blocks[at].size),
               [blocks EXCEPT ![at].owner = Nobody], garbage', pool, at)
  BY <1>1, <1>2, <1>3, LeaveReleases
<1> QED BY <1>1, <1>4, ReleaseStep
-----------------------------------------------------------------------------
(* Requests.                                                               *)

LEMMA LevelsAre ==
  ASSUME NEW level, NEW next, FreeUnusedMemory(level, next)
  PROVE  /\ pressure' = level
         /\ level = Low => pc' \in {"gc", next}
         /\ level = High => pc' = "gc"
         /\ level = Full => pc' = "fatal"
BY DEF FreeUnusedMemory, Low, High, Full

\* A request that starts, or is asked again for its block to move.
LEMMA StartIs ==
  ASSUME JmemInv, NEW h, NEW r, StartAlloc(h, r), UNCHANGED <<blocks, garbage, pool>>,
         r \in Requests, r.kind # "grow",
         r.kind = "chunk" => r.size = Alignment /\ r.max = Full,
         r.kind = "move" => /\ r.at \in Live /\ ~ blocks[r.at].chunk
                            /\ r.owner = blocks[r.at].owner /\ GrowthOf(r) > 0
  PROVE  Requested' /\ req' = r
<1>1. req' = r /\ pc' \in {"gc", "try"} /\ pressure' \in {None, Low}
  <2>1. CASE h.allocated + r.size >= h.limit
    <3>1. req' = r /\ FreeUnusedMemory(Low, "try")
      BY <2>1 DEF StartAlloc
    <3> QED BY <3>1, LevelsAre
  <2>2. CASE ~ (h.allocated + r.size >= h.limit)
    BY <2>2 DEF StartAlloc
  <2> QED BY <2>1, <2>2
<1>2. Live' = Live /\ blocks' = blocks
  BY DEF Live
<1>3. GrowthOf(req)' = GrowthOf(r)
  BY <1>1, <1>2 DEF GrowthOf
<1> QED BY <1>1, <1>2, <1>3 DEF Requested, None, Low, High, Full

LEMMA IdleIs ==
  ASSUME JmemInv, Idle
  PROVE  pc = "idle" /\ req = NoRequest /\ pressure = None /\ MovingBytes = 0
BY DEF JmemInv, Requested, Idle, MovingBytes, NoRequest

\* Nothing but the request changes.
LEMMA OnlyRequest ==
  ASSUME JmemInv, UNCHANGED <<heap, blocks, garbage, pool>>, Requested',
         MovingBytes' = MovingBytes
  PROVE  JmemInv'
<1>1. Accounts'
  BY DEF JmemInv, Accounts
<1> QED BY <1>1 DEF JmemInv

LEMMA AllocStep ==
  ASSUME JmemInv, NEW o \in Owners, NEW size \in Sizes, NEW max \in {High, Full},
         Alloc(o, size, max)
  PROVE  JmemInv'
<1> DEFINE r == [kind |-> "alloc", owner |-> o, size |-> size, max |-> max]
<1>1. Idle /\ StartAlloc(heap, r) /\ UNCHANGED <<heap, blocks, garbage, pool>>
  BY DEF Alloc
<1>2. r \in Requests /\ r.kind = "alloc"
  BY HeapAssumption DEF HeapAssumption, Requests
<1> HIDE DEF r
<1>3. Requested' /\ req' = r
  BY <1>1, <1>2, StartIs
<1>4. MovingBytes' = MovingBytes
  BY <1>1, <1>2, <1>3, IdleIs DEF MovingBytes
<1> QED BY <1>1, <1>3, <1>4, OnlyRequest

LEMMA PoolsAllocStep ==
  ASSUME JmemInv, NEW o \in Owners, PoolsAlloc(o)
  PROVE  JmemInv'
<1>1. Idle
  BY DEF PoolsAlloc
<1>2. CASE pool # <<>>
  <2> DEFINE g == Fill(heap, Head(pool), Alignment, o, 0)
             C == [blocks EXCEPT ![Head(pool)].owner = o]
  <2>1. /\ heap' = g /\ blocks' = C /\ pool' = Tail(pool)
        /\ UNCHANGED <<garbage, pc, req, pressure>>
    BY <1>2 DEF PoolsAlloc
  <2>2. Sound(heap, blocks, garbage, pool)
    BY DEF JmemInv
  <2>3. /\ Sound(g, C, garbage, Tail(pool)) /\ g.allocated = heap.allocated /\ g.limit = heap.limit
        /\ Taken(C) = Taken(blocks)
    BY <1>2, <2>2, SoundReuse
  <2> HIDE DEF g, C
  <2>4. Sound(heap', blocks', garbage', pool')
    BY <2>1, <2>3
  <2>5. Requested' /\ MovingBytes' = MovingBytes
    BY <1>1, <2>1, RequestStays, IdleIs
  <2>6. Balanced(heap, blocks, heap', blocks')
    BY <2>1, <2>3 DEF Balanced
  <2>7. Within(heap', MovingBytes)
    BY <2>1, <2>3 DEF JmemInv, Accounts, Within
  <2>8. Accounts'
    BY <2>4, <2>5, <2>6, <2>7, AccountsStay
  <2> QED BY <2>4, <2>5, <2>8 DEF JmemInv
<1>3. CASE pool = <<>>
  <2> DEFINE r == [kind |-> "chunk", owner |-> o, size |-> Alignment, max |-> Full]
  <2>1. StartAlloc(heap, r) /\ UNCHANGED <<heap, blocks, garbage, pool>>
    BY <1>3 DEF PoolsAlloc
  <2>2. r \in Requests /\ r.kind = "chunk" /\ r.size = Alignment /\ r.max = Full
    BY ConstantTypes DEF Requests
  <2> HIDE DEF r
  <2>3. Requested' /\ req' = r
    BY <2>1, <2>2, StartIs
  <2>4. MovingBytes' = MovingBytes
    BY <1>1, <2>2, <2>3, IdleIs DEF MovingBytes
  <2> QED BY <2>1, <2>3, <2>4, OnlyRequest
<1> QED BY <1>2, <1>3

LEMMA ShrinkStep ==
  ASSUME JmemInv, NEW at, NEW size \in Sizes, ShrinkRealloc(at, size)
  PROVE  JmemInv'
<1> DEFINE old == Aligned(blocks[at].size)
           new == Aligned(size)
           i == InsertBlock(Wipe(heap, at + new, old - new), at + new, FindPrev(heap, at), old - new)
           k == IF new = old THEN heap ELSE LowerLimit([i EXCEPT !.allocated = @ - (old - new)])
           C == [blocks EXCEPT ![at].size = size]
<1>1. /\ Idle /\ at \in DOMAIN blocks /\ at \notin garbage \cup ToSet(pool) /\ ~ blocks[at].chunk
      /\ new <= old /\ heap' = k /\ blocks' = C
      /\ UNCHANGED <<garbage, pool, pc, req, pressure>>
  BY DEF ShrinkRealloc, Live
<1>2. Sound(heap, blocks, garbage, pool) /\ Within(heap, 0) /\ MovingBytes = 0
  BY <1>1, IdleIs DEF JmemInv, Accounts
<1>3. size \in Nat \ {0}
  BY HeapAssumption DEF HeapAssumption
<1>4. /\ Sound(k, C, garbage, pool) /\ Within(k, 0) /\ k.allocated = heap.allocated - (old - new)
      /\ Cardinality(Taken(blocks)) = Cardinality(Taken(C)) + (old - new)
  <2>1. /\ at \in DOMAIN blocks /\ at \notin garbage \cup ToSet(pool) /\ ~ blocks[at].chunk
        /\ Aligned(size) <= Aligned(blocks[at].size)
    BY <1>1
  <2>2. Shrinks(k, C, heap, blocks, garbage, pool, old - new)
    BY <1>2, <1>3, <2>1, SoundShrunk
  <2> QED BY <2>2 DEF Shrinks
<1> HIDE DEF k, C, i
<1>5. Requested' /\ MovingBytes' = MovingBytes
  BY <1>1, RequestStays, IdleIs
<1>6. Balanced(heap, blocks, heap', blocks')
  <2>1. old \in Nat /\ new \in Nat /\ heap.allocated \in Int
    BY <1>1, <1>3, MovingIs, TakenIs, AlignedIs
  <2>2. Cardinality(Taken(blocks)) \in Nat /\ Cardinality(Taken(C)) \in Nat
    BY <1>2, <1>4, SoundFacts, TakenIs
  <2> HIDE DEF old, new
  <2>3. k.allocated + Cardinality(Taken(blocks)) = heap.allocated + Cardinality(Taken(C))
    BY <1>4, <2>1, <2>2 DEF old, new
  <2> QED BY <1>1, <2>3 DEF Balanced
<1>7. Accounts'
  <2>1. Sound(heap', blocks', garbage', pool') /\ Within(heap', MovingBytes)
    BY <1>1, <1>2, <1>4
  <2> QED BY <1>5, <1>6, <2>1, AccountsStay
<1> QED BY <1>1, <1>4, <1>5, <1>7 DEF JmemInv

LEMMA GrowStep ==
  ASSUME JmemInv, NEW at, NEW size \in Sizes, GrowRealloc(at, size)
  PROVE  JmemInv'
<1> DEFINE r == [kind |-> "grow", at |-> at, owner |-> blocks[at].owner, size |-> size, max |-> Full]
<1>1. /\ Idle /\ at \in Live /\ at \in DOMAIN blocks /\ ~ blocks[at].chunk
      /\ GrowthOf(r) > 0 /\ req' = r
      /\ UNCHANGED <<heap, blocks, garbage, pool>>
  BY DEF GrowRealloc, Live
<1>2. pc' \in {"gc", "grow"} /\ pressure' \in {None, Low}
  <2>1. CASE heap.allocated + GrowthOf(r) >= heap.limit
    <3>1. FreeUnusedMemory(Low, "grow")
      BY <2>1 DEF GrowRealloc
    <3> QED BY <3>1, LevelsAre
  <2>2. CASE ~ (heap.allocated + GrowthOf(r) >= heap.limit)
    BY <1>1, <2>2, IdleIs DEF GrowRealloc
  <2> QED BY <2>1, <2>2
<1>3. /\ r \in Requests /\ r.kind = "grow" /\ r.at = at /\ r.owner = blocks[at].owner
  <2>1. at \in Words /\ blocks[at].owner \in Owners \cup {Nobody}
    BY <1>1, MovingIs, TakenIs
  <2> QED BY <2>1, HeapAssumption DEF HeapAssumption, Requests
<1>4. Live' = Live /\ blocks' = blocks /\ GrowthOf(req)' = GrowthOf(r)
  BY <1>1 DEF Live, GrowthOf
<1> HIDE DEF r
<1>5. Requested'
  BY <1>1, <1>2, <1>3, <1>4 DEF Requested, None, Low, High, Full
<1>6. MovingBytes' = MovingBytes
  BY <1>1, <1>3, IdleIs DEF MovingBytes
<1> QED BY <1>1, <1>5, <1>6, OnlyRequest

LEMMA EndCollectStep ==
  ASSUME JmemInv, EndCollect
  PROVE  JmemInv'
<1>1. /\ pc = "gc" /\ garbage = {} /\ (pressure = High => pool = <<>>)
      /\ pc' = IF req.kind = "grow" THEN "grow" ELSE "try"
      /\ UNCHANGED <<heap, blocks, garbage, pool, req, pressure>>
  BY DEF EndCollect
<1>2. Live' = Live /\ blocks' = blocks /\ GrowthOf(req)' = GrowthOf(req)
  BY <1>1 DEF Live, GrowthOf
<1>3. Requested'
  BY <1>1, <1>2 DEF JmemInv, Requested
<1>4. MovingBytes' = MovingBytes
  BY <1>1 DEF MovingBytes
<1> QED BY <1>1, <1>3, <1>4, OnlyRequest

LEMMA RaisePressureStep ==
  ASSUME JmemInv, RaisePressure
  PROVE  JmemInv'
<1>1. /\ pc = "try" /\ pressure < req.max /\ FreeUnusedMemory(pressure + 1, "try")
      /\ UNCHANGED <<heap, blocks, garbage, pool, req>>
  BY DEF RaisePressure, NoSpace
<1>2. pressure \in {None, Low, High, Full} /\ pressure # Full
  BY <1>1 DEF JmemInv, Requested
<1>3. pressure' \in {Low, High, Full} /\ pc' \in {"gc", "try", "fatal"}
      /\ (pressure' = Full => pc' = "fatal") /\ (pc' = "try" => pressure' = Low)
  <2>1. /\ pressure' = pressure + 1 /\ pressure + 1 \in {Low, High, Full}
        /\ (pressure + 1 = Low => pc' \in {"gc", "try"})
        /\ (pressure + 1 = High => pc' = "gc") /\ (pressure + 1 = Full => pc' = "fatal")
    BY <1>1, <1>2, LevelsAre DEF None, Low, High, Full
  <2> QED BY <2>1 DEF Low, High, Full
<1>4. Live' = Live /\ blocks' = blocks /\ GrowthOf(req)' = GrowthOf(req)
  BY <1>1 DEF Live, GrowthOf
<1>5. Requested'
  BY <1>1, <1>3, <1>4 DEF JmemInv, Requested, None, Low, High, Full
<1>6. MovingBytes' = MovingBytes
  BY <1>1 DEF MovingBytes
<1> QED BY <1>1, <1>5, <1>6, OnlyRequest

\* A request that is done.
LEMMA FinishIs ==
  ASSUME Finish
  PROVE  Requested' /\ MovingBytes' = 0
BY DEF Finish, Requested, MovingBytes, NoRequest, None, Low, High, Full

LEMMA ReturnNullStep ==
  ASSUME JmemInv, ReturnNull
  PROVE  JmemInv'
<1>1. pc = "try" /\ pressure >= req.max /\ Finish /\ UNCHANGED <<heap, blocks, garbage, pool>>
  BY DEF ReturnNull, NoSpace
<1>2. req.kind # "move"
  <2>1. /\ pressure \in {None, Low, High, Full} /\ pressure # Full /\ req \in Requests
    BY <1>1 DEF JmemInv, Requested
  <2>2. req.max # Full
    BY <1>1, <2>1 DEF None, Low, High, Full
  <2> QED BY <2>1, <2>2 DEF Requests
<1>3. MovingBytes = 0
  BY <1>2 DEF MovingBytes
<1> QED BY <1>1, <1>3, FinishIs, OnlyRequest

LEMMA StartMoveStep ==
  ASSUME JmemInv, StartMove
  PROVE  JmemInv'
<1> DEFINE old == Aligned(blocks[req.at].size)
           k == [heap EXCEPT !.allocated = @ - old]
           r == [req EXCEPT !.kind = "move"]
<1>1. /\ pc = "grow" /\ heap' = k /\ StartAlloc(k, r) /\ UNCHANGED <<blocks, garbage, pool>>
  BY DEF StartMove
<1>2. /\ req.kind = "grow" /\ req \in Requests
      /\ req.at \in Live /\ ~ blocks[req.at].chunk /\ req.owner = blocks[req.at].owner
      /\ GrowthOf(req) > 0
  BY <1>1 DEF JmemInv, Requested
<1>3. /\ r \in Requests /\ r.kind = "move" /\ r.at = req.at /\ r.owner = req.owner
      /\ r.size = req.size
  BY <1>2 DEF Requests
<1> HIDE DEF r
<1>4. Requested' /\ req' = r
  <2>1. GrowthOf(r) > 0
    BY <1>2, <1>3 DEF GrowthOf
  <2> HIDE DEF k
  <2> QED BY <1>1, <1>2, <1>3, <2>1, StartIs
<1>5. /\ old \in Nat /\ heap.allocated \in Int /\ heap.limit \in Int /\ heap \in HeapTypes
      /\ MovingBytes = 0
  BY <1>2, MovingIs, TakenIs DEF Live
<1>6. MovingBytes' = old
  BY <1>1, <1>3, <1>4 DEF MovingBytes
<1> HIDE DEF old
<1>7. /\ k \in HeapTypes /\ k.mem = heap.mem /\ k.skip = heap.skip
      /\ k.allocated = heap.allocated - old /\ k.limit = heap.limit
  BY <1>5 DEF HeapTypes
<1> HIDE DEF k
<1>8. Sound(heap', blocks', garbage', pool')
  BY <1>1, <1>7 DEF JmemInv, Sound, Layout, Kept
<1>9. Accounts'
  <2>1. heap.allocated + 0 = Cardinality(Taken(blocks)) /\ Within(heap, 0)
    BY <1>5 DEF JmemInv, Accounts
  <2>2. k.allocated + old = Cardinality(Taken(blocks)) /\ Within(k, old)
    <3>1. Cardinality(Taken(blocks)) \in Nat
      BY MovingIs, TakenIs
    <3> QED BY <1>5, <1>7, <2>1, <3>1, ConstantTypes DEF Within
  <2> QED BY <1>1, <1>6, <2>2 DEF Accounts
<1> QED BY <1>4, <1>8, <1>9 DEF JmemInv

\* What jmem_heap_alloc hands out for the request.
LEMMA TryAllocStep ==
  ASSUME JmemInv, TryAlloc
  PROVE  JmemInv'
<1> DEFINE r == HeapAlloc(heap, req.size)
           blk == NewBlock(req)
<1>1. /\ pc = "try" /\ r.at # NoBlock /\ Finish /\ UNCHANGED <<garbage, pool>>
  BY DEF TryAlloc
<1>2. /\ req \in Requests /\ req.kind # "grow" /\ Sound(heap, blocks, garbage, pool)
      /\ req.size \in Nat \ {0} /\ req.kind \in {"alloc", "chunk", "move"}
      /\ (req.kind = "chunk" => req.size = Alignment)
  BY <1>1 DEF JmemInv, Requested, Requests
<1>3. /\ blk \in Block /\ blk.owner = req.owner /\ blk.size = req.size
      /\ (blk.chunk => blk.size = Alignment)
  BY <1>2 DEF NewBlock, Block, Requests
<1>4. Allocated(r, heap, Taken(blocks), req.size)
  <2>1. Layout(heap, Taken(blocks))
    BY <1>2, SoundFacts
  <2> HIDE DEF r
  <2> QED BY <1>1, <1>2, <2>1, HeapAllocIs DEF r
<1> HIDE DEF r
<1>5. /\ r.heap.allocated = heap.allocated + Aligned(req.size)
      /\ \A moving \in Nat : Within(heap, moving) /\ moving <= Aligned(req.size) => Within(r.heap, 0)
      /\ r.heap \in HeapTypes
  BY <1>4 DEF Allocated, Layout
<1>6. Requested' /\ MovingBytes' = 0
  BY <1>1, FinishIs
<1>7. /\ heap.allocated + MovingBytes = Cardinality(Taken(blocks)) /\ Within(heap, MovingBytes)
      /\ MovingBytes \in Nat /\ heap.allocated \in Int /\ Aligned(req.size) \in Nat
      /\ Cardinality(Taken(blocks)) \in Nat
  BY <1>2, MovingIs, TakenIs, AlignedIs DEF JmemInv, Accounts
<1>8. CASE req.kind = "move"
  <2> DEFINE from == req.at
             old == blocks[from].size
             copied == Fill(Copy(r.heap, from, r.at, old), r.at, req.size, req.owner, Aligned(old))
             k == InsertBlock(Wipe(copied, from, old), from, FindPrev(r.heap, from), Aligned(old))
             C == WithBlock(WithoutBlock(blocks, from), r.at, blk)
  <2>1. heap' = k /\ blocks' = C
    BY <1>8 DEF TryAlloc, MoveTo, r
  <2>2. /\ from \in DOMAIN blocks /\ from \notin garbage \cup ToSet(pool)
        /\ blk.owner = blocks[from].owner
        /\ Aligned(old) < Aligned(req.size) /\ Aligned(old) \in Nat
    <3>1. req.at \in Live /\ req.owner = blocks[req.at].owner /\ GrowthOf(req) > 0
      BY <1>8 DEF JmemInv, Requested
    <3>2. from \in DOMAIN blocks /\ from \notin garbage \cup ToSet(pool)
      BY <3>1 DEF Live
    <3>3. Aligned(old) \in Nat
      BY <3>2, MovingIs, TakenIs
    <3> QED BY <1>3, <1>7, <3>1, <3>2, <3>3 DEF GrowthOf
  <2> HIDE DEF k, C, copied
  <2>3. /\ Sound(k, C, garbage, pool)
        /\ k.allocated = r.heap.allocated /\ k.limit = r.heap.limit
        /\ Cardinality(Taken(C)) + Aligned(old) = Cardinality(Taken(blocks)) + Aligned(req.size)
    <3>1. /\ Allocated(r, heap, Taken(blocks), blk.size) /\ Aligned(blocks[from].size) < Aligned(blk.size)
      BY <1>3, <1>4, <2>2
    <3> HIDE DEF blk
    <3> QED BY <1>2, <1>3, <2>2, <3>1, SoundMoved DEF k, C, copied
  <2>4. MovingBytes = Aligned(old)
    BY <1>8, MovingIs
  <2>5. Accounts'
    <3>1. Within(r.heap, 0)
      BY <1>5, <1>7, <2>2, <2>4
    <3>2. Within(k, 0)
      BY <2>3, <3>1 DEF Within
    <3>3. Cardinality(Taken(C)) \in Nat
      BY <2>3, SoundFacts, TakenIs
    <3>4. k.allocated + 0 = Cardinality(Taken(C))
      BY <1>5, <1>7, <2>2, <2>3, <2>4, <3>3
    <3> QED BY <1>6, <2>1, <3>2, <3>4 DEF Accounts
  <2> QED BY <1>1, <1>6, <2>1, <2>3, <2>5 DEF JmemInv
<1>9. CASE req.kind # "move"
  <2> DEFINE k == Fill(r.heap, r.at, req.size, req.owner, 0)
             C == WithBlock(blocks, r.at, blk)
  <2>1. heap' = k /\ blocks' = C
    BY <1>9 DEF TryAlloc, r
  <2> HIDE DEF k, C
  <2>2. /\ Sound(k, C, garbage, pool)
        /\ k.allocated = r.heap.allocated /\ k.limit = r.heap.limit
        /\ Cardinality(Taken(C)) = Cardinality(Taken(blocks)) + Aligned(req.size)
    <3>1. Allocated(r, heap, Taken(blocks), blk.size)
      BY <1>3, <1>4
    <3> HIDE DEF blk
    <3> QED BY <1>2, <1>3, <3>1, SoundNew DEF k, C
  <2>3. MovingBytes = 0
    BY <1>9 DEF MovingBytes
  <2>4. Accounts'
    <3>1. Within(r.heap, 0)
      BY <1>5, <1>7, <2>3
    <3>2. Within(k, 0)
      BY <2>2, <3>1 DEF Within
    <3>3. k.allocated + 0 = Cardinality(Taken(C))
      BY <1>5, <1>7, <2>2, <2>3
    <3> QED BY <1>6, <2>1, <3>2, <3>3 DEF Accounts
  <2> QED BY <1>1, <1>6, <2>1, <2>2, <2>4 DEF JmemInv
<1> QED BY <1>8, <1>9

\* A block that has grown in place or to the front.
LEMMA GrownStep ==
  ASSUME JmemInv, Finish, UNCHANGED <<garbage, pool>>, req.kind # "move",
         NEW n \in Nat, Grows(heap', blocks', heap, blocks, garbage, pool, n)
  PROVE  JmemInv'
<1>1. /\ Sound(heap', blocks', garbage', pool') /\ Within(heap', 0)
      /\ heap'.allocated = heap.allocated + n
      /\ Cardinality(Taken(blocks')) = Cardinality(Taken(blocks)) + n
  BY DEF Grows
<1>2. Requested' /\ MovingBytes' = 0
  BY FinishIs
<1>3. heap.allocated + 0 = Cardinality(Taken(blocks)) /\ heap.allocated \in Int
      /\ Cardinality(Taken(blocks)) \in Nat
  BY MovingIs, TakenIs DEF JmemInv, Accounts
<1>4. heap'.allocated + MovingBytes' = Cardinality(Taken(blocks'))
  BY <1>1, <1>2, <1>3
<1> QED BY <1>1, <1>2, <1>4 DEF JmemInv, Accounts

\* The block of a request to grow, and the region before it.
LEMMA GrowFacts ==
  ASSUME JmemInv, pc = "grow"
  PROVE  /\ req.kind = "grow" /\ req.size \in Nat \ {0}
         /\ req.at \in DOMAIN blocks /\ req.at \notin garbage \cup ToSet(pool)
         /\ ~ blocks[req.at].chunk /\ req.owner = blocks[req.at].owner
         /\ GrowthOf(req) \in Nat /\ GrowthOf(req) > 0 /\ Multiple(GrowthOf(req))
         /\ Aligned(req.size) = Aligned(blocks[req.at].size) + GrowthOf(req)
         /\ Aligned(blocks[req.at].size) \in Nat /\ req.at \in Int /\ 0 <= req.at
         /\ Sound(heap, blocks, garbage, pool) /\ Within(heap, 0)
         /\ Layout(heap, Taken(blocks)) /\ FreeList(heap.mem)
         /\ GrowPrev \in Nodes(heap.mem)
<1>1. /\ req.kind = "grow" /\ req \in Requests /\ req.at \in Live /\ ~ blocks[req.at].chunk
      /\ req.owner = blocks[req.at].owner /\ GrowthOf(req) > 0
  BY DEF JmemInv, Requested
<1>2. req.size \in Nat \ {0} /\ req.at \in DOMAIN blocks /\ req.at \notin garbage \cup ToSet(pool)
  BY <1>1 DEF Requests, Live
<1>3. /\ Aligned(blocks[req.at].size) \in Nat /\ Multiple(Aligned(blocks[req.at].size))
      /\ req.at \in Int /\ req.at \in Words /\ 0 <= req.at
  BY <1>2, MovingIs, TakenIs
<1>4. Aligned(req.size) \in Nat /\ Multiple(Aligned(req.size))
  BY <1>2, AlignedIs
<1>5. GrowthOf(req) \in Nat /\ Aligned(req.size) = Aligned(blocks[req.at].size) + GrowthOf(req)
  BY <1>1, <1>3, <1>4 DEF GrowthOf
<1>6. Multiple(GrowthOf(req))
  BY <1>3, <1>4, Multiples, Zenon DEF GrowthOf
<1>7. Sound(heap, blocks, garbage, pool) /\ Within(heap, 0)
  BY <1>1, MovingIs DEF JmemInv, Accounts
<1>8. Layout(heap, Taken(blocks)) /\ FreeList(heap.mem)
  BY <1>7, SoundFacts DEF Layout
<1>9. GrowPrev \in Nodes(heap.mem)
  BY <1>3, <1>8, FindPrevIs DEF Layout, GrowPrev
<1> QED BY <1>1, <1>2, <1>3, <1>5, <1>6, <1>7, <1>8, <1>9

LEMMA ExtendAtEndStep ==
  ASSUME JmemInv, ExtendAtEnd
  PROVE  JmemInv'
<1> DEFINE at == req.at
           n == GrowthOf(req)
           g == Fill(TakeFront(heap, GrowPrev, n), at, req.size, blocks[at].owner,
                     Aligned(blocks[at].size))
           k == RaiseLimit([g EXCEPT !.skip = GrowPrev, !.allocated = @ + n])
           C == [blocks EXCEPT ![at].size = req.size]
<1>1. /\ pc = "grow" /\ heap.mem[GrowPrev].next = at + Aligned(blocks[at].size)
      /\ n <= heap.mem[heap.mem[GrowPrev].next].size
      /\ heap' = Grown(TakeFront(heap, GrowPrev, n), GrowPrev, at)
      /\ blocks' = C /\ Finish /\ UNCHANGED <<garbage, pool>>
  BY DEF ExtendAtEnd, AtEnd, GrowNext
<1>2. heap' = k
  BY <1>1, GrowFacts DEF Grown
<1> HIDE DEF k, C, g, n
<1>3. Grows(k, C, heap, blocks, garbage, pool, n)
  <2>1. /\ n \in Nat /\ n > 0 /\ Aligned(req.size) = Aligned(blocks[at].size) + n
        /\ req.size \in Nat \ {0} /\ at \in DOMAIN blocks /\ at \notin garbage \cup ToSet(pool)
        /\ ~ blocks[at].chunk /\ GrowPrev \in Nodes(heap.mem)
        /\ Sound(heap, blocks, garbage, pool) /\ Within(heap, 0)
    BY <1>1, GrowFacts DEF n
  <2> HIDE DEF at
  <2> QED BY <1>1, <2>1, SoundExtended DEF k, C, g
<1>4. n \in Nat /\ req.kind # "move"
  BY <1>1, GrowFacts DEF n
<1> QED BY <1>1, <1>2, <1>3, <1>4, GrownStep

LEMMA ExtendAtFrontStep ==
  ASSUME JmemInv, ExtendAtFront
  PROVE  JmemInv'
<1> DEFINE at == req.at
           n == GrowthOf(req)
           q == GrowPrev
           exact == n = heap.mem[q].size
           prev == IF exact THEN FindPrev(heap, q) ELSE q
           mem == IF exact THEN [heap.mem EXCEPT ![prev].next = GrowNext]
                           ELSE [heap.mem EXCEPT ![prev].size = @ - n]
           L == [heap EXCEPT !.mem = mem]
           to == at - n
           old == blocks[at].size
           g == Fill(Copy(L, at, to, old), to, req.size, blocks[at].owner, Aligned(old))
           k == RaiseLimit([g EXCEPT !.skip = prev, !.allocated = @ + n])
           C == WithBlock(WithoutBlock(blocks, at), to, [blocks[at] EXCEPT !.size = req.size])
<1>1. /\ pc = "grow" /\ q + heap.mem[q].size = at /\ n <= heap.mem[q].size
      /\ heap' = Grown(Copy(L, at, to, old), prev, to)
      /\ blocks' = C /\ Finish /\ UNCHANGED <<garbage, pool>>
  BY DEF ExtendAtFront, AtFront
<1>2. heap' = k
  BY <1>1, GrowFacts DEF Grown
<1>3. /\ n \in Nat /\ n > 0 /\ Aligned(req.size) = Aligned(blocks[at].size) + n /\ Multiple(n)
      /\ req.size \in Nat \ {0} /\ at \in DOMAIN blocks /\ at \notin garbage \cup ToSet(pool)
      /\ ~ blocks[at].chunk /\ q \in Nodes(heap.mem) /\ at \in Int /\ 0 <= at
      /\ Sound(heap, blocks, garbage, pool) /\ Within(heap, 0)
      /\ Layout(heap, Taken(blocks)) /\ FreeList(heap.mem) /\ req.kind = "grow"
  BY <1>1, GrowFacts
<1> HIDE DEF k, C, g, n, q
<1>4. /\ q # First /\ q \in Heads(heap.mem) /\ q \in Int /\ heap.mem[q].size \in Nat /\ 0 <= q
  <2>1. q # First
    BY <1>1, <1>3, ConstantTypes DEF FreeList
  <2>2. q \in Heads(heap.mem) /\ q \in Words /\ heap.mem[q].size \in Nat
    BY <1>3, <2>1, NodeFacts
  <2> QED BY <2>1, <2>2, WordIs DEF Multiple
<1>5. 0 <= at - n
  BY <1>1, <1>3, <1>4
<1>6. \E f : FrontTaken(f, L, heap, to, n, prev)
  <2>1. CASE exact
    <3>1. /\ prev = FindPrev(heap, q) /\ to = q
          /\ L = [heap EXCEPT !.mem = [heap.mem EXCEPT ![prev].next = heap.mem[q].next]]
      BY <1>1, <1>3, <1>4, <2>1 DEF GrowNext, q
    <3> HIDE DEF prev, L, to
    <3>2. FrontTaken(TakeFront(heap, prev, n), L, heap, q, n, prev)
      BY <1>3, <1>4, <2>1, <3>1, FrontWhole
    <3> QED BY <3>1, <3>2
  <2>2. CASE ~ exact
    <3>1. /\ prev = q /\ to = (q + heap.mem[q].size) - n /\ n < heap.mem[q].size
          /\ L = [heap EXCEPT !.mem = [heap.mem EXCEPT ![q].size = @ - n]]
      BY <1>1, <1>3, <1>4, <2>2
    <3> HIDE DEF prev, L, to
    <3>2. FrontTaken(L, L, heap, (q + heap.mem[q].size) - n, n, q)
      BY <1>3, <1>4, <3>1, FrontPart
    <3> QED BY <3>1, <3>2
  <2> QED BY <2>1, <2>2
<1>7. PICK f : FrontTaken(f, L, heap, at - n, n, prev)
  BY <1>6
<1> HIDE DEF prev, L
<1>8. Grows(k, C, heap, blocks, garbage, pool, n)
  <2> HIDE DEF at
  <2> QED BY <1>3, <1>5, <1>7, SoundFront DEF k, C, g
<1> QED BY <1>1, <1>2, <1>3, <1>8, GrownStep
-----------------------------------------------------------------------------
(* The invariant of the heap.                                              *)

LEMMA StepKeeps ==
  ASSUME JmemInv, [Next]_vars
  PROVE  JmemInv'
<1>1. ASSUME NEW o \in Owners, NEW size \in Sizes, NEW max \in {High, Full}, Alloc(o, size, max)
      PROVE  JmemInv'
  BY <1>1, AllocStep
<1>2. ASSUME NEW o \in Owners, PoolsAlloc(o) PROVE JmemInv'
  BY <1>2, PoolsAllocStep
<1>3. ASSUME NEW at \in Live, Free(at) \/ Drop(at) PROVE JmemInv'
  BY <1>3, FreeStep, DropStep
<1>4. ASSUME NEW at \in Live, NEW size \in Sizes, ShrinkRealloc(at, size) \/ GrowRealloc(at, size)
      PROVE  JmemInv'
  BY <1>4, ShrinkStep, GrowStep
<1>5. ASSUME NEW at \in garbage, Collect(at) PROVE JmemInv'
  BY <1>5, CollectStep
<1>6. CASE CollectEmpty
  BY <1>6, CollectEmptyStep
<1>7. CASE EndCollect
  BY <1>7, EndCollectStep
<1>8. CASE TryAlloc
  BY <1>8, TryAllocStep
<1>9. CASE RaisePressure
  BY <1>9, RaisePressureStep
<1>10. CASE ReturnNull
  BY <1>10, ReturnNullStep
<1>11. CASE ExtendAtEnd
  BY <1>11, ExtendAtEndStep
<1>12. CASE ExtendAtFront
  BY <1>12, ExtendAtFrontStep
<1>13. CASE StartMove
  BY <1>13, StartMoveStep
<1>14. CASE UNCHANGED vars
  <2>1. UNCHANGED <<heap, blocks, garbage, pool, pc, req, pressure>>
    BY <1>14 DEF vars
  <2>2. Sound(heap', blocks', garbage', pool')
    BY <2>1 DEF JmemInv
  <2>3. Requested'
    BY <2>1 DEF JmemInv, Requested, Live, GrowthOf
  <2>4. Accounts'
    BY <2>1 DEF JmemInv, Accounts, MovingBytes
  <2> QED BY <2>2, <2>3, <2>4 DEF JmemInv
<1> QED BY <1>1, <1>2, <1>3, <1>4, <1>5, <1>6, <1>7, <1>8, <1>9, <1>10, <1>11, <1>12,
           <1>13, <1>14 DEF Next, Serve

(* The free list, the blocks, the pool, the request in progress and the    *)
(* counters agree after every step of the allocator and the collector.     *)
THEOREM HeapInvariant == Spec => []JmemInv
<1>1. Init => JmemInv
  BY InitHolds
<1>2. JmemInv /\ [Next]_vars => JmemInv'
  BY StepKeeps
<1> QED BY <1>1, <1>2, PTL DEF Spec
-----------------------------------------------------------------------------
(* What it says of the heap.                                               *)

LEMMA ContentsFollow == JmemInv => ContentsKept
BY DEF JmemInv, Sound, Kept, ContentsKept, BlockWords, Live

LEMMA AccountsFollow == JmemInv => SizeAccounts
<1> SUFFICES ASSUME JmemInv PROVE SizeAccounts
  OBVIOUS
<1>1. UNION {BlockBytes(a) : a \in DOMAIN blocks} = Taken(blocks)
  BY DEF Taken, BlockBytes, Bytes
<1>2. MovingBytes = IF req.kind = "move" THEN Aligned(blocks[req.at].size) ELSE 0
  BY DEF MovingBytes
<1>3. /\ heap.allocated + MovingBytes = Cardinality(Taken(blocks))
      /\ heap.allocated <= heap.limit
      /\ heap.limit <= heap.allocated + MovingBytes + GCLimit
  BY DEF JmemInv, Accounts, Within
<1> QED BY <1>1, <1>2, <1>3 DEF SizeAccounts

LEMMA PartitionFollows == JmemInv => HeapPartitioned
<1> SUFFICES ASSUME JmemInv PROVE HeapPartitioned
  OBVIOUS
<1> DEFINE m == heap.mem
           R(w) == {r \in Regions(heap) : w \in RegionWords(r)}
           B(w) == {a \in DOMAIN blocks : w \in BlockWords(a)}
<1>1. /\ Sound(heap, blocks, garbage, pool) /\ Placed(blocks)
      /\ FreeList(m) /\ FreeBytes(m) = Bytewise \ Taken(blocks)
      /\ heap.skip \in Nodes(m) \cup {EndOfList}
  BY SoundFacts DEF JmemInv, Layout
<1>2. Regions(heap) = Heads(m) /\ Listed(heap) = Nodes(m)
  BY ListedIs
<1>3. ASSUME NEW p \in Listed(heap)
      PROVE  /\ m[p].next \in Regions(heap) \cup {EndOfList}
             /\ p + m[p].size < m[p].next
             /\ ~ \E r \in Regions(heap) : p < r /\ r < m[p].next
  <2>1. /\ p \in Int /\ m[p].next \in Nat /\ p + m[p].size < m[p].next
        /\ m[p].next # EndOfList => m[p].next \in Heads(m)
        /\ \A r \in Heads(m) : r <= p \/ m[p].next <= r
    BY <1>1, <1>2, NodeFacts DEF Multiple
  <2>2. \A r \in Heads(m) : r \in Int
    BY WordIs DEF Heads, Multiple
  <2> QED BY <1>2, <2>1, <2>2
<1>4. ASSUME NEW r \in Heads(m), NEW w \in Words
      PROVE  w \in RegionWords(r) <=> r <= w /\ w < r + m[r].size
  <2>1. r \in Nodes(m) /\ r # First
    BY WordIs, ConstantTypes DEF Nodes, Heads
  <2>2. m[r].size \in Nat \ {0} /\ Multiple(m[r].size)
    BY <1>1, <2>1, NodeFacts, ConstantTypes
  <2>3. Aligned(m[r].size) = m[r].size
    BY <2>2, AlignedIs
  <2> QED BY <2>3, WordIs, WordsOfIs DEF RegionWords, Multiple
<1>5. ASSUME NEW w \in Words
      PROVE  Cardinality(R(w)) + Cardinality(B(w)) = 1
  <2>1. w \in Bytewise /\ w \in Int
    BY WordIs, ConstantTypes DEF Bytewise, Multiple
  <2>2. \A a \in B(w) : w \in Taken(blocks)
    BY <1>1, SoundFacts DEF BlockWords
  <2>3. \A r \in R(w) : w \in FreeBytes(m)
    BY <1>1, <1>2, <1>4, <2>1, FreeByteIs
  <2>4. CASE w \in FreeBytes(m)
    <3>1. PICK r \in Heads(m) : r <= w /\ w < r + m[r].size
      BY <2>4 DEF FreeBytes
    <3>2. R(w) = {r}
      <4>1. \A q \in Heads(m) : q <= w /\ w < q + m[q].size => q = r
        BY <1>1, <2>1, <3>1, FreeByteIs
      <4> QED BY <1>2, <1>4, <3>1, <4>1
    <3>3. B(w) = {}
      BY <1>1, <2>2, <2>4
    <3> HIDE DEF R, B
    <3>4. Cardinality(R(w)) = 1 /\ Cardinality(B(w)) = 0
      BY <3>2, <3>3, FS_Singleton, FS_EmptySet, Zenon
    <3> QED BY <3>4
  <2>5. CASE w \notin FreeBytes(m)
    <3>1. w \in Taken(blocks)
      BY <1>1, <2>1, <2>5
    <3>2. PICK a \in DOMAIN blocks : w \in Bytes(a, blocks[a].size)
      BY <3>1 DEF Taken
    <3>3. w \in BlockWords(a)
      <4>1. a \in Int /\ blocks[a].size \in Nat \ {0}
        BY <1>1, TakenIs
      <4> QED BY <2>1, <3>2, <4>1, BytesAre, WordIs, WordsOfIs DEF BlockWords
    <3>4. B(w) = {a}
      BY <1>1, <3>3, SoundFacts DEF BlockWords
    <3>5. R(w) = {}
      BY <2>3, <2>5
    <3> HIDE DEF R, B
    <3>6. Cardinality(R(w)) = 0 /\ Cardinality(B(w)) = 1
      BY <3>4, <3>5, FS_Singleton, FS_EmptySet, Zenon
    <3> QED BY <3>6
  <2> QED BY <2>4, <2>5
<1> QED BY <1>1, <1>2, <1>3, <1>5 DEF HeapPartitioned

LEMMA FailuresFollow == JmemInv => FailsOnlyWhenFull
<1> SUFFICES ASSUME JmemInv, NoSpace, pressure = High,
                    NEW w \in Words, w + Aligned(req.size) <= HeapSize,
                    \A a \in Live : BlockWords(a) \cap WordsOf(w, req.size) = {}
             PROVE  FALSE
  BY DEF FailsOnlyWhenFull
<1> DEFINE m == heap.mem
           n == Aligned(req.size)
<1>1. /\ Sound(heap, blocks, garbage, pool) /\ Placed(blocks) /\ Layout(heap, Taken(blocks))
      /\ FreeList(m) /\ FreeBytes(m) = Bytewise \ Taken(blocks)
  BY SoundFacts DEF JmemInv, Layout
<1>2. pc = "try" /\ HeapAlloc(heap, req.size).at = NoBlock
  BY DEF NoSpace
<1>3. Live = DOMAIN blocks
  <2>1. garbage = {} /\ pool = <<>>
    BY <1>2 DEF JmemInv, Requested
  <2>2. ToSet(<<>>) = {}
    BY DEF ToSet
  <2> QED BY <2>1, <2>2 DEF Live
<1>4. req.size \in Nat \ {0}
  BY <1>2 DEF JmemInv, Requested, Requests
<1>5. n \in Nat /\ n > 0 /\ w \in Int /\ 0 <= w
  BY <1>4, AlignedIs, WordIs, ConstantTypes DEF Multiple
<1>6. \A q \in Heads(m) : m[q].size < n
  BY <1>1, <1>2, <1>4, HeapAllocIs
<1>7. ASSUME NEW b \in Int, w <= b, b < w + n PROVE b \in FreeBytes(m)
  <2>1. b \in Bytewise
    BY <1>5, <1>7, ConstantTypes DEF Bytewise
  <2>2. ASSUME b \in Taken(blocks) PROVE FALSE
    <3>1. PICK a \in DOMAIN blocks : b \in Bytes(a, blocks[a].size)
      BY <2>2 DEF Taken
    <3>2. /\ a \in Int /\ a \in Words /\ blocks[a].size \in Nat \ {0}
          /\ Aligned(blocks[a].size) \in Nat
      BY <1>1, TakenIs
    <3>3. a <= b /\ b < a + Aligned(blocks[a].size)
      BY <3>1, <3>2, BytesAre
    <3> DEFINE x == IF a <= w THEN w ELSE a
    <3>4. /\ x \in Words /\ a <= x /\ x < a + Aligned(blocks[a].size)
          /\ w <= x /\ x < w + n
      BY <1>5, <1>7, <3>2, <3>3
    <3> HIDE DEF x
    <3>5. x \in BlockWords(a) /\ x \in WordsOf(w, req.size)
      BY <3>4, WordIs, WordsOfIs DEF BlockWords, Multiple
    <3> QED BY <1>3, <3>5
  <2> QED BY <1>1, <2>1, <2>2
<1> HIDE DEF n
<1>8. PICK r \in Heads(m) : r <= w /\ w < r + m[r].size
  BY <1>5, <1>7 DEF FreeBytes
<1>9. /\ r \in Nodes(m) /\ r \in Int /\ m[r].size \in Nat /\ m[r].next \in Nat
      /\ r + m[r].size < m[r].next /\ \A q \in Heads(m) : q <= r \/ m[r].next <= q
  BY <1>1, NodeFacts DEF Nodes, Multiple
<1>10. r + m[r].size \in FreeBytes(m)
  <2>1. w <= r + m[r].size /\ r + m[r].size < w + n /\ r + m[r].size \in Int
    BY <1>5, <1>6, <1>8, <1>9
  <2> QED BY <1>7, <2>1
<1>11. PICK q \in Heads(m) : q <= r + m[r].size /\ r + m[r].size < q + m[q].size
  BY <1>10 DEF FreeBytes
<1>12. /\ q \in Nodes(m) /\ q \in Int /\ m[q].size \in Nat /\ m[q].next \in Nat
       /\ q + m[q].size < m[q].next /\ (r <= q \/ m[q].next <= r)
  BY <1>1, NodeFacts DEF Nodes, Multiple
<1> QED BY <1>9, <1>11, <1>12

(* The list ascends through all free regions, no two of them touch, every  *)
(* word is in exactly one region or one block, and the skip pointer is on  *)
(* the list (jmem_heap_insert_block, jmem_heap_find_prev).                 *)
THEOREM Partitioned == Spec => []HeapPartitioned
BY HeapInvariant, PartitionFollows, PTL

(* What an owner wrote is what it reads, through allocation, free, the     *)
(* four ways of jmem_heap_realloc_block and every collection in between.   *)
THEOREM ContentsStay == Spec => []ContentsKept
BY HeapInvariant, ContentsFollow, PTL

(* allocated_size counts the bytes of the blocks but for the one that      *)
(* moves, and jmem_heap_limit stays within one CONFIG_GC_LIMIT above it.   *)
THEOREM SizesAgree == Spec => []SizeAccounts
BY HeapInvariant, AccountsFollow, PTL

(* jmem_heap_gc_and_alloc_block gives up only when no run of words between *)
(* the blocks in use is long enough for the request.                       *)
THEOREM FailsWhenFull == Spec => []FailsOnlyWhenFull
BY HeapInvariant, FailuresFollow, PTL
=============================================================================
