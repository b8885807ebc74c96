------------------------------ MODULE JmemHeap ------------------------------
(***************************************************************************)
(* The heap of JerryScript (jerry-core/jmem), one of the interpreters the  *)
(* fuzzer runs: a first-fit allocator over a static area whose free        *)
(* regions form a list sorted by address and kept inside the area itself,  *)
(* with a pool of one-word chunks on top of it, and a garbage collection   *)
(* asked for with growing pressure when a request cannot be served.        *)
(*                                                                         *)
(* Addresses and sizes are in bytes.  The area is an array of aligned      *)
(* words; a word holds the header of a free region, a word some owner has  *)
(* written, or Junk, which nobody may read.  The engine is sequential: a   *)
(* request interleaves only with the collection it triggers, which frees   *)
(* unreachable blocks in the order of the collector's lists.               *)
(***************************************************************************)
EXTENDS Integers, FiniteSets, SequencesExt

CONSTANTS
  HeapSize,    \* JMEM_HEAP_AREA_SIZE
  Alignment,   \* JMEM_ALIGNMENT, also the size of a free region's header
  GCLimit,     \* CONFIG_GC_LIMIT
  Owners,      \* who may own a block; an owner holds one at a time
  Sizes,       \* the sizes that are asked for
  NoBlock,     \* the null pointer
  Nobody       \* the owner of a block nobody can reach

ASSUME HeapAssumption ==
  /\ HeapSize \in Nat \ {0} /\ Alignment \in Nat \ {0} /\ GCLimit \in Nat \ {0}
  /\ HeapSize % Alignment = 0 /\ GCLimit >= Alignment
  /\ Sizes \subseteq 1..HeapSize
  /\ NoBlock \notin Int /\ Nobody \notin Owners

VARIABLES
  heap,      \* [mem, skip, allocated, limit]: the area and the heap's counters
  blocks,    \* address -> [owner, size, chunk], the blocks handed out
  garbage,   \* the addresses of blocks nobody can reach any more
  pool,      \* jmem_free_8_byte_chunk_p: the free chunks, the last one first
  pc, req, pressure

vars == <<heap, blocks, garbage, pool, pc, req, pressure>>

\* jmem_pressure_t
None == 0
Low  == 1
High == 2
Full == 3

First == -Alignment              \* the address of the list's head, of size 0
EndOfList == HeapSize + Alignment
Words == {w \in 0..(HeapSize - 1) : w % Alignment = 0}

Junk == [junk |-> TRUE]
Header(size, next) == [size |-> size, next |-> next]
Content(owner, offset) == [owner |-> owner, offset |-> offset]

Aligned(size) == ((size + Alignment - 1) \div Alignment) * Alignment
WordsOf(at, size) == {w \in Words : at <= w /\ w < at + Aligned(size)}
-----------------------------------------------------------------------------
(* The free list.                                                          *)

\* The words with a header in them: free regions, which start with it
Regions(h) == {w \in Words : h.mem[w] \in [size : Nat, next : Nat]}
Listed(h) == Regions(h) \cup {First}

\* jmem_heap_find_prev: the last region before a block, from the skip pointer
FindPrev(h, block) ==
  LET Walk[p \in Listed(h)] ==
        IF h.mem[p].next < block THEN Walk[h.mem[p].next] ELSE p
  IN Walk[IF block > h.skip THEN h.skip ELSE First]

\* jmem_heap_insert_block: merges with the region before and the one after
InsertBlock(h, block, prev, size) ==
  LET next == h.mem[prev].next
      joinsPrev == prev + h.mem[prev].size = block
      b == IF joinsPrev THEN prev ELSE block
      bSize == IF joinsPrev THEN h.mem[prev].size + size ELSE size
      mem == IF joinsPrev THEN h.mem ELSE [h.mem EXCEPT ![prev].next = block]
  IN [h EXCEPT
        !.mem = IF b + bSize = next
                THEN [mem EXCEPT ![b] = Header(bSize + mem[next].size, mem[next].next),
                                 ![next] = Junk]
                ELSE [mem EXCEPT ![b] = Header(bSize, next)],
        !.skip = prev]

\* The region after prev gives up its first `size` bytes
TakeFront(h, prev, size) ==
  LET region == h.mem[prev].next
      old == h.mem[region]
      taken == [h.mem EXCEPT ![region] = Junk]
  IN [h EXCEPT !.mem =
        IF old.size > size
        THEN [taken EXCEPT ![prev].next = region + size,
                           ![region + size] = Header(old.size - size, old.next)]
        ELSE [taken EXCEPT ![prev].next = old.next]]

\* The loops that move jmem_heap_limit to where allocated_size asks for it
RaiseLimit(h) ==
  IF h.allocated < h.limit THEN h
  ELSE [h EXCEPT !.limit = @ + ((h.allocated - h.limit) \div GCLimit + 1) * GCLimit]

LowerLimit(h) ==
  IF h.limit < h.allocated + GCLimit THEN h
  ELSE [h EXCEPT !.limit = @ - ((h.limit - h.allocated) \div GCLimit) * GCLimit]

\* The slow path of jmem_heap_alloc: the region before the first that fits
FirstFit(h, size) ==
  LET Search[p \in Listed(h)] ==
        LET current == h.mem[p].next
        IN IF current = EndOfList THEN NoBlock
           ELSE IF h.mem[current].size >= size THEN p ELSE Search[current]
  IN Search[First]

\* Mutant: the skip pointer stays on the region that was handed out
FastAllocKeepsSkip(h) ==
  LET rest == TakeFront(h, First, Alignment)
  IN [rest EXCEPT
        !.allocated = @ + Alignment,
        !.limit = IF h.allocated + Alignment >= @ THEN @ + GCLimit ELSE @]

\* The fast path, for one word: the first region always has room
FastAlloc(h) ==
  LET region == h.mem[First].next
      rest == TakeFront(h, First, Alignment)
  IN [rest EXCEPT
        !.allocated = @ + Alignment,
        !.limit = IF h.allocated + Alignment >= @ THEN @ + GCLimit ELSE @,
        !.skip = IF @ = region THEN rest.mem[First].next ELSE @]

SlowAlloc(h, prev, size) ==
  RaiseLimit([TakeFront(h, prev, size) EXCEPT !.allocated = @ + size, !.skip = prev])

\* jmem_heap_alloc: the block's address, NoBlock if there is no room, and the heap
HeapAlloc(h, bytes) ==
  LET size == Aligned(bytes)
      prev == FirstFit(h, size)
  IN CASE size = Alignment /\ h.mem[First].next # EndOfList ->
            [at |-> h.mem[First].next, heap |-> FastAlloc(h)]
       [] (size # Alignment \/ h.mem[First].next = EndOfList) /\ prev # NoBlock ->
            [at |-> h.mem[prev].next, heap |-> SlowAlloc(h, prev, size)]
       [] OTHER -> [at |-> NoBlock, heap |-> h]

Wipe(h, at, size) ==
  [h EXCEPT !.mem = [w \in DOMAIN @ |-> IF w \in WordsOf(at, size) THEN Junk ELSE @[w]]]

\* jmem_heap_free_block_internal
HeapFree(h, at, size) ==
  LET freed == InsertBlock(Wipe(h, at, size), at, FindPrev(h, at), Aligned(size))
  IN LowerLimit([freed EXCEPT !.allocated = @ - Aligned(size)])

\* External: an owner fills the words it was given, but for the first `kept` bytes
Fill(h, at, size, owner, kept) ==
  [h EXCEPT !.mem = [w \in DOMAIN @ |-> IF w \in WordsOf(at, size) /\ w - at >= kept
                                        THEN Content(owner, w - at) ELSE @[w]]]

\* memcpy and memmove of the first `size` bytes
Copy(h, from, to, size) ==
  [h EXCEPT !.mem = [w \in DOMAIN @ |-> IF w \in WordsOf(to, size)
                                        THEN @[w - to + from] ELSE @[w]]]
-----------------------------------------------------------------------------
(* Requests.                                                               *)

WithoutBlock(B, at) == Restrict(B, DOMAIN B \ {at})
WithBlock(B, at, block) == [a \in DOMAIN B \cup {at} |-> IF a = at THEN block ELSE B[a]]

Idle == pc = "idle"
Live == DOMAIN blocks \ (garbage \cup ToSet(pool))
Owning(o) == \E a \in Live : blocks[a].owner = o
NoRequest == [kind |-> "none"]
GrowthOf(r) == Aligned(r.size) - Aligned(blocks[r.at].size)

Init ==
  /\ heap = [mem |-> [w \in Words \cup {First} |->
                        CASE w = First -> Header(0, 0)
                          [] w = 0 -> Header(HeapSize, EndOfList)
                          [] OTHER -> Junk],
             skip |-> First, allocated |-> 0, limit |-> GCLimit]
  /\ blocks = <<>> /\ garbage = {} /\ pool = <<>>
  /\ pc = "idle" /\ req = NoRequest /\ pressure = None

\* ecma_free_unused_memory: under low pressure a collection runs only when
\* enough objects are new, under full pressure the engine is terminated
FreeUnusedMemory(level, next) ==
  /\ pressure' = level
  /\ pc' \in CASE level = Low  -> {"gc", next}
               [] level = High -> {"gc"}
               [] level = Full -> {"fatal"}

\* jmem_heap_gc_and_alloc_block, up to the first attempt
StartAlloc(h, r) ==
  /\ req' = r
  /\ IF h.allocated + r.size >= h.limit
     THEN FreeUnusedMemory(Low, "try")
     ELSE pc' = "try" /\ pressure' = None

\* jmem_heap_alloc_block (max = Full), jmem_heap_alloc_block_null_on_error (High)
Alloc(o, size, max) ==
  /\ Idle /\ ~Owning(o)
  /\ StartAlloc(heap, [kind |-> "alloc", owner |-> o, size |-> size, max |-> max])
  /\ UNCHANGED <<heap, blocks, garbage, pool>>

\* jmem_pools_alloc: a free chunk, or a word of the heap
PoolsAlloc(o) ==
  /\ Idle /\ ~Owning(o)
  /\ \/ /\ pool # <<>>
        /\ heap' = Fill(heap, Head(pool), Alignment, o, 0)
        /\ blocks' = [blocks EXCEPT ![Head(pool)].owner = o]
        /\ pool' = Tail(pool)
        /\ UNCHANGED <<garbage, pc, req, pressure>>
     \/ /\ pool = <<>>
        /\ StartAlloc(heap, [kind |-> "chunk", owner |-> o, size |-> Alignment, max |-> Full])
        /\ UNCHANGED <<heap, blocks, garbage, pool>>

\* jmem_heap_free_block, or for a chunk jmem_pools_free
FreeBlock(at) ==
  IF blocks[at].chunk
  THEN /\ heap' = Wipe(heap, at, Alignment)
       /\ blocks' = [blocks EXCEPT ![at].owner = Nobody]
       /\ pool' = <<at>> \o pool
  ELSE /\ heap' = HeapFree(heap, at, blocks[at].size)
       /\ blocks' = WithoutBlock(blocks, at)
       /\ UNCHANGED pool

Free(at) ==
  /\ Idle /\ at \in Live
  /\ FreeBlock(at)
  /\ UNCHANGED <<garbage, pc, req, pressure>>

\* External: the last reference to a block goes away, and with it its contents
Drop(at) ==
  /\ Idle /\ at \in Live
  /\ heap' = Wipe(heap, at, blocks[at].size)
  /\ blocks' = [blocks EXCEPT ![at].owner = Nobody]
  /\ garbage' = garbage \cup {at}
  /\ UNCHANGED <<pool, pc, req, pressure>>

\* jmem_heap_realloc_block: the sizes are equal in words, or the tail is given back
ShrinkRealloc(at, size) ==
  LET old == Aligned(blocks[at].size)
      new == Aligned(size)
      wiped == Wipe(heap, at + new, old - new)
      tailFreed == InsertBlock(wiped, at + new, FindPrev(heap, at), old - new)
  IN /\ Idle /\ at \in Live /\ ~blocks[at].chunk
     /\ new <= old
     /\ heap' = IF new = old THEN heap
                ELSE LowerLimit([tailFreed EXCEPT !.allocated = @ - (old - new)])
     /\ blocks' = [blocks EXCEPT ![at].size = size]
     /\ UNCHANGED <<garbage, pool, pc, req, pressure>>

\* jmem_heap_realloc_block, up to the attempt to extend the block
GrowRealloc(at, size) ==
  LET r == [kind |-> "grow", at |-> at, owner |-> blocks[at].owner, size |-> size, max |-> Full]
  IN /\ Idle /\ at \in Live /\ ~blocks[at].chunk
     /\ GrowthOf(r) > 0
     /\ req' = r
     /\ IF heap.allocated + GrowthOf(r) >= heap.limit
        THEN FreeUnusedMemory(Low, "grow")
        ELSE pc' = "grow" /\ UNCHANGED pressure
     /\ UNCHANGED <<heap, blocks, garbage, pool>>
-----------------------------------------------------------------------------
(* Collections.                                                            *)

\* ecma_gc_run frees an unreachable block
Collect(at) ==
  /\ pc = "gc" /\ at \in garbage
  /\ FreeBlock(at)
  /\ garbage' = garbage \ {at}
  /\ UNCHANGED <<pc, req, pressure>>

\* jmem_pools_collect_empty, called under high pressure
CollectEmpty ==
  /\ pc = "gc" /\ garbage = {} /\ pressure = High /\ pool # <<>>
  /\ heap' = HeapFree(heap, Head(pool), Alignment)
  /\ blocks' = WithoutBlock(blocks, Head(pool))
  /\ pool' = Tail(pool)
  /\ UNCHANGED <<garbage, pc, req, pressure>>

\* Mutant: the free chunks of the pool are not given back to the heap
EndCollectKeepsPool ==
  /\ pc = "gc" /\ garbage = {}
  /\ pc' = IF req.kind = "grow" THEN "grow" ELSE "try"
  /\ UNCHANGED <<heap, blocks, garbage, pool, req, pressure>>

EndCollect ==
  /\ pc = "gc" /\ garbage = {}
  /\ pressure = High => pool = <<>>
  /\ pc' = IF req.kind = "grow" THEN "grow" ELSE "try"
  /\ UNCHANGED <<heap, blocks, garbage, pool, req, pressure>>
-----------------------------------------------------------------------------
(* Attempts.                                                               *)

Finish == pc' = "idle" /\ req' = NoRequest /\ pressure' = None

NewBlock(r) == [owner |-> r.owner, size |-> r.size, chunk |-> r.kind = "chunk"]

\* Mutant: the old block is given back before its bytes are copied
MoveToAfterFree(h, to) ==
  LET old == blocks[req.at].size
      freed == InsertBlock(h, req.at, FindPrev(h, req.at), Aligned(old))
  IN Fill(Copy(freed, req.at, to, old), to, req.size, req.owner,
          Aligned(old))

\* The end of jmem_heap_realloc_block for a block that moves: the collection may
\* have changed the list, so the region before the block is looked up again
MoveTo(h, to) ==
  LET old == blocks[req.at].size
      copied == Fill(Copy(h, req.at, to, old), to, req.size, req.owner, Aligned(old))
  IN InsertBlock(Wipe(copied, req.at, old), req.at, FindPrev(h, req.at), Aligned(old))

TryAlloc ==
  LET r == HeapAlloc(heap, req.size)
  IN /\ pc = "try" /\ r.at # NoBlock
     /\ IF req.kind = "move"
        THEN /\ heap' = MoveTo(r.heap, r.at)
             /\ blocks' = WithBlock(WithoutBlock(blocks, req.at), r.at, NewBlock(req))
        ELSE /\ heap' = Fill(r.heap, r.at, req.size, req.owner, 0)
             /\ blocks' = WithBlock(blocks, r.at, NewBlock(req))
     /\ Finish
     /\ UNCHANGED <<garbage, pool>>

NoSpace == pc = "try" /\ HeapAlloc(heap, req.size).at = NoBlock

\* The loop of jmem_heap_gc_and_alloc_block: try again under more pressure
RaisePressure ==
  /\ NoSpace /\ pressure < req.max
  /\ FreeUnusedMemory(pressure + 1, "try")
  /\ UNCHANGED <<heap, blocks, garbage, pool, req>>

ReturnNull ==
  /\ NoSpace /\ pressure >= req.max
  /\ Finish
  /\ UNCHANGED <<heap, blocks, garbage, pool>>

\* jmem_heap_realloc_block: the region before the block and the one after that
GrowPrev == FindPrev(heap, req.at)
GrowNext == heap.mem[GrowPrev].next

AtEnd == req.at + Aligned(blocks[req.at].size) = GrowNext
AtFront == ~AtEnd /\ GrowPrev + heap.mem[GrowPrev].size = req.at

Grown(h, prev, at) ==
  RaiseLimit([Fill(h, at, req.size, req.owner, Aligned(blocks[req.at].size))
                EXCEPT !.skip = prev, !.allocated = @ + GrowthOf(req)])

ExtendAtEnd ==
  /\ pc = "grow" /\ AtEnd /\ GrowthOf(req) <= heap.mem[GrowNext].size
  /\ heap' = Grown(TakeFront(heap, GrowPrev, GrowthOf(req)), GrowPrev, req.at)
  /\ blocks' = [blocks EXCEPT ![req.at].size = req.size]
  /\ Finish
  /\ UNCHANGED <<garbage, pool>>

ExtendAtFront ==
  LET growth == GrowthOf(req)
      exact == growth = heap.mem[GrowPrev].size
      prev == IF exact THEN FindPrev(heap, GrowPrev) ELSE GrowPrev
      mem == IF exact THEN [heap.mem EXCEPT ![prev].next = GrowNext]
                      ELSE [heap.mem EXCEPT ![prev].size = @ - growth]
      listed == [heap EXCEPT !.mem = mem]
      to == req.at - growth
  IN /\ pc = "grow" /\ AtFront /\ growth <= heap.mem[GrowPrev].size
     /\ heap' = Grown(Copy(listed, req.at, to, blocks[req.at].size), prev, to)
     /\ blocks' = WithBlock(WithoutBlock(blocks, req.at), to,
                            [blocks[req.at] EXCEPT !.size = req.size])
     /\ Finish
     /\ UNCHANGED <<garbage, pool>>

\* Mutant: the bytes of the block that moves stay in allocated_size
StartMoveCountsTwice ==
  /\ pc = "grow"
  /\ AtEnd => GrowthOf(req) > heap.mem[GrowNext].size
  /\ AtFront => GrowthOf(req) > heap.mem[GrowPrev].size
  /\ StartAlloc(heap, [req EXCEPT !.kind = "move"])
  /\ UNCHANGED <<heap, blocks, garbage, pool>>

\* No room around the block: its bytes are discounted and a new one is asked for
StartMove ==
  LET discounted == [heap EXCEPT !.allocated = @ - Aligned(blocks[req.at].size)]
  IN /\ pc = "grow"
     /\ AtEnd => GrowthOf(req) > heap.mem[GrowNext].size
     /\ AtFront => GrowthOf(req) > heap.mem[GrowPrev].size
     /\ heap' = discounted
     /\ StartAlloc(discounted, [req EXCEPT !.kind = "move"])
     /\ UNCHANGED <<blocks, garbage, pool>>

\* The engine's own steps inside a request
Serve ==
  \/ \E at \in garbage : Collect(at)
  \/ CollectEmpty \/ EndCollect
  \/ TryAlloc \/ RaisePressure \/ ReturnNull
  \/ ExtendAtEnd \/ ExtendAtFront \/ StartMove

Next ==
  \/ \E o \in Owners, size \in Sizes, max \in {High, Full} : Alloc(o, size, max)
  \/ \E o \in Owners : PoolsAlloc(o)
  \/ \E at \in Live : Free(at) \/ Drop(at)
  \/ \E at \in Live, size \in Sizes : ShrinkRealloc(at, size) \/ GrowRealloc(at, size)
  \/ Serve

Spec == Init /\ [][Next]_vars
-----------------------------------------------------------------------------
RegionWords(r) == WordsOf(r, heap.mem[r].size)
BlockWords(a) == WordsOf(a, blocks[a].size)
BlockBytes(a) == a .. (a + Aligned(blocks[a].size) - 1)

(* The list ascends through all regions, no two of them touch, each lies    *)
(* between blocks and every word is in exactly one region or one block; and *)
(* the skip pointer, where the next search may start, is on the list.  The  *)
(* pointer is cached across allocation, free and the three ways of realloc. *)
HeapPartitioned ==
  LET NextOf(p) == heap.mem[p].next
  IN /\ \A p \in Listed(heap) :
          /\ NextOf(p) \in Regions(heap) \cup {EndOfList}
          /\ p + heap.mem[p].size < NextOf(p)
          /\ ~ \E r \in Regions(heap) : p < r /\ r < NextOf(p)
     /\ \A w \in Words :
          Cardinality({r \in Regions(heap) : w \in RegionWords(r)})
            + Cardinality({a \in DOMAIN blocks : w \in BlockWords(a)}) = 1
     /\ heap.skip \in Listed(heap) \cup {EndOfList}

(* What an owner wrote is what it reads: no header, copy or merge of the    *)
(* heap touches a word of a live block, also when realloc moves the block   *)
(* over itself or a collection runs in the middle of it.                    *)
ContentsKept ==
  \A a \in Live : \A w \in BlockWords(a) :
    heap.mem[w] = Content(blocks[a].owner, w - a)

(* allocated_size is the number of bytes in blocks, less those of the one   *)
(* realloc is about to move, and the limit of the next collection is within *)
(* one GCLimit of it: jmem_heap_free_block_internal asserts the first half. *)
SizeAccounts ==
  LET moving == IF req.kind = "move" THEN Aligned(blocks[req.at].size) ELSE 0
  IN /\ heap.allocated + moving = Cardinality(UNION {BlockBytes(a) : a \in DOMAIN blocks})
     /\ heap.allocated <= heap.limit
     /\ heap.limit <= heap.allocated + moving + GCLimit

(* NULL is returned, and the engine terminated, only when no run of words   *)
(* outside the live blocks is long enough: everything reclaimable has been, *)
(* and has been merged.                                                     *)
FailsOnlyWhenFull ==
  NoSpace /\ pressure = High =>
    \A w \in Words : w + Aligned(req.size) <= HeapSize =>
      \E a \in Live : BlockWords(a) \cap WordsOf(w, req.size) # {}
=============================================================================
