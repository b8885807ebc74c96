------------------------------ MODULE MarkSweep ------------------------------
(***************************************************************************)
(* The garbage collector of JerryScript (ecma-gc.c), one of the            *)
(* interpreters the fuzzer runs: objects with external references are the  *)
(* roots, marking recurses to a limited depth and leaves what lies deeper  *)
(* to passes over the list of objects, the entries of weak maps keep their *)
(* values alive only together with their keys, and freeing an object       *)
(* unlinks it from the weak containers it is in.                           *)
(*                                                                         *)
(* The reference count of an object doubles as its colour: NonVisited is   *)
(* white, 1 is gray for an object without external references, 0 is marked *)
(* for it.  The order in which an object's references are followed is left *)
(* open.                                                                   *)
(***************************************************************************)
EXTENDS Integers, FiniteSets, SequencesExt

CONSTANTS
  Objects,     \* the objects, numbered in the order of ecma_gc_objects_cp
  MarkLimit,   \* JERRY_GC_MARK_LIMIT
  NoObject,    \* the value of a WeakSet entry, the target of no reference
  Heaps        \* the heaps to collect: records [refs, strong, entries]

\* The weak holders an object is a key of
HoldersOf(entries, k) == {h \in Objects : k \in DOMAIN entries[h]}

ASSUME MarkSweepAssumption ==
  /\ IsFiniteSet(Objects) /\ Objects = 1..Cardinality(Objects)
  /\ MarkLimit \in Nat \ {0}
  /\ NoObject \notin Objects
  /\ \A heap \in Heaps :
       /\ heap.refs \in [Objects -> Nat] /\ heap.strong \in [Objects -> SUBSET Objects]
       /\ DOMAIN heap.entries = Objects
       /\ \A h \in Objects : /\ DOMAIN heap.entries[h] \subseteq Objects
                             /\ Range(heap.entries[h]) \subseteq Objects \cup {NoObject}

VARIABLES
  heap,       \* the heap before the collection
  entries,    \* holder -> (key -> value), its weak container
  weakRefs,   \* key -> its holders, the internal property WEAK_REFS
  refs,       \* type_flags_refs: external references, and the colour
  white, black,   \* white_gray_list_head and black_list_head
  pc, cursor,     \* obj_iter_cp, as a place in black (roots) or white (pass)
  anything,   \* marked_anything_during_current_iteration
  stack       \* the activations of ecma_gc_mark: object, references left

vars == <<heap, entries, weakRefs, refs, white, black, pc, cursor, anything, stack>>

NonVisited == -1

Visited(o) == refs[o] # NonVisited
Allocated == ToSet(white) \cup ToSet(black)

Init ==
  /\ heap \in Heaps
  /\ entries = heap.entries
  /\ weakRefs = [k \in Objects |-> HoldersOf(heap.entries, k)]
  /\ refs = heap.refs
  /\ white = [i \in 1..Cardinality(Objects) |-> i] /\ black = <<>>
  /\ pc = "split" /\ cursor = 1 /\ anything = FALSE /\ stack = <<>>
-----------------------------------------------------------------------------
(* ecma_gc_mark and ecma_gc_set_object_visited.                             *)

\* What marking an object looks at: the objects it refers to, the entries of
\* its own weak map, and the weak containers it is a key of
References(o) ==
  ({"strong"} \X heap.strong[o]) \cup ({"entry"} \X DOMAIN entries[o])
    \cup ({"weak"} \X weakRefs[o])

\* The object a reference leads to: the value of a weak entry only if both its
\* holder and its key are visited by now
Leads(o, reference) ==
  CASE reference[1] = "strong" -> reference[2]
    [] reference[1] = "entry"  -> IF Visited(reference[2]) THEN entries[o][reference[2]] ELSE NoObject
    [] reference[1] = "weak"   -> IF Visited(reference[2]) THEN entries[reference[2]][o] ELSE NoObject

\* ecma_gc_mark is called
Enter(o) == <<[object |-> o, left |-> References(o)]>>

\* ecma_gc_mark_recursion_limit
DepthLeft == MarkLimit - (Len(stack) - 1)

\* Mutant: an object beyond the depth limit looks as if it had been marked
FollowForgetsGray(reference) ==
  LET frame == Head(stack)
      o == Leads(frame.object, reference)
      rest == <<[frame EXCEPT !.left = @ \ {reference}]>> \o Tail(stack)
  IN CASE o = NoObject \/ o \in {x \in Objects : Visited(x)} -> stack' = rest /\ UNCHANGED refs
       [] o \in {x \in Objects : ~Visited(x)} /\ DepthLeft > 0 ->
            refs' = [refs EXCEPT ![o] = 0] /\ stack' = Enter(o) \o rest
       [] OTHER -> refs' = [refs EXCEPT ![o] = 0] /\ stack' = rest

Follow(reference) ==
  LET frame == Head(stack)
      o == Leads(frame.object, reference)
      rest == <<[frame EXCEPT !.left = @ \ {reference}]>> \o Tail(stack)
  IN CASE o = NoObject \/ o \in {x \in Objects : Visited(x)} -> stack' = rest /\ UNCHANGED refs
       [] o \in {x \in Objects : ~Visited(x)} /\ DepthLeft > 0 ->
            refs' = [refs EXCEPT ![o] = 0] /\ stack' = Enter(o) \o rest
       [] OTHER -> refs' = [refs EXCEPT ![o] = 1] /\ stack' = rest

Mark ==
  /\ stack # <<>>
  /\ \/ \E reference \in Head(stack).left : Follow(reference)
     \/ Head(stack).left = {} /\ stack' = Tail(stack) /\ UNCHANGED refs
  /\ UNCHANGED <<heap, entries, weakRefs, white, black, pc, cursor, anything>>
-----------------------------------------------------------------------------
(* ecma_gc_run.                                                             *)

\* The list of some of the objects, in the order of ecma_gc_objects_cp
InListOrder(S) ==
  {s \in [1..Cardinality(S) -> S] : \A i, j \in DOMAIN s : i < j => s[i] < s[j]}

\* Objects with references from outside are moved to the black list
Split ==
  /\ pc = "split"
  /\ black' \in InListOrder({o \in ToSet(white) : refs[o] > 0})
  /\ white' \in InListOrder({o \in ToSet(white) : refs[o] = 0})
  /\ refs' = [o \in Objects |-> IF refs[o] = 0 THEN NonVisited ELSE refs[o]]
  /\ pc' = "roots"
  /\ UNCHANGED <<heap, entries, weakRefs, cursor, anything, stack>>

MarkRoot ==
  /\ pc = "roots" /\ stack = <<>> /\ cursor <= Len(black)
  /\ stack' = Enter(black[cursor])
  /\ cursor' = cursor + 1
  /\ UNCHANGED <<heap, entries, weakRefs, refs, white, black, pc, anything>>

EndRoots ==
  /\ pc = "roots" /\ stack = <<>> /\ cursor > Len(black)
  /\ pc' = "pass" /\ cursor' = 1 /\ anything' = FALSE
  /\ UNCHANGED <<heap, entries, weakRefs, refs, white, black, stack>>

\* A pass over the white list: a visited object is moved to the black list,
\* and marked now if the recursion had stopped at it
PassVisited ==
  /\ pc = "pass" /\ stack = <<>> /\ cursor <= Len(white)
  /\ LET o == white[cursor]
     IN /\ Visited(o)
        /\ white' = RemoveAt(white, cursor) /\ black' = Append(black, o)
        /\ IF refs[o] >= 1
           THEN /\ refs' = [refs EXCEPT ![o] = 0]
                /\ stack' = Enter(o) /\ anything' = TRUE
           ELSE UNCHANGED <<refs, stack, anything>>
  /\ UNCHANGED <<heap, entries, weakRefs, pc, cursor>>

PassWhite ==
  /\ pc = "pass" /\ stack = <<>> /\ cursor <= Len(white)
  /\ ~Visited(white[cursor])
  /\ cursor' = cursor + 1
  /\ UNCHANGED <<heap, entries, weakRefs, refs, white, black, pc, anything, stack>>

\* Mutant: the flag is not reset before the next pass
EndPassKeepsFlag ==
  /\ pc = "pass" /\ stack = <<>> /\ cursor > Len(white)
  /\ IF anything THEN UNCHANGED pc ELSE pc' = "sweep"
  /\ cursor' = 1
  /\ UNCHANGED <<heap, entries, weakRefs, refs, white, black, anything, stack>>

EndPass ==
  /\ pc = "pass" /\ stack = <<>> /\ cursor > Len(white)
  /\ IF anything THEN UNCHANGED pc ELSE pc' = "sweep"
  /\ cursor' = 1 /\ anything' = FALSE
  /\ UNCHANGED <<heap, entries, weakRefs, refs, white, black, stack>>

\* Mutant: a freed container stays in the WEAK_REFS of its keys
FreeObjectStaysHolder ==
  /\ pc = "sweep" /\ white # <<>>
  /\ LET o == Head(white)
     IN /\ weakRefs' = [weakRefs EXCEPT ![o] = {}]
        /\ entries' = [h \in Objects |->
                         IF h = o THEN <<>> ELSE Restrict(entries[h], DOMAIN entries[h] \ {o})]
  /\ white' = Tail(white)
  /\ UNCHANGED <<heap, refs, black, pc, cursor, anything, stack>>

\* ecma_gc_free_object: the object leaves the WEAK_REFS of the keys it holds
\* (ecma_op_container_free_weakmap_entries) and the containers that hold it
FreeObject ==
  /\ pc = "sweep" /\ white # <<>>
  /\ LET o == Head(white)
     IN /\ weakRefs' = [k \in Objects |-> IF k = o THEN {} ELSE weakRefs[k] \ {o}]
        /\ entries' = [h \in Objects |->
                         CASE h = o -> <<>>
                           [] h \in weakRefs[o] \ {o} -> Restrict(entries[h], DOMAIN entries[h] \ {o})
                           [] OTHER -> entries[h]]
  /\ white' = Tail(white)
  /\ UNCHANGED <<heap, refs, black, pc, cursor, anything, stack>>

EndSweep ==
  /\ pc = "sweep" /\ white = <<>>
  /\ pc' = "done"
  /\ UNCHANGED <<heap, entries, weakRefs, refs, white, black, cursor, anything, stack>>

Next ==
  \/ Mark \/ Split \/ MarkRoot \/ EndRoots
  \/ PassVisited \/ PassWhite \/ EndPass \/ FreeObject \/ EndSweep

Spec == Init /\ [][Next]_vars /\ WF_vars(Next)
-----------------------------------------------------------------------------
\* A set with the roots, with what its objects refer to, and with the value of
\* an entry whose holder and key are in it
Closed(S) ==
  /\ {o \in Objects : heap.refs[o] > 0} \subseteq S
  /\ \A o \in S : heap.strong[o] \subseteq S
  /\ \A h \in S : \A k \in S \cap DOMAIN heap.entries[h] :
       heap.entries[h][k] \in S \cup {NoObject}

\* What the roots keep alive is the least closed set
Alive == {o \in Objects : \A S \in SUBSET Objects : Closed(S) => o \in S}

(* The collection keeps exactly what is alive: no object is freed that can  *)
(* be reached, through weak entries too, however deep it lies and in        *)
(* whatever order the list and the references are gone through, and no      *)
(* other object survives.                                                   *)
KeepsExactlyAlive == pc \in {"sweep", "done"} => Alive = ToSet(black)

(* Keys and weak containers agree about each other at every step of the     *)
(* sweep, and a survivor's entry leads to no freed object: none of the two  *)
(* is left with a reference to what is not there any more.                  *)
WeakLinksAgree ==
  /\ \A k \in Allocated : weakRefs[k] = {h \in Allocated : k \in DOMAIN entries[h]}
  /\ pc = "done" => \A h \in Allocated :
       DOMAIN entries[h] \cup Range(entries[h]) \subseteq Allocated \cup {NoObject}

(* A survivor has its reference count back and is on the list once: the     *)
(* colours of this collection are gone before the next.                     *)
CountsRestored ==
  pc = "done" =>
    /\ \A o \in Allocated : refs[o] = heap.refs[o]
    /\ Len(black) = Cardinality(ToSet(black))

(* Every collection ends, since a pass is repeated only if it marked        *)
(* something, and leaves the counts as it found them.                       *)
CollectionEnds == <>(pc = "done" /\ CountsRestored)
=============================================================================
