------------------------------ MODULE Dynamic -------------------------------
(***************************************************************************)
(* src/lib/dynamic.c: the growable array behind every list in ls.  One     *)
(* malloc block holds a DYNAMIC header followed by the elements; growing,  *)
(* shrinking and resizing hand the block to realloc, which may move it.    *)
(*                                                                         *)
(* A client owns one array at a time through a DYNAMIC * (handle).  The    *)
(* library checks no argument and no result of malloc or realloc, so the   *)
(* model keeps what the code touches: the bytes of every block, the four   *)
(* size_t fields of the header (modulo SizeMod), and the elements that     *)
(* really lie inside the block.  An access outside a live block is         *)
(* undefined behaviour: status becomes "ub" and nothing is said of what    *)
(* follows.  An access through NULL stops the process: "crashed".          *)
(***************************************************************************)
EXTENDS Integers, Sequences, FiniteSets

CONSTANTS
  Addr,             \* addresses malloc and realloc may return
  NULL,             \* the null pointer
  Value,            \* element contents
  Junk,             \* content of an element nobody has written
  HeaderSize,       \* sizeof(DYNAMIC)
  SizeMod,          \* size_t holds 0 .. SizeMod - 1
  HeapLimit,        \* largest request the allocator ever grants (PTRDIFF_MAX)
  DefaultCapacity,  \* DYNAMIC_DEFAULT_CAPACITY
  ElementSizes,     \* arguments element_size of dynamic()
  Capacities        \* arguments of dynamic() and dynamic_resize()

ASSUME AddrAssumption == NULL \notin Addr
ASSUME ValueAssumption == Junk \notin Value
ASSUME SizeAssumption ==
  /\ HeaderSize \in Nat \ {0}
  /\ SizeMod \in Nat
  /\ HeapLimit \in Nat
  /\ 2 * HeapLimit < SizeMod
  /\ DefaultCapacity \in 1..(SizeMod - 1)
ASSUME ArgumentAssumption ==
  /\ ElementSizes \subseteq 0..(SizeMod - 1)
  /\ Capacities \subseteq 0..(SizeMod - 1)

VARIABLES
  heap,     \* the live blocks: address -> bytes
  handle,   \* the client's DYNAMIC *
  hdr,      \* the header in the client's block
  mem,      \* the elements written in the client's block: index -> value
  status    \* "idle" (no array), "open", "crashed" or "ub"

vars == <<heap, handle, hdr, mem, status>>
-----------------------------------------------------------------------------
(* Definitions named Faulty... are plausible mistakes in the code they     *)
(* stand next to.  No specification uses them: each takes the place of the *)
(* definition that follows it to see that a property notices.              *)

(* size_t arithmetic. *)
Add(a, b) == (a + b) % SizeMod
Mul(a, b) == (a * b) % SizeMod

(* The allocator.  It may refuse any request, and refuses one above        *)
(* HeapLimit; realloc may keep the block in place or move it.              *)
FreshBlocks(n) == IF n <= HeapLimit THEN Addr \ DOMAIN heap ELSE {}
MallocResults(n) == {NULL} \union FreshBlocks(n)
ReallocResults(a, n) ==
  {NULL} \union (IF n \in 1..HeapLimit THEN {a} \union FreshBlocks(n) ELSE {})

(* The heap without the block at a. *)
Without(a) == [x \in DOMAIN heap \ {a} |-> heap[x]]

(* The heap once the block at a has become one of n bytes at b. *)
Moved(a, b, n) ==
  [x \in (DOMAIN heap \ {a}) \union {b} |-> IF x = b THEN n ELSE heap[x]]

(* The heap once realloc(a, n) has returned p; realloc(a, 0) frees a. *)
Reallocated(a, p, n) ==
  IF p # NULL THEN Moved(a, p, n)
  ELSE IF n = 0 THEN Without(a) ELSE heap

(* Element i of e-byte elements lies inside a block of n bytes. *)
Fits(i, e, n) == HeaderSize + (i + 1) * e <= n

(* What a block of n bytes keeps of the elements. *)
Kept(e, n) == [i \in {j \in DOMAIN mem : Fits(j, e, n)} |-> mem[i]]

(* The header can be read and written. *)
Accessible == handle \in DOMAIN heap /\ heap[handle] >= HeaderSize

Fault ==
  /\ status' = IF handle = NULL THEN "crashed" ELSE "ub"
  /\ UNCHANGED <<heap, handle, hdr, mem>>
-----------------------------------------------------------------------------
(* A DYNAMIC struct. *)
Header(l, c, s, e) ==
  [length |-> l, capacity |-> c, size |-> s, element_size |-> e]

EmptyHeader == Header(0, 0, 0, 0)

Init ==
  /\ heap = [a \in {} |-> 0]
  /\ handle = NULL
  /\ hdr = EmptyHeader
  /\ mem = [i \in {} |-> Junk]
  /\ status = "idle"

(* The header dynamic() writes. *)
NewHeader(e, n) ==
  LET count == IF n = 0 THEN DefaultCapacity ELSE n
  IN Header(0, count, Mul(count, e), e)

(* dynamic(): NULL for an element size of 0; malloc's result is used       *)
(* unchecked.                                                              *)
dynamic(e, n) ==
  LET h == NewHeader(e, n)
      need == Add(HeaderSize, h.size)
  IN /\ status = "idle"
     /\ \/ /\ e = 0
           /\ handle' = NULL
           /\ status' = "open"
           /\ UNCHANGED <<heap, hdr, mem>>
        \/ /\ e # 0
           /\ \E p \in MallocResults(need) :
                IF p = NULL
                THEN /\ handle' = NULL
                     /\ status' = "crashed"
                     /\ UNCHANGED <<heap, hdr, mem>>
                ELSE /\ heap' = Moved(p, p, need)
                     /\ handle' = p
                     /\ hdr' = h
                     /\ mem' = [i \in {} |-> Junk]
                     /\ status' = IF need < HeaderSize THEN "ub" ELSE "open"

(* The fullness test off by one, either way. *)
FaultyFullLate(h) == h.length > h.capacity
FaultyFullEarly(h) == h.length <= h.capacity

(* dynamic_grow() reallocates only a full array... *)
Full(h) == h.length = h.capacity

(* ...doubling the byte size and the capacity separately... *)
Doubled(h) ==
  Header(h.length, Mul(h.capacity, 2), Mul(h.size, 2), h.element_size)

(* ...and counts the new element. *)
Grown(h) ==
  LET g == IF Full(h) THEN Doubled(h) ELSE h
  IN Header(Add(h.length, 1), g.capacity, g.size, g.element_size)

(* The pointers dynamic_grow() may leave in *i_dynamic. *)
GrowResults(h) ==
  IF Full(h)
  THEN ReallocResults(handle, Add(HeaderSize, Doubled(h).size))
  ELSE {handle}

(* The bytes of the block after dynamic_grow(). *)
GrownBytes(h) ==
  IF Full(h) THEN Add(HeaderSize, Doubled(h).size) ELSE heap[handle]

(* dynamic_grow() up to and including length++; the elements are left to   *)
(* the two callers below.  A NULL from realloc is stored and then          *)
(* dereferenced.                                                           *)
GrowTo(p) ==
  /\ handle' = p
  /\ heap' = Reallocated(handle, p, GrownBytes(hdr))
  /\ hdr' = IF p = NULL THEN hdr ELSE Grown(hdr)

dynamic_grow ==
  /\ status = "open"
  /\ \/ ~Accessible /\ Fault
     \/ /\ Accessible
        /\ \E p \in GrowResults(hdr) :
             /\ GrowTo(p)
             /\ mem' = Kept(hdr.element_size, GrownBytes(hdr))
             /\ status' = IF p = NULL THEN "crashed"
                          ELSE IF GrownBytes(hdr) < HeaderSize THEN "ub"
                          ELSE "open"

(* dynamic_insert(): grow, then memcpy at length * element_size, computed  *)
(* before growing.  An offset that wraps lands on another element and is   *)
(* counted with the writes that leave the block.                           *)
dynamic_insert(v) ==
  LET n == hdr.length
      e == hdr.element_size
  IN /\ status = "open"
     /\ \/ ~Accessible /\ Fault
        \/ /\ Accessible
           /\ \E p \in GrowResults(hdr) :
                /\ GrowTo(p)
                /\ IF p # NULL /\ Fits(n, e, GrownBytes(hdr))
                   THEN /\ mem' = [i \in DOMAIN Kept(e, GrownBytes(hdr)) \union {n} |->
                                     IF i = n THEN v ELSE mem[i]]
                        /\ status' = "open"
                   ELSE /\ mem' = Kept(e, GrownBytes(hdr))
                        /\ status' = IF p = NULL THEN "crashed" ELSE "ub"

(* Hand the block to realloc with header h; both callers store the result  *)
(* in *i_dynamic unchecked and return.                                     *)
ReallocTo(h) ==
  LET need == Add(HeaderSize, h.size)
  IN \E p \in ReallocResults(handle, need) :
       /\ handle' = p
       /\ hdr' = h
       /\ heap' = Reallocated(handle, p, need)
       /\ mem' = Kept(h.element_size, need)
       /\ UNCHANGED status

(* The byte size one element short. *)
FaultyShrunk(h) ==
  Header(h.length, h.length, Mul(h.element_size, h.length - 1), h.element_size)

(* dynamic_shrink_to_fit() *)
Shrunk(h) ==
  Header(h.length, h.length, Mul(h.element_size, h.length), h.element_size)

dynamic_shrink_to_fit ==
  /\ status = "open"
  /\ \/ ~Accessible /\ Fault
     \/ Accessible /\ hdr.capacity # hdr.length /\ ReallocTo(Shrunk(hdr))

(* dynamic_resize(): the byte size is taken from the clipped length, not   *)
(* from the new capacity; size 0 frees the block and leaves *i_dynamic.    *)
Resized(h, n) ==
  LET l == IF h.length < n THEN h.length ELSE n
  IN Header(l, n, Mul(l, h.element_size), h.element_size)

dynamic_resize(n) ==
  /\ status = "open"
  /\ \/ ~Accessible /\ Fault
     \/ /\ Accessible
        /\ hdr.capacity # n
        /\ \/ /\ n = 0
              /\ heap' = Without(handle)
              /\ UNCHANGED <<handle, hdr, mem, status>>
           \/ n # 0 /\ ReallocTo(Resized(hdr, n))

(* An array without elements taken for one without a block. *)
FaultyFree ==
  /\ status = "open"
  /\ handle' = NULL
  /\ heap' = IF hdr.length = 0 THEN heap ELSE Without(handle)
  /\ mem' = [i \in {} |-> Junk]
  /\ hdr' = EmptyHeader
  /\ status' = IF handle \in DOMAIN heap \union {NULL} THEN "idle" ELSE "ub"

(* dynamic_free(): free(NULL) does nothing; the client drops its pointer.  *)
dynamic_free ==
  /\ status = "open"
  /\ handle' = NULL
  /\ heap' = Without(handle)
  /\ mem' = [i \in {} |-> Junk]
  /\ hdr' = EmptyHeader
  /\ status' = IF handle \in DOMAIN heap \union {NULL} THEN "idle" ELSE "ub"

(* dynamic_get(): the element at index i, as a read through it finds it. *)
dynamic_get(i) == IF i \in DOMAIN mem THEN mem[i] ELSE Junk

(* dynamic_size(), dynamic_capacity(), dynamic_get(), print_dynamic() and  *)
(* dynamic_debug() change nothing; they only need a header to read.        *)
Inspect == status = "open" /\ ~Accessible /\ Fault

Next ==
  \/ \E e \in ElementSizes, n \in Capacities : dynamic(e, n)
  \/ dynamic_grow
  \/ \E v \in Value : dynamic_insert(v)
  \/ dynamic_shrink_to_fit
  \/ \E n \in Capacities : dynamic_resize(n)
  \/ dynamic_free
  \/ Inspect

Spec == Init /\ [][Next]_vars
=============================================================================
