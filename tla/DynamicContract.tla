-------------------------- MODULE DynamicContract ---------------------------
(***************************************************************************)
(* What holds of lib/dynamic.c for every client, and what a client may do  *)
(* so that the array behaves as the sequence of module Vector.             *)
(*                                                                         *)
(* dynamic.c checks nothing, so its correctness is a contract.  The code   *)
(* in this repository (ls.c) keeps well inside it: it calls dynamic() with *)
(* capacity 0 and small element sizes, then only inserts, reads and frees. *)
(***************************************************************************)
EXTENDS Dynamic

(* The header, the block and the byte count agree, and there is room to    *)
(* double.  dynamic_grow() relies on all of it without checking any.       *)
Coherent ==
  /\ handle \in DOMAIN heap
  /\ hdr.capacity >= 1
  /\ hdr.length <= hdr.capacity
  /\ hdr.size = hdr.capacity * hdr.element_size
  /\ heap[handle] = HeaderSize + hdr.size

Usable == status = "open" /\ handle # NULL

(* The creations whose byte count does not wrap. *)
SizeFits(e, n) ==
  e # 0 /\ HeaderSize + NewHeader(e, n).capacity * e < SizeMod

(* A client that keeps the contract: no zero or wrapping element block, no *)
(* shrinking of an empty array (capacity 0 cannot be doubled), and resize  *)
(* only to cut the array short.                                            *)
ContractNext ==
  \/ \E e \in ElementSizes, n \in Capacities : SizeFits(e, n) /\ dynamic(e, n)
  \/ dynamic_grow
  \/ \E v \in Value : dynamic_insert(v)
  \/ hdr.length > 0 /\ dynamic_shrink_to_fit
  \/ \E n \in Capacities : n \in 1..hdr.length /\ dynamic_resize(n)
  \/ dynamic_free
  \/ Inspect

ContractSpec == Init /\ [][ContractNext]_vars
-----------------------------------------------------------------------------
(* The DYNAMIC structs: four size_t fields. *)
Headers ==
  [length : 0..(SizeMod - 1), capacity : 0..(SizeMod - 1),
   size : 0..(SizeMod - 1), element_size : 0..(SizeMod - 1)]

TypeOK ==
  /\ DOMAIN heap \subseteq Addr
  /\ heap \in [DOMAIN heap -> 0..HeapLimit]
  /\ handle \in Addr \union {NULL}
  /\ hdr \in Headers
  /\ DOMAIN mem \subseteq Nat
  /\ mem \in [DOMAIN mem -> Value]
  /\ status \in {"idle", "open", "crashed", "ub"}

(* For every client, contract or not: the step that leaves the block or    *)
(* touches a dead one starts from a header that already disagrees with the *)
(* block, or is a creation whose size wraps.  From a coherent array no     *)
(* call of the library misses its memory, whatever realloc does.           *)
StrayOnlyIfIncoherent ==
  [][status' = "ub" => status = "idle" \/ ~Coherent]_vars

(* For every client: a block becomes unreachable (neither freed nor held   *)
(* by the handle) only in a step in which realloc refused, since grow,     *)
(* shrink and resize overwrite the only pointer with NULL.                 *)
LeakOnlyOnRefusal ==
  [][\A a \in DOMAIN heap' \ {handle'} :
       a \in DOMAIN heap \ {handle} \/ (handle' = NULL /\ status' # "idle")]_vars

(* The inductive invariant behind the contract: while the client holds an  *)
(* array, header and block agree, and only indices below length have been  *)
(* written (what lies above them is never taken for an element).           *)
ContractInv ==
  /\ TypeOK
  /\ status # "ub"
  /\ Usable => /\ Coherent
               /\ hdr.element_size >= 1
               /\ DOMAIN mem \subseteq 0..(hdr.length - 1)

(* Under the contract no call ever leaves the block or touches a freed one. *)
NoStray == status # "ub"

(* Under the contract the block is never larger than the creation asked    *)
(* for or twice what is in use: doubling happens only when full.           *)
SlackBounded ==
  Usable => \/ hdr.capacity <= 2 * hdr.length
            \/ hdr.capacity \in Capacities \union {DefaultCapacity}

(* Under the contract the array is a Vector: no insert, move, shrink or    *)
(* cut loses, reorders or alters an element that is kept.                  *)
VectorElems ==
  IF Usable THEN [i \in 1..hdr.length |-> dynamic_get(i - 1)] ELSE <<>>

VectorPhase ==
  IF status = "idle" THEN "idle" ELSE IF Usable THEN "open" ELSE "failed"

(* Under the contract an insert that succeeds puts its own value at the    *)
(* end: the offset is that of the length before dynamic_grow() counted the *)
(* element and perhaps moved the block.                                    *)
InsertAppends ==
  [][\A v \in Value :
       dynamic_insert(v) /\ Usable' => VectorElems' = Append(VectorElems, v)]_vars

V == INSTANCE Vector WITH elems <- VectorElems, phase <- VectorPhase

ImplementsVector == V!Spec
=============================================================================
