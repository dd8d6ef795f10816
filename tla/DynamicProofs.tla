--------------------------- MODULE DynamicProofs ----------------------------
(***************************************************************************)
(* Theorems about lib/dynamic.c for every heap, element size, capacity and *)
(* width of size_t.                                                        *)
(***************************************************************************)
EXTENDS DynamicContract, TLAPS

(* size_t arithmetic is ordinary arithmetic below SizeMod. *)
LEMMA ModSmall ==
  ASSUME NEW m \in Nat, NEW a \in 0..(m - 1)
  PROVE  a % m = a
  OBVIOUS

(* The result of size_t arithmetic is a size_t. *)
LEMMA ModRange ==
  ASSUME NEW m \in Nat \ {0}, NEW a \in Nat
  PROVE  a % m \in 0..(m - 1)
  OBVIOUS

(* Fewer elements take no more bytes. *)
LEMMA MulMono ==
  ASSUME NEW a \in Nat, NEW b \in Nat, NEW e \in Nat, a <= b
  PROVE  a * e \in Nat /\ b * e \in Nat /\ a * e <= b * e
  OBVIOUS

(* Doubling the byte count is doubling the capacity. *)
LEMMA MulDouble ==
  ASSUME NEW a \in Nat, NEW e \in Nat
  PROVE  (a * e) * 2 = (a * 2) * e
  OBVIOUS

(* A block of one-byte or larger elements has at least a byte for each. *)
LEMMA MulAtLeast ==
  ASSUME NEW a \in Nat, NEW e \in Nat, e >= 1
  PROVE  a * e \in Nat /\ a <= a * e
  OBVIOUS

(* size_t results. *)
LEMMA SizeT ==
  ASSUME NEW a \in Nat, NEW b \in Nat
  PROVE  /\ Add(a, b) \in 0..(SizeMod - 1) /\ Add(a, b) \in Nat
         /\ Mul(a, b) \in 0..(SizeMod - 1) /\ Mul(a, b) \in Nat
  <1>1. SizeMod \in Nat \ {0}
    BY SizeAssumption
  <1>2. a + b \in Nat /\ a * b \in Nat
    OBVIOUS
  <1> QED
    BY <1>1, <1>2, ModRange DEF Add, Mul

LEMMA SizeTExact ==
  ASSUME NEW a \in Nat, NEW b \in Nat
  PROVE  /\ a + b < SizeMod => Add(a, b) = a + b
         /\ a * b < SizeMod => Mul(a, b) = a * b
  <1>1. SizeMod \in Nat
    BY SizeAssumption
  <1>2. a + b \in Nat /\ a * b \in Nat
    OBVIOUS
  <1> QED
    BY <1>1, <1>2, ModSmall DEF Add, Mul

(* What the block keeps of the elements after a realloc is well typed. *)
LEMMA KeptType ==
  ASSUME NEW e, NEW n, DOMAIN mem \subseteq Nat, mem \in [DOMAIN mem -> Value]
  PROVE  /\ DOMAIN Kept(e, n) \subseteq DOMAIN mem
         /\ Kept(e, n) \in [DOMAIN Kept(e, n) -> Value]
  BY DEF Kept

(* What realloc leaves of the heap is well typed. *)
LEMMA ReallocatedType ==
  ASSUME TypeOK, handle \in DOMAIN heap, NEW n \in Nat,
         NEW p \in ReallocResults(handle, n)
  PROVE  /\ DOMAIN Reallocated(handle, p, n) \subseteq Addr
         /\ Reallocated(handle, p, n) \in
              [DOMAIN Reallocated(handle, p, n) -> 0..HeapLimit]
         /\ p \in Addr \union {NULL}
  <1> USE AddrAssumption, SizeAssumption
  <1>1. p \in Addr \union {NULL}
    BY DEF ReallocResults, FreshBlocks, TypeOK
  <1>2. CASE p = NULL /\ n = 0
    BY <1>2 DEF Reallocated, Without, TypeOK
  <1>3. CASE p = NULL /\ n # 0
    BY <1>3 DEF Reallocated, TypeOK
  <1>4. CASE p # NULL
    <2>1. n <= HeapLimit
      BY <1>4 DEF ReallocResults, FreshBlocks
    <2>2. Reallocated(handle, p, n) = Moved(handle, p, n)
      BY <1>4 DEF Reallocated
    <2> QED
      BY <1>1, <1>4, <2>1, <2>2 DEF Moved, TypeOK
  <1> QED
    BY <1>1, <1>2, <1>3, <1>4
-----------------------------------------------------------------------------
(* A header made of size_t fields is well typed. *)
LEMMA HeaderType ==
  ASSUME NEW l \in 0..(SizeMod - 1), NEW c \in 0..(SizeMod - 1),
         NEW s \in 0..(SizeMod - 1), NEW e \in 0..(SizeMod - 1)
  PROVE  /\ Header(l, c, s, e) \in Headers
         /\ Header(l, c, s, e).length = l
         /\ Header(l, c, s, e).capacity = c
         /\ Header(l, c, s, e).size = s
         /\ Header(l, c, s, e).element_size = e
  BY DEF Header, Headers

LEMMA FieldType ==
  ASSUME NEW h \in Headers
  PROVE  /\ h.length \in 0..(SizeMod - 1)   /\ h.length \in Nat
         /\ h.capacity \in 0..(SizeMod - 1) /\ h.capacity \in Nat
         /\ h.size \in 0..(SizeMod - 1)     /\ h.size \in Nat
         /\ h.element_size \in 0..(SizeMod - 1) /\ h.element_size \in Nat
  BY SizeAssumption DEF Headers

(* The header dynamic_grow() leaves is well typed. *)
LEMMA GrownType ==
  ASSUME NEW h \in Headers
  PROVE  Doubled(h) \in Headers /\ Grown(h) \in Headers
  <1>1. /\ Mul(h.size, 2) \in 0..(SizeMod - 1)
        /\ Mul(h.capacity, 2) \in 0..(SizeMod - 1)
        /\ Add(h.length, 1) \in 0..(SizeMod - 1)
    BY SizeT, FieldType
  <1>2. Doubled(h) \in Headers
    BY <1>1, HeaderType, FieldType DEF Doubled
  <1> QED
    BY <1>1, <1>2, HeaderType, FieldType DEF Grown

LEMMA GrownBytesType ==
  ASSUME TypeOK, handle \in DOMAIN heap
  PROVE  /\ GrownBytes(hdr) \in Nat
         /\ \A p \in GrowResults(hdr) : p \in Addr \union {NULL}
         /\ \A p \in GrowResults(hdr) :
              \/ p \in ReallocResults(handle, GrownBytes(hdr))
              \/ p = handle /\ GrownBytes(hdr) = heap[handle]
  <1> USE SizeAssumption
  <1>1. Doubled(hdr).size \in Nat
    BY GrownType, FieldType DEF TypeOK
  <1>2. Add(HeaderSize, Doubled(hdr).size) \in Nat
    BY <1>1, SizeT
  <1>3. heap[handle] \in Nat
    BY DEF TypeOK
  <1>4. \A n : \A p \in ReallocResults(handle, n) : p \in Addr \union {NULL}
    BY DEF TypeOK, ReallocResults, FreshBlocks
  <1> QED
    BY <1>2, <1>3, <1>4 DEF GrownBytes, GrowResults, TypeOK

(* dynamic_grow(), whatever realloc returns, keeps the types. *)
LEMMA GrowToType ==
  ASSUME TypeOK, Accessible, NEW p \in GrowResults(hdr), GrowTo(p)
  PROVE  /\ DOMAIN heap' \subseteq Addr
         /\ heap' \in [DOMAIN heap' -> 0..HeapLimit]
         /\ handle' \in Addr \union {NULL}
         /\ hdr' \in Headers
  <1> DEFINE n == GrownBytes(hdr)
  <1>1. handle \in DOMAIN heap /\ n \in Nat
    BY GrownBytesType DEF Accessible
  <1>2. heap' = Reallocated(handle, p, n) /\ handle' = p
    BY DEF GrowTo
  <1>3. hdr' \in Headers
    BY GrownType DEF GrowTo, TypeOK
  <1>4. p \in ReallocResults(handle, n) \/ (p = handle /\ n = heap[handle])
    BY <1>1, GrownBytesType
  <1> HIDE DEF n
  <1>5. CASE p \in ReallocResults(handle, n)
    BY <1>1, <1>2, <1>3, <1>5, ReallocatedType
  <1>6. CASE p = handle /\ n = heap[handle]
    BY <1>1, <1>2, <1>3, <1>6, AddrAssumption DEF Reallocated, Moved, TypeOK
  <1> QED
    BY <1>4, <1>5, <1>6

(* Shrinking and resizing keep the types. *)
LEMMA ReallocToType ==
  ASSUME TypeOK, Accessible, NEW h \in Headers, ReallocTo(h)
  PROVE  TypeOK'
  <1> DEFINE need == Add(HeaderSize, h.size)
  <1>1. need \in Nat
    <2>1. h.size \in Nat /\ HeaderSize \in Nat
      BY FieldType, SizeAssumption
    <2> QED
      BY <2>1, SizeT
  <1>2. PICK p \in ReallocResults(handle, need) :
             /\ handle' = p
             /\ hdr' = h
             /\ heap' = Reallocated(handle, p, need)
             /\ mem' = Kept(h.element_size, need)
             /\ status' = status
    BY DEF ReallocTo
  <1> HIDE DEF need
  <1>3. handle \in DOMAIN heap
    BY DEF Accessible
  <1>4. /\ DOMAIN heap' \subseteq Addr
        /\ heap' \in [DOMAIN heap' -> 0..HeapLimit]
        /\ handle' \in Addr \union {NULL}
    BY <1>1, <1>2, <1>3, ReallocatedType
  <1>5. DOMAIN mem' \subseteq Nat /\ mem' \in [DOMAIN mem' -> Value]
    BY <1>2, KeptType DEF TypeOK
  <1> QED
    BY <1>2, <1>4, <1>5 DEF TypeOK
-----------------------------------------------------------------------------
LEMMA TypeInit == Init => TypeOK
  <1>1. EmptyHeader \in Headers
    BY HeaderType, SizeAssumption DEF EmptyHeader
  <1> QED
    BY <1>1 DEF Init, TypeOK

LEMMA FaultType == TypeOK /\ Fault => TypeOK'
  BY DEF TypeOK, Fault

(* The header dynamic() writes is well typed. *)
LEMMA NewHeaderType ==
  ASSUME NEW e \in ElementSizes, NEW n \in Capacities
  PROVE  /\ NewHeader(e, n) \in Headers
         /\ NewHeader(e, n).capacity \in Nat \ {0}
         /\ NewHeader(e, n).capacity \in Capacities \union {DefaultCapacity}
         /\ NewHeader(e, n).size = Mul(NewHeader(e, n).capacity, e)
         /\ NewHeader(e, n).length = 0
         /\ NewHeader(e, n).element_size = e
  <1> DEFINE count == IF n = 0 THEN DefaultCapacity ELSE n
  <1>1. /\ count \in 1..(SizeMod - 1) /\ count \in Nat
        /\ e \in 0..(SizeMod - 1) /\ e \in Nat
    BY SizeAssumption, ArgumentAssumption
  <1>2. Mul(count, e) \in 0..(SizeMod - 1)
    <2> HIDE DEF count
    <2> QED
      BY <1>1, SizeT
  <1>3. NewHeader(e, n) = Header(0, count, Mul(count, e), e)
    BY DEF NewHeader
  <1>4. count \in Capacities \union {DefaultCapacity}
    OBVIOUS
  <1> HIDE DEF count
  <1>5. 0 \in 0..(SizeMod - 1) /\ count \in 0..(SizeMod - 1) /\ count \in Nat \ {0}
    BY <1>1, SizeAssumption
  <1> QED
    BY <1>1, <1>2, <1>3, <1>4, <1>5, HeaderType

LEMMA TypeCreate ==
  ASSUME TypeOK, NEW e \in ElementSizes, NEW n \in Capacities, dynamic(e, n)
  PROVE  TypeOK'
  <1> DEFINE h == NewHeader(e, n)
             need == Add(HeaderSize, h.size)
  <1>1. h \in Headers
    BY NewHeaderType
  <1> HIDE DEF h
  <1>2. need \in Nat
    BY <1>1, FieldType, SizeT, SizeAssumption
  <1> HIDE DEF need
  <1>3. CASE handle' = NULL
    BY <1>3, AddrAssumption DEF dynamic, TypeOK, MallocResults, FreshBlocks
  <1>4. CASE handle' # NULL
    <2>1. /\ handle' \in MallocResults(need)
          /\ heap' = Moved(handle', handle', need)
          /\ hdr' = h
          /\ mem' = [i \in {} |-> Junk]
          /\ status' \in {"ub", "open"}
      BY <1>4 DEF dynamic, h, need
    <2>2. handle' \in Addr /\ need \in 0..HeapLimit
      BY <1>2, <1>4, <2>1, SizeAssumption DEF MallocResults, FreshBlocks
    <2> QED
      BY <1>1, <2>1, <2>2 DEF Moved, TypeOK
  <1> QED
    BY <1>3, <1>4

LEMMA TypeGrow == TypeOK /\ dynamic_grow => TypeOK'
  <1> SUFFICES ASSUME TypeOK, dynamic_grow PROVE TypeOK'
    OBVIOUS
  <1>1. CASE Fault
    BY <1>1, FaultType
  <1>2. CASE Accessible
    <2>1. PICK p \in GrowResults(hdr) :
               /\ GrowTo(p)
               /\ mem' = Kept(hdr.element_size, GrownBytes(hdr))
               /\ status' \in {"crashed", "ub", "open"}
      BY <1>2 DEF dynamic_grow
    <2>2. DOMAIN mem' \subseteq Nat /\ mem' \in [DOMAIN mem' -> Value]
      BY <2>1, KeptType DEF TypeOK
    <2> QED
      BY <1>2, <2>1, <2>2, GrowToType DEF TypeOK
  <1> QED
    BY <1>1, <1>2 DEF dynamic_grow

LEMMA TypeInsert ==
  ASSUME TypeOK, NEW v \in Value, dynamic_insert(v)
  PROVE  TypeOK'
  <1> DEFINE n == hdr.length
             k == Kept(hdr.element_size, GrownBytes(hdr))
  <1>1. CASE Fault
    BY <1>1, FaultType
  <1>2. CASE Accessible
    <2>1. PICK p \in GrowResults(hdr) :
               /\ GrowTo(p)
               /\ \/ /\ mem' = [i \in DOMAIN k \union {n} |-> IF i = n THEN v ELSE mem[i]]
                     /\ status' = "open"
                  \/ mem' = k /\ status' \in {"crashed", "ub"}
      BY <1>2 DEF dynamic_insert
    <2>2. DOMAIN k \subseteq DOMAIN mem /\ k \in [DOMAIN k -> Value] /\ n \in Nat
      BY KeptType, FieldType DEF TypeOK
    <2> HIDE DEF k, n
    <2>3. DOMAIN mem' \subseteq Nat /\ mem' \in [DOMAIN mem' -> Value]
      BY <2>1, <2>2 DEF TypeOK
    <2> QED
      BY <1>2, <2>1, <2>3, GrowToType DEF TypeOK
  <1> QED
    BY <1>1, <1>2 DEF dynamic_insert

LEMMA TypeShrink == TypeOK /\ dynamic_shrink_to_fit => TypeOK'
  <1> SUFFICES ASSUME TypeOK, dynamic_shrink_to_fit PROVE TypeOK'
    OBVIOUS
  <1>1. Shrunk(hdr) \in Headers
    BY HeaderType, FieldType, SizeT DEF Shrunk, TypeOK
  <1> QED
    BY <1>1, FaultType, ReallocToType DEF dynamic_shrink_to_fit

(* The header dynamic_resize() writes is well typed. *)
LEMMA ResizedType ==
  ASSUME NEW h \in Headers, NEW n \in 0..(SizeMod - 1)
  PROVE  /\ Resized(h, n) \in Headers
         /\ Resized(h, n).capacity = n
         /\ Resized(h, n).length = IF h.length < n THEN h.length ELSE n
         /\ Resized(h, n).size = Mul(Resized(h, n).length, h.element_size)
         /\ Resized(h, n).element_size = h.element_size
  <1> DEFINE l == IF h.length < n THEN h.length ELSE n
  <1>1. l \in 0..(SizeMod - 1) /\ l \in Nat
    BY FieldType, SizeAssumption
  <1>2. Resized(h, n) = Header(l, n, Mul(l, h.element_size), h.element_size)
    BY DEF Resized
  <1> HIDE DEF l
  <1>3. Mul(l, h.element_size) \in 0..(SizeMod - 1)
    BY <1>1, FieldType, SizeT
  <1>4. h.element_size \in 0..(SizeMod - 1)
    BY FieldType
  <1> DEFINE m == Mul(l, h.element_size)
             r == Header(l, n, m, h.element_size)
  <1>5. /\ r \in Headers
        /\ r.length = l /\ r.capacity = n
        /\ r.size = m /\ r.element_size = h.element_size
    <2> HIDE DEF m
    <2> QED
      BY <1>1, <1>3, <1>4, HeaderType DEF m
  <1> HIDE DEF r
  <1>6. Resized(h, n) = r /\ l = IF h.length < n THEN h.length ELSE n
    BY <1>2 DEF l, r
  <1> QED
    BY <1>5, <1>6, Zenon

LEMMA WithoutType ==
  ASSUME TypeOK
  PROVE  /\ DOMAIN Without(handle) \subseteq Addr
         /\ Without(handle) \in [DOMAIN Without(handle) -> 0..HeapLimit]
  BY DEF Without, TypeOK

LEMMA TypeResize ==
  ASSUME TypeOK, NEW n \in Capacities, dynamic_resize(n)
  PROVE  TypeOK'
  <1>1. n \in 0..(SizeMod - 1)
    BY ArgumentAssumption
  <1>2. CASE Fault
    BY <1>2, FaultType
  <1>3. CASE heap' = Without(handle) /\ UNCHANGED <<handle, hdr, mem, status>>
    BY <1>3, WithoutType DEF TypeOK
  <1>4. CASE Accessible /\ ReallocTo(Resized(hdr, n))
    <2>1. Resized(hdr, n) \in Headers
      BY <1>1, ResizedType DEF TypeOK
    <2> QED
      BY <1>4, <2>1, ReallocToType
  <1> QED
    BY <1>2, <1>3, <1>4 DEF dynamic_resize

LEMMA TypeFree == TypeOK /\ dynamic_free => TypeOK'
  <1>1. EmptyHeader \in Headers
    BY HeaderType, SizeAssumption DEF EmptyHeader
  <1> QED
    BY <1>1, WithoutType DEF dynamic_free, TypeOK

LEMMA TypeStep == TypeOK /\ [Next]_vars => TypeOK'
  <1> SUFFICES ASSUME TypeOK, [Next]_vars PROVE TypeOK'
    OBVIOUS
  <1>1. CASE UNCHANGED vars
    BY <1>1 DEF TypeOK, vars
  <1>2. CASE Inspect
    BY <1>2, FaultType DEF Inspect
  <1> QED
    BY <1>1, <1>2, TypeCreate, TypeGrow, TypeInsert, TypeShrink, TypeResize, TypeFree
       DEF Next

(* Every state of every client of lib/dynamic.c is well typed: addresses   *)
(* come from the allocator, the header fields are size_t, and only         *)
(* inserted values are ever found in an element.                           *)
THEOREM TypeCorrect == Spec => []TypeOK
  BY TypeInit, TypeStep, PTL DEF Spec
-----------------------------------------------------------------------------
(* The arithmetic of dynamic_grow() on a coherent array: doubling does not *)
(* wrap, because the allocator granted the old block and HeapLimit is      *)
(* below half of size_t; the new element lies inside the grown block.      *)
LEMMA GrowArithmetic ==
  ASSUME TypeOK, Coherent
  PROVE  /\ Accessible
         /\ GrownBytes(hdr) >= HeaderSize
         /\ Fits(hdr.length, hdr.element_size, GrownBytes(hdr))
         /\ hdr.element_size >= 1 =>
              /\ Grown(hdr).length = hdr.length + 1
              /\ Grown(hdr).capacity \in Nat
              /\ Grown(hdr).length <= Grown(hdr).capacity
              /\ Grown(hdr).capacity \in {hdr.capacity, 2 * hdr.length}
              /\ Grown(hdr).size = Grown(hdr).capacity * Grown(hdr).element_size
              /\ GrownBytes(hdr) = HeaderSize + Grown(hdr).size
              /\ Grown(hdr).element_size = hdr.element_size
  <1> DEFINE l == hdr.length
             c == hdr.capacity
             e == hdr.element_size
             s == hdr.size
             b == heap[handle]
  <1>1. /\ l \in Nat /\ c \in Nat /\ e \in Nat /\ s \in Nat
        /\ l < SizeMod
        /\ hdr \in Headers
    BY FieldType, SizeAssumption DEF TypeOK
  <1>2. b \in Nat /\ b <= HeapLimit
    BY SizeAssumption DEF TypeOK, Coherent
  <1>3. c >= 1 /\ l <= c /\ s = c * e /\ b = HeaderSize + s
    BY DEF Coherent
  <1>4. HeaderSize \in Nat /\ HeaderSize >= 1 /\ HeapLimit \in Nat /\ SizeMod \in Nat
        /\ 2 * HeapLimit < SizeMod
    BY SizeAssumption
  <1>5. Accessible
    BY <1>1, <1>3, <1>4 DEF Accessible, Coherent
  <1>6. s * 2 < SizeMod /\ HeaderSize + s * 2 < SizeMod
    BY <1>1, <1>2, <1>3, <1>4
  <1>7. Mul(s, 2) = s * 2 /\ Add(HeaderSize, s * 2) = HeaderSize + s * 2
    BY <1>1, <1>4, <1>6, SizeTExact
  <1>8. Doubled(hdr).size = s * 2 /\ Doubled(hdr).element_size = e
        /\ Doubled(hdr).capacity = Mul(c, 2)
    BY <1>7 DEF Doubled, Header
  <1>9. e >= 1 => Mul(c, 2) = c * 2
    <2> SUFFICES ASSUME e >= 1 PROVE c * 2 < SizeMod
      BY <1>1, SizeTExact
    <2>1. c <= s
      BY <1>1, <1>3, MulAtLeast
    <2> QED
      BY <1>1, <1>6, <2>1, <1>4
  <1>10. e >= 1 => Add(l, 1) = l + 1
    <2> SUFFICES ASSUME e >= 1 PROVE l + 1 < SizeMod
      BY <1>1, SizeTExact
    <2>1. c <= s
      BY <1>1, <1>3, MulAtLeast
    <2> QED
      BY <1>1, <1>2, <1>3, <1>4, <2>1
  <1>11. (c * e) * 2 = (c * 2) * e
    BY <1>1, MulDouble
  <1> HIDE DEF l, c, e, s, b
  <1>12. CASE Full(hdr)
    <2>1. l = c /\ GrownBytes(hdr) = HeaderSize + s * 2
      BY <1>7, <1>8, <1>12 DEF Full, GrownBytes, l, c
    <2>2. (l + 1) * e <= (c * 2) * e
      BY <1>1, <1>3, <2>1, MulMono
    <2>3. Grown(hdr) = Header(Add(l, 1), Mul(c, 2), s * 2, e)
      BY <1>8, <1>12 DEF Grown, l
    <2>4. /\ Grown(hdr).length = Add(l, 1) /\ Grown(hdr).capacity = Mul(c, 2)
          /\ Grown(hdr).size = s * 2 /\ Grown(hdr).element_size = e
      BY <2>3 DEF Header
    <2>5. Fits(l, e, GrownBytes(hdr)) /\ GrownBytes(hdr) >= HeaderSize
      BY <1>1, <1>3, <1>4, <1>11, <2>1, <2>2 DEF Fits
    <2> QED
      BY <1>1, <1>3, <1>5, <1>9, <1>10, <1>11, <2>1, <2>4, <2>5 DEF l, c, e, s
  <1>13. CASE ~Full(hdr)
    <2>1. l + 1 <= c /\ GrownBytes(hdr) = b
      BY <1>1, <1>3, <1>13 DEF Full, GrownBytes, l, c, b
    <2>2. (l + 1) * e <= c * e
      BY <1>1, <2>1, MulMono
    <2>3. Grown(hdr) = Header(Add(l, 1), c, s, e)
      BY <1>13 DEF Grown, l, c, s, e
    <2>4. /\ Grown(hdr).length = Add(l, 1) /\ Grown(hdr).capacity = c
          /\ Grown(hdr).size = s /\ Grown(hdr).element_size = e
      BY <2>3 DEF Header
    <2>5. Fits(l, e, GrownBytes(hdr)) /\ GrownBytes(hdr) >= HeaderSize
      BY <1>1, <1>3, <1>4, <2>1, <2>2 DEF Fits
    <2> QED
      BY <1>1, <1>3, <1>5, <1>10, <2>1, <2>4, <2>5 DEF l, c, e, s
  <1> QED
    BY <1>12, <1>13

(* From a coherent array no call leaves its memory. *)
LEMMA CoherentStep ==
  ASSUME TypeOK, Coherent, status # "idle", Next
  PROVE  status' # "ub"
  <1>1. Accessible
    BY GrowArithmetic
  <1>2. CASE dynamic_grow
    BY <1>1, <1>2, GrowArithmetic, FieldType, SizeAssumption, GrownBytesType
       DEF dynamic_grow, Accessible, TypeOK
  <1>3. ASSUME NEW v \in Value, dynamic_insert(v) PROVE status' # "ub"
    BY <1>1, <1>3, GrowArithmetic DEF dynamic_insert
  <1>4. CASE dynamic_shrink_to_fit
    BY <1>1, <1>4 DEF dynamic_shrink_to_fit, ReallocTo
  <1>5. ASSUME NEW n \in Capacities, dynamic_resize(n) PROVE status' # "ub"
    BY <1>1, <1>5 DEF dynamic_resize, ReallocTo
  <1>6. CASE dynamic_free
    BY <1>6 DEF dynamic_free, Coherent
  <1>7. CASE Inspect
    BY <1>1, <1>7 DEF Inspect
  <1>8. ASSUME NEW e \in ElementSizes, NEW n \in Capacities, dynamic(e, n)
        PROVE  status' # "ub"
    BY <1>8 DEF dynamic
  <1> QED
    BY <1>2, <1>3, <1>4, <1>5, <1>6, <1>7, <1>8 DEF Next

(* Whatever the client does and wherever realloc moves the block, a call   *)
(* that leaves the array's memory started from a header that already       *)
(* disagreed with its block, or is a dynamic() whose byte count wraps.     *)
THEOREM StrayNeedsIncoherence == Spec => StrayOnlyIfIncoherent
  <1>1. TypeOK /\ [Next]_vars => [status' = "ub" => status = "idle" \/ ~Coherent]_vars
    BY CoherentStep
  <1> QED
    BY <1>1, TypeCorrect, PTL DEF Spec, StrayOnlyIfIncoherent
-----------------------------------------------------------------------------
(* Between two arrays the client holds no pointer. *)
IdleInv == status = "idle" => handle = NULL

LEMMA IdleStep == IdleInv /\ [Next]_vars => IdleInv'
  <1> SUFFICES ASSUME IdleInv, [Next]_vars PROVE IdleInv'
    OBVIOUS
  <1>1. CASE UNCHANGED vars
    BY <1>1 DEF IdleInv, vars
  <1>2. ASSUME NEW e \in ElementSizes, NEW n \in Capacities, dynamic(e, n) PROVE IdleInv'
    BY <1>2 DEF dynamic, IdleInv
  <1>3. CASE dynamic_grow
    BY <1>3 DEF dynamic_grow, Fault, IdleInv
  <1>4. ASSUME NEW v \in Value, dynamic_insert(v) PROVE IdleInv'
    BY <1>4 DEF dynamic_insert, Fault, IdleInv
  <1>5. CASE dynamic_shrink_to_fit
    BY <1>5 DEF dynamic_shrink_to_fit, ReallocTo, Fault, IdleInv
  <1>6. ASSUME NEW n \in Capacities, dynamic_resize(n) PROVE IdleInv'
    BY <1>6 DEF dynamic_resize, ReallocTo, Fault, IdleInv
  <1>7. CASE dynamic_free
    BY <1>7 DEF dynamic_free, IdleInv
  <1>8. CASE Inspect
    BY <1>8 DEF Inspect, Fault, IdleInv
  <1> QED
    BY <1>1, <1>2, <1>3, <1>4, <1>5, <1>6, <1>7, <1>8 DEF Next

(* What realloc leaves of the heap: the block it returned, and those it    *)
(* was not given.                                                          *)
LEMMA ReallocatedDomain ==
  ASSUME NEW a, NEW p, NEW n, p # NULL
  PROVE  DOMAIN Reallocated(a, p, n) = (DOMAIN heap \ {a}) \union {p}
  BY DEF Reallocated, Moved

(* A block is neither freed nor held after a step only if it was so before *)
(* or the step has put NULL over its address.                              *)
LEMMA LeakStep ==
  ASSUME TypeOK, IdleInv, Next,
         NEW a \in DOMAIN heap' \ {handle'}
  PROVE  a \in DOMAIN heap \ {handle} \/ (handle' = NULL /\ status' # "idle")
  <1> DEFINE Goal == a \in DOMAIN heap \ {handle} \/ (handle' = NULL /\ status' # "idle")
  <1>1. NULL \notin DOMAIN heap
    BY AddrAssumption DEF TypeOK
  <1>2. ASSUME NEW e \in ElementSizes, NEW n \in Capacities, dynamic(e, n) PROVE Goal
    <2>1. handle = NULL
      BY <1>2 DEF dynamic, IdleInv
    <2>2. \/ heap' = heap
          \/ \E p, m : heap' = Moved(p, p, m) /\ handle' = p
      BY <1>2 DEF dynamic
    <2>3. CASE heap' = heap
      BY <1>1, <2>1, <2>3
    <2>4. ASSUME NEW p, NEW m, heap' = Moved(p, p, m), handle' = p PROVE Goal
      <3>1. DOMAIN heap' = (DOMAIN heap \ {p}) \union {p}
        BY <2>4 DEF Moved
      <3> QED
        BY <1>1, <2>1, <2>4, <3>1
    <2> QED
      BY <2>2, <2>3, <2>4
  <1>3. Fault => Goal
    BY DEF Fault
  <1>4. ASSUME NEW p, GrowTo(p), status' # "idle" PROVE Goal
    <2>1. CASE p = NULL
      BY <1>4, <2>1 DEF GrowTo
    <2>2. CASE p # NULL
      <3>1. DOMAIN heap' = (DOMAIN heap \ {handle}) \union {p} /\ handle' = p
        BY <1>4, <2>2, ReallocatedDomain DEF GrowTo
      <3> QED
        BY <3>1
    <2> QED
      BY <2>1, <2>2
  <1>5. CASE dynamic_grow
    BY <1>3, <1>4, <1>5 DEF dynamic_grow
  <1>6. ASSUME NEW v \in Value, dynamic_insert(v) PROVE Goal
    BY <1>3, <1>4, <1>6 DEF dynamic_insert
  <1>7. ASSUME NEW h, ReallocTo(h), status # "idle" PROVE Goal
    <2>1. PICK p : /\ handle' = p /\ status' = status
                   /\ heap' = Reallocated(handle, p, Add(HeaderSize, h.size))
      BY <1>7 DEF ReallocTo
    <2>2. CASE p = NULL
      BY <1>7, <2>1, <2>2
    <2>3. CASE p # NULL
      <3>1. DOMAIN heap' = (DOMAIN heap \ {handle}) \union {p}
        BY <2>1, <2>3, ReallocatedDomain
      <3> QED
        BY <2>1, <3>1
    <2> QED
      BY <2>2, <2>3
  <1>8. CASE dynamic_shrink_to_fit
    BY <1>3, <1>7, <1>8 DEF dynamic_shrink_to_fit
  <1>9. ASSUME NEW n \in Capacities, dynamic_resize(n) PROVE Goal
    BY <1>3, <1>7, <1>9 DEF dynamic_resize, Without
  <1>10. CASE dynamic_free
    BY <1>10 DEF dynamic_free, Without
  <1>11. CASE Inspect
    BY <1>3, <1>11 DEF Inspect
  <1> QED
    BY <1>2, <1>5, <1>6, <1>8, <1>9, <1>10, <1>11 DEF Next

(* For every client: a block becomes unreachable only in a step in which   *)
(* realloc refused and the library stored its NULL over the only pointer;  *)
(* no other call of lib/dynamic.c loses a block.                           *)
THEOREM LeakNeedsRefusal == Spec => LeakOnlyOnRefusal
  <1> DEFINE Keeps == \A a \in DOMAIN heap' \ {handle'} :
               a \in DOMAIN heap \ {handle} \/ (handle' = NULL /\ status' # "idle")
  <1>1. TypeOK /\ IdleInv /\ [Next]_vars => [Keeps]_vars
    BY LeakStep
  <1>2. Init => IdleInv
    BY DEF Init, IdleInv
  <1> HIDE DEF Keeps
  <1>3. Spec => [][Keeps]_vars
    BY <1>1, <1>2, IdleStep, TypeCorrect, PTL DEF Spec
  <1> QED
    BY <1>3 DEF Keeps, LeakOnlyOnRefusal
-----------------------------------------------------------------------------
(* Under the contract.                                                     *)

LEMMA ContractImpliesNext == ContractNext => Next
  BY DEF ContractNext, Next

LEMMA ContractType == TypeOK /\ [ContractNext]_vars => TypeOK'
  BY TypeStep, ContractImpliesNext

(* The block realloc hands back is live and as large as asked for. *)
LEMMA ReallocatedBlock ==
  ASSUME NEW p, p # NULL, NEW n
  PROVE  /\ p \in DOMAIN Reallocated(handle, p, n)
         /\ Reallocated(handle, p, n)[p] = n
  BY DEF Reallocated, Moved

(* A block of n bytes keeps exactly the written elements that fit in it. *)
LEMMA KeptAll ==
  ASSUME NEW e, NEW n
  PROVE  /\ DOMAIN Kept(e, n) = {i \in DOMAIN mem : Fits(i, e, n)}
         /\ \A i \in DOMAIN Kept(e, n) : Kept(e, n)[i] = mem[i]
  BY DEF Kept

(* A coherent array of length l keeps its first k <= c elements in a block *)
(* of c elements.                                                          *)
LEMMA FitsBelow ==
  ASSUME NEW i \in Nat, NEW c \in Nat, NEW e \in Nat, i < c
  PROVE  Fits(i, e, HeaderSize + c * e)
  <1>1. (i + 1) * e \in Nat /\ c * e \in Nat /\ (i + 1) * e <= c * e
    BY MulMono
  <1> QED
    BY <1>1, SizeAssumption DEF Fits

LEMMA ContractInit == Init => ContractInv
  BY TypeInit DEF Init, ContractInv, Usable

LEMMA ContractFault ==
  ASSUME ContractInv, Fault, status = "open", ~Accessible
  PROVE  /\ handle = NULL /\ status' = "crashed"
         /\ UNCHANGED <<heap, handle, hdr, mem>>
  <1>1. CASE Usable
    BY <1>1, GrowArithmetic DEF ContractInv
  <1> QED
    BY <1>1 DEF Fault, Usable

(* What dynamic_grow() and dynamic_insert() leave under the contract. *)
LEMMA ContractGrowTo ==
  ASSUME ContractInv, status = "open", Accessible,
         NEW p \in GrowResults(hdr), GrowTo(p), p # NULL
  PROVE  /\ Coherent'
         /\ hdr'.length = hdr.length + 1
         /\ hdr'.element_size = hdr.element_size
         /\ hdr'.element_size >= 1
         /\ hdr.length \in Nat
         /\ DOMAIN Kept(hdr.element_size, GrownBytes(hdr)) = DOMAIN mem
         /\ DOMAIN mem \subseteq 0..(hdr.length - 1)
         /\ hdr'.capacity \in {hdr.capacity, 2 * hdr.length}
  <1>1. TypeOK /\ Coherent /\ hdr.element_size >= 1 /\ DOMAIN mem \subseteq 0..(hdr.length - 1)
    BY AddrAssumption DEF ContractInv, Usable, Accessible, TypeOK
  <1>2. hdr' = Grown(hdr) /\ handle' = p /\ heap' = Reallocated(handle, p, GrownBytes(hdr))
    BY DEF GrowTo
  <1>3. /\ hdr.length \in Nat /\ hdr.element_size \in Nat
        /\ hdr.capacity \in Nat
    BY <1>1, FieldType DEF TypeOK
  <1> DEFINE g == Grown(hdr)
             b == GrownBytes(hdr)
  <1>4. /\ g.length = hdr.length + 1
        /\ g.capacity \in Nat /\ g.length <= g.capacity
        /\ g.capacity \in {hdr.capacity, 2 * hdr.length}
        /\ g.size = g.capacity * g.element_size
        /\ b = HeaderSize + g.size
        /\ g.element_size = hdr.element_size
    BY <1>1, GrowArithmetic
  <1>5. p \in DOMAIN heap' /\ heap'[p] = b
    BY <1>2, ReallocatedBlock
  <1> HIDE DEF g, b
  <1>6. Coherent'
    BY <1>2, <1>3, <1>4, <1>5 DEF Coherent, g
  <1>7. \A i \in DOMAIN mem : Fits(i, hdr.element_size, b)
    <2> SUFFICES ASSUME NEW i \in DOMAIN mem PROVE Fits(i, hdr.element_size, b)
      OBVIOUS
    <2>1. i \in Nat /\ i < g.capacity
      BY <1>1, <1>3, <1>4
    <2> QED
      BY <1>3, <1>4, <2>1, FitsBelow
  <1>8. DOMAIN Kept(hdr.element_size, b) = DOMAIN mem
    BY <1>7, KeptAll
  <1> QED
    BY <1>1, <1>2, <1>3, <1>4, <1>6, <1>8 DEF g, b

(* The array is lost: the process crashed, or holds NULL for it. *)
Lost == status \in {"open", "crashed"} /\ handle = NULL

(* dynamic_grow() under the contract: lost, or one more, unwritten element. *)
LEMMA GrowEffect ==
  ASSUME ContractInv, dynamic_grow
  PROVE  \/ Lost'
         \/ /\ Usable /\ Usable' /\ Coherent'
            /\ hdr.length \in Nat /\ hdr'.length = hdr.length + 1
            /\ hdr'.element_size >= 1
            /\ DOMAIN mem \subseteq 0..(hdr.length - 1)
            /\ DOMAIN mem' = DOMAIN mem
            /\ \A i \in DOMAIN mem : mem'[i] = mem[i]
            /\ hdr'.capacity \in {hdr.capacity, 2 * hdr.length}
  <1>1. CASE Fault /\ ~Accessible
    BY <1>1, ContractFault DEF dynamic_grow, Lost
  <1>2. CASE Accessible
    <2>1. PICK p \in GrowResults(hdr) :
               /\ GrowTo(p)
               /\ mem' = Kept(hdr.element_size, GrownBytes(hdr))
               /\ status' = IF p = NULL THEN "crashed"
                            ELSE IF GrownBytes(hdr) < HeaderSize THEN "ub"
                            ELSE "open"
      BY <1>2 DEF dynamic_grow
    <2>2. CASE p = NULL
      BY <2>1, <2>2 DEF GrowTo, Lost
    <2>3. CASE p # NULL
      <3>1. Usable /\ TypeOK /\ Coherent
        BY <1>2, AddrAssumption DEF dynamic_grow, ContractInv, Usable, Accessible, TypeOK
      <3>2. GrownBytes(hdr) >= HeaderSize /\ GrownBytes(hdr) \in Nat
        BY <3>1, GrowArithmetic, GrownBytesType DEF Coherent
      <3>3. status' = "open" /\ handle' = p
        BY <2>1, <2>3, <3>2, SizeAssumption DEF GrowTo
      <3>4. DOMAIN mem' = DOMAIN mem /\ \A i \in DOMAIN mem : mem'[i] = mem[i]
        BY <1>2, <2>1, <2>3, <3>1, ContractGrowTo, KeptAll DEF Usable
      <3> QED
        BY <1>2, <2>1, <2>3, <3>1, <3>3, <3>4, ContractGrowTo DEF Usable
    <2> QED
      BY <2>2, <2>3
  <1> QED
    BY <1>1, <1>2 DEF dynamic_grow

(* dynamic_insert() under the contract: lost, or the value at the end. *)
LEMMA InsertEffect ==
  ASSUME ContractInv, NEW v \in Value, dynamic_insert(v)
  PROVE  \/ Lost'
         \/ /\ Usable /\ Usable' /\ Coherent'
            /\ hdr.length \in Nat /\ hdr'.length = hdr.length + 1
            /\ hdr'.element_size >= 1
            /\ DOMAIN mem \subseteq 0..(hdr.length - 1)
            /\ mem' = [i \in DOMAIN mem \union {hdr.length} |->
                         IF i = hdr.length THEN v ELSE mem[i]]
            /\ hdr'.capacity \in {hdr.capacity, 2 * hdr.length}
  <1> DEFINE k == Kept(hdr.element_size, GrownBytes(hdr))
             fits == Fits(hdr.length, hdr.element_size, GrownBytes(hdr))
  <1>1. CASE Fault /\ ~Accessible
    BY <1>1, ContractFault DEF dynamic_insert, Lost
  <1>2. CASE Accessible
    <2>1. PICK p \in GrowResults(hdr) :
               /\ GrowTo(p)
               /\ IF p # NULL /\ fits
                  THEN /\ mem' = [i \in DOMAIN k \union {hdr.length} |->
                                    IF i = hdr.length THEN v ELSE mem[i]]
                       /\ status' = "open"
                  ELSE /\ mem' = k
                       /\ status' = IF p = NULL THEN "crashed" ELSE "ub"
      BY <1>2 DEF dynamic_insert
    <2>2. CASE p = NULL
      BY <2>1, <2>2 DEF GrowTo, Lost
    <2>3. CASE p # NULL
      <3>1. Usable /\ TypeOK /\ Coherent
        BY <1>2, AddrAssumption DEF dynamic_insert, ContractInv, Usable, Accessible, TypeOK
      <3>2. fits
        BY <3>1, GrowArithmetic
      <3>3. DOMAIN k = DOMAIN mem
        BY <1>2, <2>1, <2>3, <3>1, ContractGrowTo DEF Usable
      <3> HIDE DEF k, fits
      <3>4. status' = "open" /\ handle' = p
        BY <2>1, <2>3, <3>2 DEF GrowTo
      <3>5. mem' = [i \in DOMAIN mem \union {hdr.length} |->
                      IF i = hdr.length THEN v ELSE mem[i]]
        BY <2>1, <2>3, <3>2, <3>3
      <3> QED
        BY <1>2, <2>1, <2>3, <3>1, <3>4, <3>5, ContractGrowTo DEF Usable
    <2> QED
      BY <2>2, <2>3
  <1> QED
    BY <1>1, <1>2 DEF dynamic_insert

(* Cutting the block to exactly k of the elements in use: lost, or the     *)
(* first k elements.                                                       *)
LEMMA CutEffect ==
  ASSUME ContractInv, Usable, NEW k \in Nat, 1 <= k, k <= hdr.length,
         NEW h \in Headers, ReallocTo(h),
         h = Header(k, k, Mul(k, hdr.element_size), hdr.element_size)
  PROVE  \/ Lost'
         \/ /\ Usable' /\ Coherent'
            /\ hdr'.length = k /\ hdr'.capacity = k
            /\ hdr'.element_size >= 1
            /\ DOMAIN mem' = {i \in DOMAIN mem : i < k}
            /\ \A i \in DOMAIN mem' : mem'[i] = mem[i]
  <1> DEFINE e == hdr.element_size
             need == Add(HeaderSize, h.size)
  <1>1. TypeOK /\ Coherent /\ e >= 1 /\ DOMAIN mem \subseteq Nat
    BY DEF ContractInv, TypeOK
  <1>2. e \in Nat /\ hdr.length \in Nat /\ hdr.capacity \in Nat /\ hdr.size \in Nat
    BY <1>1, FieldType DEF TypeOK
  <1>3. k <= hdr.capacity /\ hdr.size = hdr.capacity * e
        /\ heap[handle] = HeaderSize + hdr.size /\ heap[handle] \in 0..HeapLimit
    BY <1>1, <1>2 DEF Coherent, TypeOK
  <1>4. k * e \in Nat /\ k * e <= hdr.size
    BY <1>2, <1>3, MulMono
  <1>5. Mul(k, e) = k * e
    BY <1>2, <1>3, <1>4, SizeTExact, SizeAssumption
  <1>6. h.length = k /\ h.capacity = k /\ h.size = k * e /\ h.element_size = e
    BY <1>5 DEF Header
  <1>7. need = HeaderSize + k * e
    BY <1>3, <1>4, <1>6, <1>2, SizeTExact, SizeAssumption
  <1>8. PICK p \in ReallocResults(handle, need) :
             /\ handle' = p
             /\ hdr' = h
             /\ heap' = Reallocated(handle, p, need)
             /\ mem' = Kept(h.element_size, need)
             /\ status' = status
    BY DEF ReallocTo
  <1> HIDE DEF need, e
  <1>9. CASE p = NULL
    BY <1>8, <1>9 DEF Lost, Usable
  <1>10. CASE p # NULL
    <2>1. p \in DOMAIN heap' /\ heap'[p] = need
      BY <1>8, <1>10, ReallocatedBlock
    <2>2. Usable' /\ Coherent'
      BY <1>2, <1>6, <1>7, <1>8, <1>10, <2>1 DEF Usable, Coherent
    <2>3. \A i \in DOMAIN mem : Fits(i, e, need) <=> i < k
      <3> SUFFICES ASSUME NEW i \in DOMAIN mem PROVE Fits(i, e, need) <=> i < k
        OBVIOUS
      <3>1. i \in Nat
        BY <1>1
      <3>2. i < k => Fits(i, e, need)
        BY <1>2, <1>7, <3>1, FitsBelow
      <3>3. ASSUME i >= k PROVE ~Fits(i, e, need)
        <4>1. (k + 1) * e <= (i + 1) * e /\ (i + 1) * e \in Nat
          BY <1>2, <3>1, <3>3, MulMono
        <4>2. (k + 1) * e = k * e + e
          BY <1>2
        <4> QED
          BY <1>1, <1>2, <1>4, <1>7, <4>1, <4>2, SizeAssumption DEF Fits, e
      <3> QED
        BY <3>1, <3>2, <3>3
    <2>4. DOMAIN mem' = {i \in DOMAIN mem : i < k} /\ \A i \in DOMAIN mem' : mem'[i] = mem[i]
      <3>1. mem' = Kept(e, need)
        BY <1>6, <1>8
      <3>2. {i \in DOMAIN mem : Fits(i, e, need)} = {i \in DOMAIN mem : i < k}
        BY <2>3
      <3> QED
        BY <3>1, <3>2, KeptAll
    <2> QED
      BY <1>1, <1>6, <1>8, <2>2, <2>4 DEF e
  <1> QED
    BY <1>9, <1>10

(* dynamic_shrink_to_fit() under the contract keeps every element. *)
LEMMA ShrinkEffect ==
  ASSUME ContractInv, hdr.length > 0, dynamic_shrink_to_fit
  PROVE  \/ Lost'
         \/ /\ Usable /\ Usable' /\ Coherent'
            /\ hdr.length \in Nat
            /\ hdr'.length = hdr.length /\ hdr'.capacity = hdr.length
            /\ hdr'.element_size >= 1
            /\ DOMAIN mem \subseteq 0..(hdr.length - 1)
            /\ DOMAIN mem' = DOMAIN mem
            /\ \A i \in DOMAIN mem : mem'[i] = mem[i]
  <1>1. CASE Fault /\ ~Accessible
    BY <1>1, ContractFault DEF dynamic_shrink_to_fit, Lost
  <1>2. CASE Accessible /\ ReallocTo(Shrunk(hdr))
    <2>1. Usable /\ TypeOK /\ DOMAIN mem \subseteq 0..(hdr.length - 1)
      BY <1>2, AddrAssumption
         DEF dynamic_shrink_to_fit, ContractInv, Usable, Accessible, TypeOK
    <2>2. hdr.length \in Nat /\ hdr.element_size \in Nat /\ hdr \in Headers
      BY <2>1, FieldType DEF TypeOK
    <2>3. Mul(hdr.element_size, hdr.length) = Mul(hdr.length, hdr.element_size)
      BY <2>2 DEF Mul
    <2>4. Shrunk(hdr) = Header(hdr.length, hdr.length,
                               Mul(hdr.length, hdr.element_size), hdr.element_size)
      BY <2>3 DEF Shrunk
    <2>5. Shrunk(hdr) \in Headers
      BY <2>1, HeaderType, FieldType, SizeT DEF Shrunk, TypeOK
    <2>6. {i \in DOMAIN mem : i < hdr.length} = DOMAIN mem
      BY <2>1, <2>2
    <2>7. 1 <= hdr.length /\ hdr.length <= hdr.length
      BY <2>2
    <2>8. \/ Lost'
          \/ /\ Usable' /\ Coherent'
             /\ hdr'.length = hdr.length /\ hdr'.capacity = hdr.length
             /\ hdr'.element_size >= 1
             /\ DOMAIN mem' = {i \in DOMAIN mem : i < hdr.length}
             /\ \A i \in DOMAIN mem' : mem'[i] = mem[i]
      BY <1>2, <2>1, <2>2, <2>4, <2>5, <2>7, CutEffect
    <2> QED
      BY <2>1, <2>2, <2>6, <2>8
  <1> QED
    BY <1>1, <1>2 DEF dynamic_shrink_to_fit

(* dynamic_resize() under the contract keeps the first n elements. *)
LEMMA ResizeEffect ==
  ASSUME ContractInv, NEW n \in Capacities, n \in 1..hdr.length, dynamic_resize(n)
  PROVE  \/ Lost'
         \/ /\ Usable /\ Usable' /\ Coherent'
            /\ n \in Nat /\ hdr.length \in Nat
            /\ hdr'.length = n /\ hdr'.capacity = n
            /\ hdr'.element_size >= 1
            /\ DOMAIN mem' = {i \in DOMAIN mem : i < n}
            /\ \A i \in DOMAIN mem' : mem'[i] = mem[i]
  <1>1. CASE Fault /\ ~Accessible
    BY <1>1, ContractFault DEF dynamic_resize, Lost
  <1>2. CASE Accessible /\ ReallocTo(Resized(hdr, n))
    <2>1. Usable /\ TypeOK
      BY <1>2, AddrAssumption DEF dynamic_resize, ContractInv, Usable, Accessible, TypeOK
    <2>2. hdr.length \in Nat /\ hdr.element_size \in Nat /\ hdr \in Headers
      BY <2>1, FieldType DEF TypeOK
    <2>3. n \in Nat /\ n <= hdr.length /\ ~(hdr.length < n) /\ n \in 0..(SizeMod - 1)
      BY <2>2, ArgumentAssumption
    <2>4. Resized(hdr, n) = Header(n, n, Mul(n, hdr.element_size), hdr.element_size)
      BY <2>3 DEF Resized
    <2>5. Resized(hdr, n) \in Headers
      BY <2>2, <2>3, ResizedType
    <2> QED
      BY <1>2, <2>1, <2>2, <2>3, <2>4, <2>5, CutEffect
  <1> QED
    BY <1>1, <1>2 DEF dynamic_resize

(* dynamic() under the contract: lost, or a coherent empty array. *)
LEMMA CreateEffect ==
  ASSUME ContractInv, NEW e \in ElementSizes, NEW n \in Capacities,
         SizeFits(e, n), dynamic(e, n)
  PROVE  \/ Lost'
         \/ /\ Usable' /\ Coherent'
            /\ hdr'.length = 0
            /\ hdr'.capacity \in Capacities \union {DefaultCapacity}
            /\ hdr'.element_size >= 1
            /\ DOMAIN mem' = {}
  <1> DEFINE h == NewHeader(e, n)
             need == Add(HeaderSize, h.size)
  <1>1. /\ h.capacity \in Nat /\ h.capacity >= 1 /\ h.length = 0 /\ h.element_size = e
        /\ h.size = Mul(h.capacity, e)
        /\ h.capacity \in Capacities \union {DefaultCapacity}
    BY NewHeaderType
  <1>2. e \in Nat /\ e >= 1 /\ HeaderSize \in Nat /\ HeaderSize + h.capacity * e < SizeMod
    BY SizeAssumption, ArgumentAssumption DEF SizeFits
  <1> HIDE DEF h
  <1>3. h.capacity * e \in Nat
    BY <1>1, <1>2
  <1>4. h.size = h.capacity * e /\ need = HeaderSize + h.size
    BY <1>1, <1>2, <1>3, SizeTExact, SizeAssumption
  <1>5. ~(need < HeaderSize)
    BY <1>2, <1>3, <1>4
  <1>6. e # 0
    BY <1>2
  <1>7. PICK p \in MallocResults(need) :
             IF p = NULL
             THEN handle' = NULL /\ status' = "crashed"
             ELSE /\ heap' = Moved(p, p, need)
                  /\ handle' = p
                  /\ hdr' = h
                  /\ mem' = [i \in {} |-> Junk]
                  /\ status' = "open"
    BY <1>5, <1>6 DEF dynamic, h
  <1> HIDE DEF need
  <1>8. CASE p = NULL
    BY <1>7, <1>8 DEF Lost
  <1>9. CASE p # NULL
    <2>1. p \in DOMAIN heap' /\ heap'[p] = need
      BY <1>7, <1>9 DEF Moved
    <2>2. Usable' /\ Coherent'
      BY <1>1, <1>4, <1>7, <1>9, <2>1 DEF Usable, Coherent
    <2> QED
      BY <1>1, <1>2, <1>7, <1>9, <2>2
  <1> QED
    BY <1>8, <1>9

(* Every step of a client that keeps the contract keeps the invariant and  *)
(* the bound on the unused part of the block.                              *)
LEMMA ContractStep ==
  ASSUME ContractInv, SlackBounded, [ContractNext]_vars
  PROVE  ContractInv' /\ SlackBounded'
  <1>1. TypeOK'
    BY ContractType DEF ContractInv
  <1>2. ASSUME Lost' PROVE ContractInv' /\ SlackBounded'
    BY <1>1, <1>2 DEF ContractInv, SlackBounded, Usable, Lost
  <1>3. ASSUME NEW e \in ElementSizes, NEW n \in Capacities,
               SizeFits(e, n), dynamic(e, n)
        PROVE  ContractInv' /\ SlackBounded'
    BY <1>1, <1>2, <1>3, CreateEffect DEF ContractInv, SlackBounded, Usable
  <1>4. CASE dynamic_grow
    <2>1. CASE ~Lost'
      <3>1. hdr'.length \in Nat /\ hdr.capacity \in Nat
        BY <1>1, FieldType DEF ContractInv, TypeOK
      <3> QED
        BY <1>1, <1>4, <2>1, <3>1, GrowEffect DEF ContractInv, SlackBounded, Usable
    <2> QED
      BY <1>2, <2>1
  <1>5. ASSUME NEW v \in Value, dynamic_insert(v)
        PROVE  ContractInv' /\ SlackBounded'
    <2>1. CASE ~Lost'
      <3>1. hdr'.length \in Nat /\ hdr.capacity \in Nat
        BY <1>1, FieldType DEF ContractInv, TypeOK
      <3> QED
        BY <1>1, <1>5, <2>1, <3>1, InsertEffect DEF ContractInv, SlackBounded, Usable
    <2> QED
      BY <1>2, <2>1
  <1>6. CASE hdr.length > 0 /\ dynamic_shrink_to_fit
    BY <1>1, <1>2, <1>6, ShrinkEffect DEF ContractInv, SlackBounded, Usable
  <1>7. ASSUME NEW n \in Capacities, n \in 1..hdr.length, dynamic_resize(n)
        PROVE  ContractInv' /\ SlackBounded'
    <2>1. CASE ~Lost'
      <3>1. /\ DOMAIN mem' = {i \in DOMAIN mem : i < n}
            /\ n \in Nat
            /\ DOMAIN mem \subseteq Nat
        BY <1>7, <2>1, ResizeEffect DEF ContractInv, TypeOK
      <3>2. DOMAIN mem' \subseteq 0..(n - 1)
        BY <3>1
      <3> QED
        BY <1>1, <1>7, <2>1, <3>1, <3>2, ResizeEffect DEF ContractInv, SlackBounded, Usable
    <2> QED
      BY <1>2, <2>1
  <1>8. CASE dynamic_free
    <2>1. handle \in DOMAIN heap \union {NULL}
      BY <1>8 DEF dynamic_free, ContractInv, Usable, Coherent
    <2> QED
      BY <1>1, <1>8, <2>1 DEF dynamic_free, ContractInv, SlackBounded, Usable
  <1>9. CASE Inspect
    BY <1>2, <1>9, ContractFault DEF Inspect, Lost
  <1>10. CASE UNCHANGED vars
    BY <1>1, <1>10 DEF vars, ContractInv, SlackBounded, Usable, Coherent
  <1> QED
    BY <1>3, <1>4, <1>5, <1>6, <1>7, <1>8, <1>9, <1>10 DEF ContractNext

(* A client that keeps the contract never makes the library leave its      *)
(* block or touch a freed one, however often the array grows, shrinks, is  *)
(* cut or moves, and whenever the allocator refuses.                       *)
THEOREM ContractSafe == ContractSpec => [](ContractInv /\ NoStray /\ SlackBounded)
  <1>1. Init => ContractInv /\ SlackBounded
    BY ContractInit DEF Init, SlackBounded, Usable
  <1>2. ContractInv /\ SlackBounded /\ [ContractNext]_vars
          => (ContractInv /\ SlackBounded)'
    BY ContractStep
  <1>3. ContractInv => NoStray
    BY DEF ContractInv, NoStray
  <1> QED
    BY <1>1, <1>2, <1>3, PTL DEF ContractSpec
-----------------------------------------------------------------------------
(* The array implements Vector.                                            *)

(* The first n elements of the written ones m, as a sequence. *)
Read(m, i) == IF i \in DOMAIN m THEN m[i] ELSE Junk
Elems(m, n) == [i \in 1..n |-> Read(m, i - 1)]

LEMMA ElemsOf ==
  /\ VectorElems = IF Usable THEN Elems(mem, hdr.length) ELSE <<>>
  /\ VectorElems' = IF Usable' THEN Elems(mem', hdr'.length) ELSE <<>>
  BY DEF VectorElems, Elems, Read, dynamic_get

LEMMA ElemsSeq ==
  ASSUME NEW m, NEW n \in Nat
  PROVE  /\ Len(Elems(m, n)) = n
         /\ DOMAIN Elems(m, n) = 1..n
         /\ \A i \in 1..n : Elems(m, n)[i] = Read(m, i - 1)
         /\ n = 0 => Elems(m, n) = <<>>
  BY DEF Elems

(* An element more, the others unchanged, is an Append. *)
LEMMA ElemsAppend ==
  ASSUME NEW m, NEW w, NEW n \in Nat,
         \A i \in 0..(n - 1) : Read(m, i) \in Value \union {Junk},
         \A i \in 0..(n - 1) : Read(w, i) = Read(m, i)
  PROVE  Elems(w, n + 1) = Append(Elems(m, n), Read(w, n))
  <1>1. Elems(m, n) \in Seq(Value \union {Junk})
    BY DEF Elems
  <1>2. Elems(w, n + 1) = [i \in 1..(n + 1) |-> IF i = n + 1 THEN Read(w, n) ELSE Elems(m, n)[i]]
    BY DEF Elems
  <1> QED
    BY <1>1, <1>2, ElemsSeq

(* Fewer elements, unchanged, are a SubSeq. *)
LEMMA ElemsCut ==
  ASSUME NEW m, NEW w, NEW n \in Nat, NEW k \in 1..n,
         \A i \in 0..(n - 1) : Read(m, i) \in Value \union {Junk},
         \A i \in 0..(k - 1) : Read(w, i) = Read(m, i)
  PROVE  Elems(w, k) = SubSeq(Elems(m, n), 1, k)
  <1>1. Elems(m, n) \in Seq(Value \union {Junk})
    BY DEF Elems
  <1>2. Elems(w, k) = [i \in 1..k |-> Elems(m, n)[i]]
    BY DEF Elems
  <1> QED
    BY <1>1, <1>2, ElemsSeq
(* What is read from a written element or an unwritten one. *)
LEMMA ReadType ==
  ASSUME TypeOK, NEW i
  PROVE  Read(mem, i) \in Value \union {Junk}
  BY DEF TypeOK, Read

(* A step of the contract maps to a step of Vector or changes neither of   *)
(* its variables.                                                          *)
LEMMA VectorStep ==
  ASSUME ContractInv, ContractInv', [ContractNext]_vars
  PROVE  [V!Next]_(V!vars)
  <1> USE ElemsOf
  <1> DEFINE S == Value \union {Junk}
             n == hdr.length
  <1>1. /\ n \in Nat
        /\ \A i : Read(mem, i) \in S
    BY FieldType, ReadType DEF ContractInv, TypeOK
  <1>2. ASSUME Lost' PROVE V!Next
    BY <1>2 DEF V!Next, V!Fail, VectorPhase, Lost, Usable
  <1>3. ASSUME Usable, Usable', NEW v \in S, hdr'.length = n + 1, Read(mem', n) = v,
               \A i \in 0..(n - 1) : Read(mem', i) = Read(mem, i)
        PROVE  V!Next
    <2>1. VectorElems' = Append(VectorElems, v)
      <3>1. Elems(mem', n + 1) = Append(Elems(mem, n), Read(mem', n))
        BY <1>1, <1>3, ElemsAppend
      <3> QED
        BY <1>3, <3>1
    <2>2. VectorPhase = "open" /\ VectorPhase' = "open"
      BY <1>3 DEF VectorPhase, Usable
    <2> QED
      BY <2>1, <2>2 DEF V!Next, V!Push
  <1>4. ASSUME Usable, Usable', NEW k \in 1..n, hdr'.length = k,
               \A i \in 0..(k - 1) : Read(mem', i) = Read(mem, i)
        PROVE  V!Next
    <2>1. VectorElems' = SubSeq(VectorElems, 1, k)
      <3>1. Elems(mem', k) = SubSeq(Elems(mem, n), 1, k)
        BY <1>1, <1>4, ElemsCut
      <3> QED
        BY <1>4, <3>1
    <2>2. VectorPhase = "open" /\ VectorPhase' = "open"
      BY <1>4 DEF VectorPhase, Usable
    <2>3. k \in 1..Len(VectorElems)
      BY <1>1, <1>4, ElemsSeq
    <2> QED
      BY <2>1, <2>2, <2>3 DEF V!Next, V!Truncate
  <1>5. ASSUME NEW e \in ElementSizes, NEW c \in Capacities,
               SizeFits(e, c), dynamic(e, c), ~Lost'
        PROVE  V!Next
    <2>1. Usable' /\ hdr'.length = 0
      BY <1>5, CreateEffect
    <2>2. VectorElems' = <<>>
      BY <2>1, ElemsSeq
    <2>3. VectorPhase = "idle" /\ VectorPhase' = "open"
      BY <1>5, <2>1 DEF dynamic, VectorPhase, Usable
    <2> QED
      BY <2>2, <2>3 DEF V!Next, V!New
  <1>6. ASSUME dynamic_grow, ~Lost' PROVE V!Next
    <2>1. /\ Usable /\ Usable' /\ hdr'.length = n + 1
          /\ DOMAIN mem \subseteq 0..(n - 1) /\ DOMAIN mem' = DOMAIN mem
          /\ \A i \in DOMAIN mem : mem'[i] = mem[i]
      BY <1>6, GrowEffect
    <2>2. \A i \in 0..(n - 1) : Read(mem', i) = Read(mem, i)
      BY <2>1 DEF Read
    <2>3. Read(mem', n) = Junk
      BY <1>1, <2>1 DEF Read
    <2> QED
      BY <1>3, <2>1, <2>2, <2>3
  <1>7. ASSUME NEW v \in Value, dynamic_insert(v), ~Lost' PROVE V!Next
    <2>1. /\ Usable /\ Usable' /\ hdr'.length = n + 1
          /\ DOMAIN mem \subseteq 0..(n - 1)
          /\ mem' = [i \in DOMAIN mem \union {n} |-> IF i = n THEN v ELSE mem[i]]
      BY <1>7, InsertEffect
    <2>2. \A i \in 0..(n - 1) : Read(mem', i) = Read(mem, i)
      BY <1>1, <2>1 DEF Read
    <2>3. Read(mem', n) = v
      BY <1>1, <2>1 DEF Read
    <2> QED
      BY <1>3, <2>1, <2>2, <2>3
  <1>8. ASSUME hdr.length > 0, dynamic_shrink_to_fit, ~Lost' PROVE V!Next
    <2>1. /\ Usable /\ Usable' /\ hdr'.length = n
          /\ DOMAIN mem' = DOMAIN mem
          /\ \A i \in DOMAIN mem : mem'[i] = mem[i]
      BY <1>8, ShrinkEffect
    <2>2. \A i \in 0..(n - 1) : Read(mem', i) = Read(mem, i)
      BY <2>1 DEF Read
    <2>3. n \in 1..n
      BY <1>1, <1>8
    <2> QED
      BY <1>4, <2>1, <2>2, <2>3
  <1>9. ASSUME NEW k \in Capacities, k \in 1..n, dynamic_resize(k), ~Lost' PROVE V!Next
    <2>1. /\ Usable /\ Usable' /\ hdr'.length = k
          /\ DOMAIN mem' = {i \in DOMAIN mem : i < k}
          /\ \A i \in DOMAIN mem' : mem'[i] = mem[i]
      BY <1>9, ResizeEffect
    <2>2. \A i \in 0..(k - 1) : Read(mem', i) = Read(mem, i)
      <3>1. k \in Nat
        BY <1>1, <1>9
      <3>2. \A i \in 0..(k - 1) : i \in DOMAIN mem' <=> i \in DOMAIN mem
        BY <2>1, <3>1
      <3> QED
        BY <2>1, <3>2 DEF Read
    <2> QED
      BY <1>4, <1>9, <2>1, <2>2
  <1>10. CASE dynamic_free
    BY <1>10 DEF dynamic_free, ContractInv, V!Next, V!Free, VectorPhase, Usable
  <1>11. CASE Inspect
    BY <1>2, <1>11, ContractFault DEF Inspect, Lost
  <1>12. CASE UNCHANGED vars
    BY <1>12 DEF vars, V!vars, VectorPhase, Usable
  <1> QED
    BY <1>2, <1>5, <1>6, <1>7, <1>8, <1>9, <1>10, <1>11, <1>12 DEF ContractNext

(* Under the contract no call of the library leaves its block, for every   *)
(* element size, capacity and answer of the allocator.                     *)
THEOREM ContractNeverStrays == ContractSpec => []NoStray
  BY ContractSafe, PTL

(* Under the contract the block is never larger than the creation asked    *)
(* for or twice what is in use.                                            *)
THEOREM ContractSlack == ContractSpec => []SlackBounded
  BY ContractSafe, PTL

(* Under the contract a successful dynamic_insert() appends exactly the    *)
(* value it was given, also when it had to move the block first.           *)
THEOREM InsertIsAppend == ContractSpec => InsertAppends
  <1>1. ASSUME ContractInv, NEW v \in Value, dynamic_insert(v), Usable'
        PROVE  VectorElems' = Append(VectorElems, v)
    <2> DEFINE n == hdr.length
    <2>1. /\ n \in Nat
          /\ \A i : Read(mem, i) \in Value \union {Junk}
      BY <1>1, FieldType, ReadType DEF ContractInv, TypeOK
    <2>2. ~Lost'
      BY <1>1 DEF Usable, Lost
    <2>3. /\ Usable /\ hdr'.length = n + 1
          /\ DOMAIN mem \subseteq 0..(n - 1)
          /\ mem' = [i \in DOMAIN mem \union {n} |-> IF i = n THEN v ELSE mem[i]]
      BY <1>1, <2>2, InsertEffect
    <2>4. \A i \in 0..(n - 1) : Read(mem', i) = Read(mem, i)
      BY <2>1, <2>3 DEF Read
    <2>5. Read(mem', n) = v
      BY <2>1, <2>3 DEF Read
    <2>6. Elems(mem', n + 1) = Append(Elems(mem, n), Read(mem', n))
      BY <2>1, <2>4, ElemsAppend
    <2> QED
      BY <1>1, <2>3, <2>5, <2>6, ElemsOf
  <1>2. ContractInv => [\A v \in Value : dynamic_insert(v) /\ Usable'
                          => VectorElems' = Append(VectorElems, v)]_vars
    BY <1>1
  <1>3. ContractSpec => []ContractInv
    BY ContractSafe, PTL
  <1> QED
    BY <1>2, <1>3, PTL DEF InsertAppends

(* Under the contract dynamic.c is a Vector, for every element size,       *)
(* capacity and order of calls: moving the block on grow, shrink and       *)
(* resize never loses, reorders or alters an element that is kept.         *)
THEOREM DynamicIsVector == ContractSpec => ImplementsVector
  <1>1. Init => V!Init
    BY ElemsOf DEF Init, V!Init, VectorPhase, Usable
  <1>2. ContractInv /\ ContractInv' /\ [ContractNext]_vars => [V!Next]_(V!vars)
    BY VectorStep
  <1>3. ContractSpec => []ContractInv
    BY ContractSafe, PTL
  <1> QED
    BY <1>1, <1>2, <1>3, PTL DEF ContractSpec, ImplementsVector, V!Spec
=============================================================================
