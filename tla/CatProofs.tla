----------------------------- MODULE CatProofs ------------------------------
(***************************************************************************)
(* What cat promises, for every buffer size, file, and answer of read()    *)
(* and write().                                                            *)
(***************************************************************************)
EXTENDS Cat, SequenceTheorems, TLAPS
-----------------------------------------------------------------------------
LEMMA SeqWider ==
  ASSUME NEW a \in Nat, NEW b \in Nat, a <= b, NEW s \in Seq(1..a)
  PROVE  s \in Seq(1..b)
  <1>1. /\ Len(s) \in Nat /\ s \in [1..Len(s) -> 1..a]
    OBVIOUS
  <1>2. \A k \in 1..Len(s) : s[k] \in 1..b
    BY <1>1
  <1>3. s \in [1..Len(s) -> 1..b]
    BY <1>1, <1>2
  <1> QED
    BY <1>1, <1>3

(* What out is after a write, element by element. *)
LEMMA WriteEffect ==
  ASSUME TypeOK, pc = "write", NEW n \in 0..n_read, out' = out \o Buffered(n)
  PROVE  /\ Buffered(n) \in Seq(1..pos)
         /\ Len(Buffered(n)) = n
         /\ out' \in Seq(1..pos)
         /\ Len(out') = Len(out) + n
         /\ \A k \in 1..Len(out') :
              out'[k] = IF k <= Len(out) THEN out[k] ELSE pos - n_read + (k - Len(out))
  <1>1. /\ pos \in Nat /\ n_read \in Nat /\ n_read <= pos /\ n \in Nat /\ n <= n_read
        /\ out \in Seq(1..pos)
    BY SizeAssumption DEF TypeOK, Smaller
  <1>2. Buffered(n) \in [1..n -> 1..pos]
    BY <1>1 DEF Buffered
  <1>3. Buffered(n) \in Seq(1..pos) /\ Len(Buffered(n)) = n
    BY <1>1, <1>2
  <1>4. \A k \in 1..n : Buffered(n)[k] = pos - n_read + k
    BY DEF Buffered
  <1> DEFINE more == Buffered(n)
             S == 1..pos
  <1> HIDE DEF more, S
  <1>5. /\ more \in Seq(S) /\ Len(more) = n /\ out' = out \o more /\ out \in Seq(S)
        /\ \A k \in 1..n : more[k] = pos - n_read + k
    BY <1>1, <1>3, <1>4 DEF more, S
  <1>6. out' \in Seq(S) /\ Len(out') = Len(out) + n
    BY <1>5, ConcatProperties
  <1>7. ASSUME NEW k \in 1..Len(out')
        PROVE  out'[k] = IF k <= Len(out) THEN out[k] ELSE pos - n_read + (k - Len(out))
    <2>1. Len(out) \in Nat
      BY <1>1
    <2>2. CASE k <= Len(out)
      BY <1>5, <1>6, <2>1, <2>2
    <2>3. CASE ~(k <= Len(out))
      <3>1. k - Len(out) \in 1..n
        BY <1>1, <1>6, <2>1, <2>3
      <3>2. out'[k] = more[k - Len(out)]
        BY <1>5, <1>6, <2>1, <2>3, <3>1
      <3> QED
        BY <1>5, <2>3, <3>1, <3>2
    <2> QED
      BY <2>2, <2>3
  <1> QED
    BY <1>3, <1>6, <1>7 DEF S

LEMMA ReadEffect ==
  ASSUME TypeOK, Read
  PROVE  \/ pc' = "exit" /\ status' = 3 /\ UNCHANGED <<pos, n_read>>
         \/ pc' = "exit" /\ status' = 0 /\ pos = size /\ UNCHANGED <<pos, n_read>>
         \/ /\ pc' = "write" /\ status' = status
            /\ n_read' \in Nat /\ n_read' >= 1 /\ n_read' <= BufSize
            /\ pos' = pos + n_read' /\ pos' <= size
  BY SizeAssumption DEF TypeOK, Read, Exit, Smaller
-----------------------------------------------------------------------------
LEMMA TypeStep ==
  ASSUME TypeOK, [Next]_vars
  PROVE  TypeOK'
  <1>1. /\ pos \in Nat /\ size \in Nat /\ pos <= size
        /\ n_read \in Nat /\ n_read <= pos /\ n_read <= BufSize
    BY SizeAssumption DEF TypeOK, Smaller
  <1>2. CASE Open
    BY <1>2 DEF Open, Exit, TypeOK
  <1>3. CASE Read
    <2>1. UNCHANGED <<argc, size, out, lost>>
      BY <1>3 DEF Read
    <2>2. CASE pc' = "exit" /\ status' \in {0, 3} /\ UNCHANGED <<pos, n_read>>
      BY <2>1, <2>2 DEF TypeOK
    <2>3. CASE /\ pc' = "write" /\ status' = status
               /\ n_read' \in Nat /\ n_read' >= 1 /\ n_read' <= BufSize
               /\ pos' = pos + n_read' /\ pos' <= size
      <3> DEFINE n == n_read'
      <3>0. n \in Nat /\ pos' = pos + n /\ pos' <= size /\ n <= BufSize /\ size' = size
        BY <2>1, <2>3
      <3> HIDE DEF n
      <3>1. pos' \in Nat /\ pos <= pos' /\ n <= pos'
        BY <1>1, <3>0
      <3>2. out' \in Seq(1..pos')
        <4>1. out \in Seq(1..pos) /\ out' = out
          BY <2>1 DEF TypeOK
        <4> QED
          BY <1>1, <3>1, <4>1, SeqWider
      <3>3. pos' \in 0..size' /\ n \in 0..Smaller(BufSize, pos')
        BY <1>1, <3>0, <3>1, SizeAssumption DEF Smaller
      <3> QED
        BY <2>1, <2>3, <3>2, <3>3 DEF TypeOK, n
    <2> QED
      BY <1>3, <2>2, <2>3, ReadEffect
  <1>4. CASE Write
    <2>1. PICK n \in 0..n_read : out' = out \o Buffered(n) /\ lost' = (lost \/ n < n_read)
      BY <1>4 DEF Write, Amount
    <2>2. out' \in Seq(1..pos)
      BY <1>4, <2>1, WriteEffect DEF Write
    <2>3. lost' \in BOOLEAN
      BY <2>1
    <2> QED
      BY <1>4, <2>2, <2>3 DEF Write, TypeOK
  <1>5. CASE BrokenPipe
    BY <1>5 DEF BrokenPipe, TypeOK
  <1>6. CASE GrowFile
    BY <1>1, <1>6 DEF GrowFile, TypeOK
  <1>7. CASE UNCHANGED vars
    BY <1>7 DEF vars, TypeOK
  <1> QED
    BY <1>2, <1>3, <1>4, <1>5, <1>6, <1>7 DEF Next, CatStep

(* cat's variables keep their types: it never reads past the file, and     *)
(* never writes bytes that are not in it.                                  *)
THEOREM CatTypes == Spec => []TypeOK
  <1>1. ASSUME Init PROVE TypeOK
    <2>1. out \in Seq(1..pos)
      BY <1>1 DEF Init
    <2>2. size \in Nat /\ pos \in 0..size /\ n_read \in 0..Smaller(BufSize, pos)
      BY <1>1, SizeAssumption DEF Init, Smaller
    <2>3. pc = "open" /\ argc \in {1, 2} /\ status = 0 /\ lost \in BOOLEAN
      BY <1>1, Zenon DEF Init
    <2> QED
      BY <2>1, <2>2, <2>3 DEF TypeOK
  <1>2. TypeOK /\ [Next]_vars => TypeOK'
    BY TypeStep
  <1> QED
    BY <1>1, <1>2, PTL DEF Spec
-----------------------------------------------------------------------------
LEMMA OrderStep ==
  ASSUME TypeOK, TypeOK', InOrder, [Next]_vars
  PROVE  InOrder'
  <1>1. /\ pos \in Nat /\ size \in Nat /\ pos <= size
        /\ n_read \in Nat /\ n_read <= pos
        /\ out \in Seq(1..pos) /\ Len(out) \in Nat
        /\ \A k \in 1..Len(out) : out[k] \in Nat
    <2>1. out \in Seq(1..pos) /\ pos \in Nat
      BY DEF TypeOK
    <2>2. Len(out) \in Nat /\ \A k \in 1..Len(out) : out[k] \in 1..pos
      BY <2>1
    <2> QED
      BY <2>1, <2>2, SizeAssumption DEF TypeOK, Smaller
  <1>2. DOMAIN out = 1..Len(out)
    BY <1>1
  <1>3. CASE Read
    <2>1. out' = out /\ pc = "read"
      BY <1>3 DEF Read
    <2>2. \A k \in DOMAIN out : out[k] <= pos
      BY <2>1 DEF InOrder
    <2> QED
      BY <1>1, <1>2, <1>3, <2>1, <2>2, ReadEffect DEF InOrder
  <1>4. CASE Write
    <2>1. PICK n \in 0..n_read : out' = out \o Buffered(n)
      BY <1>4 DEF Write, Amount
    <2>2. /\ out' \in Seq(1..pos) /\ Len(out') = Len(out) + n
          /\ \A k \in 1..Len(out') :
               out'[k] = IF k <= Len(out) THEN out[k] ELSE pos - n_read + (k - Len(out))
      BY <1>4, <2>1, WriteEffect DEF Write
    <2>3. DOMAIN out' = 1..Len(out')
      BY <2>2
    <2>4. \A k \in 1..Len(out) : out[k] <= pos - n_read
      BY <1>2, <1>4 DEF InOrder, Write
    <2>5. pc' = "read" /\ pos' = pos /\ n_read' = n_read
      BY <1>4 DEF Write
    <2>6. \A k \in 1..Len(out') : out'[k] <= pos
      BY <1>1, <2>2, <2>4
    <2>7. ASSUME NEW j \in 1..Len(out'), NEW k \in 1..Len(out'), j < k PROVE out'[j] < out'[k]
      <3>1. CASE k <= Len(out)
        <4>1. j \in 1..Len(out) /\ k \in 1..Len(out)
          BY <1>1, <2>7, <3>1
        <4>2. out[j] < out[k]
          BY <1>2, <2>7, <4>1 DEF InOrder
        <4> QED
          BY <2>2, <4>1, <4>2
      <3>2. CASE ~(k <= Len(out))
        <4> DEFINE m == Len(out)
                   base == pos - n_read
        <4>1. m \in Nat /\ base \in Nat /\ out'[k] = base + (k - m) /\ k \in Nat /\ k > m
          BY <1>1, <2>2, <3>2
        <4>2. CASE j <= m
          <5>1. j \in 1..m /\ out'[j] = out[j] /\ out[j] \in Nat
            BY <1>1, <2>2, <4>2
          <5>2. out[j] <= base
            BY <2>4, <5>1
          <5> QED
            BY <4>1, <5>1, <5>2
        <4>3. CASE ~(j <= m)
          <5>1. out'[j] = base + (j - m) /\ j \in Nat
            BY <2>2, <4>3
          <5> QED
            BY <2>7, <4>1, <5>1
        <4> QED
          BY <4>2, <4>3
      <3> QED
        BY <3>1, <3>2
    <2> QED
      BY <2>3, <2>5, <2>6, <2>7 DEF InOrder
  <1>5. CASE Open \/ BrokenPipe \/ GrowFile
    <2>1. out' = out /\ pos' = pos /\ n_read' = n_read /\ (pc # "write" => pc' # "write")
      BY <1>5 DEF Open, Exit, BrokenPipe, GrowFile
    <2> QED
      BY <1>1, <1>2, <2>1 DEF InOrder
  <1>6. CASE UNCHANGED vars
    BY <1>6 DEF vars, InOrder
  <1> QED
    BY <1>3, <1>4, <1>5, <1>6 DEF Next, CatStep

(* Whatever read() and write() do, the bytes that arrive are in the order  *)
(* of the file and none arrives twice.                                     *)
THEOREM CatKeepsOrder == Spec => []InOrder
  <1>1. Init => InOrder
    BY DEF Init, InOrder
  <1>2. TypeOK /\ TypeOK' /\ InOrder /\ [Next]_vars => InOrder'
    BY OrderStep
  <1> QED
    BY <1>1, <1>2, CatTypes, PTL DEF Spec
-----------------------------------------------------------------------------
First(n) == [k \in 1..n |-> k]

LEMMA FirstIs ==
  ASSUME NEW n \in Nat
  PROVE  First(n) \in Seq(Nat) /\ Len(First(n)) = n /\ \A k \in 1..n : First(n)[k] = k
  <1>1. First(n) \in [1..n -> Nat]
    BY DEF First
  <1> QED
    BY <1>1 DEF First

LEMMA IsFirst ==
  ASSUME NEW S, NEW s \in Seq(S), NEW n \in Nat, Len(s) = n, \A k \in 1..n : s[k] = k
  PROVE  s = First(n)
  <1>1. s \in [1..n -> S]
    OBVIOUS
  <1> QED
    BY <1>1 DEF First

(* A write that is complete makes a longer prefix. *)
LEMMA WholeWrite ==
  ASSUME TypeOK, pc = "write", out = First(pos - n_read), out' = out \o Buffered(n_read)
  PROVE  out' = First(pos)
  <1>1. pos \in Nat /\ n_read \in Nat /\ n_read <= pos
    BY SizeAssumption DEF TypeOK, Smaller
  <1> DEFINE m == pos - n_read
  <1>2. m \in Nat /\ m + n_read = pos
    BY <1>1
  <1>3. n_read \in 0..n_read
    BY <1>1
  <1>4. /\ out' \in Seq(1..pos) /\ Len(out') = Len(out) + n_read
        /\ \A k \in 1..Len(out') : out'[k] = IF k <= Len(out) THEN out[k] ELSE m + (k - Len(out))
    BY <1>3, WriteEffect
  <1> HIDE DEF m
  <1>5. Len(out) = m /\ \A k \in 1..m : out[k] = k
    BY <1>2, FirstIs DEF m
  <1>6. Len(out') = pos
    BY <1>2, <1>4, <1>5
  <1>7. ASSUME NEW k \in 1..pos PROVE out'[k] = k
    <2>1. k \in Nat /\ out'[k] = IF k <= m THEN out[k] ELSE m + (k - m)
      <3>1. k \in 1..Len(out')
        BY <1>6
      <3>2. out'[k] = IF k <= Len(out) THEN out[k] ELSE m + (k - Len(out))
        BY <1>4, <3>1
      <3>3. Len(out) = m /\ k \in Nat
        BY <1>1, <1>5
      <3> QED
        BY <3>2, <3>3, Zenon
    <2>2. CASE k <= m
      <3>1. k \in 1..m
        BY <1>2, <2>2
      <3> QED
        BY <1>5, <2>1, <2>2, <3>1
    <2>3. CASE ~(k <= m)
      <3>1. m + (k - m) = k
        BY <1>2, <2>1
      <3> QED
        BY <2>1, <2>3, <3>1
    <2> QED
      BY <2>2, <2>3
  <1> QED
    BY <1>1, <1>4, <1>6, <1>7, IsFirst

LEMMA PrefixStep ==
  ASSUME TypeOK, PrefixInv, [Next]_vars
  PROVE  PrefixInv'
  <1>1. pos \in Nat /\ n_read \in Nat /\ n_read <= pos
    BY SizeAssumption DEF TypeOK, Smaller
  <1>2. CASE Read
    <2>1. pc = "read" /\ UNCHANGED <<out, lost>>
      BY <1>2 DEF Read
    <2>2. ~lost => out = First(pos)
      BY <2>1 DEF PrefixInv, First
    <2>3. CASE pc' = "exit" /\ UNCHANGED <<pos, n_read>>
      BY <2>1, <2>2, <2>3 DEF PrefixInv, First
    <2>4. CASE pc' = "write" /\ n_read' \in Nat /\ n_read' >= 1 /\ pos' = pos + n_read'
      <3> DEFINE n == n_read'
      <3>0. n \in Nat /\ pos' = pos + n
        BY <2>4
      <3> HIDE DEF n
      <3>1. pos' - n = pos
        BY <1>1, <3>0
      <3> USE DEF n
      <3>2. ~lost' => out' = First(pos' - n_read')
        BY <2>1, <2>2, <3>1
      <3> QED
        BY <2>4, <3>2 DEF PrefixInv, First
    <2> QED
      BY <1>2, <2>3, <2>4, ReadEffect
  <1>3. CASE Write
    <2>1. PICK n \in 0..n_read : out' = out \o Buffered(n) /\ lost' = (lost \/ n < n_read)
      BY <1>3 DEF Write, Amount
    <2>2. pc = "write" /\ pc' = "read" /\ pos' = pos
      BY <1>3 DEF Write
    <2>3. CASE lost'
      BY <2>3 DEF PrefixInv
    <2>4. CASE ~lost'
      <3>1. ~lost /\ ~(n < n_read)
        BY <2>1, <2>4
      <3>2. n = n_read
        BY <1>1, <3>1
      <3>3. out = First(pos - n_read)
        BY <2>2, <3>1 DEF PrefixInv, First
      <3>4. out' = First(pos)
        BY <2>1, <2>2, <3>2, <3>3, WholeWrite
      <3> QED
        BY <2>2, <3>4 DEF PrefixInv, First
    <2> QED
      BY <2>3, <2>4
  <1>4. CASE Open
    BY <1>4 DEF Open, Exit, PrefixInv
  <1>5. CASE BrokenPipe
    BY <1>5 DEF BrokenPipe, PrefixInv
  <1>6. CASE GrowFile
    BY <1>6 DEF GrowFile, PrefixInv
  <1>7. CASE UNCHANGED vars
    BY <1>7 DEF vars, PrefixInv
  <1> QED
    BY <1>2, <1>3, <1>4, <1>5, <1>6, <1>7 DEF Next, CatStep

(* While every write is complete, what has arrived is exactly what was     *)
(* read before the buffer still to be written.                             *)
THEOREM CatPrefix == Spec => []PrefixInv
  <1>1. ASSUME Init PROVE PrefixInv
    <2>1. <<>> = First(0)
      <3>1. <<>> \in Seq(Nat) /\ Len(<<>>) = 0
        OBVIOUS
      <3>2. \A k \in 1..0 : <<>>[k] = k
        OBVIOUS
      <3> QED
        BY <3>1, <3>2, IsFirst
    <2> QED
      BY <1>1, <2>1 DEF Init, PrefixInv, First
  <1>2. TypeOK /\ PrefixInv /\ [Next]_vars => PrefixInv'
    BY PrefixStep
  <1> QED
    BY <1>1, <1>2, CatTypes, PTL DEF Spec
-----------------------------------------------------------------------------
(* Every step of cat is a step of Copy, or none. *)
LEMMA CopyStep ==
  ASSUME TypeOK, PrefixInv, PrefixInv', [Next]_vars
  PROVE  [Contract!CopyNext]_(Contract!copy_vars)
  <1> DEFINE N == Contract!CopyNext
             Same == UNCHANGED <<CopySize, CopyOut, CopyPhase>>
  <1>1. SUFFICES N \/ Same
    BY DEF Contract!copy_vars
  <1>2. pos \in Nat /\ n_read \in Nat /\ n_read <= pos /\ size \in Nat /\ pos <= size
    BY SizeAssumption DEF TypeOK, Smaller
  <1>3. CASE lost
    <2>1. lost'
      <3>1. CASE Write
        BY <1>3, <3>1 DEF Write
      <3>2. CASE Open \/ Read \/ BrokenPipe \/ GrowFile
        BY <1>3, <3>2 DEF Open, Read, BrokenPipe, GrowFile
      <3>3. CASE UNCHANGED vars
        BY <1>3, <3>3 DEF vars
      <3> QED
        BY <3>1, <3>2, <3>3 DEF Next, CatStep
    <2> QED
      BY <1>3, <2>1 DEF CopySize, CopyOut, CopyPhase
  <1>4. CASE ~lost /\ Open
    <2>1. CopyPhase = "copying" /\ CopyPhase' \in {"copying", "failed"}
      BY <1>4 DEF Open, Exit, CopyPhase
    <2>2. UNCHANGED <<CopySize, CopyOut>>
      BY <1>4 DEF Open, CopySize, CopyOut
    <2> QED
      BY <2>1, <2>2 DEF Contract!CopyNext, Contract!Fail
  <1>5. CASE ~lost /\ Read
    <2>1. CopyPhase = "copying" /\ UNCHANGED <<CopySize, CopyOut>> /\ pc = "read" /\ lost' = lost
      BY <1>5 DEF Read, CopyPhase, CopySize, CopyOut
    <2>2. CASE pc' = "exit" /\ status' = 3
      <3>1. CopyPhase' = "failed"
        BY <1>5, <2>1, <2>2 DEF CopyPhase
      <3> QED
        BY <2>1, <3>1 DEF Contract!CopyNext, Contract!Fail
    <2>3. CASE pc' = "exit" /\ status' = 0 /\ pos = size
      <3>1. CopyPhase' = "complete"
        BY <1>5, <2>1, <2>3 DEF CopyPhase
      <3>2. CopyOut = Contract!FirstBytes(CopySize)
        BY <1>5, <2>1, <2>3 DEF PrefixInv, CopyOut, CopySize, Contract!FirstBytes
      <3> QED
        BY <2>1, <3>1, <3>2 DEF Contract!CopyNext, Contract!Complete
    <2>4. CASE pc' = "write"
      BY <1>5, <2>1, <2>4 DEF CopyPhase
    <2> QED
      BY <1>5, <2>2, <2>3, <2>4, ReadEffect
  <1>6. CASE ~lost /\ Write
    <2>1. PICK n \in 0..n_read : out' = out \o Buffered(n) /\ lost' = (lost \/ n < n_read)
      BY <1>6 DEF Write, Amount
    <2>2. pc = "write" /\ pc' = "read" /\ pos' = pos /\ size' = size
      BY <1>6 DEF Write
    <2>3. CopyPhase = "copying"
      BY <1>6, <2>2 DEF CopyPhase
    <2>4. CASE lost'
      BY <2>3, <2>4 DEF Contract!CopyNext, Contract!Break, CopySize, CopyOut, CopyPhase
    <2>5. CASE ~lost'
      <3>1. CopyOut' = First(pos) /\ CopySize' = CopySize /\ CopyPhase' = "copying"
        BY <1>6, <2>2, <2>5 DEF PrefixInv, First, CopyOut, CopySize, CopyPhase
      <3>2. CopyOut = First(pos - n_read)
        BY <1>6, <2>2 DEF PrefixInv, First, CopyOut
      <3>3. Len(CopyOut) <= pos /\ Len(CopyOut) \in Nat
        BY <1>2, <3>2, FirstIs
      <3>4. pos \in Len(CopyOut)..CopySize
        BY <1>2, <1>6, <3>3 DEF CopySize
      <3> QED
        BY <2>3, <3>1, <3>4 DEF Contract!CopyNext, Contract!Deliver, Contract!FirstBytes, First
    <2> QED
      BY <2>4, <2>5
  <1>7. CASE ~lost /\ BrokenPipe
    <2>1. CopyPhase = "copying" /\ CopyPhase' = "failed" /\ UNCHANGED <<CopySize, CopyOut>>
      BY <1>7 DEF BrokenPipe, CopyPhase, CopySize, CopyOut
    <2> QED
      BY <2>1 DEF Contract!CopyNext, Contract!Fail
  <1>8. CASE ~lost /\ GrowFile
    <2>1. CopyPhase = "copying" /\ UNCHANGED <<CopyPhase, CopyOut>> /\ CopySize' = CopySize + 1
      BY <1>8 DEF GrowFile, CopyPhase, CopySize, CopyOut
    <2> QED
      BY <2>1 DEF Contract!CopyNext, Contract!Grow
  <1>9. CASE UNCHANGED vars
    BY <1>9 DEF vars, CopySize, CopyOut, CopyPhase
  <1> QED
    BY <1>3, <1>4, <1>5, <1>6, <1>7, <1>8, <1>9 DEF Next, CatStep

(* As long as every write is complete cat is a copy: for every buffer      *)
(* size and file, however the reads are cut and whatever is appended.      *)
THEOREM CatIsCopy == Spec => ImplementsCopy
  <1>1. ASSUME Init PROVE Contract!CopyInit
    <2>1. ~lost /\ pc = "open" /\ out = <<>> /\ size \in Nat
      BY <1>1, SizeAssumption DEF Init
    <2> QED
      BY <2>1 DEF Contract!CopyInit, CopySize, CopyOut, CopyPhase
  <1>2. TypeOK /\ PrefixInv /\ PrefixInv' /\ [Next]_vars => [Contract!CopyNext]_(Contract!copy_vars)
    BY CopyStep
  <1> QED
    BY <1>1, <1>2, CatTypes, CatPrefix, PTL DEF Spec, ImplementsCopy, Contract!CopySpec
-----------------------------------------------------------------------------
(* What cat has still to do: two steps for every byte that it has not      *)
(* read, if they come one by one, and what it is doing now.                *)
CatLeft ==
  2 * (size - pos)
    + (IF pc = "open" THEN 3 ELSE IF pc = "write" THEN 2 ELSE IF pc = "read" THEN 1 ELSE 0)

(* For every buffer size and every answer of read() and write(): each step *)
(* of cat, short or failed ones included, leaves it less to do, so a file  *)
(* that nobody appends to keeps it busy for at most CatLeft steps.  A byte *)
(* appended is the only thing that makes it work longer.                   *)
THEOREM CatGetsOn ==
  Spec => /\ [](CatLeft \in Nat)
          /\ [][CatLeft' < CatLeft \/ (GrowFile /\ CatLeft' = CatLeft + 2)]_vars
  <1>1. TypeOK => CatLeft \in Nat
    BY DEF TypeOK, CatLeft
  <1>2. ASSUME TypeOK, Next
        PROVE  CatLeft' < CatLeft \/ (GrowFile /\ CatLeft' = CatLeft + 2)
    <2>1. pos \in Nat /\ size \in Nat /\ pos <= size
      BY <1>2 DEF TypeOK
    <2>2. CASE Open
      <3>1. pos' = pos /\ size' = size /\ pc = "open" /\ pc' \in {"exit", "read"}
        BY <2>2 DEF Open, Exit
      <3> QED
        BY <2>1, <3>1 DEF CatLeft
    <2>3. CASE Read
      <3>1. pc = "read" /\ size' = size
        BY <2>3 DEF Read
      <3>2. CASE pc' = "exit" /\ pos' = pos
        BY <2>1, <3>1, <3>2 DEF CatLeft
      <3>3. CASE pc' = "write" /\ n_read' \in Nat /\ n_read' >= 1 /\ pos' = pos + n_read'
        <4>1. PICK n \in Nat : n >= 1 /\ pos' = pos + n
          BY <3>3
        <4>2. CatLeft = 2 * (size - pos) + 1 /\ CatLeft' = 2 * (size - (pos + n)) + 2
          BY <3>1, <3>3, <4>1 DEF CatLeft
        <4> QED
          BY <2>1, <4>1, <4>2
      <3> QED
        BY <1>2, <2>3, <3>2, <3>3, ReadEffect
    <2>4. CASE Write \/ BrokenPipe
      <3>1. pos' = pos /\ size' = size /\ pc = "write" /\ pc' \in {"read", "killed"}
        BY <2>4 DEF Write, BrokenPipe
      <3> QED
        BY <2>1, <3>1 DEF CatLeft
    <2>5. CASE GrowFile
      <3>1. pos' = pos /\ size' = size + 1 /\ pc' = pc
        BY <2>5 DEF GrowFile
      <3> QED
        BY <2>1, <2>5, <3>1 DEF CatLeft
    <2> QED
      BY <1>2, <2>2, <2>3, <2>4, <2>5 DEF Next, CatStep
  <1>3. TypeOK /\ [Next]_vars =>
          [CatLeft' < CatLeft \/ (GrowFile /\ CatLeft' = CatLeft + 2)]_vars
    BY <1>2
  <1> QED
    BY <1>1, <1>3, CatTypes, PTL DEF Spec
=============================================================================
