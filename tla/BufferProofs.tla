---------------------------- MODULE BufferProofs ----------------------------
(***************************************************************************)
(* For which clients the output buffer stays inside its block, whatever    *)
(* its size, the texts and the order of the calls.                         *)
(***************************************************************************)
EXTENDS Buffer, TLAPS
-----------------------------------------------------------------------------
InUse == pc \in {"idle", "write"}

(* A client the buffer is safe for: printf and texts without a directive,  *)
(* or texts that fit.                                                      *)
Careful == (kind = "printf" /\ plain) \/ longest <= size

(* The block is one byte larger than size, and used is never advanced. *)
Shape ==
  /\ size \in Nat /\ longest \in Nat
  /\ InUse => /\ size >= 1 /\ used = 0
              /\ buf \in [0..size -> Char \union {Nul}]
              /\ str \in Seq(Char) /\ Len(str) <= longest
  /\ pc = "new" => str = <<>>
  /\ pc = "write" => i \in Nat /\ j \in Nat

(* A careful client's block ends with Nul, and a write in progress has     *)
(* filled the block with characters up to its index, which is that of the  *)
(* text.                                                                   *)
CarefulInv ==
  Careful =>
    /\ pc # "ub"
    /\ InUse => buf[size] = Nul
    /\ pc = "write" => /\ i = j /\ j <= Len(str) /\ i <= size
                       /\ \A k \in 0..(i - 1) : buf[k] # Nul

(* No text with a directive, no directive in the block. *)
PlainInv ==
  /\ plain \in BOOLEAN
  /\ plain =>
       /\ pc # "format"
       /\ pc \in {"idle", "write"} => /\ \A k \in 0..size : buf[k] # Percent
                                     /\ \A k \in DOMAIN str : str[k] # Percent
       /\ pc = "new" => str = <<>>

(* The text in the block is e characters long, and only Nul follows it. *)
EndsAt(e) ==
  /\ e \in 0..size
  /\ \A k \in 0..(e - 1) : buf[k] # Nul
  /\ \A k \in e..size : buf[k] = Nul

(* What the function called reads: everything before the first Nul. *)
LEMMA ContentsUpTo ==
  ASSUME Shape, InUse, NEW e \in 0..size, buf[e] = Nul, \A k \in 0..(e - 1) : buf[k] # Nul
  PROVE  /\ Terminated
         /\ Len(Contents) = e
         /\ Contents = [k \in 1..e |-> buf[k - 1]]
  <1>1. size \in Nat /\ DOMAIN buf = 0..size /\ e \in DOMAIN buf /\ e \in Nat
    BY DEF Shape
  <1> DEFINE P(k) == buf[k] = Nul /\ \A m \in 0..(k - 1) : buf[m] # Nul
             end == CHOOSE k \in DOMAIN buf : P(k)
  <1>2. P(e)
    OBVIOUS
  <1>3. end \in DOMAIN buf /\ P(end)
    BY <1>1, <1>2
  <1>4. end = e
    <2> HIDE DEF end
    <2>1. end \in 0..size /\ buf[end] = Nul
      BY <1>1, <1>3
    <2>2. ~(end < e)
      BY <1>1, <2>1
    <2>3. ~(e < end)
      BY <1>1, <1>3, <2>1
    <2> QED
      BY <1>1, <2>1, <2>2, <2>3
  <1>5. Contents = [k \in 1..end |-> buf[k - 1]]
    BY DEF Contents
  <1>6. Contents = [k \in 1..e |-> buf[k - 1]]
    BY <1>4, <1>5
  <1>7. Len([k \in 1..e |-> buf[k - 1]]) = e
    BY <1>1
  <1> QED
    BY <1>1, <1>6, <1>7 DEF Terminated

(* buf[i++] = c below the last byte. *)
LEMMA PutInside ==
  ASSUME Shape, pc = "write", i \in Nat, i < size, j \in Nat, j < Len(str), Put
  PROVE  /\ pc' = pc /\ i' = i + 1 /\ j' = j + 1
         /\ buf' \in [0..size -> Char \union {Nul}]
         /\ buf'[size] = buf[size]
         /\ buf'[i] # Nul /\ buf'[i] = str[j + 1]
         /\ \A k \in 0..size : k # i => buf'[k] = buf[k]
         /\ \A k \in 0..(i - 1) : buf'[k] = buf[k]
  <1>1. /\ size \in Nat /\ buf \in [0..size -> Char \union {Nul}] /\ i \in 0..size
        /\ str \in Seq(Char) /\ j + 1 \in 1..Len(str)
    BY DEF Shape, InUse
  <1>2. str[j + 1] \in Char
    BY <1>1
  <1>3. DOMAIN buf = 0..size
    BY <1>1
  <1>4. pc' = pc /\ i' = i + 1 /\ j' = j + 1 /\ buf' = [buf EXCEPT ![i] = str[j + 1]]
    BY <1>1, <1>3 DEF Put
  <1> DEFINE c == str[j + 1]
  <1>5. c \in Char /\ c # Nul /\ buf' = [buf EXCEPT ![i] = c]
    BY <1>2, <1>4, BufferAssumption
  <1>6. c = str[j + 1]
    OBVIOUS
  <1> HIDE DEF c
  <1> QED
    BY <1>1, <1>4, <1>5, <1>6

LEMMA PutKeepsShape ==
  ASSUME Shape, pc = "write", j < Len(str), Put,
         UNCHANGED <<size, str, longest>>, used' = 0
  PROVE  Shape'
  <1>1. size \in Nat /\ buf \in [0..size -> Char \union {Nul}] /\ i \in Nat /\ j \in Nat
        /\ str \in Seq(Char)
    BY DEF Shape, InUse
  <1>2. CASE i \in DOMAIN buf
    <2>1. pc' = "write" /\ i' = i + 1 /\ j' = j + 1 /\ buf' = [buf EXCEPT ![i] = str[j + 1]]
      BY <1>2 DEF Put
    <2>2. str[j + 1] \in Char
      BY <1>1
    <2> DEFINE c == str[j + 1]
    <2> HIDE DEF c
    <2>3. c \in Char /\ buf' = [buf EXCEPT ![i] = c]
      BY <2>1, <2>2 DEF c
    <2>4. buf' \in [0..size -> Char \union {Nul}]
      BY <1>1, <2>3
    <2>5. i' \in Nat /\ j' \in Nat
      BY <1>1, <2>1
    <2> QED
      BY <2>1, <2>4, <2>5 DEF Shape, InUse
  <1>3. CASE i \notin DOMAIN buf
    BY <1>3 DEF Put, Shape, InUse
  <1> QED
    BY <1>2, <1>3

LEMMA ShapeStep ==
  ASSUME Shape, [Next]_vars
  PROVE  Shape'
  <1>1. ASSUME NEW s \in Sizes, Create(s) PROVE Shape'
    <2>1. s \in Nat
      BY BufferAssumption
    <2>2. pc = "new" /\ UNCHANGED <<str, longest>> /\ pc' # "write"
      BY <1>1 DEF Create, client
    <2>3. CASE pc' # "idle"
      BY <1>1, <2>2, <2>3 DEF Create, Shape, InUse
    <2>4. CASE pc' = "idle"
      <3>1. s # 0 /\ size' = s /\ used' = 0 /\ buf' = [k \in 0..s |-> Nul]
        BY <1>1, <2>4 DEF Create, Bytes
      <3>2. buf' \in [0..size' -> Char \union {Nul}]
        BY <3>1
      <3>3. size' \in Nat /\ size' >= 1
        BY <2>1, <3>1
      <3>4. str = <<>> /\ longest \in Nat
        BY <2>2 DEF Shape
      <3> QED
        BY <2>2, <2>4, <3>1, <3>2, <3>3, <3>4 DEF Shape, InUse
    <2> QED
      BY <2>3, <2>4
  <1>2. ASSUME NEW text \in Texts, StartWrite(text) PROVE Shape'
    <2>1. text \in Seq(Char) /\ Len(text) \in Nat
      BY BufferAssumption DEF Texts
    <2>2. longest' \in Nat /\ Len(text) <= longest'
      BY <1>2, <2>1 DEF StartWrite, Wrote, Shape
    <2>3. pc = "idle" /\ pc' = "write" /\ str' = text /\ i' = used /\ j' = 0
          /\ UNCHANGED <<size, used, buf>>
      BY <1>2 DEF StartWrite
    <2>4. size \in Nat /\ size >= 1 /\ used = 0 /\ buf \in [0..size -> Char \union {Nul}]
      BY <2>3 DEF Shape, InUse
    <2> QED
      BY <2>1, <2>2, <2>3, <2>4 DEF Shape, InUse
  <1>3. CASE PutChar
    <2>1. used' = 0
      BY <1>3 DEF PutChar, Shape, InUse
    <2> QED
      BY <1>3, <2>1, PutKeepsShape DEF PutChar, client
  <1>4. CASE FlushAndPut
    <2>1. pc = "write" /\ j < Len(str) /\ UNCHANGED <<size, str, longest>> /\ used = 0
      BY <1>4 DEF FlushAndPut, client, Shape, InUse
    <2>2. \/ pc' \in {"ub", "format"}
          \/ pc' = "idle" /\ UNCHANGED <<buf, used>>
          \/ Put /\ used' = 0
      BY <1>4 DEF FlushAndPut, CallGoesWrong
    <2>3. CASE pc' \in {"ub", "format"}
      BY <2>1, <2>3 DEF Shape, InUse
    <2>4. CASE pc' = "idle" /\ UNCHANGED <<buf, used>>
      BY <2>1, <2>4 DEF Shape, InUse
    <2>5. CASE Put /\ used' = 0
      BY <2>1, <2>5, PutKeepsShape
    <2> QED
      BY <2>2, <2>3, <2>4, <2>5
  <1>5. CASE EndWrite
    BY <1>5 DEF EndWrite, client, Shape, InUse
  <1>6. CASE Flush
    <2>1. /\ pc = "idle" /\ pc' \in {"idle", "ub", "format"}
          /\ UNCHANGED <<size, str, longest, buf>> /\ used' \in {0, used}
      BY <1>6 DEF Flush, CallGoesWrong
    <2> QED
      BY <2>1 DEF Shape, InUse
  <1>7. CASE UNCHANGED vars
    BY <1>7 DEF vars, client, Shape, InUse
  <1> QED
    BY <1>1, <1>2, <1>3, <1>4, <1>5, <1>6, <1>7 DEF Next

(* What printf() is given has no directive if no text had one. *)
LEMMA NoDirective ==
  ASSUME Shape, PlainInv, InUse, plain
  PROVE  ~Directive
  BY DEF Shape, PlainInv, InUse, Directive

(* A character, put into the block or not, is one of the text. *)
LEMMA PlainPut ==
  ASSUME Shape, PlainInv, pc = "write", j < Len(str), Put, UNCHANGED <<size, str, plain>>
  PROVE  PlainInv'
  <1> SUFFICES ASSUME plain
               PROVE  /\ pc' # "format" /\ pc' # "new"
                      /\ pc' = "write" => \A k \in 0..size : buf'[k] # Percent
                      /\ \A k \in DOMAIN str : str[k] # Percent
    BY DEF PlainInv, Put
  <1>1. /\ size \in Nat /\ buf \in [0..size -> Char \union {Nul}] /\ i \in Nat /\ j \in Nat
        /\ str \in Seq(Char)
        /\ \A k \in 0..size : buf[k] # Percent
        /\ \A k \in DOMAIN str : str[k] # Percent
    BY DEF Shape, PlainInv, InUse
  <1>2. CASE i \in DOMAIN buf
    <2>1. pc' = "write" /\ buf' = [buf EXCEPT ![i] = str[j + 1]]
      BY <1>2 DEF Put
    <2>2. str[j + 1] # Percent
      BY <1>1
    <2> QED
      BY <1>1, <2>1, <2>2
  <1>3. CASE i \notin DOMAIN buf
    BY <1>1, <1>3 DEF Put
  <1> QED
    BY <1>2, <1>3

LEMMA PlainStep ==
  ASSUME Shape, PlainInv, [Next]_vars
  PROVE  PlainInv'
  <1>1. ASSUME NEW s \in Sizes, Create(s) PROVE PlainInv'
    <2>1. pc = "new" /\ UNCHANGED <<str, plain>> /\ pc' \in {"null", "killed", "idle"}
      BY <1>1 DEF Create, client
    <2>2. pc' = "idle" => size' = s /\ buf' = [k \in 0..s |-> Nul]
      BY <1>1, <2>1 DEF Create, Bytes
    <2>3. pc' = "idle" => \A k \in 0..size' : buf'[k] # Percent
      BY <2>2, BufferAssumption
    <2> QED
      BY <2>1, <2>3 DEF PlainInv
  <1>2. ASSUME NEW text \in Texts, StartWrite(text) PROVE PlainInv'
    <2>1. pc = "idle" /\ pc' = "write" /\ str' = text /\ UNCHANGED <<size, buf>>
          /\ plain' = (plain /\ \A k \in DOMAIN text : text[k] # Percent)
      BY <1>2 DEF StartWrite, Wrote
    <2> QED
      BY <2>1 DEF PlainInv
  <1>3. CASE PutChar
    BY <1>3, PlainPut DEF PutChar, client
  <1>4. CASE FlushAndPut
    <2>1. pc = "write" /\ j < Len(str) /\ UNCHANGED <<size, str, plain>>
      BY <1>4 DEF FlushAndPut, client
    <2>2. \/ pc' = "ub"
          \/ Terminated /\ Directive
          \/ pc' = "idle" /\ UNCHANGED buf
          \/ Put
      BY <1>4 DEF FlushAndPut, CallGoesWrong
    <2>3. CASE Terminated /\ Directive
      <3>1. ~plain
        BY <2>1, <2>3, NoDirective DEF InUse
      <3> QED
        BY <2>1, <3>1 DEF PlainInv
    <2>4. CASE pc' = "ub"
      BY <2>1, <2>4 DEF PlainInv
    <2>5. CASE pc' = "idle" /\ UNCHANGED buf
      BY <2>1, <2>5 DEF PlainInv
    <2> QED
      BY <2>1, <2>2, <2>3, <2>4, <2>5, PlainPut
  <1>5. CASE EndWrite
    BY <1>5 DEF EndWrite, client, PlainInv
  <1>6. CASE Flush
    <2>1. pc = "idle" /\ pc' \in {"idle", "ub", "format"} /\ UNCHANGED <<size, str, buf, plain>>
          /\ (pc' = "format" => Terminated /\ Directive)
      BY <1>6 DEF Flush, CallGoesWrong
    <2>2. pc' = "format" => ~plain
      BY <2>1, NoDirective DEF InUse
    <2> QED
      BY <2>1, <2>2 DEF PlainInv
  <1>7. CASE UNCHANGED vars
    BY <1>7 DEF vars, client, PlainInv
  <1> QED
    BY <1>1, <1>2, <1>3, <1>4, <1>5, <1>6, <1>7 DEF Next

LEMMA CarefulStep ==
  ASSUME Shape, PlainInv, CarefulInv, [Next]_vars
  PROVE  CarefulInv'
  <1> SUFFICES ASSUME Careful'
               PROVE  /\ pc' # "ub"
                      /\ InUse' => buf'[size'] = Nul
                      /\ pc' = "write" => /\ i' = j' /\ j' <= Len(str') /\ i' <= size'
                                          /\ \A k \in 0..(i' - 1) : buf'[k] # Nul
    BY DEF CarefulInv
  <1>1. ASSUME NEW s \in Sizes, Create(s) PROVE CarefulInv'
    <2>1. CASE pc' # "idle"
      BY <1>1, <2>1 DEF Create, CarefulInv, InUse
    <2>2. CASE pc' = "idle"
      <3>1. size' = s /\ buf' = [k \in 0..s |-> Nul] /\ s \in 0..s
        BY <1>1, <2>2, BufferAssumption DEF Create, Bytes
      <3> QED
        BY <2>2, <3>1 DEF CarefulInv, InUse
    <2> QED
      BY <2>1, <2>2
  <1>2. ASSUME NEW text \in Texts, StartWrite(text) PROVE CarefulInv'
    <2>1. pc = "idle" /\ pc' = "write" /\ str' = text /\ i' = used /\ j' = 0
          /\ UNCHANGED <<kind, size, used, buf>>
      BY <1>2 DEF StartWrite
    <2>2. size \in Nat /\ size >= 1 /\ used = 0
      BY <2>1 DEF Shape, InUse
    <2>3. longest \in Nat /\ Len(text) \in Nat /\ longest' \in Nat /\ longest <= longest'
      BY <1>2, BufferAssumption DEF StartWrite, Wrote, Shape, Texts
    <2>4. plain' => plain
      BY <1>2 DEF StartWrite, Wrote
    <2>5. Careful
      BY <2>1, <2>2, <2>3, <2>4 DEF Careful
    <2>6. buf[size] = Nul
      BY <2>1, <2>5 DEF CarefulInv, InUse
    <2> QED
      BY <2>1, <2>2, <2>3, <2>6 DEF CarefulInv
  <1>3. CASE pc = "write" /\ j < Len(str) /\ (PutChar \/ FlushAndPut)
    <2>1. UNCHANGED <<kind, size, str, longest, plain>>
      BY <1>3 DEF PutChar, FlushAndPut, client
    <2>2. Careful
      BY <2>1 DEF Careful
    <2>3. /\ i = j /\ i <= size /\ i \in Nat /\ j \in Nat /\ size \in Nat /\ size >= 1
          /\ buf[size] = Nul /\ \A k \in 0..(i - 1) : buf[k] # Nul
          /\ str \in Seq(Char) /\ Len(str) \in Nat /\ Len(str) <= longest /\ longest \in Nat
      BY <1>3, <2>2 DEF CarefulInv, Shape, InUse
    <2>4. CASE i < size
      <3>1. Put
        BY <1>3, <2>3, <2>4 DEF PutChar, FlushAndPut, Full
      <3>2. /\ pc' = pc /\ i' = i + 1 /\ j' = j + 1
            /\ buf'[size] = buf[size] /\ buf'[i] # Nul
            /\ \A k \in 0..(i - 1) : buf'[k] = buf[k]
        BY <1>3, <2>3, <2>4, <3>1, PutInside
      <3>3. \A k \in 0..(i' - 1) : buf'[k] # Nul
        BY <2>3, <3>2
      <3>4. i' = j' /\ j' <= Len(str) /\ i' <= size
        BY <1>3, <2>3, <2>4, <3>2
      <3> QED
        BY <1>3, <2>1, <2>3, <3>2, <3>3, <3>4 DEF CarefulInv
    <2>5. CASE i = size
      <3>1. FlushAndPut
        BY <1>3, <2>5 DEF PutChar, Full
      <3>2. kind = "printf" /\ plain
        BY <1>3, <2>2, <2>3, <2>5 DEF Careful
      <3>3. Terminated /\ Len(Contents) = size
        <4>1. size \in 0..size
          BY <2>3
        <4> QED
          BY <1>3, <2>3, <2>5, <4>1, ContentsUpTo DEF InUse
      <3>4. ~Directive
        BY <1>3, <3>2, <3>3, NoDirective DEF InUse
      <3>5. \A r \in CallReturns : r # 0
        BY <2>3, <3>2, <3>3, <3>4 DEF CallReturns
      <3>6. pc' = "idle" /\ UNCHANGED buf
        BY <3>1, <3>3, <3>4, <3>5 DEF FlushAndPut, CallGoesWrong, Failed
      <3> QED
        BY <2>1, <2>3, <3>6 DEF CarefulInv
    <2> QED
      BY <2>3, <2>4, <2>5
  <1>4. CASE EndWrite
    BY <1>4 DEF EndWrite, client, CarefulInv, Careful, InUse
  <1>5. CASE Flush
    <2>1. UNCHANGED <<kind, size, longest, plain, buf>> /\ pc = "idle"
      BY <1>5 DEF Flush
    <2>2. buf[size] = Nul /\ size \in DOMAIN buf
      BY <2>1 DEF CarefulInv, Careful, InUse, Shape
    <2>3. Terminated
      BY <2>2 DEF Terminated
    <2>4. pc' \in {"idle", "format"}
      BY <1>5, <2>1, <2>3 DEF Flush, CallGoesWrong
    <2> QED
      BY <2>1, <2>2, <2>4 DEF CarefulInv
  <1>6. CASE UNCHANGED vars
    BY <1>6 DEF vars, client, CarefulInv, Careful, InUse
  <1> QED
    BY <1>1, <1>2, <1>3, <1>4, <1>5, <1>6 DEF Next, PutChar, FlushAndPut, CarefulInv

LEMMA BufferSafe == Spec => [](Shape /\ PlainInv /\ CarefulInv)
  <1>1. Init => Shape /\ PlainInv /\ CarefulInv
    BY DEF Init, Shape, PlainInv, CarefulInv, InUse
  <1>2. Shape /\ PlainInv /\ CarefulInv /\ [Next]_vars => (Shape /\ PlainInv /\ CarefulInv)'
    BY ShapeStep, PlainStep, CarefulStep
  <1> QED
    BY <1>1, <1>2, PTL DEF Spec

(* With printf as the function called no text without a directive, however *)
(* long, makes buffer_write() leave its block: the count that printf()     *)
(* returns stops the write at the end of the buffer.                       *)
THEOREM PrintfStaysInBlock == Spec => []PrintfIsSafe
  <1>1. PlainInv /\ CarefulInv => PrintfIsSafe
    BY DEF PlainInv, CarefulInv, Careful, PrintfIsSafe
  <1> QED
    BY <1>1, BufferSafe, PTL

(* With any function texts that fit the buffer never make it leave its     *)
(* block, in any order and number.                                         *)
THEOREM ShortTextsStayInBlock == Spec => []ShortTextsStay
  <1>1. Shape /\ CarefulInv => ShortTextsStay
    BY DEF Shape, CarefulInv, Careful, ShortTextsStay
  <1> QED
    BY <1>1, BufferSafe, PTL
-----------------------------------------------------------------------------
(* What a client whose texts fit finds in the block.  Between two calls it *)
(* is as long as the longest text and begins with the last one.  During a  *)
(* write the part written is the beginning of the text, and what was there *)
(* before follows it; it is the longest text unless the one being written  *)
(* is.                                                                     *)
LastInv ==
  /\ pc = "new" => longest = 0
  /\ longest <= size =>
       /\ pc = "idle" => EndsAt(longest) /\ \A k \in 1..Len(str) : buf[k - 1] = str[k]
       /\ pc = "write" =>
            /\ i = j /\ j <= Len(str)
            /\ \E e \in i..longest : EndsAt(e) /\ (e = longest \/ Len(str) = longest)
            /\ \A k \in 1..j : buf[k - 1] = str[k]

(* One more character of a text that fits. *)
LEMMA LastPut ==
  ASSUME Shape, LastInv, longest <= size, pc = "write", j < Len(str), PutChar \/ FlushAndPut
  PROVE  LastInv'
  <1>1. /\ i = j /\ i \in Nat /\ j \in Nat /\ size \in Nat /\ longest \in Nat
        /\ str \in Seq(Char) /\ Len(str) \in Nat /\ Len(str) <= longest
        /\ buf \in [0..size -> Char \union {Nul}]
    BY DEF LastInv, Shape, InUse
  <1>2. i < size /\ i < longest
    BY <1>1
  <1>3. PutChar /\ Put /\ UNCHANGED <<size, str, longest>>
    BY <1>1, <1>2 DEF PutChar, FlushAndPut, Full, client
  <1>4. /\ pc' = "write" /\ i' = i + 1 /\ j' = j + 1
        /\ buf'[i] # Nul /\ buf'[i] = str[j + 1]
        /\ \A k \in 0..size : k # i => buf'[k] = buf[k]
    BY <1>1, <1>2, <1>3, PutInside
  <1>5. PICK e \in i..longest : EndsAt(e) /\ (e = longest \/ Len(str) = longest)
    BY DEF LastInv
  <1>6. /\ e \in 0..size
        /\ \A k \in 0..(e - 1) : buf[k] # Nul
        /\ \A k \in e..size : buf[k] = Nul
    BY <1>5 DEF EndsAt
  <1>7. \E d \in i'..longest : EndsAt(d)' /\ (d = longest \/ Len(str) = longest)
    <2>1. CASE e = i
      <3>1. i' \in i'..longest /\ Len(str) = longest
        BY <1>1, <1>2, <1>4, <1>5, <2>1
      <3>2. i' \in 0..size'
        BY <1>1, <1>2, <1>3, <1>4
      <3>3. ASSUME NEW k \in 0..(i' - 1) PROVE buf'[k] # Nul
        <4>1. k \in 0..i /\ k \in 0..size
          BY <1>1, <1>2, <1>4
        <4>2. CASE k = i
          BY <1>4, <4>2
        <4>3. CASE k # i
          <5>1. k \in 0..(e - 1)
            BY <1>1, <2>1, <4>1, <4>3
          <5> QED
            BY <1>4, <1>6, <4>1, <4>3, <5>1
        <4> QED
          BY <4>2, <4>3
      <3>4. ASSUME NEW k \in i'..size' PROVE buf'[k] = Nul
        BY <1>1, <1>2, <1>3, <1>4, <1>6, <2>1
      <3>5. EndsAt(i)'
        BY <3>2, <3>3, <3>4 DEF EndsAt
      <3> QED
        BY <3>1, <3>5
    <2>2. CASE e # i
      <3>1. e \in i'..longest /\ e \in Nat
        BY <1>1, <1>4, <1>5, <2>2
      <3>2. e \in 0..size'
        BY <1>3, <1>6
      <3>3. ASSUME NEW k \in 0..(e - 1) PROVE buf'[k] # Nul
        BY <1>1, <1>4, <1>6, <3>1
      <3>4. ASSUME NEW k \in e..size' PROVE buf'[k] = Nul
        BY <1>1, <1>3, <1>4, <1>6, <3>1
      <3>5. EndsAt(e)'
        BY <3>2, <3>3, <3>4 DEF EndsAt
      <3> QED
        BY <1>5, <3>1, <3>5
    <2> QED
      BY <2>1, <2>2
  <1>8. ASSUME NEW k \in 1..j' PROVE buf'[k - 1] = str[k]
    <2>1. CASE k = j + 1
      BY <1>1, <1>4, <2>1
    <2>2. CASE k # j + 1
      <3>1. k \in 1..j /\ k - 1 \in 0..size /\ k - 1 # i
        BY <1>1, <1>2, <1>4, <2>2
      <3>2. buf[k - 1] = str[k]
        BY <3>1 DEF LastInv
      <3> QED
        BY <1>4, <3>1, <3>2
    <2> QED
      BY <2>1, <2>2
  <1>9. i' = j' /\ j' <= Len(str)
    BY <1>1, <1>4
  <1> QED
    BY <1>3, <1>4, <1>7, <1>8, <1>9 DEF LastInv

LEMMA LastStep ==
  ASSUME Shape, CarefulInv, LastInv, [Next]_vars
  PROVE  LastInv'
  <1>1. ASSUME NEW s \in Sizes, Create(s) PROVE LastInv'
    <2>1. pc = "new" /\ UNCHANGED <<str, longest>> /\ pc' \in {"null", "killed", "idle"}
      BY <1>1 DEF Create, client
    <2>2. CASE pc' # "idle"
      BY <2>1, <2>2 DEF LastInv
    <2>3. CASE pc' = "idle"
      <3>1. size' = s /\ buf' = [k \in 0..s |-> Nul] /\ s \in Nat
        BY <1>1, <2>3, BufferAssumption DEF Create, Bytes
      <3>2. longest = 0 /\ longest' = 0 /\ str' = <<>>
        BY <2>1 DEF LastInv, Shape
      <3>3. EndsAt(0)'
        BY <3>1 DEF EndsAt
      <3>4. EndsAt(longest)'
        BY <3>2, <3>3 DEF EndsAt
      <3>5. \A k \in 1..Len(str') : buf'[k - 1] = str'[k]
        BY <3>2
      <3> QED
        BY <2>3, <3>4, <3>5 DEF LastInv
    <2> QED
      BY <2>2, <2>3
  <1>2. ASSUME NEW text \in Texts, StartWrite(text) PROVE LastInv'
    <2>1. pc = "idle" /\ pc' = "write" /\ str' = text /\ i' = used /\ j' = 0
          /\ UNCHANGED <<size, used, buf>>
      BY <1>2 DEF StartWrite
    <2>2. size \in Nat /\ used = 0 /\ longest \in Nat /\ Len(text) \in Nat
      BY <2>1, BufferAssumption DEF Shape, InUse, Texts
    <2>3. longest' = IF Len(text) > longest THEN Len(text) ELSE longest
      BY <1>2 DEF StartWrite, Wrote
    <2>4. SUFFICES ASSUME longest' <= size' PROVE LastInv'
      BY <2>1 DEF LastInv
    <2>5. longest <= size
      BY <2>1, <2>2, <2>3, <2>4
    <2>6. EndsAt(longest)
      BY <2>1, <2>5 DEF LastInv
    <2> DEFINE e == longest
    <2>7. e \in i'..longest' /\ (e = longest' \/ Len(str') = longest')
      BY <2>1, <2>2, <2>3
    <2>8. e \in 0..size' /\ (\A k \in 0..(e - 1) : buf'[k] # Nul) /\ \A k \in e..size' : buf'[k] = Nul
      BY <2>1, <2>6 DEF EndsAt
    <2>9. \E d \in i'..longest' : EndsAt(d)' /\ (d = longest' \/ Len(str') = longest')
      <3> HIDE DEF e
      <3> QED
        BY <2>7, <2>8 DEF EndsAt
    <2>10. i' = j' /\ j' <= Len(str') /\ \A k \in 1..j' : buf'[k - 1] = str'[k]
      BY <2>1, <2>2
    <2> QED
      BY <2>1, <2>9, <2>10 DEF LastInv
  <1>3. CASE pc = "write" /\ j < Len(str) /\ (PutChar \/ FlushAndPut)
    <2>1. CASE longest <= size
      BY <1>3, <2>1, LastPut
    <2>2. CASE ~(longest <= size)
      <3>1. UNCHANGED <<size, longest>> /\ pc' # "new"
        BY <1>3 DEF PutChar, FlushAndPut, Put, CallGoesWrong, client
      <3> QED
        BY <2>2, <3>1 DEF LastInv
    <2> QED
      BY <2>1, <2>2
  <1>4. CASE EndWrite
    <2>1. pc = "write" /\ j = Len(str) /\ pc' = "idle" /\ UNCHANGED <<size, buf, str, longest>>
      BY <1>4 DEF EndWrite, client
    <2>2. SUFFICES ASSUME longest <= size PROVE LastInv'
      BY <2>1 DEF LastInv
    <2>3. PICK e \in i..longest : EndsAt(e) /\ (e = longest \/ Len(str) = longest)
      BY <2>1, <2>2 DEF LastInv
    <2>4. i = j /\ i \in Nat /\ longest \in Nat
      BY <2>1, <2>2 DEF LastInv, Shape
    <2>5. e = longest
      BY <2>1, <2>3, <2>4
    <2>6. EndsAt(longest)'
      BY <2>1, <2>3, <2>5 DEF EndsAt
    <2>7. \A k \in 1..Len(str) : buf[k - 1] = str[k]
      BY <2>1, <2>2 DEF LastInv
    <2> QED
      BY <2>1, <2>6, <2>7 DEF LastInv
  <1>5. CASE Flush
    <2>1. pc = "idle" /\ pc' \in {"idle", "ub", "format"} /\ UNCHANGED <<size, buf, str, longest>>
      BY <1>5 DEF Flush, CallGoesWrong
    <2> QED
      BY <2>1 DEF LastInv, EndsAt
  <1>6. CASE UNCHANGED vars
    BY <1>6 DEF vars, client, LastInv, EndsAt
  <1> QED
    BY <1>1, <1>2, <1>3, <1>4, <1>5, <1>6 DEF Next, PutChar, FlushAndPut

(* For every size and text: a client that flushes each text before it      *)
(* writes the next sees a text that fits handed over exactly as it was     *)
(* written, as long as no longer one came before it.                       *)
THEOREM BufferFlushHandsOver == Spec => FlushHandsOver
  <1>1. Init => LastInv
    BY DEF Init, LastInv
  <1>2. Shape /\ CarefulInv /\ LastInv /\ [Next]_vars => LastInv'
    BY LastStep
  <1>3. ASSUME Shape, LastInv, Flush, pc' = "idle", Len(str) = longest, longest <= size
        PROVE  sent' = str
    <2>1. pc = "idle" /\ sent' = Contents
      BY <1>3 DEF Flush, CallGoesWrong
    <2>2. EndsAt(longest) /\ \A k \in 1..Len(str) : buf[k - 1] = str[k]
      BY <1>3, <2>1 DEF LastInv
    <2>3. longest \in 0..size /\ longest \in longest..size /\ longest \in Nat
      BY <2>2 DEF EndsAt
    <2>4. buf[longest] = Nul /\ \A k \in 0..(longest - 1) : buf[k] # Nul
      BY <2>2, <2>3 DEF EndsAt
    <2>5. Contents = [k \in 1..longest |-> buf[k - 1]]
      BY <1>3, <2>1, <2>3, <2>4, ContentsUpTo DEF InUse
    <2>6. str \in Seq(Char) /\ str = [k \in 1..Len(str) |-> str[k]]
      BY <1>3, <2>1 DEF Shape, InUse
    <2> QED
      BY <1>3, <2>1, <2>2, <2>5, <2>6
  <1>4. Shape /\ LastInv /\ [Next]_vars =>
          [Flush /\ pc' = "idle" /\ unflushed = 1 /\ Len(str) = longest /\ longest <= size
             => sent' = str]_vars
    BY <1>3
  <1> QED
    BY <1>1, <1>2, <1>4, BufferSafe, PTL DEF Spec, FlushHandsOver
=============================================================================
