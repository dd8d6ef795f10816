---------------------------- MODULE PathsProofs -----------------------------
(***************************************************************************)
(* concat_path() for strings of any length: it stays in its block, and the *)
(* path it makes has the names of both its arguments.                      *)
(***************************************************************************)
EXTENDS Paths, SequenceTheorems, TLAPS
-----------------------------------------------------------------------------
(* The first half of the result. *)
Joined == IF WantsSlash THEN Append(s1, Slash) ELSE s1

PathsInv ==
  /\ s1 \in Seq(Char) /\ s2 \in Seq(Char) /\ result \in Seq(Char)
  /\ pc \in {"copy", "slash", "append", "done"} => room = Needed
  /\ pc = "slash" => result = s1
  /\ pc = "append" => result = Joined
  /\ pc = "done" => result = Joined \o s2

LEMMA StringsAreSequences == Strings(MaxLen) \subseteq Seq(Char)
  BY CharAssumption DEF Strings

LEMMA JoinedType ==
  ASSUME s1 \in Seq(Char)
  PROVE  /\ Joined \in Seq(Char)
         /\ Len(Joined) = IF WantsSlash THEN Len(s1) + 1 ELSE Len(s1)
         /\ \A m \in 1..Len(s1) : Joined[m] = s1[m]
         /\ WantsSlash => Joined[Len(s1) + 1] = Slash
  <1> DEFINE a == Append(s1, Slash)
  <1>1. a \in Seq(Char) /\ Len(a) = Len(s1) + 1
        /\ (\A m \in 1..Len(s1) : a[m] = s1[m]) /\ a[Len(s1) + 1] = Slash
    BY CharAssumption
  <1> HIDE DEF a
  <1>2. Joined = IF WantsSlash THEN a ELSE s1
    BY DEF Joined, a
  <1> QED
    BY <1>1, <1>2

LEMMA PathsInvInit == Init => PathsInv
  BY StringsAreSequences DEF Init, PathsInv

LEMMA PathsInvStep ==
  ASSUME PathsInv, [Next]_vars
  PROVE  PathsInv'
  <1>1. CASE Malloc
    <2>1. <<>> \in Seq(Char) /\ result' \in {<<>>, result}
      BY <1>1 DEF Malloc
    <2>2. result' \in Seq(Char)
      BY <2>1 DEF PathsInv
    <2> QED
      BY <1>1, <2>2 DEF Malloc, PathsInv, args, Needed
  <1>2. CASE OutOfMemory
    BY <1>2 DEF OutOfMemory, PathsInv, args
  <1>3. CASE Copy
    BY <1>3 DEF Copy, Copied, PathsInv, args, Needed
  <1>4. CASE PutSlash
    <2>1. result' = Joined
      BY <1>4 DEF PutSlash, PathsInv, Joined
    <2>2. Joined' = Joined /\ Needed' = Needed /\ Joined \in Seq(Char)
      BY <1>4, JoinedType DEF PutSlash, PathsInv, args, Joined, WantsSlash, LastChar, CharAt, Needed
    <2> QED
      BY <1>4, <2>1, <2>2 DEF PutSlash, PathsInv, args
  <1>5. CASE AppendName
    <2>1. result' = Joined \o s2
      BY <1>5 DEF AppendName, PathsInv
    <2>2. Joined' = Joined /\ Needed' = Needed /\ Joined \in Seq(Char)
      BY <1>5, JoinedType DEF AppendName, PathsInv, args, Joined, WantsSlash, LastChar, CharAt, Needed
    <2>3. result' \in Seq(Char)
      BY <2>1, <2>2 DEF PathsInv
    <2> QED
      BY <1>5, <2>1, <2>2, <2>3 DEF AppendName, PathsInv, args
  <1>6. CASE Call
    BY <1>6, StringsAreSequences DEF Call, PathsInv
  <1>7. CASE UNCHANGED vars
    BY <1>7 DEF vars, PathsInv, Joined, WantsSlash, LastChar, CharAt, Needed
  <1> QED
    BY <1>1, <1>2, <1>3, <1>4, <1>5, <1>6, <1>7 DEF Next

LEMMA PathsInvAlways == Spec => []PathsInv
  BY PathsInvInit, PathsInvStep, PTL DEF Spec

LEMMA PathsInvFits == PathsInv => NoOverrun
  <1> SUFFICES ASSUME PathsInv, pc \in {"slash", "append", "done"}
               PROVE  Len(result) + 1 <= room
    BY DEF NoOverrun
  <1>1. Len(s1) \in Nat /\ Len(s2) \in Nat /\ room = Len(s1) + Len(s2) + 2
    BY DEF PathsInv, Needed
  <1>2. Joined \in Seq(Char) /\ Len(Joined) <= Len(s1) + 1
    BY <1>1, JoinedType DEF PathsInv
  <1>3. CASE pc = "slash"
    BY <1>1, <1>3 DEF PathsInv
  <1>4. CASE pc = "append"
    BY <1>1, <1>2, <1>4 DEF PathsInv
  <1>5. CASE pc = "done"
    <2>1. Len(Joined \o s2) = Len(Joined) + Len(s2)
      BY <1>2 DEF PathsInv
    <2>2. Len(Joined) \in Nat
      BY <1>2
    <2> QED
      BY <1>1, <1>2, <1>5, <2>1, <2>2 DEF PathsInv
  <1> QED
    BY <1>3, <1>4, <1>5

(* For strings of any length the copies of concat_path() stay in the block *)
(* it has asked for.                                                       *)
THEOREM ConcatFits == Spec => []NoOverrun
  BY PathsInvAlways, PathsInvFits, PTL
-----------------------------------------------------------------------------
(* r is a, perhaps a slash, and b, n being where b starts; where a and b   *)
(* meet there is the start of r or a slash.                                *)
Joins(a, b, r, n) ==
  /\ Len(r) = n + Len(b)
  /\ n = Len(a) \/ (n = Len(a) + 1 /\ Len(a) >= 1 /\ r[n] = Slash)
  /\ \A m \in 1..Len(a) : r[m] = a[m]
  /\ \A m \in 1..Len(b) : r[n + m] = b[m]
  /\ n = 0 \/ r[n] = Slash \/ (Len(b) >= 1 /\ b[1] = Slash)

(* A name of the whole is one of the first part or one of the second. *)
LEMMA WordOfWhole ==
  ASSUME NEW a \in Seq(Char), NEW b \in Seq(Char), NEW r \in Seq(Char), NEW n \in Nat,
         Joins(a, b, r, n),
         NEW j \in 1..Len(r), NEW k \in 1..Len(r), j <= k, Word(r, j, k)
  PROVE  \/ j \in 1..Len(a) /\ k \in 1..Len(a) /\ Word(a, j, k)
         \/ j - n \in 1..Len(b) /\ k - n \in 1..Len(b) /\ Word(b, j - n, k - n)
  <1>1. Len(a) \in Nat /\ Len(b) \in Nat /\ Len(r) = n + Len(b)
    BY DEF Joins
  <1>2. \A m \in j..k : r[m] # Slash
    BY DEF Word
  <1>3. k <= n \/ j > n
    <2> SUFFICES ASSUME j <= n, k > n PROVE FALSE
      BY <1>1
    <2>1. n \in j..k /\ n + 1 \in j..k
      BY <1>1
    <2>2. r[n] # Slash /\ r[n + 1] # Slash
      BY <1>2, <2>1
    <2>3. Len(b) >= 1 => r[n + 1] = b[1]
      BY <1>1 DEF Joins
    <2> QED
      BY <2>2, <2>3 DEF Joins
  <1>4. CASE k <= n
    <2>1. k <= Len(a)
      <3>1. k \in j..k
        BY <1>1
      <3>2. r[k] # Slash
        BY <1>2, <3>1
      <3> QED
        BY <1>1, <1>4, <3>2 DEF Joins
    <2>2. j \in 1..Len(a) /\ k \in 1..Len(a)
      BY <1>1, <2>1
    <2>3. \A m \in j..k : a[m] # Slash
      <3> TAKE m \in j..k
      <3>1. m \in 1..Len(a)
        BY <1>1, <2>2
      <3> QED
        BY <1>2, <3>1 DEF Joins
    <2>4. j = 1 \/ a[j - 1] = Slash
      <3>1. CASE j # 1
        <4>1. j - 1 \in 1..Len(a)
          BY <1>1, <2>2, <3>1
        <4> QED
          BY <3>1, <4>1 DEF Joins, Word
      <3> QED
        BY <3>1
    <2>5. k = Len(a) \/ a[k + 1] = Slash
      <3>1. CASE k # Len(a)
        <4>1. k + 1 \in 1..Len(a) /\ k # Len(r)
          BY <1>1, <2>2, <3>1 DEF Joins
        <4> QED
          BY <4>1 DEF Joins, Word
      <3> QED
        BY <3>1
    <2> QED
      BY <2>2, <2>3, <2>4, <2>5 DEF Word
  <1>5. CASE j > n
    <2> DEFINE u == j - n
               v == k - n
    <2>1. u \in 1..Len(b) /\ v \in 1..Len(b) /\ j = n + u /\ k = n + v
      BY <1>1, <1>5
    <2> HIDE DEF u, v
    <2>2. \A m \in u..v : b[m] # Slash
      <3> TAKE m \in u..v
      <3>1. m \in 1..Len(b) /\ n + m \in j..k
        BY <1>1, <2>1
      <3> QED
        BY <1>2, <3>1 DEF Joins
    <2>3. u = 1 \/ b[u - 1] = Slash
      <3>1. CASE u # 1
        <4>1. u - 1 \in 1..Len(b) /\ j # 1 /\ j - 1 = n + (u - 1)
          BY <1>1, <2>1, <3>1
        <4> QED
          BY <4>1 DEF Joins, Word
      <3> QED
        BY <3>1
    <2>4. v = Len(b) \/ b[v + 1] = Slash
      <3>1. CASE v # Len(b)
        <4>1. v + 1 \in 1..Len(b) /\ k # Len(r) /\ k + 1 = n + (v + 1)
          BY <1>1, <2>1, <3>1
        <4> QED
          BY <4>1 DEF Joins, Word
      <3> QED
        BY <3>1
    <2>5. Word(b, u, v)
      BY <2>2, <2>3, <2>4 DEF Word
    <2> QED
      BY <2>1, <2>5 DEF u, v
  <1> QED
    BY <1>3, <1>4, <1>5

(* The names of the first part are names of the whole... *)
LEMMA WordOfFirst ==
  ASSUME NEW a \in Seq(Char), NEW b \in Seq(Char), NEW r \in Seq(Char), NEW n \in Nat,
         Joins(a, b, r, n),
         NEW j \in 1..Len(a), NEW k \in 1..Len(a), j <= k, Word(a, j, k)
  PROVE  j \in 1..Len(r) /\ k \in 1..Len(r) /\ Word(r, j, k)
  <1>1. Len(a) \in Nat /\ Len(b) \in Nat /\ Len(r) = n + Len(b) /\ Len(a) <= n
    BY DEF Joins
  <1>2. j \in 1..Len(r) /\ k \in 1..Len(r)
    BY <1>1
  <1>3. \A m \in j..k : r[m] # Slash
    <2> TAKE m \in j..k
    <2>1. m \in 1..Len(a) /\ a[m] # Slash
      BY <1>1 DEF Word
    <2> QED
      BY <2>1 DEF Joins
  <1>4. j = 1 \/ r[j - 1] = Slash
    <2>1. CASE j # 1
      <3>1. j - 1 \in 1..Len(a) /\ a[j - 1] = Slash
        BY <1>1, <2>1 DEF Word
      <3> QED
        BY <3>1 DEF Joins
    <2> QED
      BY <2>1
  <1>5. k = Len(r) \/ r[k + 1] = Slash
    <2>1. CASE k < Len(a)
      <3>1. k + 1 \in 1..Len(a) /\ a[k + 1] = Slash
        BY <1>1, <2>1 DEF Word
      <3> QED
        BY <3>1 DEF Joins
    <2>2. CASE k = Len(a)
      <3>1. k \in j..k
        BY <1>1
      <3>2. r[k] # Slash
        BY <1>3, <3>1
      <3>3. CASE n = Len(a) + 1
        BY <1>1, <2>2, <3>3 DEF Joins
      <3>4. CASE n = Len(a)
        <4>1. Len(b) >= 1 /\ b[1] = Slash
          BY <1>1, <2>2, <3>2, <3>4 DEF Joins
        <4> QED
          BY <1>1, <2>2, <3>4, <4>1 DEF Joins
      <3> QED
        BY <3>3, <3>4 DEF Joins
    <2> QED
      BY <1>1, <2>1, <2>2
  <1> QED
    BY <1>2, <1>3, <1>4, <1>5 DEF Word

(* ...and so are those of the second, n characters further on. *)
LEMMA WordOfSecond ==
  ASSUME NEW a \in Seq(Char), NEW b \in Seq(Char), NEW r \in Seq(Char), NEW n \in Nat,
         Joins(a, b, r, n),
         NEW j \in 1..Len(b), NEW k \in 1..Len(b), j <= k, Word(b, j, k)
  PROVE  j + n \in 1..Len(r) /\ k + n \in 1..Len(r) /\ Word(r, j + n, k + n)
  <1>1. Len(a) \in Nat /\ Len(b) \in Nat /\ Len(r) = n + Len(b) /\ Len(a) <= n
    BY DEF Joins
  <1>2. j + n \in 1..Len(r) /\ k + n \in 1..Len(r)
    BY <1>1
  <1>3. \A m \in (j + n)..(k + n) : r[m] # Slash
    <2> TAKE m \in (j + n)..(k + n)
    <2>1. m - n \in j..k /\ m - n \in 1..Len(b) /\ m = n + (m - n)
      BY <1>1
    <2>2. b[m - n] # Slash
      BY <2>1 DEF Word
    <2> QED
      BY <2>1, <2>2 DEF Joins
  <1>4. j + n = 1 \/ r[j + n - 1] = Slash
    <2>1. CASE j = 1
      <3>1. j \in j..k
        BY <1>1
      <3>2. b[1] # Slash
        BY <2>1, <3>1 DEF Word
      <3> QED
        BY <1>1, <2>1, <3>2 DEF Joins
    <2>2. CASE j # 1
      <3>1. j - 1 \in 1..Len(b) /\ n + (j - 1) = j + n - 1
        BY <1>1, <2>2
      <3>2. b[j - 1] = Slash
        BY <2>2 DEF Word
      <3> QED
        BY <3>1, <3>2 DEF Joins
    <2> QED
      BY <2>1, <2>2
  <1>5. k + n = Len(r) \/ r[k + n + 1] = Slash
    <2>1. CASE k = Len(b)
      BY <1>1, <2>1
    <2>2. CASE k # Len(b)
      <3>1. k + 1 \in 1..Len(b) /\ n + (k + 1) = k + n + 1
        BY <1>1, <2>2
      <3>2. b[k + 1] = Slash
        BY <2>2 DEF Word
      <3> QED
        BY <3>1, <3>2 DEF Joins
    <2> QED
      BY <2>1, <2>2
  <1> QED
    BY <1>2, <1>3, <1>4, <1>5 DEF Word

(* A name moved by n, as a pair of indices. *)
Moved(w, n) == <<w[1] + n, w[2] + n>>

LEMMA WordsOfWhole ==
  ASSUME NEW a \in Seq(Char), NEW b \in Seq(Char), NEW r \in Seq(Char), NEW n \in Nat,
         Joins(a, b, r, n)
  PROVE  Words(r) = Words(a) \union {Moved(w, n) : w \in Words(b)}
  <1>1. Len(a) \in Nat /\ Len(b) \in Nat /\ Len(r) \in Nat
    OBVIOUS
  <1>2. ASSUME NEW w \in Words(r) PROVE w \in Words(a) \union {Moved(v, n) : v \in Words(b)}
    <2> DEFINE j == w[1]
               k == w[2]
    <2>1. j \in 1..Len(r) /\ k \in 1..Len(r) /\ w = <<j, k>> /\ j <= k /\ Word(r, j, k)
      BY DEF Words
    <2> HIDE DEF j, k
    <2>2. CASE j \in 1..Len(a) /\ k \in 1..Len(a) /\ Word(a, j, k)
      BY <2>1, <2>2 DEF Words
    <2>3. CASE j - n \in 1..Len(b) /\ k - n \in 1..Len(b) /\ Word(b, j - n, k - n)
      <3> DEFINE v == <<j - n, k - n>>
      <3>1. j - n <= k - n /\ (j - n) + n = j /\ (k - n) + n = k
        BY <1>1, <2>1
      <3>2. v \in Words(b)
        BY <2>3, <3>1 DEF Words
      <3>3. Moved(v, n) = w
        BY <2>1, <3>1 DEF Moved
      <3> HIDE DEF v
      <3> QED
        BY <3>2, <3>3
    <2> QED
      BY <2>1, <2>2, <2>3, WordOfWhole
  <1>3. ASSUME NEW w \in Words(a) PROVE w \in Words(r)
    <2> DEFINE j == w[1]
               k == w[2]
    <2>1. j \in 1..Len(a) /\ k \in 1..Len(a) /\ w = <<j, k>> /\ j <= k /\ Word(a, j, k)
      BY DEF Words
    <2> HIDE DEF j, k
    <2>2. j \in 1..Len(r) /\ k \in 1..Len(r) /\ Word(r, j, k)
      BY <2>1, WordOfFirst
    <2> QED
      BY <2>1, <2>2 DEF Words
  <1>4. ASSUME NEW w \in Words(b) PROVE Moved(w, n) \in Words(r)
    <2> DEFINE j == w[1]
               k == w[2]
    <2>1. j \in 1..Len(b) /\ k \in 1..Len(b) /\ w = <<j, k>> /\ j <= k /\ Word(b, j, k)
      BY DEF Words
    <2>2. Moved(w, n) = <<j + n, k + n>>
      BY DEF Moved
    <2> HIDE DEF j, k
    <2>3. j + n \in 1..Len(r) /\ k + n \in 1..Len(r) /\ Word(r, j + n, k + n)
      BY <2>1, WordOfSecond
    <2>4. j + n <= k + n
      BY <1>1, <2>1
    <2> QED
      BY <2>2, <2>3, <2>4 DEF Words
  <1> QED
    BY <1>2, <1>3, <1>4

(* Two words of the same length with the same characters are the same text. *)
Alike(s, w, t, x) ==
  /\ w[1] \in 1..Len(s) /\ w[2] \in 1..Len(s) /\ w[1] <= w[2]
  /\ x[1] \in 1..Len(t) /\ x[2] \in 1..Len(t) /\ x[2] - x[1] = w[2] - w[1]
  /\ \A m \in 1..(w[2] - w[1] + 1) : s[w[1] + m - 1] = t[x[1] + m - 1]

LEMMA SameText ==
  ASSUME NEW s \in Seq(Char), NEW w, NEW t \in Seq(Char), NEW x, Alike(s, w, t, x)
  PROVE  Text(s, w) = Text(t, x)
  <1> DEFINE j == w[1]
             k == w[2]
             u == x[1]
             v == x[2]
  <1>1. /\ j \in 1..Len(s) /\ k \in 1..Len(s) /\ j <= k
        /\ u \in 1..Len(t) /\ v \in 1..Len(t) /\ v - u = k - j
        /\ Len(s) \in Nat /\ Len(t) \in Nat
    BY DEF Alike
  <1>2. \A m \in 1..(k - j + 1) : s[j + m - 1] = t[u + m - 1]
    BY DEF Alike
  <1>3. Text(s, w) = SubSeq(s, j, k) /\ Text(t, x) = SubSeq(t, u, v)
    BY DEF Text
  <1> HIDE DEF j, k, u, v
  <1>4. \A m \in j..k : s[m] \in Char
    BY <1>1
  <1>5. \A m \in u..v : t[m] \in Char
    BY <1>1
  <1>6. /\ SubSeq(s, j, k) \in Seq(Char) /\ Len(SubSeq(s, j, k)) = k - j + 1
        /\ \A m \in 1..(k - j + 1) : SubSeq(s, j, k)[m] = s[j + m - 1]
    BY <1>1, <1>4, SubSeqProperties
  <1>7. /\ SubSeq(t, u, v) \in Seq(Char) /\ Len(SubSeq(t, u, v)) = k - j + 1
        /\ \A m \in 1..(k - j + 1) : SubSeq(t, u, v)[m] = t[u + m - 1]
    <2>1. v - u + 1 = k - j + 1 /\ u <= v
      BY <1>1
    <2> QED
      BY <1>1, <1>5, <2>1, SubSeqProperties
  <1>8. PICK l \in Nat : l = k - j + 1
    BY <1>1
  <1>9. /\ Len(SubSeq(s, j, k)) = l /\ Len(SubSeq(t, u, v)) = l
        /\ \A m \in 1..l : SubSeq(s, j, k)[m] = SubSeq(t, u, v)[m]
    BY <1>2, <1>6, <1>7, <1>8, Zenon
  <1> QED
    BY <1>3, <1>6, <1>7, <1>9, SeqEqual

(* A part of the whole reads like the part it is from. *)
LEMMA TextOfFirst ==
  ASSUME NEW a \in Seq(Char), NEW b \in Seq(Char), NEW r \in Seq(Char), NEW n \in Nat,
         Joins(a, b, r, n), NEW w \in Words(a)
  PROVE  Text(r, w) = Text(a, w)
  <1>1. /\ w[1] \in 1..Len(a) /\ w[2] \in 1..Len(a) /\ w[1] <= w[2]
        /\ Len(a) \in Nat /\ Len(b) \in Nat
    BY DEF Words
  <1>2. \A m \in 1..(w[2] - w[1] + 1) : r[w[1] + m - 1] = a[w[1] + m - 1]
    <2> TAKE m \in 1..(w[2] - w[1] + 1)
    <2>1. w[1] + m - 1 \in 1..Len(a)
      BY <1>1
    <2> QED
      BY <2>1 DEF Joins
  <1>3. w[1] \in 1..Len(r) /\ w[2] \in 1..Len(r)
    BY <1>1 DEF Joins
  <1>4. Alike(r, w, a, w)
    BY <1>1, <1>2, <1>3 DEF Alike
  <1> QED
    BY <1>4, SameText

LEMMA TextOfSecond ==
  ASSUME NEW a \in Seq(Char), NEW b \in Seq(Char), NEW r \in Seq(Char), NEW n \in Nat,
         Joins(a, b, r, n), NEW w \in Words(b)
  PROVE  Text(r, Moved(w, n)) = Text(b, w)
  <1>1. /\ w[1] \in 1..Len(b) /\ w[2] \in 1..Len(b) /\ w[1] <= w[2]
        /\ Len(a) \in Nat /\ Len(b) \in Nat
    BY DEF Words
  <1> DEFINE x == Moved(w, n)
  <1>2. x[1] = w[1] + n /\ x[2] = w[2] + n
    BY DEF Moved
  <1> HIDE DEF x
  <1>3. \A m \in 1..(w[2] - w[1] + 1) : b[w[1] + m - 1] = r[x[1] + m - 1]
    <2>1. PICK j \in Nat, k \in Nat : j = w[1] /\ k = w[2]
      BY <1>1
    <2>2. ASSUME NEW m \in 1..(k - j + 1) PROVE b[j + m - 1] = r[(j + n) + m - 1]
      <3>1. PICK l \in Nat : l = Len(b) /\ 1 <= j /\ k <= l
        BY <1>1, <2>1
      <3>2. j + m - 1 \in 1..l /\ (j + n) + m - 1 = n + (j + m - 1)
        BY <3>1
      <3> QED
        BY <3>1, <3>2 DEF Joins
    <2> QED
      BY <1>2, <2>1, <2>2
  <1>4. x[1] \in 1..Len(r) /\ x[2] \in 1..Len(r) /\ x[2] - x[1] = w[2] - w[1]
    <2>1. Len(r) = n + Len(b)
      BY DEF Joins
    <2> QED
      BY <1>1, <1>2, <2>1
  <1>5. Alike(b, w, r, x)
    BY <1>1, <1>3, <1>4, Zenon DEF Alike
  <1>6. Text(b, w) = Text(r, x)
    BY <1>5, SameText
  <1> QED
    BY <1>6 DEF x

(* The result of concat_path() is such a whole. *)
LEMMA ResultJoins ==
  ASSUME PathsInv, pc = "done"
  PROVE  /\ Joins(s1, s2, result, Len(Joined))
         /\ Len(Joined) \in Nat /\ Len(result) - Len(s2) = Len(Joined)
         /\ Len(s1) = 0 => Len(Joined) = 0
  <1>1. s1 \in Seq(Char) /\ s2 \in Seq(Char) /\ result = Joined \o s2
    BY DEF PathsInv
  <1>2. /\ Joined \in Seq(Char)
        /\ Len(Joined) = IF WantsSlash THEN Len(s1) + 1 ELSE Len(s1)
        /\ \A m \in 1..Len(s1) : Joined[m] = s1[m]
        /\ WantsSlash => Joined[Len(s1) + 1] = Slash
    BY <1>1, JoinedType
  <1> DEFINE n == Len(Joined)
  <1>3. /\ n \in Nat /\ Len(s1) \in Nat /\ Len(s2) \in Nat
        /\ Len(result) = n + Len(s2)
        /\ \A m \in 1..n : result[m] = Joined[m]
        /\ \A m \in 1..Len(s2) : result[n + m] = s2[m]
    <2>1. Len(result) = n + Len(s2)
      BY <1>1, <1>2, ConcatProperties
    <2>2. \A m \in 1..(n + Len(s2)) : result[m] = IF m <= n THEN Joined[m] ELSE s2[m - n]
      BY <1>1, <1>2, ConcatProperties
    <2>3. n \in Nat /\ Len(s1) \in Nat /\ Len(s2) \in Nat
      BY <1>1, <1>2
    <2> HIDE DEF n
    <2>4. \A m \in 1..n : result[m] = Joined[m]
      BY <2>2, <2>3
    <2>5. \A m \in 1..Len(s2) : result[n + m] = s2[m]
      <3> TAKE m \in 1..Len(s2)
      <3>1. n + m \in 1..(n + Len(s2)) /\ ~(n + m <= n) /\ (n + m) - n = m
        BY <2>3
      <3> QED
        BY <2>2, <3>1
    <2> QED
      BY <2>1, <2>3, <2>4, <2>5
  <1>4. n = IF WantsSlash THEN Len(s1) + 1 ELSE Len(s1)
    BY <1>2
  <1>5. WantsSlash => Len(s1) >= 1 /\ result[n] = Slash
    <2> SUFFICES ASSUME WantsSlash PROVE Len(s1) >= 1 /\ result[n] = Slash
      OBVIOUS
    <2>1. Len(s1) >= 1
      BY <1>3 DEF WantsSlash
    <2>2. n = Len(s1) + 1 /\ n \in 1..n
      BY <1>3, <1>4
    <2> QED
      BY <1>2, <1>3, <2>1, <2>2
  <1>6. \A m \in 1..Len(s1) : result[m] = s1[m]
    <2> TAKE m \in 1..Len(s1)
    <2>1. m \in 1..n
      BY <1>3, <1>4
    <2> QED
      BY <1>2, <1>3, <2>1
  <1>7. n = 0 \/ result[n] = Slash \/ (Len(s2) >= 1 /\ s2[1] = Slash)
    <2>1. CASE WantsSlash
      BY <1>5, <2>1
    <2>2. CASE ~WantsSlash /\ Len(s1) # 0
      <3>1. s1 # <<>> /\ Len(s1) \in 1..Len(s1) /\ n = Len(s1)
        BY <1>1, <1>3, <1>4, <2>2
      <3>2. s1[Len(s1)] = Slash \/ CharAt(s2, 0) = Slash
        BY <2>2, <3>1 DEF WantsSlash, LastChar
      <3>3. CASE s1[Len(s1)] = Slash
        BY <1>6, <3>1, <3>3
      <3>4. CASE CharAt(s2, 0) = Slash
        <4>1. 0 < Len(s2) /\ s2[0 + 1] = Slash
          BY <3>4, CharAssumption DEF CharAt
        <4> QED
          BY <1>3, <4>1
      <3> QED
        BY <3>2, <3>3, <3>4
    <2>3. CASE ~WantsSlash /\ Len(s1) = 0
      BY <1>4, <2>3
    <2> QED
      BY <2>1, <2>2, <2>3
  <1>8. Len(s1) = 0 => n = 0
    BY <1>4, <1>5
  <1> HIDE DEF n
  <1>9. Joins(s1, s2, result, n)
    BY <1>3, <1>4, <1>5, <1>6, <1>7 DEF Joins
  <1>10. Len(result) - Len(s2) = n
    BY <1>3
  <1> QED
    BY <1>3, <1>8, <1>9, <1>10 DEF n

(* For strings of any length the path that concat_path() makes has the     *)
(* names of both arguments and starts at the root when it should, whatever *)
(* the byte in front of an empty string is.                                *)
THEOREM ConcatJoins == Spec => []JoinsPaths
  <1>1. PathsInv => JoinsPaths
    <2> SUFFICES ASSUME PathsInv, pc = "done"
                 PROVE  LET shift == Len(result) - Len(s2)
                            moved == {<<w[1] + shift, w[2] + shift>> : w \in Words(s2)}
                        IN /\ Words(result) = Words(s1) \union moved
                           /\ \A w \in Words(s1) : Text(result, w) = Text(s1, w)
                           /\ \A w \in Words(s2) : Text(result, <<w[1] + shift, w[2] + shift>>) = Text(s2, w)
                           /\ CharAt(result, 0) = Slash
                                <=> CharAt(IF s1 = <<>> THEN s2 ELSE s1, 0) = Slash
      BY DEF JoinsPaths
    <2> DEFINE n == Len(result) - Len(s2)
    <2>1. s1 \in Seq(Char) /\ s2 \in Seq(Char) /\ result \in Seq(Char)
      BY DEF PathsInv
    <2>2. Joins(s1, s2, result, n) /\ n \in Nat /\ (Len(s1) = 0 => n = 0)
      BY ResultJoins
    <2> HIDE DEF n
    <2>3. Words(result) = Words(s1) \union {<<w[1] + n, w[2] + n>> : w \in Words(s2)}
      BY <2>1, <2>2, WordsOfWhole DEF Moved
    <2>4. \A w \in Words(s1) : Text(result, w) = Text(s1, w)
      BY <2>1, <2>2, TextOfFirst
    <2>5. \A w \in Words(s2) : Text(result, <<w[1] + n, w[2] + n>>) = Text(s2, w)
      BY <2>1, <2>2, TextOfSecond DEF Moved
    <2>6. CharAt(result, 0) = CharAt(IF s1 = <<>> THEN s2 ELSE s1, 0)
      <3>0. Len(s1) \in Nat /\ Len(s2) \in Nat /\ Len(result) = n + Len(s2) /\ Len(s1) <= n
        BY <2>1, <2>2 DEF Joins
      <3>1. CASE s1 = <<>>
        <4>1. n = 0 /\ Len(result) = Len(s2)
          BY <2>2, <3>0, <3>1
        <4>2. 0 < Len(s2) => result[1] = s2[1]
          BY <2>2, <3>0, <4>1 DEF Joins
        <4> QED
          BY <3>1, <4>1, <4>2 DEF CharAt
      <3>2. CASE s1 # <<>>
        <4>1. Len(s1) >= 1
          BY <2>1, <3>2
        <4>2. result[1] = s1[1] /\ Len(result) >= 1
          BY <2>2, <3>0, <4>1 DEF Joins
        <4> QED
          BY <2>1, <3>0, <3>2, <4>1, <4>2 DEF CharAt
      <3> QED
        BY <3>1, <3>2
    <2> QED
      BY <2>3, <2>4, <2>5, <2>6 DEF n
  <1> QED
    BY <1>1, PathsInvAlways, PTL
=============================================================================
