--------------------------- MODULE ListingProofs ----------------------------
(***************************************************************************)
(* What print_dir() promises for every directory and every terminal: the   *)
(* grid, the blocks and pointers, the order of the listing, and its end.   *)
(***************************************************************************)
EXTENDS Listing, TLAPS, WellFoundedInduction
-----------------------------------------------------------------------------
(* The arithmetic of a grid of c columns and r rows.                       *)

LEMMA DivMod ==
  ASSUME NEW k \in Nat, NEW c \in Nat, c >= 1
  PROVE  /\ k \div c \in Nat /\ k % c \in 0..(c - 1)
         /\ k = c * (k \div c) + (k % c)
  OBVIOUS

LEMMA DivUnique ==
  ASSUME NEW c \in Nat, c >= 1, NEW q \in Nat, NEW d \in 0..(c - 1)
  PROVE  (c * q + d) \div c = q /\ (c * q + d) % c = d
  OBVIOUS

LEMMA DivBelow ==
  ASSUME NEW k \in Nat, NEW c \in Nat, c >= 1, NEW r \in Nat, k < c * r
  PROVE  k \div c < r
  OBVIOUS

LEMMA NextMod ==
  ASSUME NEW k \in Nat, NEW c \in Nat, c >= 1
  PROVE  /\ k % c = c - 1 => (k + 1) % c = 0
         /\ k % c # c - 1 => (k + 1) % c = (k % c) + 1
  <1> DEFINE q == k \div c
             d == k % c
  <1>1. q \in Nat /\ d \in 0..(c - 1) /\ k = c * q + d
    BY DivMod
  <1> HIDE DEF q, d
  <1>2. CASE d = c - 1
    <2>1. k + 1 = c * (q + 1) + 0
      BY <1>1, <1>2
    <2>2. (c * (q + 1) + 0) % c = 0
      BY <1>1, DivUnique
    <2> QED
      BY <1>2, <2>1, <2>2 DEF d
  <1>3. CASE d # c - 1
    <2>1. k + 1 = c * q + (d + 1) /\ d + 1 \in 0..(c - 1)
      BY <1>1, <1>3
    <2>2. (c * q + (d + 1)) % c = d + 1
      BY <1>1, <2>1, DivUnique
    <2> QED
      BY <1>3, <2>1, <2>2 DEF d
  <1> QED
    BY <1>2, <1>3

LEMMA RowsEnough ==
  ASSUME NEW n \in Nat, n >= 1, NEW c \in Nat, c >= 1
  PROVE  /\ (n + c - 1) \div c \in Nat
         /\ (n + c - 1) \div c >= 1
         /\ n <= c * ((n + c - 1) \div c)
  OBVIOUS

LEMMA ColumsFit ==
  ASSUME NEW w \in Nat, NEW m \in Nat
  PROVE  /\ w \div (m + 2) \in Nat
         /\ (w \div (m + 2)) * (m + 2) <= w
  OBVIOUS
(* The k-th cell printed lies inside the grid, in column k % c... *)
LEMMA CellInGrid ==
  ASSUME NEW r \in Nat, r >= 1, NEW c \in Nat, c >= 1,
         NEW k \in Nat, k < c * r
  PROVE  /\ r * (k % c) + k \div c \in 0..(c * r - 1)
         /\ (r * (k % c) + k \div c) \div r = k % c
         /\ k % c \in 0..(c - 1)
  <1> DEFINE q == k \div c
             d == k % c
  <1>1. q \in 0..(r - 1) /\ d \in 0..(c - 1)
    <2>1. q \in Nat /\ d \in 0..(c - 1)
      BY DivMod
    <2>2. q < r
      BY DivBelow
    <2> QED
      BY <2>1, <2>2
  <1> HIDE DEF q, d
  <1>2. (r * d + q) \div r = d
    BY <1>1, DivUnique
  <1>3. r * d + q \in Nat /\ r * d + q < r * (d + 1)
    BY <1>1
  <1>4. r * (d + 1) <= c * r
    BY <1>1
  <1> QED
    BY <1>1, <1>2, <1>3, <1>4 DEF q, d

(* ...and every position of the grid is printed. *)
LEMMA CellOnto ==
  ASSUME NEW r \in Nat, r >= 1, NEW c \in Nat, c >= 1,
         NEW p \in Nat, p < c * r
  PROVE  \E k \in 0..(c * r - 1) : r * (k % c) + k \div c = p
  <1> DEFINE q == p \div r
             d == p % r
             k == c * d + q
  <1>1. q \in Nat /\ d \in 0..(r - 1) /\ p = r * q + d
    BY DivMod
  <1>2. q < c
    BY DivBelow
  <1> HIDE DEF q, d
  <1>3. k \div c = d /\ k % c = q
    BY <1>1, <1>2, DivUnique
  <1>4. k \in Nat /\ k < c * (d + 1) /\ c * (d + 1) <= c * r
    BY <1>1, <1>2
  <1>5. k \in 0..(c * r - 1) /\ r * (k % c) + k \div c = p
    BY <1>1, <1>3, <1>4
  <1> QED
    BY <1>5
-----------------------------------------------------------------------------
(* Facts about the actions.                                                *)

LEMMA InsertNameEffect ==
  ASSUME TypeOK, NEW x \in Cells, InsertName(x)
  PROVE  /\ names' \in Seq(Cells)
         /\ Len(names') = Len(names) + 1
         /\ \A k \in 1..Len(names') : names'[k] = IF k <= Len(names) THEN names[k] ELSE x
         /\ room' \in Nat /\ block' \in Nat
  <1>1. names \in Seq(Cells) /\ room \in Nat /\ block \in Nat
    BY DEF TypeOK
  <1>2. names' = Append(names, x)
    BY DEF InsertName
  <1>3. room' \in Nat /\ block' \in Nat
    BY <1>1 DEF InsertName
  <1>4. /\ names' \in Seq(Cells)
        /\ Len(names') = Len(names) + 1
    BY <1>1, <1>2
  <1>5. \A k \in 1..Len(names') : names'[k] = IF k <= Len(names) THEN names[k] ELSE x
    BY <1>1, <1>2, <1>4
  <1> QED
    BY <1>3, <1>4, <1>5

LEMMA LengthsAreNat ==
  ASSUME NEW x \in Cells
  PROVE  NameLen[x] \in Nat
  BY NameAssumption DEF Cells

LEMMA LargerIs ==
  ASSUME NEW x \in Nat, NEW y \in Nat
  PROVE  /\ Larger(x, y) \in Nat /\ x <= Larger(x, y) /\ y <= Larger(x, y)
         /\ \A z \in Nat : x <= z /\ y <= z => Larger(x, y) <= z
  BY DEF Larger

LEMMA ListingInit == Init => ListingInv
  <1> SUFFICES ASSUME Init PROVE ListingInv
    OBVIOUS
  <1>1. TypeOK
    BY LayoutAssumption DEF Init, TypeOK, Flags
  <1> QED
    BY <1>1 DEF Init, ListingInv, Longest, ScreenClean, GridFits, MapIsPermutation,
       ColumnsMeasured, RowPrinted, IndexSafe, NoWrap, CellsFit, PrintedOnce

(* The parts of the invariant that a step leaving the arrays alone keeps.  *)
LEMMA QuietStep ==
  ASSUME ListingInv,
         UNCHANGED <<flags, arrays, layout, i, map, sizes, screen>>,
         blocks' \subseteq blocks \union Lists,
         \/ pc = "open" /\ pc' \in {"done", "read", "segv"}
         \/ pc = "release" /\ pc' \in {"recurse", "return"}
         \/ pc = "recurse" /\ pc' \in {"return", "error"}
         \/ pc = "return" /\ pc' = "done"
         \/ pc \in {"read", "pad", "sort"} /\ pc' = "segv"
  PROVE  ListingInv'
  <1>1. TypeOK'
    BY DEF ListingInv, TypeOK, arrays, layout, screen
  <1>2. Longest' /\ NoWrap' /\ CellsFit'
    BY DEF ListingInv, Longest, NoWrap, CellsFit, PrintedName, arrays, layout, screen
  <1>3. ScreenClean'
    BY DEF ListingInv, ScreenClean, arrays, layout, screen
  <1> QED
    BY <1>1, <1>2, <1>3 DEF ListingInv, GridFits, MapIsPermutation,
       ColumnsMeasured, RowPrinted, IndexSafe, PrintedOnce

LEMMA ReadEntryStep ==
  ASSUME ListingInv, NEW e \in Name, ReadEntry(e)
  PROVE  ListingInv'
  <1> USE DEF arrays, layout, screen
  <1>1. TypeOK /\ Longest /\ pc = "read" /\ pc' = "read" /\ e \in Cells
    BY DEF ListingInv, ReadEntry, Cells
  <1>2. /\ names' \in Seq(Cells)
        /\ Len(names') = Len(names) + 1
        /\ \A k \in 1..Len(names') : names'[k] = IF k <= Len(names) THEN names[k] ELSE e
        /\ room' \in Nat /\ block' \in Nat
    BY <1>1, InsertNameEffect DEF ReadEntry
  <1>3. NameLen[e] \in Nat /\ max_size \in Nat /\ max_size' = Larger(max_size, NameLen[e])
        /\ names \in Seq(Cells) /\ Len(names) \in Nat
    BY <1>1, LengthsAreNat DEF ReadEntry, TypeOK
  <1>4. max_size' \in Nat /\ max_size <= max_size' /\ NameLen[e] <= max_size'
    BY <1>3, LargerIs
  <1>5. dirs' \in Seq([index : Nat, block : Nat])
    <2> DEFINE R == [index : Nat, block : Nat]
               x == [index |-> Len(names), block |-> block']
    <2>1. x \in R
      BY <1>2, <1>3
    <2>2. dirs \in Seq(R)
      BY <1>1 DEF TypeOK
    <2>3. dirs' \in {Append(dirs, x), dirs}
      BY DEF ReadEntry, NewIndex
    <2> HIDE DEF R, x
    <2>4. dirs' \in Seq(R)
      BY <2>1, <2>2, <2>3
    <2> QED
      BY <2>4 DEF R
  <1>6. TypeOK'
    BY <1>1, <1>2, <1>4, <1>5 DEF ReadEntry, TypeOK
  <1>7. Longest'
    <2> SUFFICES ASSUME NEW k \in 1..Len(names') PROVE NameLen[names'[k]] <= max_size'
      BY DEF Longest
    <2>1. CASE k <= Len(names)
      <3>1. k \in 1..Len(names) /\ names'[k] = names[k] /\ names[k] \in Cells
        BY <1>2, <1>3, <2>1
      <3>2. NameLen[names[k]] \in Nat /\ NameLen[names[k]] <= max_size
        BY <1>1, <3>1, LengthsAreNat DEF Longest
      <3> QED
        BY <1>3, <1>4, <3>1, <3>2
    <2>2. CASE ~(k <= Len(names))
      BY <1>2, <1>4, <2>2
    <2> QED
      BY <2>1, <2>2
  <1>8. printed = <<>> /\ cursor = 0 /\ edge = 0 /\ UNCHANGED <<screen, width>>
    BY <1>1 DEF ListingInv, ScreenClean, ReadEntry
  <1>9. NoWrap' /\ CellsFit' /\ ScreenClean'
    BY <1>1, <1>8 DEF ListingInv, NoWrap, CellsFit, ScreenClean, TypeOK
  <1> QED
    BY <1>1, <1>6, <1>7, <1>9 DEF ListingInv, GridFits, MapIsPermutation,
       ColumnsMeasured, RowPrinted, IndexSafe, PrintedOnce

LEMMA ReadEndStep ==
  ASSUME ListingInv, ReadEnd
  PROVE  ListingInv'
  <1> USE DEF arrays, layout, screen
  <1>1. TypeOK /\ pc = "read" /\ pc' \in {"done", "layout"}
    BY DEF ListingInv, ReadEnd
  <1>2. count' = Len(names) /\ count' \in Nat
    BY <1>1 DEF ReadEnd, TypeOK
  <1>3. TypeOK'
    BY <1>1, <1>2 DEF ReadEnd, TypeOK
  <1>4. Longest' /\ NoWrap'
    BY DEF ListingInv, ReadEnd, Longest, NoWrap
  <1>5. printed = <<>> /\ cursor = 0 /\ edge = 0 /\ UNCHANGED screen
    BY <1>1 DEF ListingInv, ScreenClean, ReadEnd
  <1>6. CellsFit' /\ ScreenClean'
    BY <1>1, <1>5 DEF CellsFit, ScreenClean
  <1>7. pc' = "layout" => names # <<>> /\ names' = names /\ Len(names) >= 1
    <2>1. names \in Seq(Cells)
      BY <1>1 DEF TypeOK
    <2>2. names # <<>> => Len(names) >= 1
      BY <2>1
    <2> QED
      BY <2>2 DEF ReadEnd
  <1>8. GridFits'
    BY <1>1, <1>2, <1>7 DEF GridFits
  <1> QED
    BY <1>1, <1>3, <1>4, <1>6, <1>8 DEF ListingInv, MapIsPermutation,
       ColumnsMeasured, RowPrinted, IndexSafe, PrintedOnce

LEMMA LayoutStep ==
  ASSUME ListingInv, Layout
  PROVE  ListingInv'
  <1> USE DEF arrays, layout, screen
  <1>1. TypeOK /\ pc = "layout" /\ count = Len(names) /\ count >= 1
    BY DEF ListingInv, Layout, GridFits
  <1>2. PICK w \in get_stdout_width :
             /\ width' = w
             /\ colums' = ColumsFor(w)
             /\ IF ColumsFor(w) = 0
                THEN pc' = "sigfpe" /\ UNCHANGED <<rows, i>>
                ELSE pc' = "pad" /\ rows' = RowsFor(ColumsFor(w)) /\ i' = count
    BY DEF Layout
  <1>3. w \in Nat /\ max_size \in Nat /\ count \in Nat
    BY <1>1, LayoutAssumption DEF TypeOK, get_stdout_width
  <1>4. ColumsFor(w) \in Nat /\ ColumsFor(w) * (max_size + 2) <= w
    BY <1>3, ColumsFit DEF ColumsFor
  <1>5. ColumsFor(w) # 0 => /\ RowsFor(ColumsFor(w)) \in Nat
                            /\ RowsFor(ColumsFor(w)) >= 1
                            /\ count <= ColumsFor(w) * RowsFor(ColumsFor(w))
    <2> DEFINE c == ColumsFor(w)
    <2> HIDE DEF c
    <2>1. c \in Nat
      BY <1>4 DEF c
    <2>2. c # 0 => /\ RowsFor(c) \in Nat /\ RowsFor(c) >= 1
                   /\ count <= c * RowsFor(c)
      BY <1>1, <1>3, <2>1, RowsEnough DEF RowsFor
    <2> QED
      BY <2>2 DEF c
  <1> HIDE DEF arrays, layout, screen
  <1>6. UNCHANGED <<flags, arrays, count, map, sizes, screen, blocks>>
    BY DEF Layout
  <1> USE DEF arrays, layout, screen
  <1>7. TypeOK'
    BY <1>1, <1>2, <1>3, <1>4, <1>5, <1>6 DEF TypeOK
  <1>8. printed' = <<>> /\ cursor' = 0 /\ edge' = 0
    BY <1>1, <1>6 DEF ListingInv, ScreenClean
  <1>9. CellsFit' /\ ScreenClean' /\ NoWrap'
    BY <1>2, <1>3, <1>8 DEF CellsFit, ScreenClean, NoWrap
  <1>10. Longest'
    BY <1>6 DEF ListingInv, Longest
  <1>11. GridFits'
    BY <1>1, <1>2, <1>3, <1>4, <1>5, <1>6 DEF GridFits
  <1> QED
    BY <1>2, <1>7, <1>9, <1>10, <1>11 DEF ListingInv, MapIsPermutation,
       ColumnsMeasured, RowPrinted, IndexSafe, PrintedOnce

LEMMA PadStep ==
  ASSUME ListingInv, Pad
  PROVE  ListingInv'
  <1> USE DEF arrays, layout, screen
  <1>1. /\ TypeOK /\ Longest /\ pc = "pad"
        /\ i = Len(names) /\ i \in Nat
        /\ colums \in Nat /\ rows \in Nat /\ i <= colums * rows
        /\ names \in Seq(Cells) /\ max_size \in Nat
    BY DEF ListingInv, Pad, GridFits, TypeOK
  <1>2. UNCHANGED <<flags, dirs, max_size, count, width, colums, rows, map, sizes,
                    printed, cursor, edge, blocks>>
    BY DEF Pad
  <1>3. printed' = <<>> /\ cursor' = 0 /\ edge' = 0
    BY <1>1, <1>2 DEF ListingInv, ScreenClean
  <1>4. CellsFit' /\ ScreenClean' /\ NoWrap'
    BY <1>1, <1>2, <1>3 DEF CellsFit, ScreenClean, NoWrap, TypeOK
  <1>5. CASE Padded
    <2>1. pc' = "sort" /\ UNCHANGED <<names, room, block, i>>
      BY <1>5 DEF Pad
    <2>2. TypeOK' /\ Longest'
      BY <1>1, <1>2, <2>1 DEF TypeOK, Longest
    <2>3. Len(names) = colums * rows
      BY <1>1, <1>5 DEF Padded
    <2>4. GridFits'
      BY <1>1, <1>2, <2>1, <2>3 DEF ListingInv, GridFits
    <2> QED
      BY <1>4, <2>1, <2>2, <2>4 DEF ListingInv, MapIsPermutation,
         ColumnsMeasured, RowPrinted, IndexSafe, PrintedOnce
  <1>6. CASE ~Padded
    <2>1. pc' = "pad" /\ i' = i + 1 /\ InsertName(Empty) /\ Empty \in Cells
      BY <1>1, <1>6 DEF Pad, Cells
    <2>2. /\ names' \in Seq(Cells)
          /\ Len(names') = Len(names) + 1
          /\ \A k \in 1..Len(names') :
               names'[k] = IF k <= Len(names) THEN names[k] ELSE Empty
          /\ room' \in Nat /\ block' \in Nat
      BY <1>1, <2>1, InsertNameEffect
    <2>3. TypeOK'
      BY <1>1, <1>2, <2>1, <2>2 DEF TypeOK
    <2>4. Longest'
      <3> SUFFICES ASSUME NEW k \in 1..Len(names') PROVE NameLen[names'[k]] <= max_size
        BY <1>2 DEF Longest
      <3>1. CASE k <= Len(names)
        BY <1>1, <2>2, <3>1 DEF Longest
      <3>2. CASE ~(k <= Len(names))
        BY <1>1, <2>2, <3>2, NameAssumption
      <3> QED
        BY <3>1, <3>2
    <2>5. colums' * rows' = colums * rows /\ colums * rows \in Nat /\ i + 1 <= colums * rows
      BY <1>1, <1>2, <1>6 DEF Padded
    <2>6. GridFits'
      BY <1>1, <1>2, <2>1, <2>2, <2>5 DEF ListingInv, GridFits
    <2> QED
      BY <1>4, <2>1, <2>3, <2>4, <2>6 DEF ListingInv, MapIsPermutation,
         ColumnsMeasured, RowPrinted, IndexSafe, PrintedOnce
  <1> QED
    BY <1>5, <1>6

(* What sort() leaves in map: a permutation of the positions. *)
LEMMA SortedIsPermutation ==
  ASSUME TypeOK, NEW n \in Nat, n <= Len(names), NEW m \in Sorted(n)
  PROVE  LET Positions == 0..(Len(names) - 1)
         IN /\ m \in [Positions -> Positions]
            /\ \A j \in Positions : \E p \in Positions : m[p] = j
  <1> DEFINE P == 0..(Len(names) - 1)
             Q == 0..(n - 1)
  <1>1. Len(names) \in Nat
    BY DEF TypeOK
  <1>2. PICK f \in Permutation(n) : m = [j \in P |-> IF j < n THEN f[j] ELSE j]
    BY DEF Sorted
  <1>3. f \in [Q -> Q] /\ \A k \in Q : \E j \in Q : f[j] = k
    BY <1>2 DEF Permutation
  <1>4. \A j \in P : (j < n => j \in Q) /\ j \in Nat
    BY <1>1
  <1>5. Q \subseteq P /\ \A j \in Q : j < n
    BY <1>1
  <1>6. m \in [P -> P]
    BY <1>2, <1>3, <1>4, <1>5
  <1>7. ASSUME NEW j \in P PROVE \E p \in P : m[p] = j
    <2>1. CASE j < n
      <3>1. PICK p \in Q : f[p] = j
        BY <1>3, <1>4, <2>1
      <3> QED
        BY <1>2, <1>5, <3>1
    <2>2. CASE ~(j < n)
      BY <1>2, <2>2
    <2> QED
      BY <2>1, <2>2
  <1> QED
    BY <1>6, <1>7

LEMMA SortStep ==
  ASSUME ListingInv, Sort
  PROVE  ListingInv'
  <1> USE DEF arrays, layout, screen
  <1>1. /\ TypeOK /\ pc = "sort" /\ pc' = "measure" /\ i' = 0
        /\ names \in Seq(Cells) /\ Len(names) \in Nat
        /\ colums \in Nat /\ rows \in Nat /\ count \in Nat /\ max_size \in Nat
        /\ Len(names) = colums * rows /\ count <= colums * rows
    <2>1. TypeOK /\ GridFits /\ pc = "sort" /\ pc' = "measure" /\ i' = 0
      BY DEF ListingInv, Sort
    <2>2. /\ names \in Seq(Cells) /\ Len(names) \in Nat
          /\ colums \in Nat /\ rows \in Nat /\ count \in Nat /\ max_size \in Nat
      BY <2>1 DEF TypeOK
    <2>3. Len(names) = colums * rows /\ count <= colums * rows
      BY <2>1, Zenon DEF GridFits
    <2> QED
      BY <2>1, <2>2, <2>3
  <1>2. UNCHANGED <<flags, names, room, block, dirs, max_size, count, width, colums, rows,
                    printed, cursor, edge>>
    BY DEF Sort
  <1>3. sizes' = [c \in 0..(colums - 1) |-> 0] /\ blocks' = blocks \union {"map", "sizes"}
    BY DEF Sort
  <1>4. map' \in Sorted(count)
    BY DEF Sort, SortMap
  <1>5. LET Positions == 0..(Len(names) - 1)
        IN /\ map' \in [Positions -> Positions]
           /\ \A j \in Positions : \E p \in Positions : map'[p] = j
    BY <1>1, <1>4, SortedIsPermutation
  <1>6. MapIsPermutation'
    BY <1>2, <1>5 DEF MapIsPermutation
  <1>7. map' \in [DOMAIN map' -> Nat]
    <2> DEFINE P == 0..(Len(names) - 1)
    <2>1. map' \in [P -> P]
      BY <1>5
    <2>2. P \subseteq Nat
      BY <1>1
    <2> HIDE DEF P
    <2> QED
      BY <2>1, <2>2
  <1>8. DOMAIN sizes' = 0..(colums - 1) /\ sizes' \in [0..(colums - 1) -> 0..max_size]
        /\ sizes' \in [DOMAIN sizes' -> Nat]
    BY <1>1, <1>3
  <1>9. TypeOK'
    BY <1>1, <1>2, <1>3, <1>7, <1>8 DEF TypeOK
  <1>10. printed' = <<>> /\ cursor' = 0 /\ edge' = 0
    BY <1>1, <1>2 DEF ListingInv, ScreenClean
  <1>11. CellsFit' /\ ScreenClean' /\ NoWrap'
    BY <1>1, <1>2, <1>10 DEF CellsFit, ScreenClean, NoWrap, TypeOK
  <1>12. Longest' /\ GridFits'
    BY <1>1, <1>2 DEF ListingInv, Longest, GridFits
  <1>13. ColumnsMeasured'
    BY <1>1, <1>2, <1>8 DEF ColumnsMeasured
  <1> QED
    BY <1>1, <1>6, <1>9, <1>11, <1>12, <1>13 DEF ListingInv, RowPrinted, IndexSafe, PrintedOnce

(* Facts that hold in both loops: the name in position p is a cell that    *)
(* fits max_size, and the grid is not empty.                               *)
LEMMA LoopFacts ==
  ASSUME ListingInv, pc \in {"measure", "print"}
  PROVE  /\ TypeOK
         /\ names \in Seq(Cells) /\ Len(names) \in Nat /\ Len(names) = colums * rows
         /\ colums \in Nat /\ colums >= 1 /\ rows \in Nat /\ rows >= 1
         /\ width \in Nat /\ colums * (max_size + 2) <= width
         /\ max_size \in Nat /\ i \in Nat /\ i <= Len(names)
         /\ sizes \in [0..(colums - 1) -> 0..max_size]
         /\ map \in [0..(Len(names) - 1) -> 0..(Len(names) - 1)]
         /\ \A p \in 0..(Len(names) - 1) :
              /\ NameLen[names[map[p] + 1]] \in Nat
              /\ NameLen[names[map[p] + 1]] <= max_size
  <1>1. /\ TypeOK
        /\ names \in Seq(Cells) /\ Len(names) \in Nat /\ Len(names) = colums * rows
        /\ colums \in Nat /\ colums >= 1 /\ rows \in Nat /\ rows >= 1
        /\ width \in Nat /\ colums * (max_size + 2) <= width
        /\ max_size \in Nat /\ i \in Nat /\ i <= Len(names)
    <2>1. TypeOK /\ GridFits /\ ColumnsMeasured
      BY DEF ListingInv
    <2>2. /\ names \in Seq(Cells) /\ Len(names) \in Nat /\ colums \in Nat /\ rows \in Nat
          /\ width \in Nat /\ max_size \in Nat /\ i \in Nat
      BY <2>1 DEF TypeOK
    <2>3. pc \in {"pad", "sort", "measure", "print"} /\ pc \in {"sort", "measure", "print"}
      OBVIOUS
    <2>4. /\ colums >= 1 /\ rows >= 1 /\ colums * (max_size + 2) <= width
          /\ Len(names) = colums * rows
      BY <2>1, <2>3, Zenon DEF GridFits
    <2>5. i <= Len(names)
      BY <2>1, Zenon DEF ColumnsMeasured
    <2> QED
      BY <2>1, <2>2, <2>4, <2>5
  <1>2. /\ sizes \in [0..(colums - 1) -> 0..max_size]
        /\ map \in [0..(Len(names) - 1) -> 0..(Len(names) - 1)]
    BY DEF ListingInv, ColumnsMeasured, MapIsPermutation
  <1>3. ASSUME NEW p \in 0..(Len(names) - 1)
        PROVE  /\ NameLen[names[map[p] + 1]] \in Nat
               /\ NameLen[names[map[p] + 1]] <= max_size
    <2>1. map[p] \in 0..(Len(names) - 1)
      BY <1>2
    <2>2. map[p] + 1 \in 1..Len(names)
      BY <1>1, <2>1
    <2>3. names[map[p] + 1] \in Cells
      BY <1>1, <2>2
    <2> QED
      BY <2>2, <2>3, LengthsAreNat DEF ListingInv, Longest
  <1> QED
    BY <1>1, <1>2, <1>3

LEMMA MeasureStep ==
  ASSUME ListingInv, Measure
  PROVE  ListingInv'
  <1> USE DEF arrays, layout, screen
  <1> DEFINE L == Len(names)
             Length(p) == NameLen[names[map[p] + 1]]
             c == i \div rows
  <1>1. pc = "measure"
    BY DEF Measure
  <1>2. /\ TypeOK
        /\ names \in Seq(Cells) /\ L \in Nat /\ L = colums * rows
        /\ colums \in Nat /\ colums >= 1 /\ rows \in Nat /\ rows >= 1
        /\ max_size \in Nat /\ i \in Nat /\ i <= L
        /\ sizes \in [0..(colums - 1) -> 0..max_size]
        /\ map \in [0..(L - 1) -> 0..(L - 1)]
        /\ \A p \in 0..(L - 1) : Length(p) \in Nat /\ Length(p) <= max_size
    BY <1>1, LoopFacts
  <1>3. \A p \in 0..(L - 1) : p < i => Length(p) <= sizes[p \div rows]
    BY <1>1 DEF ListingInv, ColumnsMeasured
  <1>4. UNCHANGED <<flags, names, room, block, dirs, max_size, count, width, colums, rows,
                    map, printed, cursor, edge, blocks>>
    BY DEF Measure
  <1>9. L = rows * colums
    BY <1>2
  <1>10. \A p \in 0..(L - 1) : NameLen[names'[map'[p] + 1]] = Length(p)
    BY <1>4
  <1>5. printed' = <<>> /\ cursor' = 0 /\ edge' = 0
    BY <1>1, <1>4 DEF ListingInv, ScreenClean
  <1>6. CellsFit' /\ NoWrap' /\ Longest' /\ printed = <<>>
    BY <1>2, <1>4, <1>5 DEF ListingInv, CellsFit, NoWrap, Longest, TypeOK
  <1>7. CASE i >= L
    <2>1. pc' = "print" /\ i' = 0 /\ sizes' = sizes
      BY <1>7 DEF Measure
    <2>2. TypeOK'
      BY <1>2, <1>4, <2>1 DEF TypeOK
    <2>3. GridFits' /\ MapIsPermutation'
      BY <1>1, <1>4, <2>1 DEF ListingInv, GridFits, MapIsPermutation
    <2>4. ColumnsMeasured'
      <3>1. \A p \in 0..(L - 1) : p < i
        BY <1>2, <1>7
      <3> HIDE DEF Length
      <3>2. \A p \in 0..(L - 1) : NameLen[names'[map'[p] + 1]] <= sizes'[p \div rows']
        BY <1>3, <1>4, <1>10, <2>1, <3>1
      <3>3. L' = L /\ i' <= L' /\ sizes' \in [0..(colums' - 1) -> 0..max_size']
        BY <1>2, <1>4, <2>1
      <3> QED
        BY <2>1, <3>2, <3>3 DEF ColumnsMeasured
    <2>5. 0 % colums = 0
      BY <1>2
    <2>6. RowPrinted'
      BY <1>2, <1>4, <1>5, <2>1, <2>5 DEF RowPrinted
    <2> QED
      BY <1>6, <2>1, <2>2, <2>3, <2>4, <2>6 DEF ListingInv, ScreenClean, IndexSafe, PrintedOnce
  <1>8. CASE i < L
    <2>1. c \in 0..(colums - 1) /\ DOMAIN sizes = 0..(colums - 1)
      <3>1. c \in Nat
        BY <1>2, DivMod
      <3>2. c < colums
        BY <1>2, <1>8, <1>9, DivBelow
      <3> QED
        BY <1>2, <3>1, <3>2
    <2>2. i \in 0..(L - 1) /\ ~(i >= L)
      BY <1>2, <1>8
    <2>3. /\ pc' = "measure" /\ i' = i + 1
          /\ sizes' = [sizes EXCEPT ![c] = Larger(sizes[c], Length(i))]
      BY <1>1, <2>1, <2>2 DEF Measure
    <2>4. sizes[c] \in 0..max_size /\ Length(i) \in Nat /\ Length(i) <= max_size
      BY <1>2, <2>1, <2>2
    <2> DEFINE s == Larger(sizes[c], Length(i))
    <2>5. s \in 0..max_size /\ sizes[c] <= s /\ Length(i) <= s
      <3> HIDE DEF c, Length
      <3>1. sizes[c] \in Nat /\ sizes[c] <= max_size
        BY <1>2, <2>4
      <3> QED
        BY <1>2, <2>4, <3>1 DEF Larger
    <2> HIDE DEF s, c, Length
    <2>6. sizes' \in [0..(colums - 1) -> 0..max_size]
      BY <1>2, <2>1, <2>3, <2>5 DEF s
    <2>7. \A d \in 0..(colums - 1) :
            /\ sizes'[d] = IF d = c THEN s ELSE sizes[d]
            /\ sizes[d] \in 0..max_size
            /\ sizes'[d] \in 0..max_size
            /\ sizes[d] <= sizes'[d]
      BY <1>2, <2>1, <2>3, <2>5 DEF s
    <2>8. sizes' \in [DOMAIN sizes' -> Nat]
      BY <1>2, <2>6
    <2>9. TypeOK'
      BY <1>2, <1>4, <2>3, <2>8 DEF TypeOK
    <2>10. ASSUME NEW p \in 0..(L - 1), p < i + 1
           PROVE  Length(p) <= sizes'[p \div rows]
      <3>1. CASE p = i
        BY <2>1, <2>5, <2>7, <3>1 DEF c
      <3>2. CASE p # i
        <4>1. p < i /\ Length(p) <= sizes[p \div rows]
          <5>1. p \in Nat /\ p < i
            BY <1>2, <2>10, <3>2
          <5> QED
            BY <1>3, <5>1
        <4>2. p \div rows \in 0..(colums - 1)
          <5>1. p \in Nat /\ p < rows * colums
            BY <1>2, <1>9
          <5>2. p \div rows \in Nat
            BY <1>2, <5>1, DivMod
          <5>3. p \div rows < colums
            BY <1>2, <5>1, DivBelow
          <5> QED
            BY <1>2, <5>2, <5>3
        <4> DEFINE d == p \div rows
        <4> HIDE DEF d
        <4>3. Length(p) \in Nat /\ Length(p) <= sizes[d] /\ d \in 0..(colums - 1)
          BY <1>2, <4>1, <4>2 DEF d
        <4>4. sizes[d] \in Nat /\ sizes'[d] \in Nat /\ sizes[d] <= sizes'[d]
          <5>1. sizes[d] \in 0..max_size /\ sizes'[d] \in 0..max_size /\ sizes[d] <= sizes'[d]
            BY <2>7, <4>3
          <5> QED
            BY <5>1
        <4> QED
          BY <4>3, <4>4 DEF d
      <3> QED
        BY <3>1, <3>2
    <2>11. ColumnsMeasured'
      <3>1. \A p \in 0..(L - 1) : p < i' =>
              NameLen[names'[map'[p] + 1]] <= sizes'[p \div rows']
        BY <1>4, <1>10, <2>3, <2>10
      <3>2. L' = L /\ i' <= L' /\ sizes' \in [0..(colums' - 1) -> 0..max_size']
        <4>1. L' = L /\ sizes' \in [0..(colums' - 1) -> 0..max_size']
          BY <1>4, <2>6
        <4>2. i + 1 <= L
          BY <1>2, <1>8
        <4> QED
          BY <2>3, <4>1, <4>2
      <3> QED
        BY <2>3, <3>1, <3>2 DEF ColumnsMeasured
    <2>12. GridFits' /\ MapIsPermutation'
      BY <1>1, <1>4, <2>3 DEF ListingInv, GridFits, MapIsPermutation
    <2> QED
      BY <1>5, <1>6, <2>3, <2>9, <2>11, <2>12
         DEF ListingInv, ScreenClean, RowPrinted, IndexSafe, PrintedOnce
  <1> QED
    BY <1>2, <1>7, <1>8

(* The share of the width a row has used when c of its cells are printed.  *)
LEMMA NextShare ==
  ASSUME NEW m \in Nat, NEW cs \in Nat, NEW c \in 0..(cs - 1), NEW w \in Nat,
         cs * (m + 2) <= w,
         NEW x \in Nat, x <= c * (m + 2), NEW s \in Nat, s <= m + 2
  PROVE  x + s <= (c + 1) * (m + 2) /\ x + s <= w
  <1>1. (c + 1) * (m + 2) = c * (m + 2) + (m + 2) /\ (c + 1) * (m + 2) \in Nat
        /\ c * (m + 2) \in Nat
    OBVIOUS
  <1>2. (c + 1) * (m + 2) <= cs * (m + 2) /\ cs * (m + 2) \in Nat
    OBVIOUS
  <1>3. x + s <= (c + 1) * (m + 2)
    BY <1>1
  <1> QED
    BY <1>1, <1>2, <1>3

LEMMA PrintStep ==
  ASSUME ListingInv, PrintCell
  PROVE  ListingInv'
  <1> USE DEF arrays, layout, screen
  <1> DEFINE L == Len(names)
             Length(p) == NameLen[names[map[p] + 1]]
             c == i % colums
             p == Cell(i)
             s == Larger(sizes[c] + 2, Length(p))
  <1>1. pc = "print"
    BY DEF PrintCell
  <1>2. /\ TypeOK
        /\ names \in Seq(Cells) /\ L \in Nat /\ L = colums * rows
        /\ colums \in Nat /\ colums >= 1 /\ rows \in Nat /\ rows >= 1
        /\ width \in Nat /\ colums * (max_size + 2) <= width
        /\ max_size \in Nat /\ i \in Nat /\ i <= L
        /\ sizes \in [0..(colums - 1) -> 0..max_size]
        /\ map \in [0..(L - 1) -> 0..(L - 1)]
        /\ \A q \in 0..(L - 1) : Length(q) \in Nat /\ Length(q) <= max_size
    BY <1>1, LoopFacts
  <1>3. \A q \in 0..(L - 1) : Length(q) <= sizes[q \div rows]
    BY <1>1 DEF ListingInv, ColumnsMeasured
  <1>4. UNCHANGED <<flags, names, room, block, dirs, max_size, count, width, colums, rows,
                    map, sizes, blocks>>
    BY DEF PrintCell
  <1>5. /\ cursor \in Nat /\ cursor <= c * (max_size + 2)
        /\ printed \in Seq(Nat) /\ Len(printed) = i
        /\ \A k \in 1..i : printed[k] = map[Cell(k - 1)]
    BY <1>1, <1>2 DEF ListingInv, RowPrinted, TypeOK
  <1>6. Longest' /\ \A q \in 0..(L - 1) : Length(q)' = Length(q)
    BY <1>4 DEF ListingInv, Longest
  <1>7. CASE i >= L
    <2>1. pc' = "release" /\ UNCHANGED <<i, printed, cursor, edge>>
      BY <1>1, <1>7 DEF PrintCell
    <2>2. TypeOK' /\ NoWrap'
      BY <1>2, <1>4, <2>1 DEF ListingInv, TypeOK, NoWrap
    <2>3. CellsFit'
      BY <1>4, <2>1 DEF ListingInv, CellsFit, PrintedName
    <2>4. Len(printed) = L /\ i = L
      BY <1>2, <1>5, <1>7
    <2>5. ASSUME NEW j \in 0..(L - 1)
          PROVE  \E k \in 1..L : printed[k] = j
      <3>1. PICK q \in 0..(L - 1) : map[q] = j
        BY <1>1 DEF ListingInv, MapIsPermutation
      <3>2. q \in Nat /\ q < colums * rows
        BY <1>2
      <3>3. PICK k \in 0..(colums * rows - 1) : rows * (k % colums) + k \div colums = q
        <4>1. rows \in Nat /\ rows >= 1 /\ colums \in Nat /\ colums >= 1
          BY <1>2
        <4> QED
          BY <3>2, <4>1, CellOnto
      <3>4. k \in Nat /\ k + 1 \in 1..L /\ (k + 1) - 1 = k
        BY <1>2, <3>3
      <3>5. Cell(k) = q
        BY <3>3 DEF Cell
      <3>6. printed[k + 1] = map[Cell(k)]
        BY <1>5, <2>4, <3>4
      <3> QED
        BY <3>1, <3>4, <3>5, <3>6
    <2>6. PrintedOnce'
      BY <1>4, <2>1, <2>4, <2>5 DEF PrintedOnce
    <2> QED
      BY <1>6, <2>1, <2>2, <2>3, <2>6 DEF ListingInv, ScreenClean, GridFits,
         MapIsPermutation, ColumnsMeasured, RowPrinted, IndexSafe
  <1>8. CASE i < L
    <2>1. c \in 0..(colums - 1) /\ p \in 0..(L - 1) /\ p \div rows = c
      <3>1. i < colums * rows
        BY <1>2, <1>8
      <3> QED
        BY <1>2, <3>1, CellInGrid DEF Cell
    <2>2. DOMAIN sizes = 0..(colums - 1) /\ DOMAIN map = 0..(L - 1) /\ ~(i >= L)
      BY <1>2, <1>8
    <2>3. /\ pc' = "print" /\ i' = i + 1
          /\ printed' = Append(printed, map[p])
          /\ edge' = cursor + s
          /\ cursor' = IF c = colums - 1 THEN 0 ELSE cursor + s
      BY <1>1, <2>1, <2>2 DEF PrintCell
    <2> HIDE DEF Length, c, p
    <2>4. Length(p) \in Nat /\ Length(p) <= max_size /\ Length(p) <= sizes[c]
      BY <1>2, <1>3, <2>1
    <2>5. sizes[c] \in 0..max_size
      BY <1>2, <2>1
    <2>6. s \in Nat /\ s <= max_size + 2
      <3>1. max_size \in Nat
        BY <1>2
      <3>2. sizes[c] + 2 \in Nat /\ sizes[c] + 2 <= max_size + 2
        BY <2>5, <3>1
      <3> QED
        BY <2>4, <3>1, <3>2 DEF Larger
    <2> HIDE DEF s
    <2>7. cursor + s <= (c + 1) * (max_size + 2) /\ cursor + s <= width
      BY <1>2, <1>5, <2>1, <2>6, NextShare
    <2>8. map[p] \in 0..(L - 1)
      BY <1>2, <2>1
    <2>9. map[p] \in Nat /\ cursor + s \in Nat
      BY <1>2, <1>5, <2>6, <2>8
    <2>10. /\ printed' \in Seq(Nat) /\ Len(printed') = i + 1
           /\ printed'[i + 1] = map[p]
           /\ \A k \in 1..i : printed'[k] = printed[k]
      <3>1. printed \in Seq(Nat) /\ Len(printed) = i /\ printed' = Append(printed, map[p])
        BY <1>2, <1>5, <2>3
      <3>2. PICK x \in Nat : x = map[p]
        BY <2>9
      <3>3. /\ Append(printed, x) \in Seq(Nat) /\ Len(Append(printed, x)) = Len(printed) + 1
            /\ Append(printed, x)[Len(printed) + 1] = x
            /\ \A k \in 1..Len(printed) : Append(printed, x)[k] = printed[k]
        BY <3>1
      <3> QED
        BY <3>1, <3>2, <3>3, Zenon
    <2>11. cursor' \in Nat /\ edge' \in Nat /\ i' \in Nat
      BY <1>2, <2>3, <2>9
    <2>12. TypeOK'
      BY <1>2, <1>4, <2>3, <2>10, <2>11 DEF TypeOK
    <2>13. NoWrap'
      BY <1>4, <2>3, <2>7 DEF NoWrap
    <2>14. cursor' <= (i' % colums') * (max_size' + 2)
      <3>1. CASE c = colums - 1
        <4>1. (i + 1) % colums = 0
          BY <1>2, <3>1, NextMod DEF c
        <4>2. 0 <= 0 * (max_size + 2)
          BY <1>2
        <4> QED
          BY <1>4, <2>3, <3>1, <4>1, <4>2
      <3>2. CASE c # colums - 1
        <4>1. (i + 1) % colums = c + 1
          BY <1>2, <3>2, NextMod DEF c
        <4> QED
          BY <1>4, <2>3, <2>7, <3>2, <4>1
      <3> QED
        BY <3>1, <3>2
    <2>15. \A k \in 1..i' : printed'[k] = (map')[Cell(k - 1)']
      <3> SUFFICES ASSUME NEW k \in 1..(i + 1) PROVE printed'[k] = map[Cell(k - 1)]
        BY <1>4, <2>3 DEF Cell
      <3>1. CASE k \in 1..i
        BY <1>5, <2>10, <3>1
      <3>2. CASE k = i + 1
        <4>1. k - 1 = i
          BY <1>2, <3>2
        <4> QED
          BY <2>10, <3>2, <4>1 DEF p
      <3> QED
        BY <1>2, <3>1, <3>2
    <2>16. RowPrinted'
      BY <2>3, <2>10, <2>14, <2>15 DEF RowPrinted
    <2>17. CellsFit'
      <3> SUFFICES ASSUME NEW k \in 1..(i + 1)
                   PROVE  NameLen[names[printed'[k] + 1]] <= sizes[(k - 1) % colums]
        BY <1>4, <2>10 DEF CellsFit, PrintedName
      <3>1. CASE k \in 1..i
        BY <1>5, <2>10, <3>1 DEF ListingInv, CellsFit, PrintedName
      <3>2. CASE k = i + 1
        <4>1. k - 1 = i
          BY <1>2, <3>2
        <4> QED
          BY <2>4, <2>10, <3>2, <4>1 DEF c, Length
      <3> QED
        BY <1>2, <3>1, <3>2
    <2>18. GridFits' /\ MapIsPermutation'
      BY <1>1, <1>4, <2>3 DEF ListingInv, GridFits, MapIsPermutation
    <2>19. ColumnsMeasured'
      <3>1. i + 1 <= L
        BY <1>2, <1>8
      <3>2. \A q \in 0..(L - 1) : NameLen[names'[map'[q] + 1]] <= sizes'[q \div rows']
        BY <1>3, <1>4 DEF Length
      <3> QED
        BY <1>2, <1>4, <2>3, <3>1, <3>2 DEF ColumnsMeasured
    <2> QED
      BY <1>6, <2>3, <2>12, <2>13, <2>16, <2>17, <2>18, <2>19
         DEF ListingInv, ScreenClean, IndexSafe, PrintedOnce
  <1> QED
    BY <1>2, <1>7, <1>8

LEMMA ListingStep ==
  ASSUME ListingInv, [Next]_vars
  PROVE  ListingInv'
  <1>1. CASE OpenDir
    BY <1>1, QuietStep DEF OpenDir
  <1>2. CASE Release
    BY <1>2, QuietStep DEF Release
  <1>3. CASE Recurse
    BY <1>3, QuietStep DEF Recurse
  <1>4. CASE Return
    BY <1>4, QuietStep DEF Return
  <1>5. CASE OutOfMemory
    <2>1. UNCHANGED blocks /\ pc' = "segv" /\ pc \in {"open", "read", "pad", "sort"}
      BY <1>5 DEF OutOfMemory
    <2> QED
      BY <1>5, <2>1, QuietStep DEF OutOfMemory
  <1>6. CASE UNCHANGED vars
    <2> USE <1>6 DEF vars, arrays, layout, screen, ListingInv
    <2>1. TypeOK'
      BY DEF TypeOK
    <2>2. Longest' /\ ScreenClean' /\ GridFits' /\ NoWrap' /\ IndexSafe'
      BY DEF Longest, ScreenClean, GridFits, NoWrap, IndexSafe
    <2>3. MapIsPermutation' /\ PrintedOnce'
      BY DEF MapIsPermutation, PrintedOnce
    <2>4. ColumnsMeasured'
      BY DEF ColumnsMeasured
    <2>5. RowPrinted'
      BY DEF RowPrinted, Cell
    <2>6. CellsFit'
      BY DEF CellsFit, PrintedName
    <2> QED
      BY <2>1, <2>2, <2>3, <2>4, <2>5, <2>6
  <1> QED
    BY <1>1, <1>2, <1>3, <1>4, <1>5, <1>6, ReadEntryStep, ReadEndStep, LayoutStep,
       PadStep, SortStep, MeasureStep, PrintStep DEF Next
-----------------------------------------------------------------------------
(* For every directory and every terminal width print_dir() keeps its      *)
(* indices inside its arrays, never prints past the terminal, never prints *)
(* a name wider than its column, and prints every entry exactly once.      *)
THEOREM ListingCorrect ==
  Spec => [](ListingInv /\ IndexSafe /\ NoWrap /\ CellsFit /\ PrintedOnce)
  <1>1. Init => ListingInv
    BY ListingInit
  <1>2. ListingInv /\ [Next]_vars => ListingInv'
    BY ListingStep
  <1>3. ListingInv => IndexSafe /\ NoWrap /\ CellsFit /\ PrintedOnce
    BY DEF ListingInv
  <1> QED
    BY <1>1, <1>2, <1>3, PTL DEF Spec

(* The variables of print_dir() keep their types, for every directory. *)
THEOREM ListingTypes == Spec => []TypeOK
  <1>1. ListingInv => TypeOK
    BY DEF ListingInv
  <1> QED
    BY <1>1, ListingCorrect, PTL

(* No index that print_dir() computes from rows and colums leaves an       *)
(* array, for every number of entries and every width.                     *)
THEOREM ListingStaysInArrays == Spec => []IndexSafe
  BY ListingCorrect, PTL

(* No line of a listing is wider than the terminal. *)
THEOREM ListingFitsTerminal == Spec => []NoWrap
  BY ListingCorrect, PTL

(* No name is wider than the column it is printed in. *)
THEOREM ListingFitsColumns == Spec => []CellsFit
  BY ListingCorrect, PTL

(* A complete listing has every entry exactly once. *)
THEOREM ListingIsComplete == Spec => []PrintedOnce
  BY ListingCorrect, PTL
-----------------------------------------------------------------------------
(***************************************************************************)
(* The blocks print_dir() holds, the pointers it keeps into one of them,   *)
(* and the division by the number of columns.                              *)
(***************************************************************************)

(* What is allocated, by the part of print_dir() that is next. *)
Held ==
  /\ pc = "open" => blocks = {}
  /\ pc \in {"recurse", "return"} => blocks \subseteq {"names", "dirs", "map"}
  /\ pc = "read" => blocks \subseteq Lists
  /\ pc = "done" => blocks \subseteq {"map"}

LEMMA HeldStep ==
  ASSUME TypeOK, Held, [Next]_vars
  PROVE  Held'
  <1> USE DEF Held, Lists
  <1>1. CASE OpenDir
    BY <1>1 DEF OpenDir
  <1>2. CASE \E e \in Name : ReadEntry(e)
    BY <1>2 DEF ReadEntry
  <1>3. CASE ReadEnd
    BY <1>3 DEF ReadEnd
  <1>4. CASE Layout
    BY <1>4 DEF Layout
  <1>5. CASE Pad
    BY <1>5 DEF Pad
  <1>6. CASE Sort
    BY <1>6 DEF Sort
  <1>7. CASE Measure
    BY <1>7 DEF Measure
  <1>8. CASE PrintCell
    BY <1>8 DEF PrintCell
  <1>9. CASE Release
    BY <1>9 DEF Release, TypeOK
  <1>10. CASE Recurse
    BY <1>10 DEF Recurse
  <1>11. CASE Return
    BY <1>11 DEF Return
  <1>12. CASE OutOfMemory
    BY <1>12 DEF OutOfMemory
  <1>13. CASE UNCHANGED vars
    BY <1>13 DEF vars
  <1> QED
    BY <1>1, <1>2, <1>3, <1>4, <1>5, <1>6, <1>7, <1>8, <1>9, <1>10, <1>11, <1>12, <1>13
       DEF Next

(* However print_dir() comes to return 0, by the early return or after a   *)
(* recursion, it has released all it allocated but map.                    *)
THEOREM BlocksReleased == Spec => []ReleasedAtReturn
  <1>1. Init => Held
    BY DEF Init, Held
  <1>2. TypeOK /\ Held /\ [Next]_vars => Held'
    BY HeldStep
  <1>3. Held => ReleasedAtReturn
    BY DEF Held, ReleasedAtReturn
  <1> QED
    BY <1>1, <1>2, <1>3, ListingTypes, PTL DEF Spec
-----------------------------------------------------------------------------
(* While names fits its first block the block has not moved, and each      *)
(* pointer in dirs is the place of a visible directory.                    *)
Pointer(p) ==
  /\ p.index < Len(names)
  /\ names[p.index + 1] \in Subdir \ Hidden
  /\ Len(names) <= DefaultCapacity => p.block = 0

Pointers ==
  /\ \A k \in 1..Len(dirs) : Pointer(dirs[k])
  /\ Len(names) <= DefaultCapacity => room = DefaultCapacity /\ block = 0

(* An insert keeps the pointers, and leaves the block where it is as long  *)
(* as there is room.                                                       *)
LEMMA InsertKeepsPointers ==
  ASSUME TypeOK, Pointers, NEW x \in Cells, InsertName(x)
  PROVE  /\ \A k \in 1..Len(dirs) :
              /\ dirs[k].index < Len(names')
              /\ names'[dirs[k].index + 1] \in Subdir \ Hidden
              /\ Len(names') <= DefaultCapacity => dirs[k].block = 0
         /\ Len(names') <= DefaultCapacity => room' = DefaultCapacity /\ block' = 0
  <1> DEFINE R == [index : Nat, block : Nat]
  <1>1. /\ names' \in Seq(Cells)
        /\ Len(names') = Len(names) + 1
        /\ \A k \in 1..Len(names') : names'[k] = IF k <= Len(names) THEN names[k] ELSE x
    BY InsertNameEffect
  <1>2. names \in Seq(Cells) /\ dirs \in Seq(R) /\ Len(names) \in Nat
    BY DEF TypeOK
  <1>3. ASSUME NEW k \in 1..Len(dirs)
        PROVE  /\ dirs[k].index < Len(names')
               /\ names'[dirs[k].index + 1] \in Subdir \ Hidden
               /\ Len(names') <= DefaultCapacity => dirs[k].block = 0
    <2> DEFINE n == dirs[k].index
    <2> HIDE DEF R
    <2>1. dirs[k] \in R
      BY <1>2
    <2> USE DEF R
    <2>2. n \in Nat
      BY <2>1
    <2>3. /\ n < Len(names) /\ names[n + 1] \in Subdir \ Hidden
          /\ Len(names) <= DefaultCapacity => dirs[k].block = 0
      BY DEF Pointers, Pointer
    <2> HIDE DEF n
    <2>4. names'[n + 1] = names[n + 1]
      <3>1. n + 1 \in 1..Len(names') /\ n + 1 <= Len(names)
        BY <1>1, <1>2, <2>2, <2>3
      <3> QED
        BY <1>1, <3>1
    <2>5. n < Len(names')
      BY <1>1, <1>2, <2>2, <2>3
    <2>6. Len(names') <= DefaultCapacity => dirs[k].block = 0
      BY <1>1, <1>2, <2>3, LayoutAssumption
    <2> QED
      BY <2>3, <2>4, <2>5, <2>6 DEF n
  <1>4. Len(names') <= DefaultCapacity => room' = DefaultCapacity /\ block' = 0
    BY <1>1, <1>2, LayoutAssumption DEF Pointers, InsertName, NeedsRoom
  <1> QED
    BY <1>3, <1>4

LEMMA PointersRead ==
  ASSUME TypeOK, TypeOK', Pointers, NEW e \in Name, ReadEntry(e)
  PROVE  Pointers'
  <1> DEFINE R == [index : Nat, block : Nat]
             x == [index |-> Len(names), block |-> block']
  <1>1. e \in Cells /\ InsertName(e)
    BY DEF Cells, ReadEntry
  <1>2. /\ names' \in Seq(Cells)
        /\ Len(names') = Len(names) + 1
        /\ \A k \in 1..Len(names') : names'[k] = IF k <= Len(names) THEN names[k] ELSE e
        /\ block' \in Nat
    BY <1>1, InsertNameEffect
  <1>3. names \in Seq(Cells) /\ dirs \in Seq(R) /\ Len(names) \in Nat
    BY DEF TypeOK
  <1>4. /\ \A k \in 1..Len(dirs) :
             /\ dirs[k].index < Len(names')
             /\ names'[dirs[k].index + 1] \in Subdir \ Hidden
             /\ Len(names') <= DefaultCapacity => dirs[k].block = 0
        /\ Len(names') <= DefaultCapacity => room' = DefaultCapacity /\ block' = 0
    BY <1>1, InsertKeepsPointers
  <1>5. names'[Len(names) + 1] = e
    BY <1>2, <1>3
  <1>6. CASE e \in Subdir \ Hidden
    <2>1. dirs' = Append(dirs, x)
      BY <1>6 DEF ReadEntry, NewIndex
    <2>2. x \in R
      BY <1>2, <1>3
    <2>3. /\ x.index < Len(names') /\ names'[x.index + 1] \in Subdir \ Hidden
          /\ Len(names') <= DefaultCapacity => x.block = 0
      BY <1>2, <1>3, <1>4, <1>5, <1>6
    <2> HIDE DEF x, R
    <2>4. \A k \in 1..Len(dirs') : dirs'[k] = IF k <= Len(dirs) THEN dirs[k] ELSE x
      BY <1>3, <2>1, <2>2
    <2>5. ASSUME NEW k \in 1..Len(dirs') PROVE Pointer(dirs[k])'
      <3>1. CASE k <= Len(dirs)
        <4>1. k \in 1..Len(dirs) /\ dirs'[k] = dirs[k]
          BY <1>3, <2>4, <3>1
        <4> QED
          BY <1>4, <4>1 DEF Pointer
      <3>2. CASE ~(k <= Len(dirs))
        <4>1. dirs'[k] = x
          BY <2>4, <3>2
        <4> QED
          BY <2>3, <4>1 DEF Pointer
      <3> QED
        BY <3>1, <3>2
    <2> QED
      BY <1>4, <2>5 DEF Pointers
  <1>7. CASE e \notin Subdir \ Hidden
    <2>1. dirs' = dirs
      BY <1>7 DEF ReadEntry
    <2> QED
      BY <1>4, <2>1 DEF Pointers, Pointer
  <1> QED
    BY <1>6, <1>7

LEMMA PointersStep ==
  ASSUME TypeOK, TypeOK', Pointers, [Next]_vars
  PROVE  Pointers'
  <1>1. CASE \E e \in Name : ReadEntry(e)
    BY <1>1, PointersRead
  <1>2. CASE Pad /\ ~Padded
    <2>1. InsertName(Empty) /\ Empty \in Cells /\ dirs' = dirs
      BY <1>2 DEF Pad, Cells
    <2> QED
      BY <2>1, InsertKeepsPointers DEF Pointers, Pointer
  <1>3. CASE UNCHANGED arrays
    BY <1>3 DEF arrays, Pointers, Pointer
  <1>4. CASE Pad /\ Padded
    BY <1>4 DEF Pad, Pointers, Pointer
  <1>5. CASE OpenDir \/ ReadEnd \/ Layout \/ Sort \/ Measure \/ PrintCell \/ Release
             \/ Recurse \/ Return \/ OutOfMemory
    <2>1. UNCHANGED arrays
      BY <1>5 DEF OpenDir, ReadEnd, Layout, Sort, Measure, PrintCell, Release, Recurse,
         Return, OutOfMemory
    <2> QED
      BY <1>3, <2>1
  <1>6. CASE UNCHANGED vars
    BY <1>3, <1>6 DEF vars
  <1> QED
    BY <1>1, <1>2, <1>4, <1>5, <1>6 DEF Next

(* The paths handed to the recursive ls() are live and name visible        *)
(* directories, for every directory whose padded listing has no more than  *)
(* DYNAMIC_DEFAULT_CAPACITY cells.                                         *)
THEOREM RecursionGetsLivePointers == Spec => []PointersLive
  <1>1. Init => Pointers
    BY DEF Init, Pointers
  <1>2. TypeOK /\ TypeOK' /\ Pointers /\ [Next]_vars => Pointers'
    BY PointersStep
  <1>3. Pointers => PointersLive
    BY DEF Pointers, Pointer, PointersLive
  <1> QED
    BY <1>1, <1>2, <1>3, ListingTypes, PTL DEF Spec
-----------------------------------------------------------------------------
(* max_size is the length of a name that is shown. *)
Attained ==
  /\ pc = "read" /\ names = <<>> => max_size = 0
  /\ pc \in {"read", "layout"} /\ names # <<>> =>
       \E k \in 1..Len(names) : NameLen[names[k]] = max_size
  /\ pc = "open" => names = <<>> /\ max_size = 0
  /\ NarrowOnly

LEMMA NoColumn ==
  ASSUME NEW w \in Nat, NEW m \in Nat, w \div (m + 2) = 0
  PROVE  m + 2 > w
  OBVIOUS

LEMMA AttainedRead ==
  ASSUME TypeOK, Attained, NEW e \in Name, ReadEntry(e)
  PROVE  Attained'
  <1>1. e \in Cells /\ InsertName(e) /\ pc = "read" /\ pc' = "read"
        /\ max_size' = Larger(max_size, NameLen[e])
    BY DEF Cells, ReadEntry
  <1>2. /\ Len(names') = Len(names) + 1
        /\ \A k \in 1..Len(names') : names'[k] = IF k <= Len(names) THEN names[k] ELSE e
        /\ names' \in Seq(Cells)
    BY <1>1, InsertNameEffect
  <1>3. names \in Seq(Cells) /\ max_size \in Nat /\ NameLen[e] \in Nat /\ Len(names) \in Nat
    BY <1>1, LengthsAreNat DEF TypeOK
  <1>4. names' # <<>>
    BY <1>2, <1>3
  <1>5. \E k \in 1..Len(names') : NameLen[names'[k]] = max_size'
    <2>1. CASE max_size' = NameLen[e]
      <3>1. names'[Len(names) + 1] = e /\ Len(names) + 1 \in 1..Len(names')
        BY <1>2, <1>3
      <3> QED
        BY <2>1, <3>1
    <2>2. CASE max_size' # NameLen[e]
      <3>1. max_size' = max_size /\ max_size > NameLen[e]
        BY <1>1, <1>3, <2>2 DEF Larger
      <3>2. names # <<>>
        BY <1>1, <1>3, <3>1 DEF Attained
      <3>3. PICK k \in 1..Len(names) : NameLen[names[k]] = max_size
        BY <1>1, <3>2 DEF Attained
      <3>4. k \in 1..Len(names') /\ names'[k] = names[k]
        BY <1>2, <1>3
      <3> QED
        BY <3>1, <3>3, <3>4
    <2> QED
      BY <2>1, <2>2
  <1> QED
    BY <1>1, <1>4, <1>5 DEF Attained, NarrowOnly

LEMMA AttainedLayout ==
  ASSUME ListingInv, Attained, Layout
  PROVE  Attained'
  <1>1. PICK w \in get_stdout_width :
             /\ width' = w
             /\ IF ColumsFor(w) = 0 THEN pc' = "sigfpe" ELSE pc' = "pad"
    BY DEF Layout
  <1>2. w \in Nat /\ max_size \in Nat /\ names \in Seq(Cells)
    BY LayoutAssumption DEF ListingInv, TypeOK, get_stdout_width
  <1>3. pc = "layout" /\ UNCHANGED <<names, max_size>>
    BY DEF Layout, arrays
  <1>4. names # <<>>
    BY <1>2, <1>3 DEF ListingInv, GridFits
  <1>5. PICK k \in 1..Len(names) : NameLen[names[k]] = max_size
    BY <1>3, <1>4 DEF Attained
  <1>6. pc' = "sigfpe" => max_size + 2 > w
    BY <1>1, <1>2, NoColumn DEF ColumsFor
  <1>7. NarrowOnly'
    BY <1>1, <1>3, <1>5, <1>6 DEF NarrowOnly
  <1> QED
    BY <1>1, <1>7 DEF Attained

LEMMA AttainedStep ==
  ASSUME ListingInv, Attained, [Next]_vars
  PROVE  Attained'
  <1> USE DEF Attained, NarrowOnly
  <1>1. CASE OpenDir
    BY <1>1 DEF OpenDir, arrays
  <1>2. CASE \E e \in Name : ReadEntry(e)
    BY <1>2, AttainedRead DEF ListingInv
  <1>3. CASE ReadEnd
    BY <1>3 DEF ReadEnd, arrays
  <1>4. CASE Layout
    BY <1>4, AttainedLayout
  <1>5. CASE Pad
    BY <1>5 DEF Pad
  <1>6. CASE Sort
    BY <1>6 DEF Sort
  <1>7. CASE Measure
    BY <1>7 DEF Measure
  <1>8. CASE PrintCell
    BY <1>8 DEF PrintCell
  <1>9. CASE Release
    BY <1>9 DEF Release
  <1>10. CASE Recurse
    BY <1>10 DEF Recurse
  <1>11. CASE Return
    BY <1>11 DEF Return
  <1>12. CASE OutOfMemory
    BY <1>12 DEF OutOfMemory
  <1>13. CASE UNCHANGED vars
    BY <1>13 DEF vars, arrays, layout
  <1> QED
    BY <1>1, <1>2, <1>3, <1>4, <1>5, <1>6, <1>7, <1>8, <1>9, <1>10, <1>11, <1>12, <1>13
       DEF Next

(* The division by zero of print_dir() happens only on a terminal that is  *)
(* too narrow for a name that is shown; a long hidden name is not enough.  *)
THEOREM OnlyNarrowTerminals == Spec => []NarrowOnly
  <1>1. Init => Attained
    BY DEF Init, Attained, NarrowOnly
  <1>2. ListingInv /\ Attained /\ [Next]_vars => Attained'
    BY AttainedStep
  <1>3. Attained => NarrowOnly
    BY DEF Attained
  <1>4. Spec => []ListingInv
    BY ListingCorrect, PTL
  <1> QED
    BY <1>1, <1>2, <1>3, <1>4, PTL DEF Spec
-----------------------------------------------------------------------------
(***************************************************************************)
(* The order of a listing: the entries sorted in map come out sorted down  *)
(* the columns, although they are printed by rows.                         *)
(***************************************************************************)

(* Position p of the grid is the cell printed in row p % r and column      *)
(* p \div r.                                                               *)
LEMMA DownIsCell ==
  ASSUME NEW r \in Nat, r >= 1, NEW c \in Nat, c >= 1,
         NEW p \in Nat, p < c * r
  PROVE  LET k == (p % r) * c + p \div r
         IN k \in 0..(c * r - 1) /\ r * (k % c) + k \div c = p
  <1> DEFINE q == p \div r
             d == p % r
             k == c * d + q
  <1>1. q \in Nat /\ d \in 0..(r - 1) /\ p = r * q + d
    BY DivMod
  <1>2. q < c
    BY DivBelow
  <1>3. d * c + q = k
    <2> HIDE DEF q, d
    <2> QED
      BY <1>1
  <1> HIDE DEF q, d
  <1>4. k \div c = d /\ k % c = q
    BY <1>1, <1>2, DivUnique
  <1>5. k \in Nat /\ k < c * (d + 1) /\ c * (d + 1) <= c * r
    BY <1>1, <1>2
  <1>6. k \in 0..(c * r - 1) /\ r * (k % c) + k \div c = p
    BY <1>1, <1>4, <1>5
  <1> QED
    BY <1>3, <1>6 DEF q, d
-----------------------------------------------------------------------------
(* Behind the entries there is only padding... *)
PadEmpty ==
  pc \in {"pad", "sort", "measure", "print", "release"} =>
    /\ count <= Len(names)
    /\ \A p \in count..(Len(names) - 1) : names[p + 1] = Empty

(* ...map has the entries sorted and the padding where it was... *)
MapSorted ==
  pc \in {"measure", "print", "release"} =>
    /\ \A p \in 1..(count - 1) : Ordered(map[p - 1], map[p])
    /\ \A p \in count..(Len(names) - 1) : map[p] = p

(* ...and what is printed is map, read by rows. *)
AllPrinted ==
  pc = "release" =>
    /\ colums >= 1 /\ rows >= 1 /\ Len(names) = colums * rows
    /\ Len(printed) = Len(names)
    /\ \A k \in 1..Len(printed) : printed[k] = map[Cell(k - 1)]

OrderInv == PadEmpty /\ MapSorted /\ AllPrinted

LEMMA PadEmptyStep ==
  ASSUME ListingInv, PadEmpty, [Next]_vars
  PROVE  PadEmpty'
  <1> USE DEF PadEmpty
  <1>1. names \in Seq(Cells) /\ count \in Nat /\ Len(names) \in Nat
    BY DEF ListingInv, TypeOK
  <1>2. CASE Layout
    <2>1. count = Len(names) /\ UNCHANGED <<names, count>>
      BY <1>2 DEF Layout, ListingInv, GridFits, arrays
    <2> QED
      BY <1>1, <2>1
  <1>3. CASE Pad /\ ~Padded
    <2>1. InsertName(Empty) /\ Empty \in Cells /\ count' = count /\ pc = "pad"
      BY <1>3 DEF Pad, Cells, layout
    <2>2. /\ Len(names') = Len(names) + 1
          /\ \A k \in 1..Len(names') : names'[k] = IF k <= Len(names) THEN names[k] ELSE Empty
      BY <2>1, InsertNameEffect DEF ListingInv
    <2>3. count <= Len(names')
      BY <1>1, <2>1, <2>2
    <2>4. ASSUME NEW p \in count..(Len(names') - 1) PROVE names'[p + 1] = Empty
      <3>1. p + 1 \in 1..Len(names') /\ p \in Nat
        BY <1>1, <2>2
      <3>2. CASE p + 1 <= Len(names)
        <4>1. p \in count..(Len(names) - 1)
          BY <1>1, <3>1, <3>2
        <4> QED
          BY <2>1, <2>2, <3>1, <3>2, <4>1
      <3>3. CASE ~(p + 1 <= Len(names))
        BY <2>2, <3>1, <3>3
      <3> QED
        BY <3>2, <3>3
    <2> QED
      BY <2>1, <2>3, <2>4
  <1>4. CASE Pad /\ Padded
    BY <1>4 DEF Pad, layout
  <1>5. CASE Sort
    BY <1>5 DEF Sort, arrays, layout
  <1>6. CASE Measure
    BY <1>6 DEF Measure, arrays, layout
  <1>7. CASE PrintCell
    BY <1>7 DEF PrintCell, arrays, layout
  <1>8. CASE OpenDir \/ (\E e \in Name : ReadEntry(e)) \/ ReadEnd \/ Release \/ Recurse
             \/ Return \/ OutOfMemory
    BY <1>8 DEF OpenDir, ReadEntry, ReadEnd, Release, Recurse, Return, OutOfMemory
  <1>9. CASE UNCHANGED vars
    BY <1>9 DEF vars, arrays, layout
  <1> QED
    BY <1>2, <1>3, <1>4, <1>5, <1>6, <1>7, <1>8, <1>9 DEF Next

LEMMA SortSorts ==
  ASSUME ListingInv, PadEmpty, Sort
  PROVE  MapSorted'
  <1>1. count \in Nat /\ Len(names) \in Nat /\ count <= Len(names)
    BY DEF ListingInv, TypeOK, PadEmpty, Sort
  <1>2. UNCHANGED <<flags, names, count>>
    BY DEF Sort, arrays, layout
  <1>3. PICK f \in Permutation(count) :
          /\ \A j \in 1..(count - 1) : Ordered(f[j - 1], f[j])
          /\ map' = [j \in 0..(Len(names) - 1) |-> IF j < count THEN f[j] ELSE j]
    BY DEF Sort, SortMap, Sorted
  <1>4. ASSUME NEW p \in 1..(count - 1) PROVE Ordered(map[p - 1], map[p])'
    <2>1. map'[p - 1] = f[p - 1] /\ map'[p] = f[p]
      BY <1>1, <1>3
    <2>2. Ordered(f[p - 1], f[p])
      BY <1>3
    <2> QED
      BY <1>2, <2>1, <2>2 DEF Ordered
  <1>5. ASSUME NEW p \in count..(Len(names) - 1) PROVE map'[p] = p
    BY <1>1, <1>3
  <1> QED
    BY <1>2, <1>4, <1>5 DEF MapSorted

LEMMA MapSortedStep ==
  ASSUME ListingInv, PadEmpty, MapSorted, [Next]_vars
  PROVE  MapSorted'
  <1>1. CASE Sort
    BY <1>1, SortSorts
  <1>2. ASSUME UNCHANGED <<flags, names, count, map>>, pc \in {"measure", "print", "release"}
        PROVE  MapSorted'
    BY <1>2 DEF MapSorted, Ordered
  <1>3. CASE Measure
    BY <1>2, <1>3 DEF Measure, arrays, layout
  <1>4. CASE PrintCell
    BY <1>2, <1>4 DEF PrintCell, arrays, layout
  <1>5. CASE OpenDir \/ (\E e \in Name : ReadEntry(e)) \/ ReadEnd \/ Layout \/ Pad \/ Release
             \/ Recurse \/ Return \/ OutOfMemory
    BY <1>5 DEF OpenDir, ReadEntry, ReadEnd, Layout, Pad, Release, Recurse, Return,
       OutOfMemory, MapSorted
  <1>6. CASE UNCHANGED vars
    BY <1>6 DEF vars, arrays, layout, MapSorted, Ordered
  <1> QED
    BY <1>1, <1>3, <1>4, <1>5, <1>6 DEF Next

LEMMA AllPrintedStep ==
  ASSUME ListingInv, AllPrinted, [Next]_vars
  PROVE  AllPrinted'
  <1>1. CASE PrintCell
    <2> SUFFICES ASSUME pc' = "release" PROVE AllPrinted'
      BY DEF AllPrinted
    <2>1. i >= Len(names) /\ pc = "print" /\ UNCHANGED <<names, colums, rows, map, printed>>
      BY <1>1 DEF PrintCell, arrays, layout, screen
    <2>2. /\ i \in Nat /\ Len(names) \in Nat /\ i <= Len(names) /\ Len(printed) = i
          /\ colums >= 1 /\ rows >= 1 /\ Len(names) = colums * rows
          /\ \A k \in 1..i : printed[k] = map[Cell(k - 1)]
      BY <2>1 DEF ListingInv, TypeOK, GridFits, ColumnsMeasured, RowPrinted
    <2>3. Len(printed) = Len(names)
      BY <2>1, <2>2
    <2> QED
      BY <2>1, <2>2, <2>3 DEF AllPrinted, Cell
  <1>2. CASE OpenDir \/ (\E e \in Name : ReadEntry(e)) \/ ReadEnd \/ Layout \/ Pad \/ Sort
             \/ Measure \/ Release \/ Recurse \/ Return \/ OutOfMemory
    BY <1>2 DEF OpenDir, ReadEntry, ReadEnd, Layout, Pad, Sort, Measure, Release, Recurse,
       Return, OutOfMemory, AllPrinted
  <1>3. CASE UNCHANGED vars
    BY <1>3 DEF vars, arrays, layout, screen, AllPrinted, Cell
  <1> QED
    BY <1>1, <1>2, <1>3 DEF Next

(* Read down the columns, a listing that is complete is map. *)
LEMMA DownIsMap ==
  ASSUME ListingInv, AllPrinted, pc = "release",
         NEW p \in 0..(Len(names) - 1)
  PROVE  printed[(p % rows) * colums + p \div rows + 1] = map[p]
  <1> DEFINE k == (p % rows) * colums + p \div rows
  <1>1. /\ colums \in Nat /\ rows \in Nat /\ colums >= 1 /\ rows >= 1
        /\ Len(names) = colums * rows /\ Len(printed) = Len(names)
        /\ Len(names) \in Nat
        /\ \A j \in 1..Len(printed) : printed[j] = map[Cell(j - 1)]
    BY DEF ListingInv, TypeOK, AllPrinted
  <1>2. p \in Nat /\ p < colums * rows
    BY <1>1
  <1>3. k \in 0..(colums * rows - 1) /\ rows * (k % colums) + k \div colums = p
    BY <1>1, <1>2, DownIsCell
  <1> HIDE DEF k
  <1>4. k + 1 \in 1..Len(printed) /\ (k + 1) - 1 = k
    BY <1>1, <1>3
  <1>5. printed[k + 1] = map[Cell(k)]
    BY <1>1, <1>4
  <1>6. Cell(k) = p
    BY <1>3 DEF Cell
  <1> QED
    BY <1>5, <1>6 DEF k

(* Read down the columns, the entries of a complete listing come in the    *)
(* order the flags ask for, with the padding behind them, for every        *)
(* directory, width and order of the flags.                                *)
THEOREM ListingIsSorted == Spec => []ColumnsSorted
  <1>1. Init => OrderInv
    BY DEF Init, OrderInv, PadEmpty, MapSorted, AllPrinted
  <1>2. ListingInv /\ OrderInv /\ [Next]_vars => OrderInv'
    BY PadEmptyStep, MapSortedStep, AllPrintedStep DEF OrderInv
  <1>3. ListingInv /\ OrderInv => ColumnsSorted
    <2> SUFFICES ASSUME ListingInv, OrderInv, pc = "release"
                 PROVE  /\ \A p \in 1..(count - 1) :
                             Ordered(printed[((p - 1) % rows) * colums + (p - 1) \div rows + 1],
                                     printed[(p % rows) * colums + p \div rows + 1])
                        /\ \A p \in count..(Len(names) - 1) :
                             names[printed[(p % rows) * colums + p \div rows + 1] + 1] = Empty
      BY DEF ColumnsSorted
    <2>1. count \in Nat /\ Len(names) \in Nat /\ count <= Len(names)
      BY DEF ListingInv, TypeOK, OrderInv, PadEmpty
    <2>2. ASSUME NEW p \in 1..(count - 1)
          PROVE  Ordered(printed[((p - 1) % rows) * colums + (p - 1) \div rows + 1],
                         printed[(p % rows) * colums + p \div rows + 1])
      <3>1. p \in 0..(Len(names) - 1) /\ p - 1 \in 0..(Len(names) - 1)
        BY <2>1
      <3>2. /\ printed[((p - 1) % rows) * colums + (p - 1) \div rows + 1] = map[p - 1]
            /\ printed[(p % rows) * colums + p \div rows + 1] = map[p]
        BY <3>1, DownIsMap DEF OrderInv
      <3>3. Ordered(map[p - 1], map[p])
        BY DEF OrderInv, MapSorted
      <3> QED
        BY <3>2, <3>3
    <2>3. ASSUME NEW p \in count..(Len(names) - 1)
          PROVE  names[printed[(p % rows) * colums + p \div rows + 1] + 1] = Empty
      <3>1. p \in 0..(Len(names) - 1)
        BY <2>1
      <3>2. printed[(p % rows) * colums + p \div rows + 1] = map[p]
        BY <3>1, DownIsMap DEF OrderInv
      <3>3. map[p] = p /\ names[p + 1] = Empty
        BY DEF OrderInv, MapSorted, PadEmpty
      <3> QED
        BY <3>2, <3>3
    <2> QED
      BY <2>2, <2>3
  <1>4. Spec => []ListingInv
    BY ListingCorrect, PTL
  <1> QED
    BY <1>1, <1>2, <1>3, <1>4, PTL DEF Spec
-----------------------------------------------------------------------------
(* The end of the listing                                                  *)

Loops == {"pad", "measure", "print"}

(* The parts of print_dir() that are still to come... *)
Stage ==
  IF pc = "open" THEN 10 ELSE IF pc = "read" THEN 9 ELSE IF pc = "layout" THEN 8
  ELSE IF pc = "pad" THEN 7 ELSE IF pc = "sort" THEN 6 ELSE IF pc = "measure" THEN 5
  ELSE IF pc = "print" THEN 4 ELSE IF pc = "release" THEN 3 ELSE IF pc = "recurse" THEN 2
  ELSE IF pc = "return" THEN 1 ELSE 0

(* ...and the turns of the current loop. *)
Turns ==
  IF pc = "pad" THEN colums * rows - i
  ELSE IF pc \in {"measure", "print"} THEN Len(names) - i ELSE 0

NatLess == {p \in Nat \X Nat : p[1] < p[2]}
Lower == LexPairOrdering(NatLess, NatLess, Nat, Nat)

LEMMA LowerWellFounded == IsWellFoundedOn(Lower, Nat \X Nat)
  <1>1. NatLess = OpToRel(<, Nat)
    BY DEF NatLess, OpToRel
  <1>2. IsWellFoundedOn(NatLess, Nat)
    BY <1>1, NatLessThanWellFounded
  <1> QED
    BY <1>2, WFLexPairOrdering DEF Lower

LEMMA LowerWhen ==
  ASSUME NEW a \in Nat, NEW b \in Nat, NEW p \in Nat, NEW q \in Nat,
         a < p \/ (a = p /\ b < q)
  PROVE  <<<<a, b>>, <<p, q>>>> \in Lower
  BY DEF Lower, LexPairOrdering, NatLess

LEMMA StageType == Stage \in 0..10
  BY DEF Stage

LEMMA TurnsType == ListingInv => Turns \in Nat
  <1> SUFFICES ASSUME ListingInv PROVE Turns \in Nat
    OBVIOUS
  <1>1. i \in Nat /\ names \in Seq(Cells) /\ colums \in Nat /\ rows \in Nat
    BY DEF ListingInv, TypeOK
  <1>2. Len(names) \in Nat
    BY <1>1
  <1>3. PICK n \in Nat : n = colums * rows
    BY <1>1
  <1>4. pc = "pad" => i <= n
    BY <1>3 DEF ListingInv, GridFits
  <1>5. pc \in {"measure", "print"} => i <= Len(names)
    BY DEF ListingInv, ColumnsMeasured
  <1> QED
    BY <1>1, <1>2, <1>3, <1>4, <1>5 DEF Turns

(* One more turn of a loop. *)
LEMMA TurnTaken ==
  ASSUME ListingInv, pc' = pc, i' = i + 1, pc \in Loops,
         pc = "pad" => UNCHANGED <<colums, rows>>,
         pc # "pad" => UNCHANGED names
  PROVE  Stage' = Stage /\ Turns' < Turns
  <1>1. i \in Nat /\ colums \in Nat /\ rows \in Nat /\ Len(names) \in Nat
    <2>1. i \in Nat /\ colums \in Nat /\ rows \in Nat /\ names \in Seq(Cells)
      BY DEF ListingInv, TypeOK
    <2> QED
      BY <2>1
  <1>2. PICK n \in Nat : n = IF pc = "pad" THEN colums * rows ELSE Len(names)
    BY <1>1
  <1>3. Turns = n - i
    BY <1>2 DEF Turns, Loops
  <1>4. Turns' = n - (i + 1)
    BY <1>2 DEF Turns, Loops
  <1> QED
    BY <1>1, <1>3, <1>4 DEF Stage

LEMMA StageOrTurn ==
  ASSUME ListingInv, Next
  PROVE  \/ Stage' < Stage
         \/ Stage' = Stage /\ Turns' < Turns
         \/ Stage' = Stage /\ Turns' = Turns /\ \E e \in Name : ReadEntry(e)
  <1>1. CASE OpenDir
    BY <1>1 DEF OpenDir, Stage
  <1>2. ASSUME NEW e \in Name, ReadEntry(e)
        PROVE  Stage' = Stage /\ Turns' = Turns
    BY <1>2 DEF ReadEntry, Stage, Turns
  <1>3. CASE ReadEnd
    BY <1>3 DEF ReadEnd, Stage
  <1>4. CASE Layout
    <2>1. pc = "layout" /\ pc' \in {"sigfpe", "pad"}
      BY <1>4 DEF Layout
    <2> QED
      BY <2>1 DEF Stage
  <1>5. CASE Pad
    <2>1. CASE pc' = "sort"
      BY <1>5, <2>1 DEF Pad, Stage
    <2>2. CASE pc' # "sort"
      <3>1. pc = "pad" /\ pc' = pc /\ i' = i + 1 /\ UNCHANGED <<colums, rows>>
        BY <1>5, <2>2 DEF Pad, layout
      <3> QED
        BY <3>1, TurnTaken DEF Loops
    <2> QED
      BY <2>1, <2>2
  <1>6. CASE Sort
    BY <1>6 DEF Sort, Stage
  <1>7. CASE Measure
    <2>1. pc = "measure" /\ UNCHANGED names /\ (pc' \in {"print", "ub"} \/ (pc' = pc /\ i' = i + 1))
      BY <1>7 DEF Measure, arrays
    <2>2. CASE pc' \in {"print", "ub"}
      BY <2>1, <2>2 DEF Stage
    <2>3. CASE pc' = pc /\ i' = i + 1
      BY <2>1, <2>3, TurnTaken DEF Loops
    <2> QED
      BY <2>1, <2>2, <2>3
  <1>8. CASE PrintCell
    <2>1. pc = "print" /\ UNCHANGED names /\ (pc' \in {"release", "ub"} \/ (pc' = pc /\ i' = i + 1))
      BY <1>8 DEF PrintCell, arrays
    <2>2. CASE pc' \in {"release", "ub"}
      BY <2>1, <2>2 DEF Stage
    <2>3. CASE pc' = pc /\ i' = i + 1
      BY <2>1, <2>3, TurnTaken DEF Loops
    <2> QED
      BY <2>1, <2>2, <2>3
  <1>9. CASE Release \/ Recurse \/ Return
    <2>1. \/ pc = "release" /\ pc' \in {"recurse", "return"}
          \/ pc = "recurse" /\ pc' \in {"return", "error"}
          \/ pc = "return" /\ pc' = "done"
      BY <1>9 DEF Release, Recurse, Return
    <2> QED
      BY <2>1 DEF Stage
  <1>10. CASE OutOfMemory
    <2>1. pc \in {"open", "read", "pad", "sort"} /\ pc' = "segv"
      BY <1>10 DEF OutOfMemory
    <2> QED
      BY <2>1 DEF Stage
  <1> QED
    BY <1>1, <1>2, <1>3, <1>4, <1>5, <1>6, <1>7, <1>8, <1>9, <1>10 DEF Next

(* For every directory, terminal and order of the flags: each step of      *)
(* print_dir() lowers a well-founded measure, but for the turns of the     *)
(* readdir() loop, which leave it alone.  The loops over the padded grid   *)
(* end however wide the terminal, so a listing ends when readdir() does.   *)
THEOREM ListingGetsOn ==
  /\ IsWellFoundedOn(Lower, Nat \X Nat)
  /\ Spec => /\ [](<<Stage, Turns>> \in Nat \X Nat)
             /\ [][\/ <<<<Stage, Turns>>', <<Stage, Turns>>>> \in Lower
                   \/ <<Stage, Turns>>' = <<Stage, Turns>> /\ \E e \in Name : ReadEntry(e)]_vars
  <1>1. ListingInv => <<Stage, Turns>> \in Nat \X Nat
    BY StageType, TurnsType
  <1>2. (ListingInv => <<Stage, Turns>> \in Nat \X Nat)'
    BY <1>1, PTL
  <1>3. ASSUME ListingInv, ListingInv', Next
        PROVE  \/ <<<<Stage, Turns>>', <<Stage, Turns>>>> \in Lower
               \/ <<Stage, Turns>>' = <<Stage, Turns>> /\ \E e \in Name : ReadEntry(e)
    <2>1. Stage \in Nat /\ Turns \in Nat /\ Stage' \in Nat /\ Turns' \in Nat
      BY <1>1, <1>2, <1>3
    <2>2. CASE Stage' < Stage \/ (Stage' = Stage /\ Turns' < Turns)
      <3>1. <<<<Stage', Turns'>>, <<Stage, Turns>>>> \in Lower
        BY <2>1, <2>2, LowerWhen
      <3> QED
        BY <3>1
    <2>3. CASE Stage' = Stage /\ Turns' = Turns /\ \E e \in Name : ReadEntry(e)
      BY <2>3
    <2> QED
      BY <1>3, <2>2, <2>3, StageOrTurn
  <1>4. ListingInv /\ ListingInv' /\ [Next]_vars =>
          [\/ <<<<Stage, Turns>>', <<Stage, Turns>>>> \in Lower
           \/ <<Stage, Turns>>' = <<Stage, Turns>> /\ \E e \in Name : ReadEntry(e)]_vars
    BY <1>3
  <1>5. Spec => []ListingInv
    BY ListingCorrect, PTL
  <1>6. Spec => /\ [](<<Stage, Turns>> \in Nat \X Nat)
                /\ [][\/ <<<<Stage, Turns>>', <<Stage, Turns>>>> \in Lower
                      \/ <<Stage, Turns>>' = <<Stage, Turns>> /\ \E e \in Name : ReadEntry(e)]_vars
    BY <1>1, <1>4, <1>5, PTL DEF Spec
  <1> QED
    BY <1>6, LowerWellFounded
=============================================================================
