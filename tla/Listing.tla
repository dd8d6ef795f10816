------------------------------ MODULE Listing -------------------------------
(***************************************************************************)
(* src/bin/ls.c, one directory: read_dir() collects the entries, then      *)
(* print_dir() lays them out in columns as wide as the terminal allows,    *)
(* sorts an index over them, measures the columns in one loop and prints   *)
(* row by row in another, and hands the subdirectories to ls().            *)
(*                                                                         *)
(* The arrays are DYNAMICs, here the sequences they implement (module      *)
(* Dynamic); what is kept of the block of `names` is whether it has moved, *)
(* because `dirs` holds pointers into it.  Colours and the blank line      *)
(* after the listing are left out, and with them `types` and `ino` except  *)
(* as blocks to release.                                                   *)
(***************************************************************************)
EXTENDS Integers, Sequences, FiniteSets

CONSTANTS
  Name,             \* entry names
  Empty,            \* the name "" of the cells that pad the last column
  Hidden,           \* the names that begin with '.'
  Subdir,           \* the names whose d_type is DT_DIR
  NameLen,          \* strlen
  Rank,             \* strcmp's order: a before b iff Rank[a] < Rank[b]
  Widths,           \* what get_stdout_width() may return
  DefaultCapacity,  \* DYNAMIC_DEFAULT_CAPACITY
  MaxEntries        \* bound: visible entries of a directory

ASSUME NameAssumption ==
  /\ Empty \notin Name
  /\ NameLen \in [Name \union {Empty} -> Nat]
  /\ NameLen[Empty] = 0
  /\ Rank \in [Name \union {Empty} -> Nat]
ASSUME LayoutAssumption ==
  /\ Widths \subseteq Nat
  /\ DefaultCapacity \in Nat \ {0}
  /\ MaxEntries \in Nat

VARIABLES
  pc,         \* where print_dir() is, or how it ended
  flags,      \* FLAGS: show_hidden, reverse, recursive, sort
  names,      \* the entry names, later padded with Empty
  room,       \* the capacity of names
  block,      \* how often the block of names has moved
  dirs,       \* pointers into names: the index and the block it was taken in
  max_size,   \* length of the longest name
  count,      \* entries before padding
  width,      \* columns of the terminal
  colums,     \* columns of the listing
  rows,       \* rows of the listing
  i,          \* the counter of the current loop
  map,        \* the sorted index: position -> index in names
  sizes,      \* the width of each column
  printed,    \* the indices in names of the cells printed so far
  cursor,     \* screen column where the next cell starts
  edge,       \* screen column where the last cell ended
  blocks      \* the allocations print_dir() holds

arrays == <<names, room, block, dirs, max_size>>
layout == <<count, width, colums, rows>>
screen == <<printed, cursor, edge>>
vars == <<pc, flags, arrays, layout, i, map, sizes, screen, blocks>>
-----------------------------------------------------------------------------
(* Definitions named Faulty... are plausible mistakes in the code they     *)
(* stand next to.  No specification uses them: each takes the place of the *)
(* definition that follows it to see that a property notices.              *)

(* The options that matter to one directory. *)
Flags ==
  [show_hidden : BOOLEAN, reverse : BOOLEAN, recursive : BOOLEAN,
   sort : {"NONE", "NAME", "WIDTH"}]

(* The results of get_stdout_width(): ws_col is returned whether or not    *)
(* ioctl() has set it.                                                     *)
get_stdout_width == Widths

Larger(a, b) == IF a > b THEN a ELSE b

Lists == {"names", "types", "ino", "dirs"}

(* Reallocating one element before the array is full. *)
FaultyNeedsRoom(n, c) == n + 1 = c

(* dynamic_grow() moves the block only when it is full. *)
NeedsRoom(n, c) == n = c

(* dynamic_insert(&names, x) *)
InsertName(x) ==
  /\ names' = Append(names, x)
  /\ IF NeedsRoom(Len(names), room)
     THEN room' = 2 * room /\ block' \in {block, block + 1}
     ELSE UNCHANGED <<room, block>>

Init ==
  /\ pc = "open"
  /\ flags \in Flags
  /\ names = <<>> /\ room = DefaultCapacity /\ block = 0 /\ dirs = <<>>
  /\ max_size = 0
  /\ count = 0 /\ width = 0 /\ colums = 0 /\ rows = 0
  /\ i = 0
  /\ map = [j \in {} |-> 0]
  /\ sizes = [j \in {} |-> 0]
  /\ printed = <<>> /\ cursor = 0 /\ edge = 0
  /\ blocks = {}

(* opendir(), then the four arrays.  A directory that cannot be opened is  *)
(* silently listed as nothing: print_dir() returns 0.                      *)
OpenDir ==
  /\ pc = "open"
  /\ \/ pc' = "done" /\ UNCHANGED blocks
     \/ pc' = "read" /\ blocks' = Lists
  /\ UNCHANGED <<flags, arrays, layout, i, map, sizes, screen>>

Visible(e) == e \notin Hidden \/ flags.show_hidden

(* The longest name taken over the entries that are not shown, too. *)
FaultyReadEntry(e) ==
  /\ pc = "read"
  /\ Len(names) < MaxEntries
  /\ max_size' = Larger(max_size, NameLen[e])
  /\ IF Visible(e) THEN InsertName(e) ELSE UNCHANGED <<names, room, block>>
  /\ UNCHANGED <<pc, flags, dirs, layout, i, map, sizes, screen, blocks>>

(* The counter i of read_dir(): the index the entry read gets in names. *)
NewIndex == Len(names)

(* One turn of the readdir() loop.  The pointer for dirs is taken from     *)
(* names after the insert, so it is valid when it is stored.               *)
ReadEntry(e) ==
  /\ pc = "read"
  /\ Len(names) < MaxEntries
  /\ Visible(e)
  /\ max_size' = Larger(max_size, NameLen[e])
  /\ InsertName(e)
  /\ dirs' = IF e \in Subdir \ Hidden
             THEN Append(dirs, [index |-> NewIndex, block |-> block'])
             ELSE dirs
  /\ UNCHANGED <<pc, flags, layout, i, map, sizes, screen, blocks>>

(* An early return that forgets the arrays. *)
FaultyReadEnd ==
  /\ pc = "read"
  /\ count' = Len(names)
  /\ pc' = IF names = <<>> THEN "done" ELSE "layout"
  /\ UNCHANGED <<flags, arrays, width, colums, rows, i, map, sizes, screen, blocks>>

(* readdir() returns NULL; an empty listing releases everything at once. *)
ReadEnd ==
  /\ pc = "read"
  /\ count' = Len(names)
  /\ IF names = <<>>
     THEN pc' = "done" /\ blocks' = blocks \ Lists
     ELSE pc' = "layout" /\ UNCHANGED blocks
  /\ UNCHANGED <<flags, arrays, width, colums, rows, i, map, sizes, screen>>

(* One blank between the columns instead of two. *)
FaultyColumsFor(w) == w \div (max_size + 1)

(* The columns of a terminal w wide... *)
ColumsFor(w) == w \div (max_size + 2)

(* ...and the rows that c of them need. *)
RowsFor(c) == (count + c - 1) \div c

(* The division by colums kills the process when no column fits. *)
Layout ==
  /\ pc = "layout"
  /\ \E w \in get_stdout_width :
       /\ width' = w
       /\ colums' = ColumsFor(w)
       /\ IF ColumsFor(w) = 0
          THEN pc' = "sigfpe" /\ UNCHANGED <<rows, i>>
          ELSE pc' = "pad" /\ rows' = RowsFor(ColumsFor(w)) /\ i' = count
  /\ UNCHANGED <<flags, arrays, count, map, sizes, screen, blocks>>

(* One cell too many. *)
FaultyPadded == i > colums * rows

(* Every cell of the grid has an entry. *)
Padded == i >= colums * rows

Pad ==
  /\ pc = "pad"
  /\ IF Padded
     THEN pc' = "sort" /\ UNCHANGED <<names, room, block, i>>
     ELSE InsertName(Empty) /\ i' = i + 1 /\ UNCHANGED pc
  /\ UNCHANGED <<flags, dirs, max_size, layout, map, sizes, screen, blocks>>

(* The comparison functions: j may stand before k. *)
Ordered(j, k) ==
  LET a == names[j + 1]
      b == names[k + 1]
      InOrder(x, y) == IF flags.reverse THEN x >= y ELSE x <= y
  IN IF flags.sort = "NONE" THEN InOrder(j, k)
     ELSE IF flags.sort = "NAME" \/ NameLen[a] = NameLen[b] THEN InOrder(Rank[a], Rank[b])
     ELSE InOrder(NameLen[a], NameLen[b])

Permutation(n) ==
  {f \in [0..(n - 1) -> 0..(n - 1)] : \A k \in 0..(n - 1) : \E j \in 0..(n - 1) : f[j] = k}

(* qsort() of the first n positions of map; the others stay where they are. *)
Sorted(n) ==
  {[j \in 0..(Len(names) - 1) |-> IF j < n THEN f[j] ELSE j] :
     f \in {g \in Permutation(n) : \A j \in 1..(n - 1) : Ordered(g[j - 1], g[j])}}

(* Sorting the padding with the entries. *)
FaultySortMap == map' \in Sorted(Len(names))

SortMap == map' \in Sorted(count)

(* map is filled with 0, 1, ... and sorted, sizes is cleared. *)
Sort ==
  /\ pc = "sort"
  /\ SortMap
  /\ sizes' = [c \in 0..(colums - 1) |-> 0]
  /\ blocks' = blocks \union {"map", "sizes"}
  /\ i' = 0
  /\ pc' = "measure"
  /\ UNCHANGED <<flags, arrays, layout, screen>>

(* One turn of the loop that measures column i / rows. *)
Measure ==
  /\ pc = "measure"
  /\ LET c == i \div rows
         n == NameLen[names[map[i] + 1]]
     IN IF i >= Len(names) THEN pc' = "print" /\ i' = 0 /\ UNCHANGED sizes
        ELSE IF c \notin DOMAIN sizes THEN pc' = "ub" /\ UNCHANGED <<i, sizes>>
        ELSE /\ sizes' = [sizes EXCEPT ![c] = Larger(@, n)]
             /\ i' = i + 1
             /\ UNCHANGED pc
  /\ UNCHANGED <<flags, arrays, layout, map, screen, blocks>>

(* The cells taken row by row although they were measured by column. *)
FaultyCellByRow(k) == k

(* A slip in the second term: some cells twice, others never. *)
FaultyCell(k) == rows * (k % colums) + (k % rows)

(* The position in map of the k-th cell printed: the grid is filled by     *)
(* columns and printed by rows.                                            *)
Cell(k) == rows * (k % colums) + k \div colums

(* One turn of the printing loop: printf("%-*s", sizes[i % colums] + 2). *)
PrintCell ==
  /\ pc = "print"
  /\ LET c == i % colums
         end == cursor + Larger(sizes[c] + 2, NameLen[names[map[Cell(i)] + 1]])
     IN IF i >= Len(names)
        THEN pc' = "release" /\ UNCHANGED <<i, screen>>
        ELSE IF c \notin DOMAIN sizes \/ Cell(i) \notin DOMAIN map
        THEN pc' = "ub" /\ UNCHANGED <<i, screen>>
        ELSE /\ printed' = Append(printed, map[Cell(i)])
             /\ edge' = end
             /\ cursor' = IF c = colums - 1 THEN 0 ELSE end
             /\ i' = i + 1
             /\ UNCHANGED pc
  /\ UNCHANGED <<flags, arrays, layout, map, sizes, blocks>>

(* What is not needed by ls() is released; map never is. *)
Release ==
  /\ pc = "release"
  /\ blocks' = blocks \ {"sizes", "types", "ino"}
  /\ pc' = IF flags.recursive /\ dirs # <<>> THEN "recurse" ELSE "return"
  /\ UNCHANGED <<flags, arrays, layout, i, map, sizes, screen>>

(* The call of ls() on dirs; an error is passed on at once. *)
Recurse ==
  /\ pc = "recurse"
  /\ pc' \in {"return", "error"}
  /\ UNCHANGED <<flags, arrays, layout, i, map, sizes, screen, blocks>>

Return ==
  /\ pc = "return"
  /\ blocks' = blocks \ {"names", "dirs"}
  /\ pc' = "done"
  /\ UNCHANGED <<flags, arrays, layout, i, map, sizes, screen>>

(* malloc(), calloc() and realloc() are checked nowhere; an insert calls   *)
(* realloc() only once the first block is full.                            *)
OutOfMemory ==
  /\ \/ pc \in {"open", "sort"}
     \/ /\ pc = "read" \/ (pc = "pad" /\ ~Padded)
        /\ Len(names) >= DefaultCapacity
  /\ pc' = "segv"
  /\ UNCHANGED <<flags, arrays, layout, i, map, sizes, screen, blocks>>

Next ==
  \/ OpenDir
  \/ \E e \in Name : ReadEntry(e)
  \/ ReadEnd
  \/ Layout
  \/ Pad
  \/ Sort
  \/ Measure
  \/ PrintCell
  \/ Release
  \/ Recurse
  \/ Return
  \/ OutOfMemory

Spec == Init /\ [][Next]_vars
-----------------------------------------------------------------------------
Cells == Name \union {Empty}

TypeOK ==
  /\ pc \in {"open", "read", "layout", "pad", "sort", "measure", "print", "release",
             "recurse", "return", "done", "error", "sigfpe", "segv", "ub"}
  /\ flags \in Flags
  /\ names \in Seq(Cells)
  /\ room \in Nat /\ block \in Nat
  /\ dirs \in Seq([index : Nat, block : Nat])
  /\ max_size \in Nat
  /\ count \in Nat /\ width \in Nat /\ colums \in Nat /\ rows \in Nat
  /\ i \in Nat
  /\ map \in [DOMAIN map -> Nat]
  /\ sizes \in [DOMAIN sizes -> Nat]
  /\ printed \in Seq(Nat)
  /\ cursor \in Nat /\ edge \in Nat
  /\ blocks \subseteq Lists \union {"map", "sizes"}

(* The cell in position k of the listing, as printed row by row. *)
PrintedName(k) == names[printed[k] + 1]

(* No index computed from rows and colums leaves an array: not i / rows in *)
(* the measuring loop, nor rows * (i % colums) + i / colums in the         *)
(* printing one.                                                           *)
IndexSafe == pc # "ub"

(* No line of the listing is wider than the terminal, whichever names end  *)
(* up in a row: columns are allotted by the longest name, cells are padded *)
(* to the width of their own column.                                       *)
NoWrap == edge <= width

(* Every name printed fits the width measured for its column, so columns   *)
(* line up: the loop that measures (by i / rows) and the loop that prints  *)
(* (by i % colums) agree on which column a cell is in.                     *)
CellsFit ==
  \A k \in 1..Len(printed) :
    NameLen[PrintedName(k)] <= sizes[(k - 1) % colums]

(* When the listing is complete every entry has been printed exactly once, *)
(* the padding too.                                                        *)
PrintedOnce ==
  pc = "release" =>
    /\ Len(printed) = Len(names)
    /\ \A j \in 0..(Len(names) - 1) : \E k \in 1..Len(printed) : printed[k] = j

(* Read down the columns, the entries come in the order the flags ask for, *)
(* and all the padding comes after them.                                   *)
ColumnsSorted ==
  pc = "release" =>
    LET At(r, c) == printed[r * colums + c + 1]
        Down(p) == At(p % rows, p \div rows)
    IN /\ \A p \in 1..(count - 1) : Ordered(Down(p - 1), Down(p))
       /\ \A p \in count..(Len(names) - 1) : names[Down(p) + 1] = Empty

(* The division by zero needs a name that is shown and does not fit in the *)
(* terminal with its two blanks.                                           *)
NarrowOnly ==
  pc = "sigfpe" => \E k \in 1..Len(names) : NameLen[names[k]] + 2 > width

(* The paths handed to the recursive ls() are live pointers as long as the *)
(* padded listing fits the first block of names.  (Beyond it they are not: *)
(* dynamic_insert() may move the block they point into.)                   *)
PointersLive ==
  pc = "recurse" /\ Len(names) <= DefaultCapacity =>
    \A k \in 1..Len(dirs) : /\ dirs[k].block = block
                            /\ names[dirs[k].index + 1] \in Subdir \ Hidden

(* print_dir() returns 0 having released all it allocated but map. *)
ReleasedAtReturn == pc = "done" => blocks \subseteq {"map"}

(* Why print_dir() is right, as an inductive invariant: no name is longer  *)
(* than max_size; the grid of colums by rows holds every entry and fits    *)
(* the terminal; map is a permutation of it; the columns measured so far   *)
(* hold their names; and the row printed so far has not used more than its *)
(* share of the width.                                                     *)
Longest == \A k \in 1..Len(names) : NameLen[names[k]] <= max_size

ScreenClean ==
  pc \in {"open", "read", "layout", "pad", "sort", "measure"} =>
    printed = <<>> /\ cursor = 0 /\ edge = 0

GridFits ==
  /\ pc = "layout" => count = Len(names) /\ count >= 1
  /\ pc \in {"pad", "sort", "measure", "print"} =>
       /\ colums >= 1 /\ rows >= 1
       /\ colums * (max_size + 2) <= width
       /\ count <= colums * rows
  /\ pc = "pad" => i = Len(names) /\ i <= colums * rows
  /\ pc \in {"sort", "measure", "print"} => Len(names) = colums * rows

MapIsPermutation ==
  pc \in {"measure", "print"} =>
    LET Positions == 0..(Len(names) - 1)
    IN /\ map \in [Positions -> Positions]
       /\ \A j \in Positions : \E p \in Positions : map[p] = j

ColumnsMeasured ==
  /\ pc \in {"measure", "print"} => sizes \in [0..(colums - 1) -> 0..max_size]
  /\ pc \in {"measure", "print"} => i <= Len(names)
  /\ \A p \in 0..(Len(names) - 1) :
       (pc = "measure" /\ p < i) \/ pc = "print" =>
         NameLen[names[map[p] + 1]] <= sizes[p \div rows]

RowPrinted ==
  pc = "print" =>
    /\ cursor <= (i % colums) * (max_size + 2)
    /\ Len(printed) = i
    /\ \A k \in 1..i : printed[k] = map[Cell(k - 1)]

ListingInv ==
  /\ TypeOK
  /\ Longest
  /\ ScreenClean
  /\ GridFits
  /\ MapIsPermutation
  /\ ColumnsMeasured
  /\ RowPrinted
  /\ IndexSafe
  /\ NoWrap
  /\ CellsFit
  /\ PrintedOnce
=============================================================================
