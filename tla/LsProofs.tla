------------------------------ MODULE LsProofs ------------------------------
(***************************************************************************)
(* Theorems about the walk of src/bin/ls.c for every directory tree, every *)
(* command line and every interleaving with the processes that change the  *)
(* tree.                                                                   *)
(***************************************************************************)
EXTENDS Ls, TLAPS, SequenceTheorems, FiniteSetTheorems, WellFoundedInduction

Named == Dir \union {Missing}
Visible == Dir \ (Hidden \union {Cwd})

Blocks ==
  {"static", "null", "paths", "full_path", "names", "dirs"} \X Nat \X Nat

Frames ==
  [path : Blocks, dirs : Seq(Named), source : Blocks, i : Nat, full : Blocks]

FlagSets ==
  [show_hidden : BOOLEAN, reverse : BOOLEAN, sort : {"NONE", "NAME", "WIDTH"},
   list : {FALSE}, recursive : BOOLEAN]

(* An activation of ls() is under way. *)
Walking == {"enter", "turn", "print", "read", "back"}

(* The steps of print_dir() that list nothing. *)
Skips == OpenFails \/ OpenDir \/ PrintNothing

TypeInv ==
  /\ pc \in Running \union Ended
  /\ argv \in Seq(Arguments)
  /\ arg \in 1..(Len(argv) + 1)
  /\ flags \in FlagSets
  /\ paths \in Seq(Named)
  /\ stack \in Seq(Frames)
  /\ err \in Nat
  /\ listed \in Seq(Dir)
  /\ present \subseteq Dir
  /\ changed \subseteq Dir \ {Cwd}
  /\ touched \subseteq Dir

(* Where ls is tells what it has read, what is on the stack and whether an *)
(* error is under way: only a usage error ever is, and it ends ls.         *)
ControlInv ==
  /\ pc = "parse" => stack = <<>> /\ listed = <<>> /\ err = 0
  /\ pc \in Walking => stack # <<>> /\ arg = Len(argv) + 1 /\ err = 0
  /\ pc \in {"print", "read"} => Top.i \in 1..Len(Top.dirs)
  /\ pc = "back" => Top.i = Len(Top.dirs)
  /\ \A k \in 1..(Depth - 1) : stack[k].i \in 1..Len(stack[k].dirs)
  /\ \A k \in 1..Depth : stack[k].i \in 0..Len(stack[k].dirs)
  /\ pc = "exit" => stack = <<>>

(* The directory being read was there when it was opened; what has changed *)
(* in it since then are visible entries of it.                             *)
ReadInv ==
  /\ pc \notin {"read"} \union Ended => touched = {}
  /\ touched \subseteq changed
  /\ pc = "read" => /\ Current \in present \union changed
                    /\ \A c \in touched : c \in Visible /\ Parent[c] = Current

StructInv == TypeInv /\ ControlInv /\ ReadInv
-----------------------------------------------------------------------------
(* The stack. *)
LEMMA TopType ==
  ASSUME stack \in Seq(Frames), stack # <<>>
  PROVE  /\ Depth \in Nat \ {0} /\ Top \in Frames
         /\ Top.dirs \in Seq(Named) /\ Len(Top.dirs) \in Nat /\ Top.i \in Nat
         /\ \A k \in 1..Depth : stack[k] \in Frames
  <1>1. Depth \in Nat \ {0} /\ \A k \in 1..Depth : stack[k] \in Frames
    BY EmptySeq, LenProperties, ElementOfSeq DEF Depth
  <1>2. Top \in Frames
    BY <1>1 DEF Top
  <1> QED
    BY <1>1, <1>2, LenProperties DEF Frames

(* A step of the activation on top. *)
LEMMA UpdateEffect ==
  ASSUME stack \in Seq(Frames), stack # <<>>, NEW frame \in Frames
  PROVE  /\ Update(frame) \in Seq(Frames) /\ Update(frame) # <<>>
         /\ Len(Update(frame)) = Depth
         /\ \A k \in 1..Depth : Update(frame)[k] = IF k = Depth THEN frame ELSE stack[k]
  <1>1. Depth \in Nat \ {0}
    BY TopType
  <1>2. Len(Update(frame)) = Depth /\ Update(frame) \in Seq(Frames)
    BY <1>1, ExceptSeq DEF Depth, Update
  <1>3. \A k \in 1..Depth : Update(frame)[k] = IF k = Depth THEN frame ELSE stack[k]
    BY <1>1, ExceptSeq DEF Depth, Update
  <1> QED
    BY <1>1, <1>2, <1>3, EmptySeq

(* A call of ls(). *)
LEMMA PushEffect ==
  ASSUME stack \in Seq(Frames), NEW frame \in Frames
  PROVE  /\ Append(stack, frame) \in Seq(Frames) /\ Append(stack, frame) # <<>>
         /\ Len(Append(stack, frame)) = Depth + 1
         /\ Append(stack, frame)[Depth + 1] = frame
         /\ \A k \in 1..Depth : Append(stack, frame)[k] = stack[k]
  BY AppendProperties DEF Depth

(* A return from ls(). *)
LEMMA CallerEffect ==
  ASSUME stack \in Seq(Frames), Depth > 1
  PROVE  /\ Caller \in Seq(Frames) /\ Caller # <<>>
         /\ Len(Caller) = Depth - 1
         /\ \A k \in 1..(Depth - 1) : Caller[k] = stack[k]
  <1>1. Depth \in Nat
    BY LenProperties DEF Depth
  <1>2. Caller \in Seq(Frames) /\ Len(Caller) = Depth - 1
    BY <1>1, SubSeqProperties DEF Depth, Caller
  <1>3. \A k \in 1..(Depth - 1) : Caller[k] = stack[k]
    BY <1>1, SubSeqProperties DEF Depth, Caller
  <1> QED
    BY <1>1, <1>2, <1>3, EmptySeq

LEMMA FrameType ==
  ASSUME NEW path \in Blocks, NEW dirs \in Seq(Named), NEW source \in Blocks
  PROVE  /\ Frame(path, dirs, source) \in Frames
         /\ Frame(path, dirs, source).path = path
         /\ Frame(path, dirs, source).dirs = dirs
         /\ Frame(path, dirs, source).source = source
         /\ Frame(path, dirs, source).i = 0
         /\ Frame(path, dirs, source).full = Null
  <1>1. Null \in Blocks
    BY DEF Null, Blocks
  <1> QED
    BY <1>1 DEF Frame, Frames

LEMMA BlockTypes ==
  /\ Static \in Blocks /\ Null \in Blocks /\ Paths \in Blocks
  /\ \A k, v \in Nat : FullPath(k, v) \in Blocks /\ Names(k, v) \in Blocks
  /\ \A k \in Nat : Dirs(k) \in Blocks
  BY DEF Static, Null, Paths, FullPath, Names, Dirs, Blocks

(* What the readdir() loop leaves in dirs: entries of the directory, all   *)
(* those that did not change while it was read, and each of them once.     *)
LEMMA ReadingsAre ==
  ASSUME StructInv, pc = "read", NEW s \in Readings
  PROVE  /\ s \in Seq(Named) /\ Len(s) \in Nat
         /\ \A j \in 1..Len(s) : s[j] \in Visible /\ Parent[s[j]] = Current
         /\ \A c \in Subdirs(Current) \ touched : \E j \in 1..Len(s) : s[j] = c
         /\ \A j, k \in 1..Len(s) : s[j] = s[k] /\ s[j] \notin changed => j = k
  <1> DEFINE steady == Subdirs(Current) \ touched
             most == Cardinality(steady) + MaxTimes * Cardinality(touched)
  <1>1. /\ steady \subseteq Dir /\ touched \subseteq Dir /\ touched \subseteq changed
        /\ \A c \in steady \union touched : c \in Visible /\ Parent[c] = Current
    BY DEF StructInv, TypeInv, ReadInv, Subdirs, Visible
  <1>2. most \in Nat
    <2>1. Cardinality(steady) \in Nat /\ Cardinality(touched) \in Nat
      BY <1>1, FS_Subset, FS_CardinalityType, TreeAssumption
    <2> HIDE DEF steady
    <2> QED
      BY <2>1, WalkAssumption
  <1>3. /\ s \in UNION {[1..n -> steady \union touched] : n \in 0..most}
        /\ \A c \in steady : Cardinality({k \in DOMAIN s : s[k] = c}) = 1
    BY Zenon DEF Readings
  <1> HIDE DEF steady, most
  <1>4. PICK n \in 0..most : s \in [1..n -> steady \union touched]
    BY <1>3
  <1>5. n \in Nat /\ DOMAIN s = 1..n /\ steady \union touched \subseteq Named
    BY <1>1, <1>2, <1>4 DEF Named
  <1>6. s \in Seq(Named) /\ Len(s) = n
    <2>1. s \in [1..n -> Named]
      BY <1>4, <1>5
    <2> QED
      BY <1>5, <2>1, SeqDef, LenProperties
  <1>7. \A j \in 1..n : s[j] \in steady \union touched
    BY <1>4
  <1>8. ASSUME NEW c \in steady PROVE \E x : {k \in 1..n : s[k] = c} = {x}
    <2>1. IsFiniteSet({k \in 1..n : s[k] = c})
      <3>1. IsFiniteSet(1..n) /\ {k \in 1..n : s[k] = c} \subseteq 1..n
        BY <1>5, FS_Interval
      <3> QED
        BY <3>1, FS_Subset
    <2>2. Cardinality({k \in 1..n : s[k] = c}) = 1
      BY <1>3, <1>5
    <2> QED
      BY <2>1, <2>2, FS_Singleton
  <1>9. \A c \in steady : \E j \in 1..n : s[j] = c
    BY <1>8
  <1>10. ASSUME NEW j \in 1..n, NEW k \in 1..n, s[j] = s[k], s[j] \notin changed PROVE j = k
    <2>1. s[j] \in steady
      BY <1>1, <1>7, <1>10
    <2>2. PICK x : {m \in 1..n : s[m] = s[j]} = {x}
      BY <1>8, <2>1
    <2>3. j \in {m \in 1..n : s[m] = s[j]} /\ k \in {m \in 1..n : s[m] = s[j]}
      BY <1>10
    <2> QED
      BY <2>2, <2>3
  <1>11. \A j \in 1..n : s[j] \in Visible /\ Parent[s[j]] = Current
    BY <1>1, <1>7
  <1> QED
    BY <1>5, <1>6, <1>9, <1>10, <1>11 DEF steady

(* When it may leave nothing there, every subdirectory has changed. *)
LEMMA NoReading ==
  ASSUME StructInv, pc = "read", <<>> \in Readings
  PROVE  Subdirs(Current) \subseteq touched
  <1>1. \A c \in Subdirs(Current) \ touched : \E j \in 1..Len(<<>>) : <<>>[j] = c
    BY ReadingsAre
  <1>2. 1..Len(<<>>) = {}
    OBVIOUS
  <1> QED
    BY <1>1, <1>2
-----------------------------------------------------------------------------
(* What the steps of the walk do to the stack. *)
LEMMA EnterEffect ==
  ASSUME TypeInv, ControlInv, Enter
  PROVE  /\ pc = "enter" /\ pc' = "turn" /\ stack # <<>> /\ err' = err
         /\ stack' \in Seq(Frames) /\ stack' # <<>> /\ Depth' = Depth
         /\ \A k \in 1..Depth :
              /\ stack'[k].path = stack[k].path
              /\ stack'[k].source = stack[k].source
              /\ stack'[k].i = stack[k].i
              /\ stack'[k].full = stack[k].full
              /\ stack'[k].dirs = IF k = Depth /\ Top.dirs = <<>> THEN <<Cwd>> ELSE stack[k].dirs
  <1>1. pc = "enter" /\ stack # <<>> /\ stack \in Seq(Frames)
    BY DEF Enter, ControlInv, TypeInv, Walking
  <1>2. pc' = "turn" /\ err' = err
        /\ stack' = IF Top.dirs = <<>> THEN Update([Top EXCEPT !.dirs = <<Cwd>>]) ELSE stack
    BY DEF Enter, TypeInv, FlagSets
  <1>3. CASE Top.dirs # <<>>
    BY <1>1, <1>2, <1>3, TopType DEF Depth
  <1>4. CASE Top.dirs = <<>>
    <2> DEFINE frame == [Top EXCEPT !.dirs = <<Cwd>>]
    <2>1. Top \in Frames /\ <<Cwd>> \in Seq(Named)
      BY <1>1, TopType, WalkAssumption DEF Named
    <2>2. /\ frame \in Frames /\ frame.path = Top.path /\ frame.source = Top.source
          /\ frame.i = Top.i /\ frame.full = Top.full /\ frame.dirs = <<Cwd>>
      BY <2>1 DEF Frames
    <2> HIDE DEF frame
    <2>3. stack' = Update(frame)
      BY <1>2, <1>4 DEF frame
    <2>4. /\ stack' \in Seq(Frames) /\ stack' # <<>> /\ Len(stack') = Depth
          /\ \A k \in 1..Depth : stack'[k] = IF k = Depth THEN frame ELSE stack[k]
      BY <1>1, <2>2, <2>3, UpdateEffect
    <2> QED
      BY <1>1, <1>2, <1>4, <2>2, <2>4 DEF Depth, Top
  <1> QED
    BY <1>3, <1>4

LEMMA ConcatEffect ==
  ASSUME TypeInv, ControlInv, Concat
  PROVE  /\ pc = "turn" /\ stack # <<>> /\ err' = err
         /\ stack' \in Seq(Frames) /\ stack' # <<>> /\ Depth' = Depth
         /\ Top.i < Len(Top.dirs)
         /\ \/ /\ pc' = "ub" /\ UNCHANGED <<heap, stack>>
               /\ ~(Live(Top.path) /\ Live(Top.source))
            \/ /\ pc' = "print"
               /\ heap' = (heap \ {Top.full}) \union {FullPath(Depth, Top.i + 1)}
               /\ \A k \in 1..Depth :
                    /\ stack'[k].path = stack[k].path
                    /\ stack'[k].source = stack[k].source
                    /\ stack'[k].dirs = stack[k].dirs
                    /\ stack'[k].i = IF k = Depth THEN stack[k].i + 1 ELSE stack[k].i
                    /\ stack'[k].full = IF k = Depth THEN FullPath(k, stack[k].i + 1)
                                        ELSE stack[k].full
  <1>1. pc = "turn" /\ stack # <<>> /\ stack \in Seq(Frames) /\ err' = err
    BY DEF Concat, ControlInv, TypeInv, Walking
  <1>2. Depth \in Nat \ {0} /\ Top \in Frames /\ Top.i \in Nat
    BY <1>1, TopType
  <1> DEFINE full == FullPath(Depth, Top.i + 1)
             frame == [Top EXCEPT !.i = @ + 1, !.full = full]
  <1>3. full \in Blocks
    BY <1>2, BlockTypes
  <1>4. /\ frame \in Frames /\ frame.path = Top.path /\ frame.source = Top.source
        /\ frame.dirs = Top.dirs /\ frame.i = Top.i + 1 /\ frame.full = full
    <2> DEFINE turned == [Top EXCEPT !.i = @ + 1]
    <2>1. /\ turned \in Frames /\ turned.path = Top.path /\ turned.source = Top.source
          /\ turned.dirs = Top.dirs /\ turned.i = Top.i + 1 /\ turned.full = Top.full
      <3>1. Top.i + 1 \in Nat
        BY <1>2
      <3> QED
        BY <1>2, <3>1, Zenon DEF Frames
    <2>2. frame = [turned EXCEPT !.full = full]
      BY DEF turned, frame
    <2> HIDE DEF full, turned, frame
    <2>3. /\ frame \in Frames /\ frame.path = turned.path /\ frame.source = turned.source
          /\ frame.dirs = turned.dirs /\ frame.i = turned.i /\ frame.full = full
      BY <1>3, <2>1, <2>2, Zenon DEF Frames
    <2> QED
      BY <2>1, <2>3
  <1>5. CASE Live(Top.path) /\ Live(Top.source)
    <2>1. /\ pc' = "print" /\ heap' = (heap \ {Top.full}) \union {full}
          /\ stack' = Update(frame)
      BY <1>5 DEF Concat
    <2> HIDE DEF frame
    <2>2. /\ stack' \in Seq(Frames) /\ stack' # <<>> /\ Len(stack') = Depth
          /\ \A k \in 1..Depth : stack'[k] = IF k = Depth THEN frame ELSE stack[k]
      BY <1>1, <1>4, <2>1, UpdateEffect
    <2>3. Top.i < Len(Top.dirs)
      BY DEF Concat, More
    <2> HIDE DEF full
    <2>4. \A k \in 1..Depth : k = Depth => full = FullPath(k, stack[k].i + 1)
      BY DEF full, Top
    <2> QED
      BY <1>1, <1>4, <2>1, <2>2, <2>3, <2>4 DEF Depth, Top, full
  <1>6. CASE ~(Live(Top.path) /\ Live(Top.source))
    BY <1>1, <1>6 DEF Concat, More, Depth
  <1> QED
    BY <1>5, <1>6

(* The steps of print_dir() that list nothing leave the stack alone. *)
LEMMA SkipEffect ==
  ASSUME Skips
  PROVE  /\ pc \in {"print", "read"} /\ pc' \in {"turn", "read"}
         /\ UNCHANGED <<argv, arg, flags, paths, stack, cursor, err, heap, listed, present, changed>>
         /\ UNCHANGED <<Depth, Top, Current>>
         /\ touched' = touched \/ touched' = {}
         /\ pc' = "read" => OpenDir
  BY DEF Skips, OpenFails, OpenDir, PrintNothing, line, tree, Depth, Top, Current

LEMMA PrintDirEffect ==
  ASSUME StructInv, PrintDir
  PROVE  /\ pc = "read" /\ stack # <<>> /\ err' = err
         /\ Current \in Dir
         /\ listed' = Append(listed, Current)
         /\ stack' \in Seq(Frames) /\ stack' # <<>>
         /\ \/ /\ flags.recursive => <<>> \in Readings
               /\ pc' = "turn" /\ UNCHANGED <<heap, stack>>
            \/ /\ flags.recursive
               /\ pc' = "enter" /\ Depth' = Depth + 1
               /\ \A k \in 1..Depth : stack'[k] = stack[k]
               /\ \E v \in {0, 1} :
                    /\ v = 1 => Current \in Large
                    /\ heap' = heap \union {Names(Depth, v), Dirs(Depth)}
               /\ stack'[Depth + 1].dirs \in Readings /\ stack'[Depth + 1].dirs # <<>>
               /\ stack'[Depth + 1].dirs \in Seq(Named)
               /\ stack'[Depth + 1].path = Top.full
               /\ stack'[Depth + 1].source = Names(Depth, 0)
               /\ stack'[Depth + 1].i = 0
               /\ stack'[Depth + 1].full = Null
  <1>1. pc = "read" /\ stack # <<>> /\ stack \in Seq(Frames) /\ err' = err
    BY DEF PrintDir, StructInv, ControlInv, TypeInv, Walking
  <1>2. Depth \in Nat \ {0} /\ Top \in Frames
    BY <1>1, TopType
  <1>3. Current \in Dir /\ listed' = Append(listed, Current)
    BY <1>1 DEF PrintDir, StructInv, TypeInv, ReadInv
  <1>4. PICK s \in Readings, v \in IF Current \in Large THEN {0, 1} ELSE {0} :
          IF flags.recursive /\ s # <<>>
          THEN /\ stack' = Append(stack, Frame(Top.full, s, Names(Depth, 0)))
               /\ heap' = heap \union {Names(Depth, v), Dirs(Depth)}
               /\ pc' = "enter"
          ELSE pc' = "turn" /\ UNCHANGED <<stack, heap>>
    BY DEF PrintDir
  <1>5. CASE ~(flags.recursive /\ s # <<>>)
    <2>1. pc' = "turn" /\ UNCHANGED <<heap, stack>> /\ (flags.recursive => <<>> \in Readings)
      BY <1>4, <1>5
    <2> QED
      BY <1>1, <1>3, <2>1
  <1>6. CASE flags.recursive /\ s # <<>>
    <2>1. /\ stack' = Append(stack, Frame(Top.full, s, Names(Depth, 0)))
          /\ heap' = heap \union {Names(Depth, v), Dirs(Depth)}
          /\ pc' = "enter"
      BY <1>4, <1>6
    <2>2. s \in Seq(Named)
      BY <1>1, ReadingsAre
    <2> DEFINE frame == Frame(Top.full, s, Names(Depth, 0))
    <2>3. Top.full \in Blocks /\ Names(Depth, 0) \in Blocks
      BY <1>2, BlockTypes DEF Frames
    <2>4. /\ frame \in Frames /\ frame.path = Top.full /\ frame.dirs = s
          /\ frame.source = Names(Depth, 0) /\ frame.i = 0 /\ frame.full = Null
      BY <2>2, <2>3, FrameType
    <2> HIDE DEF frame
    <2>5. /\ stack' \in Seq(Frames) /\ stack' # <<>> /\ Depth' = Depth + 1
          /\ stack'[Depth + 1] = frame /\ \A k \in 1..Depth : stack'[k] = stack[k]
      <3>1. stack' = Append(stack, frame)
        BY <2>1 DEF frame
      <3>2. Depth' = Len(Append(stack, frame))
        BY <3>1 DEF Depth
      <3> QED
        BY <1>1, <2>4, <3>1, <3>2, PushEffect
    <2>6. v \in {0, 1} /\ (v = 1 => Current \in Large)
      OBVIOUS
    <2> QED
      BY <1>1, <1>3, <1>6, <2>1, <2>2, <2>4, <2>5, <2>6
  <1> QED
    BY <1>5, <1>6

LEMMA ReturnEffect ==
  ASSUME TypeInv, ControlInv, Return
  PROVE  /\ pc = "back" /\ pc' = "turn" /\ err' = err /\ Depth \in Nat /\ Depth > 1
         /\ heap' = heap \ {Names(Depth - 1, 0), Names(Depth - 1, 1), Dirs(Depth - 1)}
         /\ stack' \in Seq(Frames) /\ stack' # <<>> /\ Depth' = Depth - 1
         /\ \A k \in 1..(Depth - 1) : stack'[k] = stack[k]
  <1>1. pc = "back" /\ Depth > 1 /\ stack' = Caller /\ stack \in Seq(Frames) /\ err = 0
    BY DEF Return, ControlInv, TypeInv, Walking
  <1>2. /\ heap' = heap \ {Names(Depth - 1, 0), Names(Depth - 1, 1), Dirs(Depth - 1)}
        /\ pc' = "turn" /\ err' = err
    BY <1>1 DEF Return
  <1>3. Depth' = Len(Caller)
    BY <1>1 DEF Depth
  <1>4. Depth \in Nat
    BY <1>1, LenProperties DEF Depth
  <1> QED
    BY <1>1, <1>2, <1>3, <1>4, CallerEffect
-----------------------------------------------------------------------------
(* Types and control. *)
LEMMA FlagsType ==
  ASSUME NEW f \in FlagSets
  PROVE  /\ \A letters \in SUBSET Letters :
              LET g == ShortFlags(letters, f)
              IN /\ g \in FlagSets
                 /\ g.show_hidden = (f.show_hidden \/ letters \intersect {"a", "A"} # {})
                 /\ g.reverse = (f.reverse \/ "r" \in letters)
                 /\ g.recursive = (f.recursive \/ "R" \in letters)
                 /\ g.sort = IF "U" \in letters THEN "NONE" ELSE f.sort
         /\ \A text \in Long :
              LET g == parse_long_argument(text, f)
              IN /\ g \in FlagSets
                 /\ g.show_hidden = f.show_hidden
                 /\ g.reverse = (f.reverse \/ text = "reverse")
                 /\ g.recursive = f.recursive
                 /\ g.sort = IF text = "sort=none" THEN "NONE"
                             ELSE IF text = "sort=name" THEN "NAME"
                             ELSE IF text = "sort=width" THEN "WIDTH" ELSE f.sort
  <1>1. f.show_hidden \in BOOLEAN /\ f.reverse \in BOOLEAN /\ f.recursive \in BOOLEAN
        /\ f.sort \in {"NONE", "NAME", "WIDTH"}
    BY Zenon DEF FlagSets
  <1>2. ASSUME NEW letters \in SUBSET Letters
        PROVE  LET g == ShortFlags(letters, f)
               IN /\ g \in FlagSets
                  /\ g.show_hidden = (f.show_hidden \/ letters \intersect {"a", "A"} # {})
                  /\ g.reverse = (f.reverse \/ "r" \in letters)
                  /\ g.recursive = (f.recursive \/ "R" \in letters)
                  /\ g.sort = IF "U" \in letters THEN "NONE" ELSE f.sort
    <2> DEFINE a == f.show_hidden \/ letters \intersect {"a", "A"} # {}
               b == f.reverse \/ "r" \in letters
               c == f.recursive \/ "R" \in letters
               t == IF "U" \in letters THEN "NONE" ELSE f.sort
    <2>1. a \in BOOLEAN /\ b \in BOOLEAN /\ c \in BOOLEAN
      BY <1>1, Zenon
    <2>2. t \in {"NONE", "NAME", "WIDTH"}
      BY <1>1, Zenon
    <2>3. ShortFlags(letters, f) =
            [f EXCEPT !.show_hidden = a, !.sort = t, !.reverse = b, !.recursive = c]
      BY Zenon DEF ShortFlags
    <2> HIDE DEF a, b, c, t
    <2>4. LET g == ShortFlags(letters, f)
          IN /\ g \in FlagSets /\ g.show_hidden = a /\ g.reverse = b
             /\ g.recursive = c /\ g.sort = t
      BY <2>1, <2>2, <2>3, Zenon DEF FlagSets
    <2> QED
      BY <2>4, Zenon DEF a, b, c, t
  <1>3. ASSUME NEW text \in Long
        PROVE  LET g == parse_long_argument(text, f)
               IN /\ g \in FlagSets
                  /\ g.show_hidden = f.show_hidden
                  /\ g.reverse = (f.reverse \/ text = "reverse")
                  /\ g.recursive = f.recursive
                  /\ g.sort = IF text = "sort=none" THEN "NONE"
                              ELSE IF text = "sort=name" THEN "NAME"
                              ELSE IF text = "sort=width" THEN "WIDTH" ELSE f.sort
    <2> DEFINE Values == [t \in {"sort=none", "sort=name", "sort=width"} |->
                            IF t = "sort=none" THEN "NONE"
                            ELSE IF t = "sort=name" THEN "NAME" ELSE "WIDTH"]
               v == IF text \in DOMAIN Values THEN Values[text] ELSE f.sort
               b == f.reverse \/ text = "reverse"
    <2>1. b \in BOOLEAN
      BY <1>1, Zenon
    <2>2. v = IF text = "sort=none" THEN "NONE"
              ELSE IF text = "sort=name" THEN "NAME"
              ELSE IF text = "sort=width" THEN "WIDTH" ELSE f.sort
      BY SMT
    <2>3. v \in {"NONE", "NAME", "WIDTH"}
      <3> HIDE DEF v
      <3> QED
        BY <1>1, <2>2
    <2>4. parse_long_argument(text, f) = [f EXCEPT !.sort = v, !.reverse = b]
      BY Zenon DEF parse_long_argument
    <2> HIDE DEF v, b
    <2>5. LET g == parse_long_argument(text, f)
          IN /\ g \in FlagSets /\ g.show_hidden = f.show_hidden /\ g.reverse = b
             /\ g.recursive = f.recursive /\ g.sort = v
      BY <2>1, <2>3, <2>4, Zenon DEF FlagSets
    <2> QED
      BY <2>2, <2>5, Zenon DEF b
  <1> QED
    BY <1>2, <1>3, Zenon

LEMMA ArgumentType ==
  ASSUME NEW a \in Arguments
  PROVE  /\ a.kind = "path" => a.dir \in Named
         /\ a.kind = "short" => a.letters \in SUBSET Letters
         /\ a.kind = "long" => a.text \in Long
  BY DEF Arguments, Named

LEMMA StructInit == Init => StructInv
  <1> SUFFICES ASSUME Init PROVE StructInv
    OBVIOUS
  <1>1. DefaultFlags \in FlagSets
    BY Zenon DEF DefaultFlags, FlagSets
  <1>2. argv \in Seq(Arguments) /\ Len(argv) \in Nat
    BY WalkAssumption, LenProperties DEF Init
  <1>3. TypeInv
    BY <1>1, <1>2, WalkAssumption, EmptySeq DEF Init, TypeInv, Running
  <1>4. Depth = 0
    BY DEF Init, Depth
  <1>5. ControlInv
    BY <1>4 DEF Init, ControlInv, Walking
  <1>6. ReadInv
    BY DEF Init, ReadInv
  <1> QED
    BY <1>3, <1>5, <1>6 DEF StructInv

(* The steps that read the command line. *)
LEMMA ParseStruct ==
  ASSUME StructInv, ParseArgument
  PROVE  TypeInv' /\ ControlInv'
  <1> USE DEF StructInv
  <1>1. argv \in Seq(Arguments) /\ Len(argv) \in Nat /\ arg \in 1..Len(argv)
    BY LenProperties DEF TypeInv, ParseArgument
  <1>2. argv[arg] \in Arguments
    BY <1>1
  <1> DEFINE a == argv[arg]
  <1>a. /\ a.kind = "path" => a.dir \in Named
        /\ a.kind = "short" => a.letters \in SUBSET Letters
        /\ a.kind = "long" => a.text \in Long
    BY <1>2, ArgumentType
  <1>b. /\ \A letters \in SUBSET Letters : ShortFlags(letters, flags) \in FlagSets
        /\ \A text \in Long : parse_long_argument(text, flags) \in FlagSets
    BY FlagsType, Zenon DEF TypeInv
  <1>c. \/ a.kind = "path" /\ paths' = Append(paths, a.dir) /\ flags' = flags
        \/ a.kind = "short" /\ flags' = ShortFlags(a.letters, flags) /\ paths' = paths
        \/ a.kind = "long" /\ flags' = parse_long_argument(a.text, flags) /\ paths' = paths
        \/ flags' = flags /\ paths' = paths
    BY DEF ParseArgument
  <1> HIDE DEF a
  <1>3. paths' \in Seq(Named)
    <2>1. paths \in Seq(Named) /\ \A x \in Named : Append(paths, x) \in Seq(Named)
      BY AppendProperties DEF TypeInv
    <2> QED
      BY <1>a, <1>c, <2>1, Zenon
  <1>4. flags' \in FlagSets
    BY <1>a, <1>b, <1>c, Zenon DEF TypeInv
  <1>5. arg' \in 1..(Len(argv) + 1) /\ argv' = argv
    BY <1>1 DEF ParseArgument
  <1>6. UNCHANGED <<stack, listed, present, changed, touched>>
    BY DEF ParseArgument, tree
  <1>7. \/ pc' = pc /\ err' = err
        \/ pc' = "exit" /\ err' = 7
    BY DEF ParseArgument
  <1>8. pc = "parse" /\ stack = <<>> /\ listed = <<>> /\ err = 0
    BY DEF ParseArgument, ControlInv
  <1>9. TypeInv'
    BY <1>3, <1>4, <1>5, <1>6, <1>7 DEF TypeInv, Ended
  <1>10. Depth' = 0
    BY <1>6, <1>8 DEF Depth
  <1>11. ControlInv'
    BY <1>6, <1>7, <1>8, <1>10 DEF ControlInv, Walking
  <1> QED
    BY <1>9, <1>11

LEMMA CallEffect ==
  ASSUME StructInv, CallLs
  PROVE  /\ pc = "parse" /\ pc' = "enter" /\ stack = <<>> /\ Depth' = 1
         /\ stack' \in Seq(Frames) /\ stack' # <<>> /\ stack'[1].path = Static
         /\ stack'[1].dirs = paths /\ stack'[1].source = Static
         /\ stack'[1].i = 0 /\ stack'[1].full = Null
  <1> USE DEF StructInv
  <1> DEFINE frame == Frame(Static, paths, Static)
  <1>1. /\ frame \in Frames /\ frame.path = Static /\ frame.dirs = paths
        /\ frame.source = Static /\ frame.i = 0 /\ frame.full = Null
    BY FrameType, BlockTypes DEF TypeInv
  <1>2. pc = "parse" /\ pc' = "enter" /\ stack = <<>> /\ stack' = <<frame>>
    BY DEF CallLs, ControlInv
  <1> HIDE DEF frame
  <1>3. stack' \in Seq(Frames) /\ stack' # <<>> /\ Depth' = 1 /\ stack'[1] = frame
    BY <1>1, <1>2 DEF Depth
  <1> QED
    BY <1>1, <1>2, <1>3

LEMMA CallStruct ==
  ASSUME StructInv, CallLs
  PROVE  TypeInv' /\ ControlInv'
  <1> USE DEF StructInv
  <1>1. UNCHANGED <<argv, arg, flags, paths, err, listed, present, changed, touched>>
    BY DEF CallLs, line, tree
  <1>2. Len(paths) \in Nat /\ Len(argv) \in Nat
    BY LenProperties DEF TypeInv
  <1>3. TypeInv'
    BY <1>1, CallEffect DEF TypeInv, Running
  <1>4. arg = Len(argv) + 1 /\ err = 0
    BY <1>2 DEF CallLs, TypeInv, ControlInv
  <1>5. ControlInv'
    BY <1>1, <1>2, <1>4, CallEffect DEF ControlInv, Walking
  <1> QED
    BY <1>3, <1>5

(* The steps of the walk. *)
LEMMA WalkStruct ==
  ASSUME StructInv, Enter \/ Concat \/ Skips \/ PrintDir \/ EndLoop \/ Return \/ Exit
  PROVE  TypeInv' /\ ControlInv'
  <1> USE DEF StructInv
  <1>1. UNCHANGED <<argv, arg, flags, paths, present, changed>> /\ touched' \subseteq touched
    BY SkipEffect DEF Enter, Concat, PrintDir, EndLoop, Return, Exit, line, tree
  <1>2. stack \in Seq(Frames) /\ listed \in Seq(Dir) /\ Depth \in Nat
    BY LenProperties DEF TypeInv, Depth
  <1>a. \A k \in 1..(Depth - 1) : stack[k].i \in 0..Len(stack[k].dirs)
    <2>1. \A k \in 1..(Depth - 1) : k \in 1..Depth
      BY <1>2
    <2> QED
      BY <2>1 DEF ControlInv
  <1>3. CASE Enter
    <2>1. listed' = listed /\ err' = err
      BY <1>3, EnterEffect DEF Enter
    <2>2. TypeInv'
      BY <1>1, <1>3, <2>1, EnterEffect DEF TypeInv, Running
    <2>3. \A k \in 1..Depth : Len(stack[k].dirs) \in Nat
      BY <1>2, <1>3, EnterEffect, TopType, LenProperties DEF Frames
    <2>4. Len(<<Cwd>>) = 1 /\ Len(<<>>) = 0
      OBVIOUS
    <2>5. \A k \in 1..(Depth - 1) : stack'[k].i = stack[k].i /\ stack'[k].dirs = stack[k].dirs
      BY <1>2, <1>3, EnterEffect
    <2>6. Depth \in 1..Depth /\ Top.i \in 0..Len(Top.dirs)
      BY <1>2, <1>3, EnterEffect, TopType DEF ControlInv, Top
    <2>7. stack'[Depth].i = Top.i /\ stack'[Depth].dirs = IF Top.dirs = <<>> THEN <<Cwd>> ELSE Top.dirs
      BY <1>3, <2>6, EnterEffect DEF Top
    <2>8. \A k \in 1..Depth' : stack'[k].i \in 0..Len(stack'[k].dirs)
      <3>1. stack'[Depth].i \in 0..Len(stack'[Depth].dirs)
        BY <2>4, <2>6, <2>7
      <3>2. \A k \in 1..(Depth - 1) : stack'[k].i \in 0..Len(stack'[k].dirs)
        BY <1>a, <2>5
      <3>3. Depth' = Depth /\ \A k \in 1..Depth : k = Depth \/ k \in 1..(Depth - 1)
        BY <1>2, <1>3, EnterEffect
      <3> QED
        BY <3>1, <3>2, <3>3
    <2>9. pc = "enter" /\ pc' = "turn" /\ stack' # <<>> /\ Depth' = Depth
      BY <1>3, EnterEffect
    <2>10. ControlInv'
      BY <1>1, <1>2, <2>1, <2>5, <2>8, <2>9 DEF ControlInv, Walking
    <2> QED
      BY <2>2, <2>10
  <1>4. CASE Concat
    <2>1. listed' = listed /\ err' = err
      BY <1>4 DEF Concat
    <2>2. TypeInv'
      BY <1>1, <1>4, <2>1, ConcatEffect DEF TypeInv, Running, Ended
    <2>3. pc = "turn" /\ Depth' = Depth /\ stack' # <<>> /\ Depth \in 1..Depth
      BY <1>2, <1>4, ConcatEffect, TopType
    <2>4. CASE pc' = "ub"
      <3>1. UNCHANGED <<stack, Top>>
        BY <1>4, <2>4, ConcatEffect DEF Depth, Top
      <3> QED
        BY <1>1, <2>1, <2>2, <2>3, <2>4, <3>1 DEF ControlInv, Walking
    <2>5. CASE pc' = "print"
      <3>1. Top.i \in Nat /\ Len(Top.dirs) \in Nat /\ Top.i < Len(Top.dirs)
        BY <1>2, <1>4, ConcatEffect, TopType
      <3>2. stack'[Depth].i = Top.i + 1 /\ stack'[Depth].dirs = Top.dirs
        BY <1>4, <2>3, <2>5, ConcatEffect DEF Top
      <3>3. stack'[Depth].i \in 1..Len(stack'[Depth].dirs)
        BY <3>1, <3>2
      <3>4. \A k \in 1..(Depth - 1) : stack'[k].i = stack[k].i /\ stack'[k].dirs = stack[k].dirs
        <4>1. \A k \in 1..Depth : /\ stack'[k].dirs = stack[k].dirs
                                  /\ stack'[k].i = IF k = Depth THEN stack[k].i + 1 ELSE stack[k].i
          BY <1>4, <2>5, ConcatEffect
        <4>2. \A k \in 1..(Depth - 1) : k \in 1..Depth /\ k # Depth
          BY <1>2
        <4> QED
          BY <4>1, <4>2
      <3>5. \A k \in 1..Depth : stack'[k].i \in 0..Len(stack'[k].dirs)
        <4>1. \A k \in 1..(Depth - 1) : stack'[k].i \in 0..Len(stack'[k].dirs)
          BY <1>a, <3>4
        <4>2. \A k \in 1..Depth : k = Depth \/ k \in 1..(Depth - 1)
          BY <1>2
        <4>3. stack'[Depth].i \in 0..Len(stack'[Depth].dirs)
          BY <3>1, <3>2
        <4> QED
          BY <4>1, <4>2, <4>3
      <3>6. Top'.i \in 1..Len(Top'.dirs)
        BY <2>3, <3>3 DEF Top
      <3> QED
        BY <1>1, <2>1, <2>2, <2>3, <2>5, <3>4, <3>5, <3>6 DEF ControlInv, Walking
    <2> QED
      BY <1>4, <2>4, <2>5, ConcatEffect
  <1>5. CASE Skips
    <2>1. /\ pc \in {"print", "read"} /\ pc' \in {"turn", "read"}
          /\ UNCHANGED <<stack, err, listed, Depth, Top>>
      BY <1>5, SkipEffect
    <2> QED
      BY <1>1, <2>1 DEF TypeInv, Running, ControlInv, Walking
  <1>6. CASE PrintDir
    <2>1. pc = "read" /\ err' = err /\ err = 0 /\ stack # <<>> /\ arg = Len(argv) + 1
      BY <1>6, PrintDirEffect DEF ControlInv, Walking
    <2>2. listed' \in Seq(Dir)
      BY <1>2, <1>6, PrintDirEffect, AppendProperties
    <2>3. TypeInv'
      BY <1>1, <1>6, <2>1, <2>2, PrintDirEffect DEF TypeInv, Running
    <2>4. CASE UNCHANGED stack /\ pc' = "turn"
      <3>1. UNCHANGED <<Depth, Top>>
        BY <2>4 DEF Depth, Top
      <3> QED
        BY <1>1, <2>1, <2>3, <2>4, <3>1 DEF ControlInv, Walking
    <2>5. CASE pc' = "enter" /\ Depth' = Depth + 1
      <3>1. /\ \A k \in 1..Depth : stack'[k] = stack[k]
            /\ stack'[Depth + 1].i = 0 /\ stack'[Depth + 1].dirs \in Seq(Named) /\ stack' # <<>>
        BY <1>6, <2>5, PrintDirEffect DEF Depth
      <3>2. Top.i \in 1..Len(Top.dirs) /\ Top = stack[Depth] /\ Depth \in 1..Depth
        BY <1>2, <2>1, TopType DEF ControlInv, Top
      <3>3. \A k \in 1..Depth : stack'[k].i \in 1..Len(stack'[k].dirs)
        <4>1. \A k \in 1..Depth : k = Depth \/ k \in 1..(Depth - 1)
          BY <1>2
        <4> QED
          BY <3>1, <3>2, <4>1 DEF ControlInv
      <3>4. \A k \in 1..Depth' : stack'[k].i \in 0..Len(stack'[k].dirs)
        <4>1. \A k \in 1..Depth' : k = Depth + 1 \/ k \in 1..Depth
          BY <1>2, <2>5
        <4>2. stack'[Depth + 1].i \in 0..Len(stack'[Depth + 1].dirs)
          BY <3>1, LenProperties
        <4>3. \A k \in 1..Depth : stack'[k].i \in 0..Len(stack'[k].dirs)
          BY <3>3
        <4> QED
          BY <4>1, <4>2, <4>3
      <3>5. Depth' - 1 = Depth
        BY <1>2, <2>5
      <3> QED
        BY <1>1, <2>1, <2>3, <2>5, <3>1, <3>3, <3>4, <3>5 DEF ControlInv, Walking
    <2> QED
      BY <1>6, <2>4, <2>5, PrintDirEffect
  <1>7. CASE EndLoop
    <2>1. pc = "turn" /\ pc' = "back" /\ UNCHANGED <<stack, err, listed>> /\ ~(Top.i < Len(Top.dirs))
      BY <1>7 DEF EndLoop, More
    <2>2. UNCHANGED <<Depth, Top>> /\ stack # <<>>
      BY <2>1 DEF Depth, Top, ControlInv, Walking
    <2>3. Depth \in 1..Depth /\ Top.i \in 0..Len(Top.dirs) /\ Len(Top.dirs) \in Nat
      BY <1>2, <2>2, TopType DEF ControlInv, Top
    <2>4. Top.i = Len(Top.dirs)
      BY <2>1, <2>3
    <2> QED
      BY <1>1, <2>1, <2>2, <2>4 DEF TypeInv, Running, ControlInv, Walking
  <1>8. CASE Return
    <2>1. /\ pc = "back" /\ pc' = "turn" /\ err' = err /\ listed' = listed
          /\ stack' # <<>> /\ Depth' = Depth - 1 /\ Depth > 1
          /\ stack' \in Seq(Frames) /\ \A k \in 1..(Depth - 1) : stack'[k] = stack[k]
      BY <1>8, ReturnEffect DEF Return
    <2>2. TypeInv'
      BY <1>1, <2>1 DEF TypeInv, Running
    <2>3. \A k \in 1..Depth' : stack'[k].i \in 0..Len(stack'[k].dirs)
      BY <1>2, <2>1 DEF ControlInv
    <2>4. \A k \in 1..(Depth' - 1) : stack'[k].i \in 1..Len(stack'[k].dirs)
      BY <1>2, <2>1 DEF ControlInv
    <2> QED
      BY <1>1, <2>1, <2>2, <2>3, <2>4 DEF ControlInv, Walking
  <1>9. CASE Exit
    <2>1. pc' = "exit" /\ stack' = <<>> /\ UNCHANGED <<err, listed>>
      BY <1>9 DEF Exit
    <2>2. Depth' = 0
      BY <2>1 DEF Depth
    <2>3. TypeInv'
      BY <1>1, <2>1, EmptySeq DEF TypeInv, Ended
    <2> QED
      BY <2>1, <2>2, <2>3 DEF ControlInv, Walking
  <1> QED
    BY <1>3, <1>4, <1>5, <1>6, <1>7, <1>8, <1>9

(* The directory being read. *)
LEMMA ReadStep ==
  ASSUME StructInv, [Next]_vars
  PROVE  ReadInv'
  <1> USE DEF StructInv
  <1>1. CASE UNCHANGED vars
    <2>1. UNCHANGED <<pc, stack, present, changed, touched>>
      BY <1>1 DEF vars, tree
    <2>2. UNCHANGED Current
      BY <2>1 DEF Current, Top, Depth
    <2> QED
      BY <2>1, <2>2 DEF ReadInv
  <1>2. CASE ParseArgument \/ CallLs \/ Enter \/ Concat \/ EndLoop \/ Return \/ Exit
    <2>1. /\ pc \in {"parse", "enter", "turn", "back"} /\ touched' = touched /\ changed' = changed
          /\ pc' # "read"
      BY <1>2 DEF ParseArgument, CallLs, Enter, Concat, EndLoop, Return, Exit, tree
    <2>2. touched = {}
      BY <2>1 DEF ReadInv, Ended
    <2> QED
      BY <2>1, <2>2 DEF ReadInv
  <1>3. CASE Skips
    <2>1. /\ pc \in {"print", "read"} /\ pc' \in {"turn", "read"} /\ changed' = changed
          /\ present' = present /\ Current' = Current
      BY <1>3, SkipEffect
    <2>2. touched' = {}
      BY <1>3 DEF Skips, OpenFails, OpenDir, PrintNothing, ReadInv, Ended
    <2>3. pc' = "read" => Current \in present
      BY <1>3, SkipEffect DEF OpenDir
    <2> QED
      BY <2>1, <2>2, <2>3 DEF ReadInv
  <1>4. CASE PrintDir
    <2>1. touched' = {} /\ pc' # "read"
      BY <1>4 DEF PrintDir
    <2> QED
      BY <2>1 DEF ReadInv
  <1>5. CASE Killed
    BY <1>5 DEF Killed, ReadInv, Ended, tree
  <1>6. ASSUME NEW d \in Dir \ {Cwd}, Change(d) PROVE ReadInv'
    <2>1. UNCHANGED <<pc, stack>> /\ pc \notin Ended
      BY <1>6 DEF Change
    <2>2. UNCHANGED Current
      BY <2>1 DEF Current, Top, Depth
    <2>3. changed' = changed \union {d} /\ present \union changed \subseteq present' \union changed'
      BY <1>6 DEF Change
    <2>4. touched' = IF pc = "read" /\ Parent[d] = Current /\ d \notin Hidden
                     THEN touched \union {d} ELSE touched
      BY <1>6 DEF Change
    <2>5. CASE touched' = touched
      BY <2>1, <2>2, <2>3, <2>5 DEF ReadInv
    <2>6. CASE touched' # touched
      <3>1. pc = "read" /\ Parent[d] = Current /\ d \in Visible /\ touched' = touched \union {d}
        BY <2>4, <2>6 DEF Visible
      <3> QED
        BY <2>1, <2>2, <2>3, <3>1 DEF ReadInv
    <2> QED
      BY <2>5, <2>6
  <1> QED
    BY <1>1, <1>2, <1>3, <1>4, <1>5, <1>6 DEF Next, Step, Skips

LEMMA StructStep == StructInv /\ [Next]_vars => StructInv'
  <1> SUFFICES ASSUME StructInv, [Next]_vars PROVE TypeInv' /\ ControlInv'
    BY ReadStep DEF StructInv
  <1>1. CASE UNCHANGED vars
    <2>1. UNCHANGED <<pc, argv, arg, flags, paths, stack, err, listed, present, changed, touched>>
      BY <1>1 DEF vars, line, tree
    <2>2. UNCHANGED <<Depth, Top>>
      BY <2>1 DEF Depth, Top
    <2> QED
      BY <2>1, <2>2 DEF StructInv, TypeInv, ControlInv
  <1>2. CASE Killed
    <2>1. /\ UNCHANGED <<argv, arg, flags, paths, stack, err, listed, present, changed, touched>>
          /\ pc' = "killed"
      BY <1>2 DEF Killed, line, tree
    <2>2. UNCHANGED <<Depth, Top>>
      BY <2>1 DEF Depth, Top
    <2> QED
      BY <2>1, <2>2 DEF StructInv, TypeInv, ControlInv, Ended, Walking
  <1>3. ASSUME NEW d \in Dir \ {Cwd}, Change(d) PROVE TypeInv' /\ ControlInv'
    <2>1. UNCHANGED <<pc, argv, arg, flags, paths, stack, err, listed>>
      BY <1>3 DEF Change, line
    <2>2. UNCHANGED <<Depth, Top>>
      BY <2>1 DEF Depth, Top
    <2>3. present' \subseteq Dir /\ changed' \subseteq Dir \ {Cwd} /\ touched' \subseteq Dir
      BY <1>3 DEF Change, StructInv, TypeInv
    <2> QED
      BY <2>1, <2>2, <2>3 DEF StructInv, TypeInv, ControlInv
  <1> QED
    BY <1>1, <1>2, <1>3, ParseStruct, CallStruct, WalkStruct DEF Next, Step, Skips
-----------------------------------------------------------------------------
(* The command line. *)

(* The flags and the operands are what the arguments read so far mean; an  *)
(* unknown option has ended ls before it listed anything.                  *)
OptionsInv ==
  /\ pc = "parse" => Means(arg - 1) /\ ~LongOption("other", arg - 1)
  /\ pc \in Walking \union {"ub"} => Means(Len(argv)) /\ ~LongOption("other", Len(argv))
  /\ ExitStatus

LEMMA OneMore ==
  ASSUME NEW n \in Nat
  PROVE  /\ \A k : k \in 1..(n + 1) <=> k \in 1..n \/ k = n + 1
         /\ \A k \in 1..n : k < n + 1
  OBVIOUS

LEMMA OneMoreArgument ==
  ASSUME NEW n \in Nat
  PROVE  /\ \A S : Letter(S, n + 1) <=>
                \/ Letter(S, n)
                \/ Is(n + 1, "short") /\ argv[n + 1].letters \intersect S # {}
         /\ \A t : LongOption(t, n + 1) <=>
                \/ LongOption(t, n)
                \/ Is(n + 1, "long") /\ argv[n + 1].text = t
  BY OneMore, Zenon DEF Letter, LongOption

(* The options: what one more argument that is none leaves alone, and what *)
(* an operand, a group of letters and a long option add.                   *)
LEMMA MeansUnchanged ==
  ASSUME UNCHANGED <<argv, flags, paths>>, NEW n
  PROVE  /\ Means(n) => Means(n)'
         /\ \A t : LongOption(t, n)' <=> LongOption(t, n)
  BY DEF Means, Letter, LongOption, Is, Sorts

(* The operands among the first n arguments. *)
Placed(n) ==
  \E at \in [DOMAIN paths -> 1..n] :
    /\ \A j, k \in DOMAIN paths : j < k => at[j] < at[k]
    /\ \A k \in 1..n : Is(k, "path") <=> \E j \in DOMAIN paths : at[j] = k
    /\ \A j \in DOMAIN paths : paths[j] = argv[at[j]].dir

(* The options among the first n arguments. *)
Switched(n) ==
  /\ flags.show_hidden <=> Letter({"a", "A"}, n)
  /\ flags.recursive <=> Letter({"R"}, n)
  /\ flags.reverse <=> Letter({"r"}, n) \/ LongOption("reverse", n)

Order(k) ==
  IF Is(k, "short") \/ argv[k].text = "sort=none" THEN "NONE"
  ELSE IF argv[k].text = "sort=name" THEN "NAME" ELSE "WIDTH"

Sorted(n) ==
  /\ (\A k \in 1..n : ~Sorts(k)) => flags.sort = "NAME"
  /\ \A k \in 1..n : Sorts(k) /\ (\A j \in 1..n : Sorts(j) => j <= k) => flags.sort = Order(k)

LEMMA MeansParts ==
  ASSUME NEW n
  PROVE  Means(n) <=> Switched(n) /\ Sorted(n) /\ Placed(n)
  BY DEF Means, Switched, Sorted, Placed, Order

LEMMA PlacedOther ==
  ASSUME NEW n \in Nat, ~Is(n + 1, "path"), Placed(n)
  PROVE  Placed(n + 1)
  <1>1. PICK at \in [DOMAIN paths -> 1..n] :
           /\ \A j, k \in DOMAIN paths : j < k => at[j] < at[k]
           /\ \A k \in 1..n : Is(k, "path") <=> \E j \in DOMAIN paths : at[j] = k
           /\ \A j \in DOMAIN paths : paths[j] = argv[at[j]].dir
    BY DEF Placed
  <1>2. at \in [DOMAIN paths -> 1..(n + 1)]
    BY OneMore
  <1>3. ASSUME NEW k \in 1..(n + 1)
        PROVE  Is(k, "path") <=> \E j \in DOMAIN paths : at[j] = k
    <2>1. CASE k \in 1..n
      BY <1>1, <2>1
    <2>2. CASE k = n + 1
      <3>1. n + 1 \notin 1..n
        OBVIOUS
      <3> QED
        BY <2>2, <3>1
    <2> QED
      BY <2>1, <2>2, OneMore
  <1> QED
    BY <1>1, <1>2, <1>3 DEF Placed

LEMMA PlacedOperand ==
  ASSUME NEW n \in Nat, Is(n + 1, "path"), Placed(n), paths \in Seq(Named),
         argv[n + 1].dir \in Named,
         argv' = argv, paths' = Append(paths, argv[n + 1].dir)
  PROVE  Placed(n + 1)'
  <1> DEFINE l == Len(paths)
  <1>1. /\ l \in Nat /\ DOMAIN paths = 1..l /\ DOMAIN paths' = 1..(l + 1)
        /\ \A j \in 1..l : paths'[j] = paths[j]
        /\ paths'[l + 1] = argv[n + 1].dir
    BY AppendProperties, LenProperties
  <1>2. PICK at \in [DOMAIN paths -> 1..n] :
           /\ \A j, k \in DOMAIN paths : j < k => at[j] < at[k]
           /\ \A k \in 1..n : Is(k, "path") <=> \E j \in DOMAIN paths : at[j] = k
           /\ \A j \in DOMAIN paths : paths[j] = argv[at[j]].dir
    BY DEF Placed
  <1> HIDE DEF l
  <1> DEFINE new == [j \in 1..(l + 1) |-> IF j = l + 1 THEN n + 1 ELSE at[j]]
  <1>3. \A j \in 1..l : at[j] \in 1..n /\ new[j] = at[j] /\ j \in 1..(l + 1)
    BY <1>1
  <1>4. new[l + 1] = n + 1 /\ l + 1 \in 1..(l + 1)
    BY <1>1
  <1>5. \A j \in 1..(l + 1) : j \in 1..l \/ j = l + 1
    BY <1>1, OneMore
  <1>6. new \in [1..(l + 1) -> 1..(n + 1)]
    BY <1>1, <1>2
  <1> HIDE DEF new
  <1>7. ASSUME NEW j \in 1..(l + 1), NEW k \in 1..(l + 1), j < k
        PROVE  new[j] < new[k]
    <2>1. CASE j \in 1..l /\ k \in 1..l
      BY <1>1, <1>2, <1>3, <1>7, <2>1
    <2>2. CASE j \in 1..l /\ k = l + 1
      BY <1>3, <1>4, <2>2
    <2>3. j # l + 1
      BY <1>1, <1>7
    <2> QED
      BY <1>5, <2>1, <2>2, <2>3
  <1>8. ASSUME NEW k \in 1..(n + 1)
        PROVE  Is(k, "path") <=> \E j \in 1..(l + 1) : new[j] = k
    <2>1. CASE k \in 1..n
      <3>1. Is(k, "path") <=> \E j \in 1..l : at[j] = k
        BY <1>1, <1>2, <2>1
      <3>2. k # n + 1
        BY <2>1
      <3> QED
        BY <1>3, <1>4, <1>5, <3>1, <3>2
    <2>2. CASE k = n + 1
      BY <1>4, <2>2
    <2> QED
      BY <2>1, <2>2, OneMore
  <1>9. ASSUME NEW j \in 1..(l + 1)
        PROVE  paths'[j] = argv[new[j]].dir
    BY <1>1, <1>2, <1>3, <1>4, <1>5
  <1>10. \E f \in [DOMAIN paths' -> 1..(n + 1)] :
            /\ \A j, k \in DOMAIN paths' : j < k => f[j] < f[k]
            /\ \A k \in 1..(n + 1) : argv'[k].kind = "path" <=> \E j \in DOMAIN paths' : f[j] = k
            /\ \A j \in DOMAIN paths' : paths'[j] = argv'[f[j]].dir
    <2>1. new \in [DOMAIN paths' -> 1..(n + 1)]
      BY <1>1, <1>6
    <2>2. \A j, k \in DOMAIN paths' : j < k => new[j] < new[k]
      BY <1>1, <1>7
    <2>3. \A k \in 1..(n + 1) : argv'[k].kind = "path" <=> \E j \in DOMAIN paths' : new[j] = k
      BY <1>1, <1>8 DEF Is
    <2>4. \A j \in DOMAIN paths' : paths'[j] = argv'[new[j]].dir
      BY <1>1, <1>9
    <2> QED
      BY <2>1, <2>2, <2>3, <2>4, Zenon
  <1> QED
    BY <1>10, Zenon DEF Placed, Is

(* One more argument. *)
LEMMA ParseMeans ==
  ASSUME StructInv, ParseArgument, NEW n \in Nat, arg = n + 1, Means(n),
         ~LongOption("other", n), pc' = "parse"
  PROVE  Means(n + 1)' /\ ~LongOption("other", n + 1)'
  <1> DEFINE a == argv[n + 1]
  <1>1. argv \in Seq(Arguments) /\ Len(argv) \in Nat /\ n + 1 \in 1..Len(argv) /\ flags \in FlagSets
    BY LenProperties DEF StructInv, TypeInv, ParseArgument
  <1>2. a \in Arguments
    BY <1>1
  <1>3. /\ a.kind = "path" => a.dir \in Named
        /\ a.kind = "short" => a.letters \in SUBSET Letters
        /\ a.kind = "long" => a.text \in Long
    BY <1>2, ArgumentType
  <1>4. argv' = argv
    BY DEF ParseArgument
  <1>5. \/ a.kind = "path" /\ paths' = Append(paths, a.dir) /\ flags' = flags
        \/ a.kind = "short" /\ flags' = ShortFlags(a.letters, flags) /\ paths' = paths
        \/ a.kind = "long" /\ flags' = parse_long_argument(a.text, flags) /\ paths' = paths
    BY DEF ParseArgument
  <1>6. a.kind = "long" => a.text # "other"
    BY DEF ParseArgument, LongOk
  <1> HIDE DEF a
  <1>7. /\ \A kind : Is(n + 1, kind) <=> a.kind = kind
        /\ Sorts(n + 1) <=> \/ a.kind = "short" /\ "U" \in a.letters
                            \/ a.kind = "long" /\ a.text \in {"sort=none", "sort=name", "sort=width"}
        /\ Order(n + 1) = IF a.kind = "short" \/ a.text = "sort=none" THEN "NONE"
                          ELSE IF a.text = "sort=name" THEN "NAME" ELSE "WIDTH"
    BY DEF a, Is, Sorts, Order
  <1>8. /\ flags'.show_hidden <=>
             flags.show_hidden \/ (a.kind = "short" /\ a.letters \intersect {"a", "A"} # {})
        /\ flags'.recursive <=> flags.recursive \/ (a.kind = "short" /\ "R" \in a.letters)
        /\ flags'.reverse <=> \/ flags.reverse
                              \/ a.kind = "short" /\ "r" \in a.letters
                              \/ a.kind = "long" /\ a.text = "reverse"
        /\ flags'.sort = IF Sorts(n + 1) THEN Order(n + 1) ELSE flags.sort
    <2>1. CASE a.kind = "path" /\ flags' = flags
      BY <1>7, <2>1
    <2>2. CASE a.kind = "short" /\ flags' = ShortFlags(a.letters, flags)
      <3>1. /\ flags'.show_hidden = (flags.show_hidden \/ a.letters \intersect {"a", "A"} # {})
            /\ flags'.reverse = (flags.reverse \/ "r" \in a.letters)
            /\ flags'.recursive = (flags.recursive \/ "R" \in a.letters)
            /\ flags'.sort = IF "U" \in a.letters THEN "NONE" ELSE flags.sort
        <4>1. a.letters \in SUBSET Letters
          BY <1>3, <2>2
        <4> DEFINE g == ShortFlags(a.letters, flags)
        <4>2. /\ g.show_hidden = (flags.show_hidden \/ a.letters \intersect {"a", "A"} # {})
              /\ g.reverse = (flags.reverse \/ "r" \in a.letters)
              /\ g.recursive = (flags.recursive \/ "R" \in a.letters)
              /\ g.sort = IF "U" \in a.letters THEN "NONE" ELSE flags.sort
          BY <1>1, <4>1, FlagsType
        <4>3. flags' = g
          BY <2>2
        <4> HIDE DEF g
        <4> QED
          BY <4>2, <4>3
      <3> QED
        BY <1>7, <2>2, <3>1
    <2>3. CASE a.kind = "long" /\ flags' = parse_long_argument(a.text, flags)
      <3>1. /\ flags'.show_hidden = flags.show_hidden
            /\ flags'.reverse = (flags.reverse \/ a.text = "reverse")
            /\ flags'.recursive = flags.recursive
            /\ flags'.sort = IF a.text = "sort=none" THEN "NONE"
                             ELSE IF a.text = "sort=name" THEN "NAME"
                             ELSE IF a.text = "sort=width" THEN "WIDTH" ELSE flags.sort
        <4>1. a.text \in Long
          BY <1>3, <2>3
        <4> DEFINE g == parse_long_argument(a.text, flags)
        <4>2. /\ g.show_hidden = flags.show_hidden
              /\ g.reverse = (flags.reverse \/ a.text = "reverse")
              /\ g.recursive = flags.recursive
              /\ g.sort = IF a.text = "sort=none" THEN "NONE"
                               ELSE IF a.text = "sort=name" THEN "NAME"
                               ELSE IF a.text = "sort=width" THEN "WIDTH" ELSE flags.sort
          BY <1>1, <4>1, FlagsType
        <4>3. flags' = g
          BY <2>3
        <4> HIDE DEF g
        <4> QED
          BY <4>2, <4>3
      <3> QED
        BY <1>7, <2>3, <3>1
    <2> QED
      BY <1>5, <2>1, <2>2, <2>3
  <1>9. Switched(n) /\ Sorted(n) /\ Placed(n)
    BY MeansParts
  <1>10. /\ \A S : Letter(S, n + 1)' <=> Letter(S, n) \/ (a.kind = "short" /\ a.letters \intersect S # {})
         /\ \A t : LongOption(t, n + 1)' <=> LongOption(t, n) \/ (a.kind = "long" /\ a.text = t)
    <2>1. /\ \A S : Letter(S, n + 1)' <=> Letter(S, n + 1)
          /\ \A t : LongOption(t, n + 1)' <=> LongOption(t, n + 1)
      BY <1>4 DEF Letter, LongOption, Is
    <2> QED
      BY <1>7, <2>1, OneMoreArgument, Zenon DEF a
  <1>11. Switched(n + 1)'
    <2>1. /\ flags'.show_hidden <=> Letter({"a", "A"}, n + 1)'
          /\ flags'.recursive <=> Letter({"R"}, n + 1)'
          /\ flags'.reverse <=> Letter({"r"}, n + 1)' \/ LongOption("reverse", n + 1)'
      <3>1. /\ "R" \in a.letters <=> a.letters \intersect {"R"} # {}
            /\ "r" \in a.letters <=> a.letters \intersect {"r"} # {}
        OBVIOUS
      <3> QED
        BY <1>8, <1>9, <1>10, <3>1, Zenon DEF Switched
    <2> QED
      BY <2>1 DEF Switched
  <1>12. Sorted(n + 1)'
    <2>1. /\ \A k : Sorts(k)' <=> Sorts(k)
          /\ \A k : Order(k)' = Order(k)
      BY <1>4 DEF Sorts, Order, Is
    <2>2. ASSUME \A k \in 1..(n + 1) : ~Sorts(k) PROVE flags'.sort = "NAME"
      BY <1>8, <1>9, <2>2, OneMore DEF Sorted
    <2>3. ASSUME NEW k \in 1..(n + 1), Sorts(k), \A j \in 1..(n + 1) : Sorts(j) => j <= k
          PROVE  flags'.sort = Order(k)
      <3>1. CASE Sorts(n + 1)
        <4>1. k = n + 1
          BY <2>3, <3>1
        <4> QED
          BY <1>8, <3>1, <4>1
      <3>2. CASE ~Sorts(n + 1)
        <4>1. k \in 1..n
          BY <2>3, <3>2, OneMore
        <4>2. \A j \in 1..n : Sorts(j) => j <= k
          BY <2>3, OneMore
        <4> QED
          BY <1>8, <1>9, <2>3, <3>2, <4>1, <4>2 DEF Sorted
      <3> QED
        BY <3>1, <3>2
    <2> QED
      BY <2>1, <2>2, <2>3, Zenon DEF Sorted
  <1>13. Placed(n + 1)'
    <2>1. CASE a.kind = "path" /\ paths' = Append(paths, a.dir)
      BY <1>3, <1>4, <1>7, <1>9, <2>1, PlacedOperand DEF a, StructInv, TypeInv
    <2>2. CASE a.kind # "path" /\ paths' = paths
      <3>1. Placed(n + 1)
        BY <1>7, <1>9, <2>2, PlacedOther
      <3> QED
        BY <1>4, <2>2, <3>1 DEF Placed, Is
    <2> QED
      BY <1>5, <2>1, <2>2
  <1>14. Means(n + 1)'
    BY <1>11, <1>12, <1>13, Zenon DEF Means, Switched, Sorted, Placed, Order
  <1>15. ~LongOption("other", n + 1)'
    BY <1>6, <1>10
  <1> QED
    BY <1>14, <1>15

LEMMA OptionsInit == Init => OptionsInv
  <1> SUFFICES ASSUME Init PROVE OptionsInv
    OBVIOUS
  <1>1. /\ flags.show_hidden = FALSE /\ flags.recursive = FALSE /\ flags.reverse = FALSE
        /\ flags.sort = "NAME"
    BY DEF Init, DefaultFlags
  <1>2. \A S : ~Letter(S, 0)
    BY DEF Letter
  <1>3. \A t : ~LongOption(t, 0)
    BY DEF LongOption
  <1>4. Switched(0) /\ Sorted(0)
    BY <1>1, <1>2, <1>3 DEF Switched, Sorted
  <1>5. Placed(0)
    <2>1. DOMAIN paths = {}
      BY DEF Init
    <2>2. PICK at : at \in [DOMAIN paths -> 1..0]
      <3>1. [j \in {} |-> 0] \in [DOMAIN paths -> 1..0]
        BY <2>1
      <3> QED
        BY <3>1, Zenon
    <2>3. \A k \in 1..0 : FALSE
      OBVIOUS
    <2> QED
      BY <2>1, <2>2, <2>3, Zenon DEF Placed
  <1>6. Means(0)
    BY <1>4, <1>5, MeansParts
  <1>7. pc = "parse" /\ arg - 1 = 0
    BY DEF Init
  <1> QED
    BY <1>3, <1>6, <1>7 DEF OptionsInv, ExitStatus, Walking

LEMMA OptionsStep == StructInv /\ OptionsInv /\ [Next]_vars => OptionsInv'
  <1> SUFFICES ASSUME StructInv, OptionsInv, [Next]_vars PROVE OptionsInv'
    OBVIOUS
  <1>1. Len(argv) \in Nat /\ arg \in Nat /\ arg >= 1 /\ arg <= Len(argv) + 1
    BY LenProperties DEF StructInv, TypeInv
  <1>2. PICK l \in Nat : l = Len(argv)
    BY <1>1
  <1>3. CASE ParseArgument
    <2>1. PICK n \in Nat : arg = n + 1
      BY <1>1
    <2>2. /\ pc = "parse" /\ arg \in 1..l /\ Means(n) /\ ~LongOption("other", n)
          /\ argv' = argv /\ arg' = n + 2 /\ listed' = listed /\ listed = <<>> /\ err = 0
      <3>1. pc = "parse" /\ arg <= l /\ argv' = argv /\ arg' = arg + 1 /\ listed' = listed
        BY <1>2, <1>3 DEF ParseArgument
      <3>2. n = arg - 1
        BY <2>1
      <3> QED
        BY <1>1, <1>2, <2>1, <3>1, <3>2 DEF OptionsInv, StructInv, ControlInv
    <2>3. CASE pc' = "parse"
      <3>1. Means(n + 1)' /\ ~LongOption("other", n + 1)'
        BY <1>3, <2>1, <2>2, <2>3, ParseMeans
      <3>2. arg' - 1 = n + 1
        BY <2>2
      <3>3. Means(arg - 1)' /\ ~LongOption("other", arg - 1)'
        <4>1. PICK q : q = n + 1
          OBVIOUS
        <4>2. Means(q)' /\ ~LongOption("other", q)'
          BY <3>1, <4>1
        <4>3. arg' - 1 = q
          BY <3>2, <4>1
        <4>4. /\ Means(q)' <=> Means(arg - 1)'
              /\ LongOption("other", q)' <=> LongOption("other", arg - 1)'
          BY <4>3, Zenon DEF Means, LongOption, Letter
        <4> QED
          BY <4>2, <4>4
      <3> QED
        BY <2>3, <3>3 DEF OptionsInv, ExitStatus, Walking
    <2>4. CASE pc' # "parse"
      <3>1. pc' = "exit" /\ err' = 7 /\ Is(arg, "long") /\ argv[arg].text = "other"
        BY <1>3, <2>2, <2>4 DEF ParseArgument, LongOk, Is
      <3>2. LongOption("other", Len(argv))'
        BY <1>2, <2>2, <3>1 DEF LongOption, Is
      <3> QED
        BY <2>2, <3>1, <3>2 DEF OptionsInv, ExitStatus, Walking
    <2> QED
      BY <2>3, <2>4
  <1>4. CASE CallLs
    <2>1. pc = "parse" /\ arg - 1 = l /\ UNCHANGED <<argv, flags, paths>> /\ pc' = "enter"
      BY <1>1, <1>2, <1>4 DEF CallLs, line
    <2>2. Means(l) /\ ~LongOption("other", l)
      BY <2>1 DEF OptionsInv
    <2>3. Means(l)' /\ ~LongOption("other", l)'
      BY <2>1, <2>2, MeansUnchanged
    <2>4. Len(argv)' = l
      BY <1>2, <2>1
    <2>5. Means(Len(argv))' /\ ~LongOption("other", Len(argv))'
      BY <2>3, <2>4, Zenon DEF Means, LongOption, Letter
    <2> QED
      BY <2>1, <2>5 DEF OptionsInv, ExitStatus
  <1>5. ASSUME UNCHANGED <<argv, flags, paths>>, pc \in Walking \union {"ub"},
               pc' \in Walking \union {"ub", "killed"} \/ (pc' = "exit" /\ err' = 0)
        PROVE  OptionsInv'
    <2>1. Means(l) /\ ~LongOption("other", l)
      BY <1>2, <1>5 DEF OptionsInv
    <2>2. Means(l)' /\ ~LongOption("other", l)'
      BY <1>5, <2>1, MeansUnchanged
    <2>3. Len(argv)' = l
      BY <1>2, <1>5
    <2>4. Means(Len(argv))' /\ ~LongOption("other", Len(argv))'
      BY <2>2, <2>3, Zenon DEF Means, LongOption, Letter
    <2> QED
      BY <1>5, <2>4 DEF OptionsInv, ExitStatus, Walking
  <1>6. CASE Enter \/ Concat \/ Skips \/ PrintDir \/ EndLoop \/ Return \/ Exit
    <2>1. UNCHANGED <<argv, flags, paths>>
      BY <1>6, SkipEffect DEF Enter, Concat, PrintDir, EndLoop, Return, Exit, line
    <2>2. pc \in Walking /\ err = 0
      BY <1>6, SkipEffect DEF Enter, Concat, PrintDir, EndLoop, Return, Exit, Walking,
                              StructInv, ControlInv
    <2>3. pc' \in Walking \union {"ub"} \/ (pc' = "exit" /\ err' = err)
      BY <1>6, <2>2, SkipEffect DEF Enter, Concat, PrintDir, EndLoop, Return, Exit, Walking
    <2> QED
      BY <1>5, <2>1, <2>2, <2>3
  <1>7. ASSUME UNCHANGED <<argv, arg, flags, paths>>, pc' = pc /\ err' = err /\ listed' = listed
        PROVE  OptionsInv'
    <2>1. PICK n : n = arg - 1
      OBVIOUS
    <2>2. arg' - 1 = n /\ Len(argv)' = l
      BY <1>2, <1>7, <2>1
    <2>3. /\ Means(n)' <=> Means(arg - 1)'
          /\ LongOption("other", n)' <=> LongOption("other", arg - 1)'
          /\ Means(l)' <=> Means(Len(argv))'
          /\ LongOption("other", l)' <=> LongOption("other", Len(argv))'
      BY <2>2, Zenon DEF Means, LongOption, Letter
    <2>4. /\ Means(n) => Means(n)'
          /\ Means(l) => Means(l)'
          /\ LongOption("other", n)' <=> LongOption("other", n)
          /\ LongOption("other", l)' <=> LongOption("other", l)
      BY <1>7, MeansUnchanged
    <2> QED
      BY <1>2, <1>7, <2>1, <2>3, <2>4 DEF OptionsInv, ExitStatus
  <1>8. CASE UNCHANGED vars
    BY <1>7, <1>8 DEF vars, line
  <1>9. CASE Killed
    BY <1>9 DEF Killed, OptionsInv, ExitStatus, Walking
  <1>10. ASSUME NEW d \in Dir \ {Cwd}, Change(d) PROVE OptionsInv'
    BY <1>7, <1>10 DEF Change, line
  <1> QED
    BY <1>3, <1>4, <1>6, <1>8, <1>9, <1>10 DEF Next, Step, Skips

LEMMA OptionsCorrect == Spec => [](StructInv /\ OptionsInv)
  BY StructInit, StructStep, OptionsInit, OptionsStep, PTL DEF Spec

(* For every command line: main()'s loop over the arguments gives ls() the *)
(* flags and the operands that the command line means, whatever the order  *)
(* and the number of its options.                                          *)
THEOREM LsOptionsMean == Spec => []OptionsMean
  <1>1. StructInv /\ OptionsInv => OptionsMean
    BY DEF StructInv, TypeInv, OptionsInv, OptionsMean, Running, Ended, Walking
  <1> QED
    BY <1>1, OptionsCorrect, PTL

(* For every command line and every change of the tree: ls exits with 7    *)
(* and without listing anything when there is an unknown long option, and  *)
(* with 0 otherwise; no other error value of ls.c is ever returned.        *)
THEOREM LsExitStatus == Spec => []ExitStatus
  <1>1. OptionsInv => ExitStatus
    BY DEF OptionsInv
  <1> QED
    BY <1>1, OptionsCorrect, PTL
-----------------------------------------------------------------------------
(* The blocks. *)

(* Which block an activation made last, and which ones it was given: the   *)
(* path is the full_path of the caller, the strings of dirs are in the     *)
(* block names had when read_dir() filled it.                              *)
GivenInv ==
  pc \in Walking =>
    /\ stack[1].path = Static /\ stack[1].source = Static
    /\ \A k \in 1..(Depth - 1) :
         stack[k + 1].path = stack[k].full /\ stack[k + 1].source = Names(k, 0)
    /\ \A k \in 1..Depth :
         stack[k].full = IF stack[k].i = 0 THEN Null ELSE FullPath(k, stack[k].i)

(* The activations that have not released their full_path yet. *)
Using == IF pc = "back" THEN Depth - 1 ELSE Depth

(* What main() and the activations hold, when ver tells which block the    *)
(* names of each recursion are in now.                                     *)
Owned(ver) ==
  {Paths} \union {FullPath(k, stack[k].i) : k \in {j \in 1..Using : stack[j].i # 0}}
    \union {Dirs(k) : k \in 1..(Depth - 1)}
    \union {Names(k, ver[k]) : k \in 1..(Depth - 1)}

LargeListed == \E k \in DOMAIN listed : listed[k] \in Large

(* The blocks during a walk; names has moved only if a large directory was *)
(* listed.                                                                 *)
HeldInv ==
  \E ver \in [1..(Depth - 1) -> {0, 1}] :
    heap = Owned(ver) /\ \A k \in 1..(Depth - 1) : ver[k] = 1 => LargeListed

HeapInv ==
  /\ pc = "parse" => heap = {Paths}
  /\ pc \in Walking => HeldInv
  /\ pc = "exit" => heap = IF err = 7 THEN {Paths} ELSE {}
  /\ DanglingOnlyIfLarge

LEMMA BlocksDiffer ==
  /\ \A k, v, m, w \in Nat :
       /\ FullPath(k, v) = FullPath(m, w) <=> k = m /\ v = w
       /\ Names(k, v) = Names(m, w) <=> k = m /\ v = w
       /\ Dirs(k) = Dirs(m) <=> k = m
       /\ FullPath(k, v) # Names(m, w) /\ FullPath(k, v) # Dirs(m) /\ Names(k, v) # Dirs(m)
       /\ FullPath(k, v) # Null /\ FullPath(k, v) # Paths /\ FullPath(k, v) # Static
       /\ Names(k, v) # Null /\ Names(k, v) # Paths /\ Names(k, v) # Static
       /\ Dirs(k) # Null /\ Dirs(k) # Paths /\ Dirs(k) # Static
  /\ Paths # Null /\ Paths # Static /\ Null # Static
  BY DEF FullPath, Names, Dirs, Null, Paths, Static

LEMMA OwnedDef ==
  ASSUME NEW ver, NEW b
  PROVE  b \in Owned(ver) <=>
           \/ b = Paths
           \/ \E k \in 1..Using : stack[k].i # 0 /\ b = FullPath(k, stack[k].i)
           \/ \E k \in 1..(Depth - 1) : b = Dirs(k)
           \/ \E k \in 1..(Depth - 1) : b = Names(k, ver[k])
  BY DEF Owned

(* The stack of a walk. *)
LEMMA WalkTypes ==
  ASSUME StructInv, pc \in Walking
  PROVE  /\ stack \in Seq(Frames) /\ stack # <<>> /\ err = 0
         /\ Depth \in Nat /\ Depth >= 1 /\ 1 \in 1..Depth /\ Depth \in 1..Depth
         /\ \A k \in 1..Depth : stack[k].i \in Nat /\ stack[k].dirs \in Seq(Named)
         /\ \A k \in 1..(Depth - 1) : k \in 1..Depth /\ k + 1 \in 1..Depth /\ stack[k].i # 0
         /\ \A k \in 1..Depth : k = Depth \/ k \in 1..(Depth - 1)
         /\ Top = stack[Depth]
  <1>1. stack \in Seq(Frames) /\ stack # <<>> /\ err = 0
    BY DEF StructInv, TypeInv, ControlInv
  <1>2. Depth \in Nat \ {0} /\ \A k \in 1..Depth : stack[k] \in Frames
    BY <1>1, TopType
  <1>3. \A k \in 1..Depth : stack[k].i \in Nat /\ stack[k].dirs \in Seq(Named)
    BY <1>2 DEF Frames
  <1>4. \A k \in 1..(Depth - 1) : stack[k].i # 0
    BY DEF StructInv, ControlInv
  <1> QED
    BY <1>1, <1>2, <1>3, <1>4 DEF Top

LEMMA GivenSame ==
  ASSUME GivenInv, pc \in Walking, UNCHANGED stack
  PROVE  GivenInv'
  BY DEF GivenInv, Depth

LEMMA GivenStep == StructInv /\ GivenInv /\ [Next]_vars => GivenInv'
  <1> SUFFICES ASSUME StructInv, GivenInv, [Next]_vars, pc' \in Walking PROVE GivenInv'
    BY DEF GivenInv
  <1> USE DEF StructInv
  <1>1. CASE UNCHANGED <<pc, stack>>
    BY <1>1, GivenSame
  <1>2. CASE ParseArgument
    BY <1>2 DEF ParseArgument, Walking
  <1>3. CASE CallLs
    <2>1. /\ Depth' = 1 /\ stack'[1].path = Static /\ stack'[1].source = Static
          /\ stack'[1].i = 0 /\ stack'[1].full = Null
      BY <1>3, CallEffect
    <2> QED
      BY <2>1 DEF GivenInv
  <1>4. CASE Enter \/ Concat \/ Skips \/ PrintDir \/ EndLoop \/ Return
    <2>1. pc \in Walking
      BY <1>4, SkipEffect DEF Enter, Concat, PrintDir, EndLoop, Return, Walking
    <2>2. /\ Depth \in Nat /\ Depth >= 1 /\ 1 \in 1..Depth /\ Depth \in 1..Depth
          /\ \A k \in 1..Depth : stack[k].i \in Nat
          /\ \A k \in 1..(Depth - 1) : k \in 1..Depth /\ k + 1 \in 1..Depth
          /\ \A k \in 1..Depth : k = Depth \/ k \in 1..(Depth - 1)
          /\ Top = stack[Depth]
      BY <2>1, WalkTypes
    <2>3. /\ stack[1].path = Static /\ stack[1].source = Static
          /\ \A k \in 1..(Depth - 1) :
               stack[k + 1].path = stack[k].full /\ stack[k + 1].source = Names(k, 0)
          /\ \A k \in 1..Depth :
               stack[k].full = IF stack[k].i = 0 THEN Null ELSE FullPath(k, stack[k].i)
      BY <2>1 DEF GivenInv
    <2>4. CASE Enter
      <3>1. /\ Depth' = Depth
            /\ \A k \in 1..Depth :
                 /\ stack'[k].path = stack[k].path /\ stack'[k].source = stack[k].source
                 /\ stack'[k].i = stack[k].i /\ stack'[k].full = stack[k].full
        BY <2>4, EnterEffect
      <3> QED
        BY <2>2, <2>3, <3>1 DEF GivenInv
    <2>5. CASE Concat
      <3>1. /\ Depth' = Depth
            /\ \A k \in 1..Depth :
                 /\ stack'[k].path = stack[k].path /\ stack'[k].source = stack[k].source
                 /\ stack'[k].i = IF k = Depth THEN stack[k].i + 1 ELSE stack[k].i
                 /\ stack'[k].full = IF k = Depth THEN FullPath(k, stack[k].i + 1) ELSE stack[k].full
        BY <2>5, ConcatEffect DEF Walking
      <3>2. \A k \in 1..(Depth - 1) :
               stack'[k + 1].path = stack'[k].full /\ stack'[k + 1].source = Names(k, 0)
        <4>1. \A k \in 1..(Depth - 1) : k # Depth
          BY <2>2
        <4> QED
          BY <2>2, <2>3, <3>1, <4>1
      <3>3. \A k \in 1..Depth :
               stack'[k].full = IF stack'[k].i = 0 THEN Null ELSE FullPath(k, stack'[k].i)
        BY <2>2, <2>3, <3>1
      <3> QED
        BY <2>2, <2>3, <3>1, <3>2, <3>3 DEF GivenInv
    <2>6. CASE Skips \/ EndLoop
      BY <2>1, <2>6, GivenSame, SkipEffect DEF EndLoop
    <2>7. CASE PrintDir
      <3>1. CASE UNCHANGED stack
        BY <2>1, <3>1, GivenSame
      <3>2. CASE Depth' = Depth + 1
        <4>1. /\ \A k \in 1..Depth : stack'[k] = stack[k]
              /\ stack'[Depth + 1].path = Top.full /\ stack'[Depth + 1].source = Names(Depth, 0)
              /\ stack'[Depth + 1].i = 0 /\ stack'[Depth + 1].full = Null
          BY <2>2, <2>7, <3>2, PrintDirEffect DEF Depth
        <4>2. Depth' - 1 = Depth /\ \A k \in 1..Depth' : k = Depth + 1 \/ k \in 1..Depth
          BY <2>2, <3>2
        <4> QED
          BY <2>2, <2>3, <4>1, <4>2 DEF GivenInv
      <3> QED
        BY <2>7, <3>1, <3>2, PrintDirEffect
    <2>8. CASE Return
      <3>1. Depth' = Depth - 1 /\ Depth > 1 /\ \A k \in 1..(Depth - 1) : stack'[k] = stack[k]
        BY <2>8, ReturnEffect
      <3>2. /\ 1 \in 1..(Depth - 1)
            /\ \A k \in 1..(Depth - 2) : k \in 1..(Depth - 1) /\ k + 1 \in 1..(Depth - 1)
        BY <2>2, <3>1
      <3>3. Depth' - 1 = Depth - 2
        BY <2>2, <3>1
      <3> QED
        BY <2>2, <2>3, <3>1, <3>2, <3>3 DEF GivenInv
    <2> QED
      BY <1>4, <2>4, <2>5, <2>6, <2>7, <2>8
  <1>5. CASE Exit \/ Killed
    BY <1>5 DEF Exit, Killed, Walking
  <1> QED
    BY <1>1, <1>2, <1>3, <1>4, <1>5 DEF Next, Step, Skips, Change, vars

(* The blocks of the next state. *)
LEMMA OwnedNext ==
  ASSUME NEW ver, NEW n, NEW u, Depth' - 1 = n, Using' = u,
         \A b : b \in heap' <=>
           \/ b = Paths
           \/ \E k \in 1..u : stack'[k].i # 0 /\ b = FullPath(k, stack'[k].i)
           \/ \E k \in 1..n : b = Dirs(k)
           \/ \E k \in 1..n : b = Names(k, ver[k])
  PROVE  heap' = Owned(ver)'
  <1>1. \A b : b \in Owned(ver)' <=>
           \/ b = Paths
           \/ \E k \in 1..u : stack'[k].i # 0 /\ b = FullPath(k, stack'[k].i)
           \/ \E k \in 1..n : b = Dirs(k)
           \/ \E k \in 1..n : b = Names(k, ver[k])
    BY DEF Owned
  <1> QED
    BY <1>1

LEMMA HeldSame ==
  ASSUME HeldInv, UNCHANGED <<stack, heap, listed>>, pc = "back" <=> pc' = "back"
  PROVE  HeldInv'
  <1>1. PICK ver \in [1..(Depth - 1) -> {0, 1}] :
           heap = Owned(ver) /\ \A k \in 1..(Depth - 1) : ver[k] = 1 => LargeListed
    BY DEF HeldInv
  <1>2. UNCHANGED <<Depth, Using, LargeListed>>
    BY DEF Depth, Using, LargeListed
  <1>3. Owned(ver)' = Owned(ver)
    BY <1>2 DEF Owned
  <1> QED
    BY <1>1, <1>2, <1>3 DEF HeldInv

LEMMA HeldEnter ==
  ASSUME StructInv, HeldInv, Enter
  PROVE  HeldInv'
  <1>1. PICK ver \in [1..(Depth - 1) -> {0, 1}] :
           heap = Owned(ver) /\ \A k \in 1..(Depth - 1) : ver[k] = 1 => LargeListed
    BY DEF HeldInv
  <1>2. /\ pc = "enter" /\ pc' = "turn" /\ Depth' = Depth /\ heap' = heap
        /\ listed' = listed /\ \A k \in 1..Depth : stack'[k].i = stack[k].i
    BY EnterEffect DEF StructInv, Enter
  <1>3. Using = Depth /\ Using' = Depth /\ UNCHANGED LargeListed
    BY <1>2 DEF Using, LargeListed
  <1>4. Owned(ver)' = Owned(ver)
    BY <1>2, <1>3 DEF Owned
  <1> QED
    BY <1>1, <1>2, <1>3, <1>4 DEF HeldInv

(* What is left when the activation on top has released its full_path. *)
LEMMA WithoutTop ==
  ASSUME StructInv, GivenInv, pc = "turn", NEW ver \in [1..(Depth - 1) -> {0, 1}],
         heap = Owned(ver)
  PROVE  \A b : b \in heap \ {Top.full} <=>
           \/ b = Paths
           \/ \E k \in 1..(Depth - 1) : b = FullPath(k, stack[k].i)
           \/ \E k \in 1..(Depth - 1) : b = Dirs(k)
           \/ \E k \in 1..(Depth - 1) : b = Names(k, ver[k])
  <1>1. pc \in Walking /\ Using = Depth
    BY DEF Walking, Using
  <1>2. /\ Depth \in Nat /\ Depth \in 1..Depth
        /\ \A k \in 1..Depth : stack[k].i \in Nat /\ k \in Nat
        /\ \A k \in 1..(Depth - 1) : k \in 1..Depth /\ stack[k].i # 0 /\ k # Depth
        /\ \A k \in 1..Depth : k = Depth \/ k \in 1..(Depth - 1)
        /\ Top = stack[Depth]
    BY <1>1, WalkTypes
  <1>3. Top.full = IF Top.i = 0 THEN Null ELSE FullPath(Depth, Top.i)
    BY <1>1, <1>2 DEF GivenInv
  <1>4. \A b : b \in heap <=>
           \/ b = Paths
           \/ \E k \in 1..Depth : stack[k].i # 0 /\ b = FullPath(k, stack[k].i)
           \/ \E k \in 1..(Depth - 1) : b = Dirs(k)
           \/ \E k \in 1..(Depth - 1) : b = Names(k, ver[k])
    BY <1>1, OwnedDef
  <1>5. \A k \in 1..(Depth - 1) : ver[k] \in Nat /\ k \in Nat
    BY <1>2
  <1>6. Top.i \in Nat
    BY <1>2
  <1>7. /\ Paths # Top.full
        /\ \A k \in 1..(Depth - 1) : FullPath(k, stack[k].i) # Top.full
        /\ \A k \in 1..(Depth - 1) : Dirs(k) # Top.full /\ Names(k, ver[k]) # Top.full
    BY <1>2, <1>3, <1>5, <1>6, BlocksDiffer
  <1>8. ASSUME NEW k \in 1..Depth, stack[k].i # 0
        PROVE  FullPath(k, stack[k].i) = Top.full \/ k \in 1..(Depth - 1)
    BY <1>2, <1>3, <1>8
  <1> QED
    BY <1>2, <1>4, <1>7, <1>8

LEMMA HeldConcat ==
  ASSUME StructInv, GivenInv, HeldInv, Concat, pc' = "print"
  PROVE  HeldInv'
  <1>1. PICK ver \in [1..(Depth - 1) -> {0, 1}] :
           heap = Owned(ver) /\ \A k \in 1..(Depth - 1) : ver[k] = 1 => LargeListed
    BY DEF HeldInv
  <1>2. pc = "turn" /\ listed' = listed /\ pc \in Walking
    BY DEF Concat, Walking
  <1>3. /\ Depth \in Nat /\ Depth \in 1..Depth
        /\ \A k \in 1..Depth : stack[k].i \in Nat
        /\ \A k \in 1..(Depth - 1) : k \in 1..Depth /\ stack[k].i # 0 /\ k # Depth
        /\ \A k \in 1..Depth : k = Depth \/ k \in 1..(Depth - 1)
        /\ Top = stack[Depth]
    BY <1>2, WalkTypes
  <1>4. /\ Depth' = Depth
        /\ heap' = (heap \ {Top.full}) \union {FullPath(Depth, Top.i + 1)}
        /\ \A k \in 1..Depth : stack'[k].i = IF k = Depth THEN stack[k].i + 1 ELSE stack[k].i
    BY <1>2, ConcatEffect DEF StructInv
  <1>5. Using' = Depth /\ UNCHANGED LargeListed
    BY <1>2, <1>4 DEF Using, LargeListed
  <1>6. \A b : b \in heap \ {Top.full} <=>
           \/ b = Paths
           \/ \E k \in 1..(Depth - 1) : b = FullPath(k, stack[k].i)
           \/ \E k \in 1..(Depth - 1) : b = Dirs(k)
           \/ \E k \in 1..(Depth - 1) : b = Names(k, ver[k])
    BY <1>1, <1>2, WithoutTop
  <1>7. \A b : (\E k \in 1..Depth : stack'[k].i # 0 /\ b = FullPath(k, stack'[k].i)) <=>
                \/ b = FullPath(Depth, Top.i + 1)
                \/ \E k \in 1..(Depth - 1) : b = FullPath(k, stack[k].i)
    <2>1. stack'[Depth].i = Top.i + 1 /\ Top.i + 1 # 0
      BY <1>3, <1>4
    <2>2. \A k \in 1..(Depth - 1) : stack'[k].i = stack[k].i
      BY <1>3, <1>4
    <2> QED
      BY <1>3, <2>1, <2>2
  <1>8. \A b : b \in heap' <=>
           \/ b = Paths
           \/ \E k \in 1..Depth : stack'[k].i # 0 /\ b = FullPath(k, stack'[k].i)
           \/ \E k \in 1..(Depth - 1) : b = Dirs(k)
           \/ \E k \in 1..(Depth - 1) : b = Names(k, ver[k])
    BY <1>4, <1>6, <1>7
  <1>9. heap' = Owned(ver)'
    <2>1. PICK d : d = Depth
      OBVIOUS
    <2>2. PICK n : n = Depth - 1
      OBVIOUS
    <2> QED
      BY <1>4, <1>5, <1>8, <2>1, <2>2, OwnedNext
  <1> QED
    BY <1>1, <1>4, <1>5, <1>9 DEF HeldInv

LEMMA HeldPrintDir ==
  ASSUME StructInv, HeldInv, PrintDir
  PROVE  HeldInv'
  <1>1. PICK ver \in [1..(Depth - 1) -> {0, 1}] :
           heap = Owned(ver) /\ \A k \in 1..(Depth - 1) : ver[k] = 1 => LargeListed
    BY DEF HeldInv
  <1>2. pc = "read" /\ listed' = Append(listed, Current) /\ pc \in Walking /\ Current \in Dir
    BY PrintDirEffect DEF Walking
  <1>3. /\ Depth \in Nat /\ Depth \in 1..Depth
        /\ \A k \in 1..(Depth - 1) : k \in 1..Depth /\ k # Depth
        /\ \A k \in 1..Depth : k = Depth \/ k \in 1..(Depth - 1)
    BY <1>2, WalkTypes
  <1>4. (LargeListed => LargeListed') /\ (Current \in Large => LargeListed')
    <2>1. listed \in Seq(Dir) /\ Len(listed) \in Nat
      BY LenProperties DEF StructInv, TypeInv
    <2>2. /\ DOMAIN listed = 1..Len(listed) /\ DOMAIN listed' = 1..(Len(listed) + 1)
          /\ listed'[Len(listed) + 1] = Current
          /\ \A k \in 1..Len(listed) : listed'[k] = listed[k]
      BY <1>2, <2>1, AppendProperties, LenProperties
    <2>3. /\ Len(listed) + 1 \in 1..(Len(listed) + 1)
          /\ \A k \in 1..Len(listed) : k \in 1..(Len(listed) + 1)
      BY <2>1
    <2> QED
      BY <2>2, <2>3 DEF LargeListed
  <1>5. Using = Depth
    BY <1>2 DEF Using
  <1>6. CASE pc' = "turn" /\ UNCHANGED <<heap, stack>>
    <2>1. UNCHANGED <<Depth, Using>>
      BY <1>2, <1>6 DEF Depth, Using
    <2>2. Owned(ver)' = Owned(ver)
      BY <1>6, <2>1 DEF Owned
    <2> QED
      BY <1>1, <1>4, <1>6, <2>1, <2>2 DEF HeldInv
  <1>7. CASE pc' = "enter" /\ Depth' = Depth + 1
    <2>1. /\ \A k \in 1..Depth : stack'[k] = stack[k]
          /\ stack'[Depth + 1].i = 0
          /\ \E v \in {0, 1} : /\ v = 1 => Current \in Large
                               /\ heap' = heap \union {Names(Depth, v), Dirs(Depth)}
      BY <1>3, <1>7, PrintDirEffect DEF Depth
    <2>2. PICK v \in {0, 1} : /\ v = 1 => Current \in Large
                              /\ heap' = heap \union {Names(Depth, v), Dirs(Depth)}
      BY <2>1
    <2>3. PICK new : /\ new \in [1..Depth -> {0, 1}] /\ new[Depth] = v
                     /\ \A k \in 1..(Depth - 1) : new[k] = ver[k]
      <3> DEFINE f == [k \in 1..Depth |-> IF k = Depth THEN v ELSE ver[k]]
      <3>1. /\ f \in [1..Depth -> {0, 1}] /\ f[Depth] = v
            /\ \A k \in 1..(Depth - 1) : f[k] = ver[k]
        BY <1>1, <1>3, <2>2
      <3> HIDE DEF f
      <3> QED
        BY <3>1, Zenon
    <2>4. Using' = Depth + 1 /\ Depth' - 1 = Depth
      BY <1>3, <1>7 DEF Using
    <2>5. \A b : b \in heap' <=>
             \/ b = Paths
             \/ \E k \in 1..Depth : stack[k].i # 0 /\ b = FullPath(k, stack[k].i)
             \/ \E k \in 1..Depth : b = Dirs(k)
             \/ \E k \in 1..Depth : b = Names(k, new[k])
      <3>1. \A b : b \in heap <=>
               \/ b = Paths
               \/ \E k \in 1..Depth : stack[k].i # 0 /\ b = FullPath(k, stack[k].i)
               \/ \E k \in 1..(Depth - 1) : b = Dirs(k)
               \/ \E k \in 1..(Depth - 1) : b = Names(k, ver[k])
        BY <1>1, <1>5, OwnedDef
      <3>2. /\ \A b : (\E k \in 1..Depth : b = Dirs(k)) <=>
                       b = Dirs(Depth) \/ \E k \in 1..(Depth - 1) : b = Dirs(k)
            /\ \A b : (\E k \in 1..Depth : b = Names(k, new[k])) <=>
                       b = Names(Depth, v) \/ \E k \in 1..(Depth - 1) : b = Names(k, ver[k])
        BY <1>3, <2>3
      <3> QED
        BY <2>2, <3>1, <3>2
    <2>6. \A b : (\E k \in 1..(Depth + 1) : stack'[k].i # 0 /\ b = FullPath(k, stack'[k].i)) <=>
                  \E k \in 1..Depth : stack[k].i # 0 /\ b = FullPath(k, stack[k].i)
      BY <1>3, <2>1
    <2>7. heap' = Owned(new)'
      <3>1. PICK n : n = Depth
        OBVIOUS
      <3>2. PICK u : u = Depth + 1
        OBVIOUS
      <3>3. \A b : b \in heap' <=>
              \/ b = Paths
              \/ \E k \in 1..u : stack'[k].i # 0 /\ b = FullPath(k, stack'[k].i)
              \/ \E k \in 1..n : b = Dirs(k)
              \/ \E k \in 1..n : b = Names(k, new[k])
        BY <2>5, <2>6, <3>1, <3>2
      <3> QED
        BY <2>4, <3>1, <3>2, <3>3, OwnedNext
    <2>8. \A k \in 1..Depth : new[k] = 1 => LargeListed'
      BY <1>1, <1>3, <1>4, <2>2, <2>3
    <2> QED
      BY <2>3, <2>4, <2>7, <2>8 DEF HeldInv
  <1> QED
    BY <1>6, <1>7, PrintDirEffect

LEMMA HeldEndLoop ==
  ASSUME StructInv, GivenInv, HeldInv, EndLoop
  PROVE  HeldInv'
  <1>1. PICK ver \in [1..(Depth - 1) -> {0, 1}] :
           heap = Owned(ver) /\ \A k \in 1..(Depth - 1) : ver[k] = 1 => LargeListed
    BY DEF HeldInv
  <1>2. /\ pc = "turn" /\ pc' = "back" /\ UNCHANGED <<stack, listed>>
        /\ heap' = heap \ {Top.full} /\ pc \in Walking
    BY DEF EndLoop, Walking
  <1>3. UNCHANGED <<Depth, LargeListed>> /\ Using' = Depth - 1
    BY <1>2 DEF Depth, LargeListed, Using
  <1>4. \A k \in 1..(Depth - 1) : stack[k].i # 0
    BY <1>2, WalkTypes
  <1>5. \A b : b \in heap' <=>
           \/ b = Paths
           \/ \E k \in 1..(Depth - 1) : stack'[k].i # 0 /\ b = FullPath(k, stack'[k].i)
           \/ \E k \in 1..(Depth - 1) : b = Dirs(k)
           \/ \E k \in 1..(Depth - 1) : b = Names(k, ver[k])
    <2>1. \A b : b \in heap \ {Top.full} <=>
             \/ b = Paths
             \/ \E k \in 1..(Depth - 1) : b = FullPath(k, stack[k].i)
             \/ \E k \in 1..(Depth - 1) : b = Dirs(k)
             \/ \E k \in 1..(Depth - 1) : b = Names(k, ver[k])
      BY <1>1, <1>2, WithoutTop
    <2> QED
      BY <1>2, <1>4, <2>1
  <1>6. heap' = Owned(ver)'
    <2>1. PICK n : n = Depth - 1
      OBVIOUS
    <2> QED
      BY <1>3, <1>5, <2>1, OwnedNext
  <1> QED
    BY <1>1, <1>3, <1>6 DEF HeldInv

LEMMA HeldReturn ==
  ASSUME StructInv, HeldInv, Return
  PROVE  HeldInv'
  <1>1. PICK ver \in [1..(Depth - 1) -> {0, 1}] :
           heap = Owned(ver) /\ \A k \in 1..(Depth - 1) : ver[k] = 1 => LargeListed
    BY DEF HeldInv
  <1>2. /\ pc = "back" /\ pc' = "turn" /\ Depth \in Nat /\ Depth > 1 /\ listed' = listed
        /\ heap' = heap \ {Names(Depth - 1, 0), Names(Depth - 1, 1), Dirs(Depth - 1)}
        /\ Depth' = Depth - 1 /\ \A k \in 1..(Depth - 1) : stack'[k] = stack[k]
    BY ReturnEffect DEF StructInv, Return
  <1>3. Using = Depth - 1 /\ Using' = Depth - 1 /\ Depth' - 1 = Depth - 2 /\ UNCHANGED LargeListed
    BY <1>2 DEF Using, LargeListed
  <1>4. /\ Depth - 1 \in 1..(Depth - 1)
        /\ \A k \in 1..(Depth - 2) : k \in 1..(Depth - 1) /\ k # Depth - 1
        /\ \A k \in 1..(Depth - 1) : k = Depth - 1 \/ k \in 1..(Depth - 2)
        /\ \A k \in 1..(Depth - 1) : k \in Nat /\ ver[k] \in {0, 1}
        /\ \A k \in 1..(Depth - 1) : stack[k].i \in Nat
    <2>1. \A k \in 1..(Depth - 1) : k \in 1..Depth
      BY <1>2
    <2>2. \A k \in 1..Depth : stack[k].i \in Nat
      BY <1>2, WalkTypes DEF Walking
    <2> QED
      BY <1>1, <1>2, <2>1, <2>2
  <1>5. PICK new : new \in [1..(Depth - 2) -> {0, 1}] /\ \A k \in 1..(Depth - 2) : new[k] = ver[k]
    <2> DEFINE f == [k \in 1..(Depth - 2) |-> ver[k]]
    <2>1. f \in [1..(Depth - 2) -> {0, 1}] /\ \A k \in 1..(Depth - 2) : f[k] = ver[k]
      BY <1>4
    <2> HIDE DEF f
    <2> QED
      BY <2>1, Zenon
  <1>6. \A b : b \in heap <=>
           \/ b = Paths
           \/ \E k \in 1..(Depth - 1) : stack[k].i # 0 /\ b = FullPath(k, stack[k].i)
           \/ \E k \in 1..(Depth - 1) : b = Dirs(k)
           \/ \E k \in 1..(Depth - 1) : b = Names(k, ver[k])
    BY <1>1, <1>3, OwnedDef
  <1> DEFINE gone == {Names(Depth - 1, 0), Names(Depth - 1, 1), Dirs(Depth - 1)}
  <1>7. /\ Paths \notin gone
        /\ \A k \in 1..(Depth - 1) : FullPath(k, stack[k].i) \notin gone
        /\ \A k \in 1..(Depth - 1) : Dirs(k) \in gone <=> k = Depth - 1
        /\ \A k \in 1..(Depth - 1) : Names(k, ver[k]) \in gone <=> k = Depth - 1
    <2>1. Depth - 1 \in Nat /\ 0 \in Nat /\ 1 \in Nat
      BY <1>2
    <2>2. \A k \in 1..(Depth - 1) : ver[k] \in Nat /\ (ver[k] = 0 \/ ver[k] = 1)
      BY <1>4
    <2> QED
      BY <1>4, <2>1, <2>2, BlocksDiffer
  <1>8. \A b : b \in heap' <=>
           \/ b = Paths
           \/ \E k \in 1..(Depth - 1) : stack'[k].i # 0 /\ b = FullPath(k, stack'[k].i)
           \/ \E k \in 1..(Depth - 2) : b = Dirs(k)
           \/ \E k \in 1..(Depth - 2) : b = Names(k, new[k])
    <2> HIDE DEF gone
    <2>1. heap' = heap \ gone
      BY <1>2 DEF gone
    <2>2. ASSUME NEW b
          PROVE  b \in heap \ gone <=>
                   \/ b = Paths
                   \/ \E k \in 1..(Depth - 1) : stack[k].i # 0 /\ b = FullPath(k, stack[k].i)
                   \/ \E k \in 1..(Depth - 1) : k # Depth - 1 /\ b = Dirs(k)
                   \/ \E k \in 1..(Depth - 1) : k # Depth - 1 /\ b = Names(k, ver[k])
      BY <1>6, <1>7, Zenon
    <2>3. ASSUME NEW b
          PROVE  /\ (\E k \in 1..(Depth - 1) : k # Depth - 1 /\ b = Dirs(k)) <=>
                      \E k \in 1..(Depth - 2) : b = Dirs(k)
                 /\ (\E k \in 1..(Depth - 1) : k # Depth - 1 /\ b = Names(k, ver[k])) <=>
                      \E k \in 1..(Depth - 2) : b = Names(k, new[k])
      BY <1>4, <1>5, Zenon
    <2>4. ASSUME NEW b
          PROVE  (\E k \in 1..(Depth - 1) : stack[k].i # 0 /\ b = FullPath(k, stack[k].i)) <=>
                   \E k \in 1..(Depth - 1) : stack'[k].i # 0 /\ b = FullPath(k, stack'[k].i)
      BY <1>2
    <2> QED
      BY <2>1, <2>2, <2>3, <2>4
  <1>9. heap' = Owned(new)'
    <2>1. PICK n : n = Depth - 2
      OBVIOUS
    <2>2. PICK u : u = Depth - 1
      OBVIOUS
    <2> QED
      BY <1>3, <1>8, <2>1, <2>2, OwnedNext
  <1>10. \A k \in 1..(Depth - 2) : new[k] = 1 => LargeListed'
    BY <1>1, <1>3, <1>4, <1>5
  <1> QED
    BY <1>3, <1>5, <1>9, <1>10 DEF HeldInv

(* concat_path() reads a block that is gone only when names was moved. *)
LEMMA DanglingIsLarge ==
  ASSUME StructInv, GivenInv, HeldInv, pc = "turn", ~(Live(Top.path) /\ Live(Top.source))
  PROVE  LargeListed
  <1>1. PICK ver \in [1..(Depth - 1) -> {0, 1}] :
           heap = Owned(ver) /\ \A k \in 1..(Depth - 1) : ver[k] = 1 => LargeListed
    BY DEF HeldInv
  <1>2. pc \in Walking /\ Using = Depth
    BY DEF Walking, Using
  <1>3. /\ Depth \in Nat /\ Depth >= 1 /\ Top = stack[Depth]
        /\ \A k \in 1..(Depth - 1) : k \in 1..Depth /\ stack[k].i # 0
    BY <1>2, WalkTypes
  <1>4. /\ stack[1].path = Static /\ stack[1].source = Static
        /\ \A k \in 1..(Depth - 1) :
             stack[k + 1].path = stack[k].full /\ stack[k + 1].source = Names(k, 0)
        /\ \A k \in 1..Depth :
             stack[k].full = IF stack[k].i = 0 THEN Null ELSE FullPath(k, stack[k].i)
    BY <1>2 DEF GivenInv
  <1>5. Depth # 1
    BY <1>3, <1>4 DEF Live
  <1>6. PICK k \in 1..(Depth - 1) : k + 1 = Depth
    BY <1>3, <1>5
  <1>7. Top.path = FullPath(k, stack[k].i) /\ Top.source = Names(k, 0) /\ stack[k].i # 0
    BY <1>3, <1>4, <1>6
  <1>8. FullPath(k, stack[k].i) \in Owned(ver) /\ Names(k, ver[k]) \in Owned(ver)
    BY <1>2, <1>3, <1>7, OwnedDef
  <1>9. ver[k] # 0
    BY <1>1, <1>7, <1>8 DEF Live
  <1> QED
    BY <1>1, <1>9

LEMMA HeapStep == StructInv /\ GivenInv /\ HeapInv /\ [Next]_vars => HeapInv'
  <1> SUFFICES ASSUME StructInv, GivenInv, HeapInv, [Next]_vars PROVE HeapInv'
    OBVIOUS
  <1>1. CASE UNCHANGED <<pc, err, stack, heap, listed>>
    <2>1. HeldInv => HeldInv'
      BY <1>1, HeldSame
    <2> QED
      BY <1>1, <2>1 DEF HeapInv, DanglingOnlyIfLarge
  <1>2. CASE ParseArgument
    BY <1>2 DEF ParseArgument, HeapInv, DanglingOnlyIfLarge, Walking
  <1>3. CASE CallLs
    <2>1. /\ pc' = "enter" /\ Depth' = 1 /\ stack'[1].i = 0 /\ heap' = {Paths}
      BY <1>3, CallEffect DEF CallLs, HeapInv
    <2>2. Using' = 1 /\ Depth' - 1 = 0
      BY <2>1 DEF Using
    <2>3. PICK ver : ver \in [1..0 -> {0, 1}]
      <3>1. [k \in 1..0 |-> 0] \in [1..0 -> {0, 1}]
        OBVIOUS
      <3> QED
        BY <3>1, Zenon
    <2>4. \A b : b \in heap' <=>
             \/ b = Paths
             \/ \E k \in 1..1 : stack'[k].i # 0 /\ b = FullPath(k, stack'[k].i)
             \/ \E k \in 1..0 : b = Dirs(k)
             \/ \E k \in 1..0 : b = Names(k, ver[k])
      BY <2>1
    <2>5. heap' = Owned(ver)'
      BY <2>2, <2>4, OwnedNext
    <2>6. 1..0 = 1..(Depth' - 1)
      BY <2>2
    <2>7. ver \in [1..(Depth' - 1) -> {0, 1}]
      BY <2>3, <2>6
    <2>8. \A k \in 1..(Depth' - 1) : ver[k] = 1 => LargeListed'
      BY <2>6
    <2>9. HeldInv'
      BY <2>5, <2>7, <2>8, Zenon DEF HeldInv
    <2> QED
      BY <2>1, <2>9 DEF HeapInv, DanglingOnlyIfLarge
  <1>4. ASSUME HeldInv', pc' \in Walking PROVE HeapInv'
    BY <1>4 DEF HeapInv, DanglingOnlyIfLarge, Walking
  <1>5. CASE Enter \/ Concat \/ Skips \/ PrintDir \/ EndLoop \/ Return
    <2>1. pc \in Walking /\ HeldInv
      BY <1>5, SkipEffect DEF Enter, Concat, PrintDir, EndLoop, Return, Walking, HeapInv
    <2>2. CASE Enter
      BY <1>4, <2>1, <2>2, HeldEnter, EnterEffect DEF StructInv, Walking
    <2>3. CASE Concat /\ pc' = "print"
      BY <1>4, <2>1, <2>3, HeldConcat DEF Walking
    <2>4. CASE Concat /\ pc' # "print"
      <3>1. pc = "turn" /\ pc' = "ub" /\ listed' = listed /\ ~(Live(Top.path) /\ Live(Top.source))
        BY <2>4 DEF Concat
      <3>2. LargeListed'
        BY <2>1, <3>1, DanglingIsLarge DEF LargeListed
      <3> QED
        BY <3>1, <3>2 DEF HeapInv, DanglingOnlyIfLarge, LargeListed, Walking
    <2>5. CASE Skips
      BY <1>4, <2>1, <2>5, HeldSame, SkipEffect DEF Walking
    <2>6. CASE PrintDir
      BY <1>4, <2>1, <2>6, HeldPrintDir, PrintDirEffect DEF Walking
    <2>7. CASE EndLoop
      BY <1>4, <2>1, <2>7, HeldEndLoop DEF EndLoop, Walking
    <2>8. CASE Return
      BY <1>4, <2>1, <2>8, HeldReturn, ReturnEffect DEF StructInv, Walking
    <2> QED
      BY <1>5, <2>2, <2>3, <2>4, <2>5, <2>6, <2>7, <2>8
  <1>6. CASE Exit
    <2>1. /\ pc = "back" /\ Depth = 1 /\ pc' = "exit" /\ heap' = heap \ {Paths} /\ err' = err
          /\ pc \in Walking
      BY <1>6 DEF Exit, Walking
    <2>2. HeldInv /\ err = 0 /\ Using = 0
      BY <2>1 DEF HeapInv, StructInv, ControlInv, Using
    <2>3. PICK ver : heap = Owned(ver)
      BY <2>2 DEF HeldInv
    <2>4. \A b : b \in heap <=> b = Paths
      BY <2>1, <2>2, <2>3, OwnedDef
    <2>5. heap' = {}
      BY <2>1, <2>4
    <2> QED
      BY <2>1, <2>2, <2>5 DEF HeapInv, DanglingOnlyIfLarge, Walking
  <1>7. CASE Killed
    BY <1>7 DEF Killed, HeapInv, DanglingOnlyIfLarge, Walking
  <1> QED
    BY <1>1, <1>2, <1>3, <1>5, <1>6, <1>7 DEF Next, Step, Skips, Change, vars

LEMMA HeapCorrect == Spec => [](StructInv /\ GivenInv /\ HeapInv)
  <1>1. Init => GivenInv /\ HeapInv
    BY DEF Init, GivenInv, HeapInv, DanglingOnlyIfLarge, Walking
  <1> QED
    BY <1>1, StructInit, StructStep, GivenStep, HeapStep, PTL DEF Spec

(* A heap that the activations own is the one of the stack. *)
LEMMA OwnedIsStack ==
  ASSUME StructInv, GivenInv, HeapInv, pc \in Walking
  PROVE  /\ {b \in heap : b[1] # "names"} =
               {Paths} \union ({stack[k].full : k \in 1..Using} \ {Null})
                 \union {Dirs(k) : k \in 1..(Depth - 1)}
         /\ \A k \in 1..(Depth - 1) :
              \E v \in {0, 1} : {b \in heap : b[1] = "names" /\ b[2] = k} = {Names(k, v)}
         /\ \A b \in heap : b[1] = "names" => b[2] \in 1..(Depth - 1)
  <1>1. PICK ver \in [1..(Depth - 1) -> {0, 1}] : heap = Owned(ver)
    BY DEF HeapInv, HeldInv
  <1>2. Depth \in Nat /\ \A k \in 1..Using : k \in 1..Depth
    BY WalkTypes DEF Using
  <1>3. \A b : b \in heap <=>
           \/ b = Paths
           \/ \E k \in 1..Using : stack[k].i # 0 /\ b = FullPath(k, stack[k].i)
           \/ \E k \in 1..(Depth - 1) : b = Dirs(k)
           \/ \E k \in 1..(Depth - 1) : b = Names(k, ver[k])
    BY <1>1, OwnedDef
  <1>4. /\ Paths[1] # "names"
        /\ \A k, v : FullPath(k, v)[1] # "names" /\ FullPath(k, v) # Null
        /\ \A k : Dirs(k)[1] # "names"
        /\ \A k, v : Names(k, v)[1] = "names" /\ Names(k, v)[2] = k
    BY DEF Paths, FullPath, Dirs, Names, Null
  <1>5. \A k \in 1..Using : stack[k].full = IF stack[k].i = 0 THEN Null ELSE FullPath(k, stack[k].i)
    BY <1>2 DEF GivenInv
  <1>6. \A b : b \in {stack[k].full : k \in 1..Using} \ {Null} <=>
              \E k \in 1..Using : stack[k].i # 0 /\ b = FullPath(k, stack[k].i)
    BY <1>4, <1>5
  <1>7. {b \in heap : b[1] # "names"} =
          {Paths} \union ({stack[k].full : k \in 1..Using} \ {Null})
            \union {Dirs(k) : k \in 1..(Depth - 1)}
    <2> DEFINE full == {stack[k].full : k \in 1..Using} \ {Null}
    <2>1. \A b : b \in full <=> \E k \in 1..Using : stack[k].i # 0 /\ b = FullPath(k, stack[k].i)
      BY <1>6
    <2> HIDE DEF full
    <2>2. \A b : b \in heap /\ b[1] # "names" <=>
              b = Paths \/ b \in full \/ \E k \in 1..(Depth - 1) : b = Dirs(k)
      BY <1>3, <1>4, <2>1
    <2>3. {b \in heap : b[1] # "names"} =
            {Paths} \union full \union {Dirs(k) : k \in 1..(Depth - 1)}
      BY <2>2
    <2> QED
      BY <2>3 DEF full
  <1>8. ASSUME NEW k \in 1..(Depth - 1)
        PROVE  \E v \in {0, 1} : {b \in heap : b[1] = "names" /\ b[2] = k} = {Names(k, v)}
    <2>1. \A b : b \in heap /\ b[1] = "names" /\ b[2] = k <=> b = Names(k, ver[k])
      BY <1>3, <1>4
    <2>2. {b \in heap : b[1] = "names" /\ b[2] = k} = {Names(k, ver[k])}
      BY <2>1
    <2>3. ver[k] \in {0, 1}
      BY <1>1
    <2> QED
      BY <2>2, <2>3
  <1>9. ASSUME NEW b \in heap, b[1] = "names" PROVE b[2] \in 1..(Depth - 1)
    BY <1>3, <1>4, <1>9
  <1> QED
    BY <1>7, <1>8, <1>9

(* For every tree, command line and interleaving: while ls runs, the       *)
(* blocks allocated are exactly those the activations of ls() on the stack *)
(* still use, and at exit none is left but the maps (and the operands      *)
(* after a usage error).                                                   *)
THEOREM LsHeapIsStack == Spec => []HeapIsStack
  <1>1. StructInv /\ GivenInv /\ HeapInv => HeapIsStack
    <2> SUFFICES ASSUME StructInv, GivenInv, HeapInv PROVE HeapIsStack
      OBVIOUS
    <2>1. CASE pc \in Walking
      <3>1. Using = IF pc = "back" THEN Depth - 1 ELSE Depth
        BY DEF Using
      <3>2. pc # "exit"
        BY <2>1 DEF Walking
      <3> QED
        BY <2>1, <3>1, <3>2, OwnedIsStack DEF HeapIsStack
    <2>2. CASE pc = "parse"
      <3>1. heap = {Paths} /\ Depth = 0
        BY <2>2 DEF HeapInv, StructInv, ControlInv, Depth
      <3>2. Paths[1] # "names"
        BY DEF Paths
      <3> QED
        BY <2>2, <3>1, <3>2 DEF HeapIsStack
    <2>3. CASE pc \in Ended
      BY <2>3 DEF HeapInv, HeapIsStack, Ended, Running
    <2> QED
      BY <2>1, <2>2, <2>3 DEF StructInv, TypeInv, Running, Ended, Walking
  <1> QED
    BY <1>1, HeapCorrect, PTL

(* For every tree, command line and interleaving: concat_path() reads      *)
(* through a dangling pointer only after the listing of a directory large  *)
(* enough for realloc() to have moved its names.                           *)
THEOREM LsDanglingOnlyIfLarge == Spec => []DanglingOnlyIfLarge
  <1>1. HeapInv => DanglingOnlyIfLarge
    BY DEF HeapInv
  <1> QED
    BY <1>1, HeapCorrect, PTL
-----------------------------------------------------------------------------
(* The tree. *)

(* What a recursive listing of d goes through. *)
Tree(d) ==
  {x \in Dir :
    \A C \in SUBSET Dir : {d} \intersect Dir \subseteq C /\ Closed(C, Dir) => x \in C}

LEMMA TreeLeast ==
  ASSUME NEW d, NEW C \in SUBSET Dir, d \in Dir => d \in C,
         \A c \in Visible : Parent[c] \in C => c \in C
  PROVE  Tree(d) \subseteq C
  BY DEF Tree, Closed, Visible

LEMMA TreeRoot ==
  ASSUME NEW d \in Dir
  PROVE  d \in Tree(d)
  BY DEF Tree

LEMMA TreeDown ==
  ASSUME NEW d, NEW c \in Visible, Parent[c] \in Tree(d)
  PROVE  c \in Tree(d)
  BY DEF Tree, Closed, Visible

(* A directory that does not exist has none below it. *)
LEMMA TreeNone ==
  ASSUME NEW d, d \notin Dir
  PROVE  Tree(d) = {}
  <1>1. {} \in SUBSET Dir /\ \A c \in Visible : Parent[c] \in {} => c \in {}
    OBVIOUS
  <1>2. Tree(d) \subseteq {}
    BY <1>1, TreeLeast
  <1> QED
    BY <1>2

LEMMA TreeDir ==
  ASSUME NEW d, NEW x \in Tree(d)
  PROVE  x \in Dir /\ d \in Dir
  BY TreeNone DEF Tree

(* One goes up from a directory below d without leaving what is below d. *)
LEMMA TreeUp ==
  ASSUME NEW d, NEW x \in Tree(d), x # d
  PROVE  x \in Visible /\ Parent[x] \in Tree(d)
  <1> DEFINE C == {z \in Tree(d) : z = d \/ (z \in Visible /\ Parent[z] \in Tree(d))}
  <1>1. d \in Dir => d \in C
    BY TreeRoot
  <1>2. C \in SUBSET Dir
    BY TreeDir
  <1>3. \A c \in Visible : Parent[c] \in C => c \in C
    BY TreeDown
  <1> HIDE DEF C
  <1>4. Tree(d) \subseteq C
    BY <1>1, <1>2, <1>3, TreeLeast
  <1> QED
    BY <1>4 DEF C

LEMMA TreeTransitive ==
  ASSUME NEW d, NEW c \in Tree(d)
  PROVE  Tree(c) \subseteq Tree(d)
  <1>1. Tree(d) \in SUBSET Dir
    BY TreeDir
  <1> QED
    BY <1>1, TreeDown, TreeLeast

(* What is below d and is not d is below one of its entries. *)
LEMMA TreeChild ==
  ASSUME NEW d, NEW x \in Tree(d), x # d
  PROVE  \E c \in Visible : Parent[c] = d /\ x \in Tree(c)
  <1> DEFINE C == {z \in Dir : z = d \/ \E c \in Visible : Parent[c] = d /\ z \in Tree(c)}
  <1>1. d \in Dir => d \in C
    OBVIOUS
  <1>2. C \in SUBSET Dir
    OBVIOUS
  <1>3. ASSUME NEW c \in Visible, Parent[c] \in C PROVE c \in C
    <2>1. c \in Dir
      BY DEF Visible
    <2>2. CASE Parent[c] = d
      BY <2>1, <2>2, TreeRoot
    <2>3. CASE Parent[c] # d
      <3>1. PICK b \in Visible : Parent[b] = d /\ Parent[c] \in Tree(b)
        BY <1>3, <2>3
      <3>2. c \in Tree(b)
        BY <3>1, TreeDown
      <3> QED
        BY <2>1, <3>1, <3>2
    <2> QED
      BY <2>2, <2>3
  <1> HIDE DEF C
  <1>4. Tree(d) \subseteq C
    BY <1>1, <1>2, <1>3, TreeLeast
  <1> QED
    BY <1>4 DEF C

(* No directory is below one of its entries. *)
LEMMA TreeAcyclic ==
  ASSUME NEW c \in Visible
  PROVE  Parent[c] \notin Tree(c)
  <1> SUFFICES ASSUME Parent[c] \in Tree(c) PROVE FALSE
    OBVIOUS
  <1>1. c \in Dir /\ c # Cwd
    BY DEF Visible
  <1> DEFINE S == Tree(c)
  <1>2. S \in SUBSET Dir /\ S # {} /\ c \in S
    BY <1>1, TreeDir, TreeRoot
  <1>3. PICK d \in S : d = Cwd \/ Parent[d] \notin S
    BY <1>2, TreeAssumption
  <1>4. d = c
    <2> SUFFICES ASSUME d # c PROVE FALSE
      OBVIOUS
    <2>1. d \in Visible /\ Parent[d] \in S
      BY TreeUp
    <2> QED
      BY <1>3, <2>1 DEF Visible
  <1> QED
    BY <1>1, <1>3, <1>4

(* Of two directories above a third, one is above the other. *)
LEMMA TreeChain ==
  ASSUME NEW b, NEW c, NEW x, x \in Tree(b), x \in Tree(c)
  PROVE  c \in Tree(b) \/ b \in Tree(c)
  <1> DEFINE C == {z \in Tree(b) : z \in Tree(c) => c \in Tree(b) \/ b \in Tree(c)}
  <1>1. b \in Dir => b \in C
    BY TreeRoot
  <1>2. C \in SUBSET Dir
    BY TreeDir
  <1>3. ASSUME NEW z \in Visible, Parent[z] \in C PROVE z \in C
    <2>1. z \in Tree(b)
      BY <1>3, TreeDown
    <2>2. ASSUME z \in Tree(c) PROVE c \in Tree(b) \/ b \in Tree(c)
      <3>1. CASE z = c
        BY <2>1, <3>1
      <3>2. CASE z # c
        <4>1. Parent[z] \in Tree(c)
          BY <2>2, <3>2, TreeUp
        <4> QED
          BY <1>3, <4>1
      <3> QED
        BY <3>1, <3>2
    <2> QED
      BY <2>1, <2>2
  <1> HIDE DEF C
  <1>4. Tree(b) \subseteq C
    BY <1>1, <1>2, <1>3, TreeLeast
  <1> QED
    BY <1>4 DEF C

(* Nothing is below two entries of one directory. *)
LEMMA TreeSiblings ==
  ASSUME NEW b \in Visible, NEW c \in Visible, Parent[b] = Parent[c], b # c
  PROVE  Tree(b) \intersect Tree(c) = {}
  <1> SUFFICES ASSUME NEW x, x \in Tree(b), x \in Tree(c) PROVE FALSE
    OBVIOUS
  <1>1. c \in Tree(b) \/ b \in Tree(c)
    BY TreeChain
  <1>2. CASE c \in Tree(b)
    <2>1. Parent[c] \in Tree(b)
      BY <1>2, TreeUp
    <2> QED
      BY <2>1, TreeAcyclic
  <1>3. CASE b \in Tree(c)
    <2>1. Parent[b] \in Tree(c)
      BY <1>3, TreeUp
    <2> QED
      BY <2>1, TreeAcyclic
  <1> QED
    BY <1>1, <1>2, <1>3

(* A set that has, with each directory, the one it is in has all those on  *)
(* the way up to d.                                                        *)
LEMMA TreeWayUp ==
  ASSUME NEW U, \A z \in U \ {Cwd} : Parent[z] \in U, NEW d, NEW x \in Tree(d), x \in U
  PROVE  d \in U
  <1> DEFINE C == {z \in Tree(d) : z \in U => d \in U}
  <1>1. d \in Dir => d \in C
    BY TreeRoot
  <1>2. C \in SUBSET Dir
    BY TreeDir
  <1>3. \A c \in Visible : Parent[c] \in C => c \in C
    BY TreeDown DEF Visible
  <1> HIDE DEF C
  <1>4. Tree(d) \subseteq C
    BY <1>1, <1>2, <1>3, TreeLeast
  <1> QED
    BY <1>4 DEF C

(* What a listing of d goes through, recursive or not. *)
Reach(r, d) == IF r THEN Tree(d) ELSE {d} \intersect Dir

(* Below, in terms of Tree. *)
LEMMA BelowTree ==
  ASSUME NEW d
  PROVE  Below(d, Dir) = IF flags.recursive THEN Tree(d) ELSE {d} \intersect Dir
  BY DEF Below, Tree

(* What a listing of d goes through when it cannot leave S. *)
Way(r, d, S) ==
  IF r THEN {x \in S : \A C \in SUBSET S : {d} \intersect S \subseteq C /\ Closed(C, S) => x \in C}
  ELSE {d} \intersect S

LEMMA WayDef ==
  ASSUME NEW d, NEW S
  PROVE  Below(d, S) = Way(flags.recursive, d, S)
  BY DEF Below, Way

(* The fewer directories there are, the fewer a listing goes through. *)
LEMMA WayLess ==
  ASSUME NEW r, NEW d, NEW S, NEW S2 \in SUBSET S, NEW x \in Way(r, d, S2)
  PROVE  x \in Way(r, d, S)
  <1>1. CASE ~r
    BY <1>1 DEF Way
  <1>2. CASE r
    <2>1. x \in S
      BY <1>2 DEF Way
    <2>2. ASSUME NEW C \in SUBSET S, {d} \intersect S \subseteq C, Closed(C, S)
          PROVE  x \in C
      <3>1. C \intersect S2 \in SUBSET S2 /\ {d} \intersect S2 \subseteq C \intersect S2
        BY <2>2
      <3>2. Closed(C \intersect S2, S2)
        BY <2>2 DEF Closed
      <3>3. x \in C \intersect S2
        BY <1>2, <3>1, <3>2 DEF Way
      <3> QED
        BY <3>3
    <2> QED
      BY <1>2, <2>1, <2>2 DEF Way
  <1> QED
    BY <1>1, <1>2

(* Whatever is above a directory that is reached, and below where one      *)
(* started, is on the way to it.                                           *)
LEMMA WayThrough ==
  ASSUME NEW r, NEW d, NEW S \in SUBSET Dir, NEW y \in Way(r, d, S),
         NEW x, x \in Reach(r, d), y \in Reach(r, x)
  PROVE  x \in S
  <1>1. CASE ~r
    BY <1>1 DEF Way, Reach
  <1>2. CASE r
    <2>1. x \in Tree(d) /\ y \in Tree(x)
      BY <1>2 DEF Reach
    <2> DEFINE C == {z \in S : z \in Tree(x) => x \in S}
    <2>2. d \in S => d \in C
      <3> SUFFICES ASSUME d \in S, d \in Tree(x), d # x PROVE FALSE
        OBVIOUS
      <3>1. d \in Visible /\ Parent[d] \in Tree(x)
        BY TreeUp
      <3>2. Parent[d] \in Tree(d)
        BY <2>1, <3>1, TreeTransitive
      <3> QED
        BY <3>1, <3>2, TreeAcyclic
    <2>3. Closed(C, S)
      <3> SUFFICES ASSUME NEW c \in S \ (Hidden \union {Cwd}), Parent[c] \in C, c \in Tree(x), c # x
                   PROVE  x \in S
        BY DEF Closed
      <3>1. Parent[c] \in Tree(x)
        BY TreeUp
      <3> QED
        BY <3>1
    <2>4. C \in SUBSET S /\ {d} \intersect S \subseteq C
      BY <2>2
    <2> HIDE DEF C
    <2>5. y \in C
      BY <1>2, <2>3, <2>4 DEF Way
    <2> QED
      BY <2>1, <2>5 DEF C
  <1> QED
    BY <1>1, <1>2
-----------------------------------------------------------------------------
(* The directories in l are listed for the operands ops: f says which.     *)
(* Every one is reached from its operand, and none of U is listed twice    *)
(* for the same one.                                                       *)
Lists(f, l, ops, r, U) ==
  /\ f \in [DOMAIN l -> DOMAIN ops]
  /\ \A k \in DOMAIN l : l[k] \in Reach(r, ops[f[k]])
  /\ \A j, k \in DOMAIN l : l[j] = l[k] /\ f[j] = f[k] /\ l[j] \in U => j = k

(* None of U is listed ahead of time, where i is the operand under way and *)
(* R is what is left to go through for it.                                 *)
Ahead(f, l, i, R, U) ==
  \A k \in DOMAIN l : f[k] <= i /\ (f[k] = i /\ l[k] \in U => l[k] \notin R)

(* No directory of W is missing that is behind and that is reached without *)
(* leaving S.                                                              *)
Behind(f, l, ops, r, i, R, W, S) ==
  \A d \in W, j \in DOMAIN ops :
    d \in Way(r, ops[j], S) /\ (j < i \/ (j = i /\ d \notin R)) =>
      \E k \in DOMAIN l : l[k] = d /\ f[k] = j

Visited(l, ops, r, i, R, U, W, S) ==
  \E f : Lists(f, l, ops, r, U) /\ Ahead(f, l, i, R, U) /\ Behind(f, l, ops, r, i, R, W, S)

LEMMA VisitedNone ==
  ASSUME NEW n \in Nat, NEW ops, DOMAIN ops = 1..n, NEW r, NEW R, NEW U, NEW W, NEW S
  PROVE  Visited(<<>>, ops, r, 0, R, U, W, S)
  <1>1. DOMAIN <<>> = {}
    OBVIOUS
  <1> DEFINE f == [k \in {} |-> 1]
  <1>2. Lists(f, <<>>, ops, r, U)
    BY <1>1 DEF Lists
  <1>3. Ahead(f, <<>>, 0, R, U)
    BY <1>1 DEF Ahead
  <1>4. Behind(f, <<>>, ops, r, 0, R, W, S)
    <2>1. \A j \in DOMAIN ops : ~(j < 0) /\ j # 0
      OBVIOUS
    <2> QED
      BY <2>1 DEF Behind
  <1> HIDE DEF f
  <1> QED
    BY <1>2, <1>3, <1>4 DEF Visited

(* Less is left to go through, and nothing that must not be missed. *)
LEMMA VisitedLess ==
  ASSUME NEW l, NEW ops, NEW r, NEW i, NEW R, NEW U, NEW W, NEW S,
         Visited(l, ops, r, i, R, U, W, S),
         NEW R2, R2 \subseteq R, NEW U2, U2 \subseteq U, NEW W2, W2 \subseteq W,
         NEW S2 \in SUBSET S, \A d \in W2 : d \in Way(r, ops[i], S2) /\ d \in R => d \in R2
  PROVE  Visited(l, ops, r, i, R2, U2, W2, S2)
  <1>1. PICK f : /\ Lists(f, l, ops, r, U) /\ Ahead(f, l, i, R, U)
                 /\ Behind(f, l, ops, r, i, R, W, S)
    BY DEF Visited
  <1>2. Lists(f, l, ops, r, U2)
    BY <1>1 DEF Lists
  <1>3. Ahead(f, l, i, R2, U2)
    BY <1>1 DEF Ahead
  <1>4. ASSUME NEW d \in W2, NEW j \in DOMAIN ops, d \in Way(r, ops[j], S2),
               j < i \/ (j = i /\ d \notin R2)
        PROVE  \E k \in DOMAIN l : l[k] = d /\ f[k] = j
    <2>1. d \in W /\ d \in Way(r, ops[j], S)
      BY <1>4, WayLess
    <2>2. j < i \/ (j = i /\ d \notin R)
      BY <1>4
    <2> QED
      BY <1>1, <2>1, <2>2 DEF Behind
  <1>5. Behind(f, l, ops, r, i, R2, W2, S2)
    BY <1>4 DEF Behind
  <1> QED
    BY <1>2, <1>3, <1>5 DEF Visited

(* On to the next operand, when nothing is left for the last one. *)
LEMMA VisitedNext ==
  ASSUME NEW l, NEW n \in Nat, NEW ops, DOMAIN ops = 1..n, NEW r, NEW i \in Nat,
         NEW U, NEW W, NEW S \in SUBSET Dir,
         Visited(l, ops, r, i, {}, U, W, S), NEW R, Reach(r, ops[i + 1]) \subseteq R
  PROVE  Visited(l, ops, r, i + 1, R, U, W, S)
  <1>1. PICK f : /\ Lists(f, l, ops, r, U) /\ Ahead(f, l, i, {}, U)
                 /\ Behind(f, l, ops, r, i, {}, W, S)
    BY DEF Visited
  <1>2. \A k \in DOMAIN l : f[k] \in Nat /\ f[k] <= i
    BY <1>1 DEF Lists, Ahead
  <1>3. Ahead(f, l, i + 1, R, U)
    BY <1>2 DEF Ahead
  <1>4. ASSUME NEW d \in W, NEW j \in DOMAIN ops, d \in Way(r, ops[j], S),
               j < i + 1 \/ (j = i + 1 /\ d \notin R)
        PROVE  \E k \in DOMAIN l : l[k] = d /\ f[k] = j
    <2>1. d \in Reach(r, ops[j])
      <3>1. d \in Way(r, ops[j], Dir)
        BY <1>4, WayLess
      <3> QED
        BY <3>1 DEF Way, Reach, Tree
    <2>2. j < i \/ (j = i /\ d \notin {})
      BY <1>4, <2>1
    <2> QED
      BY <1>1, <1>4, <2>2 DEF Behind
  <1>5. Behind(f, l, ops, r, i + 1, R, W, S)
    BY <1>4 DEF Behind
  <1> QED
    BY <1>1, <1>3, <1>5 DEF Visited

(* The end of the walk, however it comes. *)
LEMMA VisitedEnd ==
  ASSUME NEW l, NEW n \in Nat, NEW ops, DOMAIN ops = 1..n, NEW r, NEW i, NEW R,
         NEW U, NEW W, NEW S, Visited(l, ops, r, i, R, U, W, S)
  PROVE  Visited(l, ops, r, n, {}, U, {}, S)
  <1>1. PICK f : Lists(f, l, ops, r, U)
    BY DEF Visited
  <1>2. Ahead(f, l, n, {}, U)
    BY <1>1 DEF Lists, Ahead
  <1>3. Behind(f, l, ops, r, n, {}, {}, S)
    BY DEF Behind
  <1> QED
    BY <1>1, <1>2, <1>3 DEF Visited

(* One more directory. *)
LEMMA VisitedMore ==
  ASSUME NEW l \in Seq(Dir), NEW n \in Nat, NEW ops, DOMAIN ops = 1..n, NEW r,
         NEW i \in 1..n, NEW R, NEW U, NEW W, NEW S, Visited(l, ops, r, i, R, U, W, S),
         NEW x \in Dir, x \in R, x \in Reach(r, ops[i]),
         NEW R2, R2 \subseteq R, x \in U => x \notin R2, W \intersect R \subseteq R2 \union {x}
  PROVE  Visited(Append(l, x), ops, r, i, R2, U, W, S)
  <1> DEFINE L == Append(l, x)
             N == Len(l) + 1
  <1>1. /\ Len(l) \in Nat /\ DOMAIN l = 1..Len(l) /\ DOMAIN L = 1..N
        /\ L[N] = x /\ \A k \in 1..Len(l) : L[k] = l[k]
    BY AppendProperties, LenProperties
  <1>2. PICK f : /\ Lists(f, l, ops, r, U) /\ Ahead(f, l, i, R, U)
                 /\ Behind(f, l, ops, r, i, R, W, S)
    BY DEF Visited
  <1> DEFINE g == [k \in 1..N |-> IF k = N THEN i ELSE f[k]]
  <1>3. \A k \in 1..N : k = N \/ k \in DOMAIN l
    BY <1>1
  <1>4. \A k \in DOMAIN l : k \in 1..N /\ k # N
    BY <1>1
  <1>5. N \in 1..N
    BY <1>1
  <1>6. /\ g \in [1..N -> DOMAIN ops] /\ g[N] = i
        /\ \A k \in DOMAIN l : g[k] = f[k] /\ L[k] = l[k]
    BY <1>1, <1>2, <1>3, <1>4, <1>5 DEF Lists
  <1> HIDE DEF L, N, g
  <1>7. ASSUME NEW k \in 1..N
        PROVE  L[k] \in Reach(r, ops[g[k]]) /\ g[k] <= i /\ (g[k] = i /\ L[k] \in U => L[k] \notin R2)
    <2>1. CASE k = N
      <3>1. i <= i
        OBVIOUS
      <3> QED
        BY <1>1, <1>6, <2>1, <3>1
    <2>2. CASE k \in DOMAIN l
      BY <1>2, <1>6, <2>2 DEF Lists, Ahead
    <2> QED
      BY <1>3, <2>1, <2>2
  <1>8. ASSUME NEW j \in 1..N, NEW k \in 1..N, L[j] = L[k], g[j] = g[k], L[j] \in U PROVE j = k
    <2>1. ASSUME x \in U, NEW m \in DOMAIN l PROVE ~(l[m] = x /\ f[m] = i)
      BY <1>2, <2>1 DEF Ahead
    <2>2. CASE j \in DOMAIN l /\ k \in DOMAIN l
      BY <1>2, <1>6, <1>8, <2>2 DEF Lists
    <2>3. CASE j = N /\ k \in DOMAIN l
      BY <1>1, <1>6, <1>8, <2>1, <2>3
    <2>4. CASE k = N /\ j \in DOMAIN l
      BY <1>1, <1>6, <1>8, <2>1, <2>4
    <2> QED
      BY <1>3, <2>2, <2>3, <2>4
  <1>9. ASSUME NEW d \in W, NEW j \in DOMAIN ops, d \in Way(r, ops[j], S),
               j < i \/ (j = i /\ d \notin R2)
        PROVE  \E k \in 1..N : L[k] = d /\ g[k] = j
    <2>1. CASE j = i /\ d = x
      BY <1>1, <1>5, <1>6, <2>1
    <2>2. CASE ~(j = i /\ d = x)
      <3>1. j < i \/ (j = i /\ d \notin R)
        BY <1>9, <2>2
      <3>2. PICK k \in DOMAIN l : l[k] = d /\ f[k] = j
        BY <1>2, <1>9, <3>1 DEF Behind
      <3> QED
        BY <1>4, <1>6, <3>2
    <2> QED
      BY <2>1, <2>2
  <1>10. Lists(g, L, ops, r, U)
    BY <1>1, <1>6, <1>7, <1>8 DEF Lists
  <1>11. Ahead(g, L, i, R2, U)
    BY <1>1, <1>7 DEF Ahead
  <1>12. Behind(g, L, ops, r, i, R2, W, S)
    BY <1>1, <1>9 DEF Behind
  <1>13. Visited(L, ops, r, i, R2, U, W, S)
    BY <1>10, <1>11, <1>12 DEF Visited
  <1> QED
    BY <1>13 DEF L
-----------------------------------------------------------------------------
(* The directories nobody has made or removed; those there all the time,   *)
(* those among them that opendir() never failed for, and those that have   *)
(* something to show.                                                      *)
Unmoved == Dir \ changed
Steady == present \ changed
Opened == Steady \ unopened
Wanted ==
  {d \in Steady : \/ flags.show_hidden \/ d \in Files
                  \/ \E c \in Steady \ (Hidden \union {Cwd}) : Parent[c] = d}

(* A directory that was there all the time was in one that was there too. *)
SteadyInv == \A c \in Steady \ {Cwd} : Parent[c] \in Steady

(* The directories of an activation are entries of the one that the        *)
(* activation before it is at, each once unless it is among the changed    *)
(* ones in C, and all are below the ones that the activations before it    *)
(* are at.                                                                 *)
Nested(s, C) ==
  /\ \A m \in 2..Len(s) :
       /\ s[m].dirs # <<>>
       /\ \A j \in 1..Len(s[m].dirs) :
            s[m].dirs[j] \in Visible /\ Parent[s[m].dirs[j]] = s[m - 1].dirs[s[m - 1].i]
       /\ \A j, k \in 1..Len(s[m].dirs) :
            s[m].dirs[j] = s[m].dirs[k] /\ s[m].dirs[j] \notin C => j = k
  /\ \A n \in 2..Len(s) : \A m \in 1..(n - 1) : \A j \in 1..Len(s[n].dirs) :
       s[n].dirs[j] \in Tree(s[m].dirs[s[m].i])

NestInv ==
  pc \in Walking =>
    /\ stack[1].dirs = IF pc = "enter" /\ Depth = 1 THEN paths ELSE Operands
    /\ Depth > 1 => flags.recursive
    /\ Nested(stack, changed)

(* What is left to go through before the next operand. *)
Pending(s) ==
  {d \in Dir : \E m \in 2..Len(s) : \E j \in (s[m].i + 1)..Len(s[m].dirs) :
                d \in Tree(s[m].dirs[j])}
Rest ==
  Pending(stack)
    \union (IF pc \in {"print", "read"} THEN Reach(flags.recursive, Current) ELSE {})

VisitInv ==
  /\ pc \in Walking =>
       Visited(listed, Operands, flags.recursive, stack[1].i, Rest, Unmoved, Wanted, Opened)
  /\ pc \in Ended =>
       Visited(listed, Operands, flags.recursive, Len(Operands), {}, Unmoved,
               IF pc = "exit" /\ err = 0 THEN Wanted ELSE {}, Opened)

LEMMA OperandsType ==
  ASSUME TypeInv
  PROVE  /\ Operands \in Seq(Named) /\ Len(Operands) \in Nat
         /\ DOMAIN Operands = 1..Len(Operands)
  <1>1. Operands \in Seq(Named)
    <2>1. Cwd \in Named
      BY WalkAssumption DEF Named
    <2>2. <<Cwd>> \in Seq(Named)
      BY <2>1
    <2> QED
      BY <2>2 DEF TypeInv, Operands
  <1> QED
    BY <1>1, LenProperties

LEMMA SteadyInit == Init => SteadyInv
  BY TreeAssumption, WalkAssumption DEF Init, SteadyInv, Steady

LEMMA SteadyChange ==
  ASSUME TypeInv, SteadyInv, NEW d \in Dir \ {Cwd}, Change(d)
  PROVE  /\ SteadyInv' /\ Steady' \subseteq Steady
         /\ flags' = flags
  <1>1. changed' = changed \union {d} /\ flags' = flags
    BY DEF Change, line
  <1>2. \/ /\ d \in present /\ {c \in present \ {Cwd} : Parent[c] = d} = {}
           /\ present' = present \ {d}
        \/ d \notin present /\ Parent[d] \in present /\ present' = present \union {d}
    BY DEF Change
  <1>3. Steady' = Steady \ {d}
    BY <1>1, <1>2 DEF Steady
  <1>4. ASSUME NEW c \in Steady' \ {Cwd} PROVE Parent[c] \in Steady'
    <2>1. c \in Steady \ {Cwd} /\ Parent[c] \in Steady
      BY <1>3, <1>4 DEF SteadyInv
    <2>2. Parent[c] # d
      BY <1>2, <2>1 DEF Steady
    <2> QED
      BY <1>3, <2>1, <2>2
  <1> QED
    BY <1>1, <1>3, <1>4 DEF SteadyInv

LEMMA SteadyStep == TypeInv /\ SteadyInv /\ [Next]_vars => SteadyInv'
  <1> SUFFICES ASSUME TypeInv, SteadyInv, [Next]_vars PROVE SteadyInv'
    OBVIOUS
  <1>1. CASE \E d \in Dir \ {Cwd} : Change(d)
    BY <1>1, SteadyChange
  <1>2. CASE UNCHANGED tree
    BY <1>2 DEF tree, SteadyInv, Steady
  <1>3. Step \/ Killed => UNCHANGED tree
    BY DEF Step, Killed, ParseArgument, CallLs, Enter, Concat, OpenFails, OpenDir, PrintNothing,
       PrintDir, EndLoop, Return, Exit
  <1> QED
    BY <1>1, <1>2, <1>3 DEF Next, vars
-----------------------------------------------------------------------------
(* The activations are nested in the tree. *)
LEMMA NestedSame ==
  ASSUME NEW s, NEW t, Len(s) \in Nat, Len(t) \in Nat, Len(t) <= Len(s),
         NEW B, NEW C, B \subseteq C, Nested(s, B),
         \A k \in 2..Len(t) : t[k].dirs = s[k].dirs,
         \A k \in 1..(Len(t) - 1) : t[k].dirs = s[k].dirs /\ t[k].i = s[k].i
  PROVE  Nested(t, C)
  <1>1. ASSUME NEW m \in 2..Len(t)
        PROVE  /\ t[m].dirs # <<>>
               /\ \A j \in 1..Len(t[m].dirs) :
                    t[m].dirs[j] \in Visible /\ Parent[t[m].dirs[j]] = t[m - 1].dirs[t[m - 1].i]
               /\ \A j, k \in 1..Len(t[m].dirs) :
                    t[m].dirs[j] = t[m].dirs[k] /\ t[m].dirs[j] \notin C => j = k
    <2>1. m \in 2..Len(s) /\ m - 1 \in 1..(Len(t) - 1)
      OBVIOUS
    <2>2. /\ t[m].dirs = s[m].dirs
          /\ t[m - 1].dirs = s[m - 1].dirs /\ t[m - 1].i = s[m - 1].i
      BY <2>1
    <2>3. /\ s[m].dirs # <<>>
          /\ \A j \in 1..Len(s[m].dirs) :
               s[m].dirs[j] \in Visible /\ Parent[s[m].dirs[j]] = s[m - 1].dirs[s[m - 1].i]
          /\ \A j, k \in 1..Len(s[m].dirs) :
               s[m].dirs[j] = s[m].dirs[k] /\ s[m].dirs[j] \notin B => j = k
      BY <2>1, Zenon DEF Nested
    <2> QED
      BY <2>2, <2>3, Zenon
  <1>2. ASSUME NEW n \in 2..Len(t), NEW m \in 1..(n - 1), NEW j \in 1..Len(t[n].dirs)
        PROVE  t[n].dirs[j] \in Tree(t[m].dirs[t[m].i])
    <2>1. n \in 2..Len(s) /\ m \in 1..(Len(t) - 1)
      OBVIOUS
    <2>2. t[n].dirs = s[n].dirs /\ t[m].dirs = s[m].dirs /\ t[m].i = s[m].i
      BY <2>1
    <2> QED
      BY <2>1, <2>2 DEF Nested
  <1> QED
    BY <1>1, <1>2 DEF Nested

(* x, the directory that the activation on top is at, is below the one     *)
(* that each activation is at.                                             *)
LEMMA NestedTop ==
  ASSUME NEW s, NEW C, Len(s) \in Nat \ {0}, Nested(s, C), NEW x \in Dir,
         s[Len(s)].i \in 1..Len(s[Len(s)].dirs), x = s[Len(s)].dirs[s[Len(s)].i]
  PROVE  \A m \in 1..Len(s) : x \in Tree(s[m].dirs[s[m].i])
  <1> SUFFICES ASSUME NEW m \in 1..Len(s) PROVE x \in Tree(s[m].dirs[s[m].i])
    OBVIOUS
  <1>1. CASE m = Len(s)
    BY <1>1, TreeRoot
  <1>2. CASE m # Len(s)
    <2>1. Len(s) \in 2..Len(s) /\ m \in 1..(Len(s) - 1)
      BY <1>2
    <2> QED
      BY <2>1 DEF Nested
  <1> QED
    BY <1>1, <1>2

(* print_dir() calls ls() on the entries of x. *)
Pushed(s, t, dirs) ==
  /\ Len(s) \in Nat \ {0} /\ Len(t) = Len(s) + 1
  /\ \A k \in 1..Len(s) : t[k] = s[k]
  /\ t[Len(t)].dirs = dirs
EntriesIn(x, dirs, C) ==
  /\ dirs # <<>>
  /\ \A j \in 1..Len(dirs) : dirs[j] \in Visible /\ Parent[dirs[j]] = x
  /\ \A j, k \in 1..Len(dirs) : dirs[j] = dirs[k] /\ dirs[j] \notin C => j = k

LEMMA NestedPush ==
  ASSUME NEW s, NEW t, NEW dirs, NEW C, Pushed(s, t, dirs), Nested(s, C), NEW x \in Dir,
         s[Len(s)].i \in 1..Len(s[Len(s)].dirs), x = s[Len(s)].dirs[s[Len(s)].i],
         EntriesIn(x, dirs, C)
  PROVE  Nested(t, C)
  <1> USE DEF Pushed, EntriesIn
  <1>1. ASSUME NEW m \in 2..Len(t)
        PROVE  /\ t[m].dirs # <<>>
               /\ \A j \in 1..Len(t[m].dirs) :
                    t[m].dirs[j] \in Visible /\ Parent[t[m].dirs[j]] = t[m - 1].dirs[t[m - 1].i]
               /\ \A j, k \in 1..Len(t[m].dirs) :
                    t[m].dirs[j] = t[m].dirs[k] /\ t[m].dirs[j] \notin C => j = k
    <2>1. CASE m = Len(t)
      <3>1. m - 1 = Len(s) /\ t[m - 1] = s[Len(s)]
        BY <2>1
      <3> QED
        BY <2>1, <3>1
    <2>2. CASE m # Len(t)
      <3>1. m \in 2..Len(s) /\ t[m] = s[m] /\ t[m - 1] = s[m - 1]
        BY <2>2
      <3>2. /\ s[m].dirs # <<>>
            /\ \A j \in 1..Len(s[m].dirs) :
                 s[m].dirs[j] \in Visible /\ Parent[s[m].dirs[j]] = s[m - 1].dirs[s[m - 1].i]
            /\ \A j, k \in 1..Len(s[m].dirs) :
                 s[m].dirs[j] = s[m].dirs[k] /\ s[m].dirs[j] \notin C => j = k
        BY <3>1, Zenon DEF Nested
      <3> QED
        BY <3>1, <3>2, Zenon
    <2> QED
      BY <2>1, <2>2
  <1>2. ASSUME NEW n \in 2..Len(t), NEW m \in 1..(n - 1), NEW j \in 1..Len(t[n].dirs)
        PROVE  t[n].dirs[j] \in Tree(t[m].dirs[t[m].i])
    <2>1. CASE n = Len(t)
      <3>1. m \in 1..Len(s) /\ t[m] = s[m]
        BY <2>1
      <3>2. x \in Tree(s[m].dirs[s[m].i])
        BY <3>1, NestedTop
      <3>3. t[n].dirs[j] \in Visible /\ Parent[t[n].dirs[j]] = x
        BY <2>1
      <3> QED
        BY <3>1, <3>2, <3>3, TreeDown
    <2>2. CASE n # Len(t)
      <3>1. n \in 2..Len(s) /\ t[n] = s[n] /\ t[m] = s[m]
        BY <2>2
      <3> QED
        BY <3>1 DEF Nested
    <2> QED
      BY <2>1, <2>2
  <1> QED
    BY <1>1, <1>2 DEF Nested

(* What the activations still have to do does not include x, when x is one *)
(* of the directories H that were there all the time.                      *)
LEMMA NestedApart ==
  ASSUME NEW s, NEW C, Len(s) \in Nat \ {0}, Nested(s, C), NEW x \in Dir,
         NEW H, \A z \in H \ {Cwd} : Parent[z] \in H, H \intersect C = {}, x \in H,
         s[Len(s)].i \in 1..Len(s[Len(s)].dirs), x = s[Len(s)].dirs[s[Len(s)].i],
         \A m \in 1..(Len(s) - 1) : s[m].i \in 1..Len(s[m].dirs),
         \A m \in 1..Len(s) : Len(s[m].dirs) \in Nat
  PROVE  x \notin Pending(s)
  <1> SUFFICES ASSUME NEW m \in 2..Len(s), NEW j \in (s[m].i + 1)..Len(s[m].dirs),
                      x \in Tree(s[m].dirs[j])
               PROVE  FALSE
    BY DEF Pending
  <1>1. m \in 1..Len(s) /\ s[m].i \in 1..Len(s[m].dirs) /\ Len(s[m].dirs) \in Nat
    <2>1. CASE m = Len(s)
      BY <2>1
    <2>2. CASE m # Len(s)
      <3>1. m \in 1..(Len(s) - 1) /\ m \in 1..Len(s)
        BY <2>2
      <3> QED
        BY <3>1
    <2> QED
      BY <2>1, <2>2
  <1>2. j \in 1..Len(s[m].dirs) /\ j # s[m].i
    BY <1>1
  <1> DEFINE b == s[m].dirs[j]
             c == s[m].dirs[s[m].i]
  <1>3. b \in Visible /\ c \in Visible /\ Parent[b] = Parent[c] /\ (b = c => c \in C)
    BY <1>1, <1>2 DEF Nested
  <1>4. x \in Tree(c)
    BY <1>1, NestedTop
  <1>5. c \in H
    BY <1>4, TreeWayUp
  <1> QED
    BY <1>3, <1>4, <1>5, TreeSiblings

LEMMA OnStack ==
  ASSUME StructInv, pc \in Walking
  PROVE  /\ Depth \in Nat \ {0} /\ Len(stack) = Depth /\ stack \in Seq(Frames)
         /\ \A k \in 1..Depth : Len(stack[k].dirs) \in Nat /\ stack[k].i \in Nat
         /\ \A k \in 1..(Depth - 1) : stack[k].i \in 1..Len(stack[k].dirs)
         /\ pc \in {"print", "read"} => Top = stack[Depth] /\ Top.i \in 1..Len(Top.dirs)
  <1>1. stack \in Seq(Frames) /\ stack # <<>>
    BY DEF StructInv, TypeInv, ControlInv
  <1>2. Depth \in Nat \ {0} /\ \A k \in 1..Depth : stack[k] \in Frames
    BY <1>1, TopType
  <1>3. \A k \in 1..Depth : Len(stack[k].dirs) \in Nat /\ stack[k].i \in Nat
    BY <1>2, LenProperties DEF Frames
  <1> QED
    BY <1>1, <1>2, <1>3 DEF StructInv, ControlInv, Depth, Top

LEMMA NestStep == StructInv /\ NestInv /\ [Next]_vars => NestInv'
  <1> SUFFICES ASSUME StructInv, NestInv, [Next]_vars PROVE NestInv'
    OBVIOUS
  <1>1. CASE UNCHANGED <<pc, line, stack>> /\ changed \subseteq changed'
    <2>1. UNCHANGED <<paths, flags, Operands, Depth>>
      BY <1>1 DEF line, Operands, Depth
    <2>2. ASSUME pc \in Walking PROVE Nested(stack, changed)'
      <3>1. Len(stack) \in Nat /\ Nested(stack, changed)
        BY <2>2, OnStack DEF NestInv, Depth
      <3>2. PICK C : C = changed'
        OBVIOUS
      <3>3. Nested(stack, C)
        BY <1>1, <3>1, <3>2, NestedSame
      <3> QED
        BY <1>1, <3>2, <3>3
    <2> QED
      BY <1>1, <2>1, <2>2 DEF NestInv
  <1>2. CASE ParseArgument \/ Exit \/ Killed
    <2>1. pc' \notin Walking
      BY <1>2 DEF ParseArgument, Exit, Killed, Walking
    <2> QED
      BY <2>1 DEF NestInv
  <1>3. CASE CallLs
    <2>1. Depth' = 1 /\ Len(stack') = 1 /\ stack'[1].dirs = paths' /\ pc' = "enter"
      BY <1>3, CallEffect DEF CallLs, line, Depth
    <2>2. Nested(stack', changed')
      BY <2>1 DEF Nested
    <2> QED
      BY <2>1, <2>2 DEF NestInv
  <1>4. CASE Enter \/ Concat \/ Skips \/ PrintDir \/ EndLoop \/ Return
    <2>1. pc \in Walking /\ TypeInv /\ ControlInv
      BY <1>4, SkipEffect DEF Enter, Concat, PrintDir, EndLoop, Return, Walking, StructInv
    <2>2. UNCHANGED <<paths, flags, changed, Operands>>
      BY <1>4, SkipEffect DEF Enter, Concat, PrintDir, EndLoop, Return, line, tree, Operands
    <2>3. /\ stack[1].dirs = IF pc = "enter" /\ Depth = 1 THEN paths ELSE Operands
          /\ Depth > 1 => flags.recursive
          /\ Nested(stack, changed)
      BY <2>1 DEF NestInv
    <2>4. /\ Depth \in Nat \ {0} /\ Len(stack) = Depth
          /\ \A k \in 1..Depth : Len(stack[k].dirs) \in Nat
      BY <2>1, OnStack
    <2>5. Len(stack') = Depth'
      BY DEF Depth
    <2>6. ASSUME pc' # "enter", Depth' \in 1..Depth, stack'[1].dirs = Operands,
                 \A k \in 2..Depth' : stack'[k].dirs = stack[k].dirs,
                 \A k \in 1..(Depth' - 1) :
                   stack'[k].dirs = stack[k].dirs /\ stack'[k].i = stack[k].i
          PROVE  NestInv'
      <3>1. Nested(stack', changed)
        <4>1. PICK t : t = stack'
          OBVIOUS
        <4>2. Len(t) = Depth' /\ Len(t) \in Nat /\ Len(t) <= Len(stack)
          BY <2>4, <2>5, <2>6, <4>1
        <4>3. /\ \A k \in 2..Len(t) : t[k].dirs = stack[k].dirs
              /\ \A k \in 1..(Len(t) - 1) : t[k].dirs = stack[k].dirs /\ t[k].i = stack[k].i
          BY <2>6, <4>1, <4>2
        <4>4. Nested(t, changed)
          BY <2>3, <2>4, <4>2, <4>3, NestedSame
        <4> QED
          BY <4>1, <4>4
      <3>2. Depth' > 1 => flags'.recursive
        BY <2>2, <2>3, <2>4, <2>6
      <3> QED
        BY <2>2, <2>6, <3>1, <3>2 DEF NestInv
    <2>7. CASE Enter
      <3>1. /\ pc = "enter" /\ pc' = "turn" /\ Depth' = Depth
            /\ \A k \in 1..Depth :
                 /\ stack'[k].i = stack[k].i
                 /\ stack'[k].dirs = IF k = Depth /\ Top.dirs = <<>> THEN <<Cwd>> ELSE stack[k].dirs
        BY <2>1, <2>7, EnterEffect
      <3>2. \A k \in 2..Depth : k \in 1..Depth /\ stack[k].dirs # <<>>
        BY <2>3, <2>4 DEF Nested
      <3>3. \A k \in 2..Depth : stack'[k].dirs = stack[k].dirs
        BY <3>1, <3>2 DEF Top
      <3>4. \A k \in 1..(Depth - 1) : stack'[k].dirs = stack[k].dirs /\ stack'[k].i = stack[k].i
        BY <2>4, <3>1
      <3>5. stack'[1].dirs = Operands
        <4>1. CASE Depth = 1
          BY <2>3, <3>1, <4>1 DEF Top, Operands
        <4>2. CASE Depth # 1
          BY <2>3, <2>4, <3>1, <4>2
        <4> QED
          BY <4>1, <4>2
      <3> QED
        BY <2>4, <2>6, <3>1, <3>3, <3>4, <3>5
    <2>8. CASE Concat
      <3>1. CASE pc' = "print"
        <4>1. /\ pc = "turn" /\ Depth' = Depth
              /\ \A k \in 1..Depth :
                   /\ stack'[k].dirs = stack[k].dirs
                   /\ stack'[k].i = IF k = Depth THEN stack[k].i + 1 ELSE stack[k].i
          BY <2>1, <2>8, <3>1, ConcatEffect
        <4>2. /\ 1 \in 1..Depth /\ \A k \in 2..Depth : k \in 1..Depth
              /\ \A k \in 1..(Depth - 1) : k \in 1..Depth /\ k # Depth
          BY <2>4
        <4>3. stack'[1].dirs = Operands
          BY <2>3, <4>1, <4>2
        <4> QED
          BY <2>4, <2>6, <3>1, <4>1, <4>2, <4>3
      <3>2. CASE pc' # "print"
        <4>1. pc' = "ub"
          BY <2>8, <3>2 DEF Concat
        <4> QED
          BY <4>1 DEF NestInv, Walking
      <3> QED
        BY <3>1, <3>2
    <2>9. CASE Skips \/ EndLoop
      <3>1. pc # "enter" /\ pc' # "enter" /\ stack' = stack
        BY <2>9, SkipEffect DEF EndLoop
      <3>2. Depth' = Depth
        BY <3>1 DEF Depth
      <3> QED
        BY <2>3, <2>4, <2>6, <3>1, <3>2
    <2>10. CASE PrintDir
      <3>1. /\ pc = "read" /\ Current \in Dir /\ Top = stack[Depth] /\ Top.i \in 1..Len(Top.dirs)
            /\ stack[1].dirs = Operands
        BY <2>1, <2>3, <2>10, PrintDirEffect, OnStack
      <3>2. CASE pc' = "turn" /\ stack' = stack
        <4>1. Depth' = Depth
          BY <3>2 DEF Depth
        <4> QED
          BY <2>4, <2>6, <3>1, <3>2, <4>1
      <3>3. CASE ~(pc' = "turn" /\ stack' = stack)
        <4>1. /\ flags.recursive
              /\ pc' = "enter" /\ Depth' = Depth + 1
              /\ \A k \in 1..Depth : stack'[k] = stack[k]
              /\ stack'[Depth + 1].dirs \in Readings /\ stack'[Depth + 1].dirs # <<>>
          BY <2>1, <2>10, <3>3, PrintDirEffect
        <4>2. PICK s \in Readings : s = stack'[Depth + 1].dirs
          BY <4>1
        <4>3. PICK x \in Dir : x = Current
          BY <3>1
        <4>4. /\ s # <<>> /\ \A j \in 1..Len(s) : s[j] \in Visible /\ Parent[s[j]] = x
              /\ \A j, k \in 1..Len(s) : s[j] = s[k] /\ s[j] \notin changed => j = k
          BY <3>1, <4>1, <4>2, <4>3, ReadingsAre
        <4>5. x = stack[Depth].dirs[stack[Depth].i]
          BY <3>1, <4>3 DEF Current
        <4>6. Nested(stack', changed)
          <5>1. PICK t : t = stack'
            OBVIOUS
          <5>2. Len(t) = Len(stack) + 1 /\ t[Len(t)].dirs = s /\ \A k \in 1..Len(stack) : t[k] = stack[k]
            BY <2>4, <2>5, <4>1, <4>2, <5>1
          <5>3. /\ Len(stack) \in Nat \ {0} /\ stack[Len(stack)].i \in 1..Len(stack[Len(stack)].dirs)
                /\ x = stack[Len(stack)].dirs[stack[Len(stack)].i]
            BY <2>4, <3>1, <4>5
          <5>4. Pushed(stack, t, s) /\ EntriesIn(x, s, changed)
            BY <4>4, <5>2, <5>3, Zenon DEF Pushed, EntriesIn
          <5>5. Nested(t, changed)
            BY <2>3, <5>3, <5>4, NestedPush
          <5> QED
            BY <5>1, <5>5
        <4>7. stack'[1].dirs = Operands' /\ Depth' # 1 /\ flags'.recursive
          BY <2>2, <2>4, <3>1, <4>1
        <4> QED
          BY <2>2, <4>1, <4>6, <4>7 DEF NestInv
      <3> QED
        BY <3>2, <3>3
    <2>11. CASE Return
      <3>1. /\ pc = "back" /\ pc' = "turn" /\ Depth > 1 /\ Depth' = Depth - 1
            /\ \A k \in 1..(Depth - 1) : stack'[k] = stack[k]
        BY <2>1, <2>11, ReturnEffect
      <3>2. stack'[1].dirs = Operands
        BY <2>3, <2>4, <3>1
      <3>3. /\ \A k \in 2..Depth' : stack'[k].dirs = stack[k].dirs
            /\ \A k \in 1..(Depth' - 1) : stack'[k].dirs = stack[k].dirs /\ stack'[k].i = stack[k].i
        BY <2>4, <3>1
      <3> QED
        BY <2>4, <2>6, <3>1, <3>2, <3>3
    <2> QED
      BY <1>4, <2>7, <2>8, <2>9, <2>10, <2>11
  <1> QED
    BY <1>1, <1>2, <1>3, <1>4 DEF Next, Step, Skips, Change, vars, tree
-----------------------------------------------------------------------------
(* What is left to go through. *)
LEMMA PendingSame ==
  ASSUME NEW s, NEW t, Len(t) = Len(s),
         \A k \in 2..Len(s) : t[k].dirs = s[k].dirs /\ t[k].i = s[k].i
  PROVE  Pending(t) = Pending(s)
  BY DEF Pending

LEMMA PendingNone ==
  ASSUME NEW s, Len(s) = 1
  PROVE  Pending(s) = {}
  BY DEF Pending

(* A turn of the loop takes the next directory of the activation on top. *)
LEMMA PendingTurn ==
  ASSUME NEW s, NEW t, Len(s) \in Nat, Len(s) > 1, Len(t) = Len(s),
         \A k \in 2..(Len(s) - 1) : t[k].dirs = s[k].dirs /\ t[k].i = s[k].i,
         NEW i \in Nat, NEW dirs, Len(dirs) \in Nat, i < Len(dirs),
         s[Len(s)].dirs = dirs, t[Len(s)].dirs = dirs, s[Len(s)].i = i, t[Len(s)].i = i + 1
  PROVE  Pending(s) = Pending(t) \union Tree(dirs[i + 1])
  <1> DEFINE n == Len(s)
  <1>1. \A m \in 2..n : m = n \/ m \in 2..(n - 1)
    OBVIOUS
  <1>2. \A m \in 2..(n - 1) : m \in 2..n
    OBVIOUS
  <1>3. n \in 2..n
    OBVIOUS
  <1> DEFINE Low(d) == \E m \in 2..(n - 1) : \E j \in (s[m].i + 1)..Len(s[m].dirs) :
                         d \in Tree(s[m].dirs[j])
  <1>4. \A d : d \in Pending(s) <=>
              d \in Dir /\ (Low(d) \/ \E j \in (i + 1)..Len(dirs) : d \in Tree(dirs[j]))
    BY <1>1, <1>2, <1>3 DEF Pending
  <1>5. \A d : d \in Pending(t) <=>
              d \in Dir /\ (Low(d) \/ \E j \in (i + 2)..Len(dirs) : d \in Tree(dirs[j]))
    <2>1. (i + 1) + 1 = i + 2
      OBVIOUS
    <2>2. \A d : Low(d) <=> \E m \in 2..(n - 1) : \E j \in (t[m].i + 1)..Len(t[m].dirs) :
                              d \in Tree(t[m].dirs[j])
      OBVIOUS
    <2> HIDE DEF Low
    <2> QED
      BY <1>1, <1>2, <1>3, <2>1, <2>2 DEF Pending
  <1>6. /\ i + 1 \in (i + 1)..Len(dirs)
        /\ \A j \in (i + 1)..Len(dirs) : j = i + 1 \/ j \in (i + 2)..Len(dirs)
        /\ \A j \in (i + 2)..Len(dirs) : j \in (i + 1)..Len(dirs)
    OBVIOUS
  <1>7. \A d \in Tree(dirs[i + 1]) : d \in Dir
    BY TreeDir
  <1> HIDE DEF Low
  <1> QED
    BY <1>4, <1>5, <1>6, <1>7

(* A call of ls() on dirs. *)
LEMMA PendingPush ==
  ASSUME NEW s, NEW t, NEW dirs, Pushed(s, t, dirs), t[Len(t)].i = 0
  PROVE  \A d : d \in Pending(t) <=>
           d \in Pending(s) \/ \E j \in 1..Len(dirs) : d \in Tree(dirs[j])
  <1> USE DEF Pushed
  <1>1. /\ \A m \in 2..Len(t) : m = Len(t) \/ m \in 2..Len(s)
        /\ \A m \in 2..Len(s) : m \in 2..Len(t) /\ t[m] = s[m]
        /\ Len(t) \in 2..Len(t)
    OBVIOUS
  <1>2. 0 + 1 = 1
    OBVIOUS
  <1>3. \A j \in 1..Len(dirs) : \A d \in Tree(dirs[j]) : d \in Dir
    BY TreeDir
  <1> QED
    BY <1>1, <1>2, <1>3 DEF Pending

(* A return from ls() at the end of its loop. *)
LEMMA PendingReturn ==
  ASSUME NEW s, NEW t, Len(s) \in Nat, Len(s) > 1, Len(t) = Len(s) - 1,
         \A k \in 1..Len(t) : t[k] = s[k],
         Len(s[Len(s)].dirs) \in Nat, s[Len(s)].i = Len(s[Len(s)].dirs)
  PROVE  Pending(t) = Pending(s)
  <1>1. /\ \A m \in 2..Len(s) : m = Len(s) \/ m \in 2..Len(t)
        /\ \A m \in 2..Len(t) : m \in 2..Len(s) /\ t[m] = s[m]
    OBVIOUS
  <1>2. (s[Len(s)].i + 1)..Len(s[Len(s)].dirs) = {}
    OBVIOUS
  <1> QED
    BY <1>1, <1>2 DEF Pending

(* What must not be missed below the directory being read is this one, or  *)
(* below an entry of it that readdir() returns.                            *)
LEMMA WantedBelow ==
  ASSUME StructInv, SteadyInv, NEW x, NEW d \in Wanted,
         d \in Reach(flags.recursive, x), d # x
  PROVE  flags.recursive /\ \E c \in Subdirs(x) \ touched : d \in Tree(c)
  <1>1. flags.recursive /\ d \in Tree(x)
    BY DEF Reach
  <1>2. PICK c \in Visible : Parent[c] = x /\ d \in Tree(c)
    BY <1>1, TreeChild
  <1>3. c \in Steady
    <2>1. d \in Steady /\ \A z \in Steady \ {Cwd} : Parent[z] \in Steady
      BY DEF Wanted, SteadyInv
    <2> QED
      BY <1>2, <2>1, TreeWayUp
  <1>4. c \in Subdirs(x) \ touched
    BY <1>2, <1>3 DEF Subdirs, Steady, Visible, StructInv, ReadInv
  <1> QED
    BY <1>1, <1>2, <1>4

(* print_dir() does not give up a directory it has opened when there is    *)
(* something below it that must not be missed.                             *)
LEMMA WantedShows ==
  ASSUME StructInv, SteadyInv, PrintNothing, NEW d \in Wanted,
         d \in Reach(flags.recursive, Current)
  PROVE  FALSE
  <1>1. d \in Steady /\ \A z \in Steady \ {Cwd} : Parent[z] \in Steady
    BY DEF Wanted, SteadyInv
  <1>2. Current \in Steady
    BY <1>1, TreeWayUp DEF Reach
  <1>3. pc = "read" /\ <<>> \in Readings /\ ~AlwaysEntries
    BY <1>2 DEF PrintNothing, Steady
  <1>4. Subdirs(Current) \subseteq touched
    BY <1>3, NoReading
  <1>5. CASE d = Current
    <2>1. \E c \in Steady \ (Hidden \union {Cwd}) : Parent[c] = Current
      BY <1>3, <1>5 DEF Wanted, AlwaysEntries
    <2>2. ASSUME NEW c \in Steady \ (Hidden \union {Cwd}), Parent[c] = Current
          PROVE  c \in Subdirs(Current) \ touched
      BY <2>2 DEF Steady, Subdirs, StructInv, ReadInv
    <2> QED
      BY <1>4, <2>1, <2>2
  <1>6. CASE d # Current
    BY <1>4, <1>6, WantedBelow
  <1> QED
    BY <1>5, <1>6

(* The directory print_dir() is called on is reached from the operand      *)
(* under way.                                                              *)
LEMMA AtCurrent ==
  ASSUME StructInv, NestInv, pc \in {"print", "read"}
  PROVE  /\ stack[1].i \in 1..Len(Operands)
         /\ Current \in Dir => Current \in Reach(flags.recursive, Operands[stack[1].i])
  <1>1. pc \in Walking
    BY DEF Walking
  <1>2. /\ Depth \in Nat \ {0} /\ Len(stack) = Depth
        /\ \A k \in 1..(Depth - 1) : stack[k].i \in 1..Len(stack[k].dirs)
        /\ Top = stack[Depth] /\ Top.i \in 1..Len(Top.dirs)
    BY <1>1, OnStack
  <1>3. /\ stack[1].dirs = Operands /\ Nested(stack, changed) /\ (Depth > 1 => flags.recursive)
    BY <1>1 DEF NestInv
  <1>4. stack[1].i \in 1..Len(Operands)
    <2>1. CASE Depth = 1
      BY <1>2, <1>3, <2>1
    <2>2. CASE Depth # 1
      <3>1. 1 \in 1..(Depth - 1)
        BY <1>2, <2>2
      <3> QED
        BY <1>2, <1>3, <3>1
    <2> QED
      BY <2>1, <2>2
  <1>5. ASSUME NEW x \in Dir, x = Current
        PROVE  x \in Reach(flags.recursive, Operands[stack[1].i])
    <2>1. /\ Len(stack) \in Nat \ {0} /\ stack[Len(stack)].i \in 1..Len(stack[Len(stack)].dirs)
          /\ x = stack[Len(stack)].dirs[stack[Len(stack)].i]
      BY <1>2, <1>5 DEF Current
    <2>2. CASE Depth = 1
      BY <1>2, <1>3, <2>1, <2>2, TreeRoot DEF Reach
    <2>3. CASE Depth # 1
      <3>1. \A m \in 1..Len(stack) : x \in Tree(stack[m].dirs[stack[m].i])
        BY <1>3, <2>1, NestedTop
      <3>2. 1 \in 1..Len(stack) /\ flags.recursive
        BY <1>2, <1>3, <2>3
      <3> QED
        BY <1>3, <3>1, <3>2 DEF Reach
    <2> QED
      BY <2>2, <2>3
  <1> QED
    BY <1>4, <1>5

LEMMA VisitInit == Init => VisitInv
  BY DEF Init, VisitInv, Walking, Ended

(* The walk is given up. *)
LEMMA VisitGivenUp ==
  ASSUME StructInv, VisitInv, pc \notin Ended,
         UNCHANGED <<listed, flags, changed, present, unopened, Operands>>, pc' \in Ended, ~(pc' = "exit" /\ err' = 0)
  PROVE  VisitInv'
  <1> DEFINE o == Operands
             n == Len(Operands)
             l == listed
             r == flags.recursive
  <1>1. n \in Nat /\ DOMAIN o = 1..n
    BY OperandsType DEF StructInv
  <1>2. \E i, R, W : Visited(l, o, r, i, R, Unmoved, W, Opened)
    <2>1. CASE pc \in Walking
      BY <2>1 DEF VisitInv
    <2>2. CASE pc \notin Walking
      <3>1. listed = <<>>
        BY <2>2 DEF StructInv, TypeInv, ControlInv, Running, Walking
      <3> QED
        BY <1>1, <3>1, VisitedNone
    <2> QED
      BY <2>1, <2>2
  <1>3. Visited(l, o, r, n, {}, Unmoved, {}, Opened)
    BY <1>1, <1>2, VisitedEnd
  <1>a. Unmoved' = Unmoved /\ Opened' = Opened
    BY DEF Unmoved, Opened, Steady
  <1>4. Visited(listed', Operands', flags'.recursive, Len(Operands'), {}, Unmoved', {}, Opened')
    BY <1>3, <1>a, Zenon
  <1>5. pc' \notin Walking
    BY DEF Walking, Ended
  <1> QED
    BY <1>4, <1>5 DEF VisitInv

(* Others change the tree. *)
LEMMA VisitChange ==
  ASSUME StructInv, SteadyInv, VisitInv, NEW d \in Dir \ {Cwd}, Change(d)
  PROVE  VisitInv'
  <1>1. UNCHANGED <<pc, flags, paths, stack, listed, unopened>> /\ pc \notin Ended
    BY DEF Change, line
  <1>2. Wanted' \subseteq Wanted /\ Unmoved' \subseteq Unmoved /\ Opened' \subseteq Opened
    <2>1. Steady' \subseteq Steady
      BY SteadyChange DEF StructInv
    <2>2. changed' = changed \union {d}
      BY DEF Change
    <2> QED
      BY <1>1, <2>1, <2>2 DEF Wanted, Unmoved, Opened
  <1>3. UNCHANGED <<Operands, Rest>>
    BY <1>1 DEF Operands, Rest, Current, Top, Depth
  <1>4. ASSUME pc \in Walking
        PROVE  Visited(listed', Operands', flags'.recursive, stack'[1].i, Rest', Unmoved', Wanted', Opened')
    <2>1. PICK U2, W2, S2 : U2 = Unmoved' /\ W2 = Wanted' /\ S2 = Opened'
      OBVIOUS
    <2>2. U2 \subseteq Unmoved /\ W2 \subseteq Wanted /\ S2 \in SUBSET Opened
      BY <1>2, <2>1
    <2>3. Visited(listed, Operands, flags.recursive, stack[1].i, Rest, Unmoved, Wanted, Opened)
      BY <1>4 DEF VisitInv
    <2>4. Visited(listed, Operands, flags.recursive, stack[1].i, Rest, U2, W2, S2)
      BY <2>2, <2>3, VisitedLess
    <2> QED
      BY <1>1, <1>3, <2>1, <2>4, Zenon
  <1> QED
    BY <1>1, <1>4 DEF VisitInv

(* The invariant of the walk after a step that leaves the command line and *)
(* the tree alone.                                                         *)
LEMMA VisitTo ==
  ASSUME UNCHANGED <<flags, paths, present, changed>>, pc' \in Walking,
         Visited(listed', Operands, flags.recursive, stack'[1].i, Rest', Unmoved, Wanted, Opened')
  PROVE  VisitInv'
  <1>1. UNCHANGED <<Operands, Unmoved, Wanted>>
    BY DEF Operands, Unmoved, Wanted, Steady
  <1>2. Visited(listed', Operands', flags'.recursive, stack'[1].i, Rest', Unmoved', Wanted', Opened')
    BY <1>1, Zenon
  <1>3. pc' \notin Ended
    BY DEF Walking, Ended
  <1> QED
    BY <1>2, <1>3 DEF VisitInv

(* The steps that list nothing and leave nothing out. *)
LEMMA VisitSameRest ==
  ASSUME VisitInv, pc \in Walking, pc' \in Walking,
         UNCHANGED <<flags, paths, present, changed, listed>>, stack'[1].i = stack[1].i,
         Rest' \subseteq Rest, unopened \subseteq unopened',
         \A d \in Wanted :
           d \in Way(flags.recursive, Operands[stack[1].i], Opened') /\ d \in Rest => d \in Rest'
  PROVE  VisitInv'
  <1>1. PICK R, S : R = Rest' /\ S = Opened'
    OBVIOUS
  <1>2. Visited(listed, Operands, flags.recursive, stack[1].i, Rest, Unmoved, Wanted, Opened)
    BY DEF VisitInv
  <1>3. S \in SUBSET Opened
    BY <1>1 DEF Opened, Steady
  <1>4. Visited(listed, Operands, flags.recursive, stack[1].i, R, Unmoved, Wanted, S)
    BY <1>1, <1>2, <1>3, VisitedLess
  <1>5. Visited(listed', Operands, flags.recursive, stack'[1].i, Rest', Unmoved, Wanted, Opened')
    BY <1>1, <1>4, Zenon
  <1> QED
    BY <1>5, VisitTo

LEMMA VisitEnter ==
  ASSUME StructInv, NestInv, VisitInv, Enter
  PROVE  VisitInv'
  <1>1. /\ pc = "enter" /\ pc' = "turn" /\ Depth' = Depth
        /\ \A k \in 1..Depth :
             /\ stack'[k].i = stack[k].i
             /\ stack'[k].dirs = IF k = Depth /\ Top.dirs = <<>> THEN <<Cwd>> ELSE stack[k].dirs
    BY EnterEffect DEF StructInv
  <1>2. pc \in Walking /\ pc' \in Walking
    BY <1>1 DEF Walking
  <1>3. UNCHANGED <<flags, paths, present, changed, listed, unopened>>
    BY DEF Enter, line, tree
  <1>4. Depth \in Nat \ {0} /\ Len(stack) = Depth /\ Len(stack') = Depth
    BY <1>1, <1>2, OnStack DEF Depth
  <1>5. \A k \in 2..Depth : k \in 1..Depth /\ stack[k].dirs # <<>>
    BY <1>2, <1>4 DEF NestInv, Nested
  <1>6. \A k \in 2..Depth : stack'[k].dirs = stack[k].dirs /\ stack'[k].i = stack[k].i
    BY <1>1, <1>5 DEF Top
  <1>7. Pending(stack') = Pending(stack)
    <2>1. PICK t : t = stack'
      OBVIOUS
    <2>2. Len(t) = Len(stack) /\ \A k \in 2..Len(stack) : t[k].dirs = stack[k].dirs /\ t[k].i = stack[k].i
      BY <1>4, <1>6, <2>1
    <2>3. Pending(t) = Pending(stack)
      BY <2>2, PendingSame
    <2> QED
      BY <2>1, <2>3
  <1>8. Rest' = Rest
    BY <1>1, <1>7 DEF Rest
  <1>9. stack'[1].i = stack[1].i
    BY <1>1, <1>4
  <1> QED
    BY <1>2, <1>3, <1>8, <1>9, VisitSameRest

LEMMA VisitConcat ==
  ASSUME StructInv, NestInv, VisitInv, Concat, pc' = "print"
  PROVE  VisitInv'
  <1>1. /\ pc = "turn" /\ Depth' = Depth /\ Top.i < Len(Top.dirs)
        /\ \A k \in 1..Depth :
             /\ stack'[k].dirs = stack[k].dirs
             /\ stack'[k].i = IF k = Depth THEN stack[k].i + 1 ELSE stack[k].i
    BY ConcatEffect DEF StructInv
  <1>2. pc \in Walking /\ pc' \in Walking
    BY <1>1 DEF Walking
  <1>3. UNCHANGED <<flags, paths, present, changed, listed, unopened>>
    BY DEF Concat, line, tree
  <1>4. /\ Depth \in Nat \ {0} /\ Len(stack) = Depth /\ Len(stack') = Depth
        /\ Len(stack[Depth].dirs) \in Nat /\ stack[Depth].i \in Nat /\ Depth \in 1..Depth
    BY <1>1, <1>2, OnStack DEF Depth
  <1>5. PICK i \in Nat : i = stack[Depth].i
    BY <1>4
  <1>6. PICK dirs : dirs = stack[Depth].dirs
    OBVIOUS
  <1>7. /\ stack'[Depth].i = i + 1 /\ stack'[Depth].dirs = dirs
        /\ i < Len(dirs) /\ Len(dirs) \in Nat
    BY <1>1, <1>4, <1>5, <1>6 DEF Top
  <1>8. Current' = dirs[i + 1]
    BY <1>1, <1>7 DEF Current, Top
  <1>9. PICK t : t = stack'
    OBVIOUS
  <1>10. Rest = Pending(stack) /\ Rest' = Pending(t) \union Reach(flags.recursive, dirs[i + 1])
    BY <1>1, <1>3, <1>8, <1>9 DEF Rest
  <1>11. CASE Depth = 1
    <2>1. Pending(stack) = {} /\ Pending(t) = {}
      BY <1>4, <1>9, <1>11, PendingNone
    <2>2. stack[1].dirs = Operands
      BY <1>1, <1>2 DEF NestInv
    <2>3. dirs = Operands /\ stack[1].i = i /\ stack'[1].i = i + 1
      BY <1>5, <1>6, <1>7, <1>11, <2>2
    <2>4. PICK n \in Nat : DOMAIN Operands = 1..n
      BY OperandsType DEF StructInv
    <2>5. Visited(listed, Operands, flags.recursive, i, {}, Unmoved, Wanted, Opened)
      BY <1>2, <1>10, <2>1, <2>3 DEF VisitInv
    <2>6. PICK R : R = Rest'
      OBVIOUS
    <2>7. Reach(flags.recursive, Operands[i + 1]) \subseteq R
      BY <1>10, <2>3, <2>6
    <2>a. Opened \in SUBSET Dir /\ Opened' = Opened
      BY <1>3 DEF Opened, Steady, StructInv, TypeInv
    <2>8. Visited(listed, Operands, flags.recursive, i + 1, R, Unmoved, Wanted, Opened)
      BY <2>4, <2>5, <2>7, <2>a, VisitedNext
    <2>9. Visited(listed', Operands, flags.recursive, stack'[1].i, Rest', Unmoved, Wanted, Opened')
      BY <1>3, <2>3, <2>6, <2>8, <2>a, Zenon
    <2> QED
      BY <1>2, <1>3, <2>9, VisitTo
  <1>12. CASE Depth # 1
    <2>1. Depth > 1
      BY <1>4, <1>12
    <2>2. flags.recursive
      BY <1>2, <2>1 DEF NestInv
    <2>3. \A k \in 2..(Len(stack) - 1) : t[k].dirs = stack[k].dirs /\ t[k].i = stack[k].i
      BY <1>1, <1>4, <1>9
    <2>4. /\ Len(stack) \in Nat /\ Len(stack) > 1 /\ Len(t) = Len(stack)
          /\ stack[Len(stack)].dirs = dirs /\ t[Len(stack)].dirs = dirs
          /\ stack[Len(stack)].i = i /\ t[Len(stack)].i = i + 1
      BY <1>4, <1>5, <1>6, <1>7, <1>9, <2>1
    <2>5. Pending(stack) = Pending(t) \union Tree(dirs[i + 1])
      BY <1>7, <2>3, <2>4, PendingTurn
    <2>6. Rest' = Rest
      BY <1>10, <2>2, <2>5 DEF Reach
    <2>7. stack'[1].i = stack[1].i
      BY <1>1, <1>4, <1>12
    <2> QED
      BY <1>2, <1>3, <2>6, <2>7, VisitSameRest
  <1> QED
    BY <1>11, <1>12

(* opendir() fails: nothing below the directory is reached any more through *)
(* those that opendir() never failed for.                                  *)
LEMMA VisitOpenFails ==
  ASSUME StructInv, NestInv, VisitInv, OpenFails
  PROVE  VisitInv'
  <1>1. pc = "print" /\ pc' = "turn" /\ stack' = stack /\ unopened' = unopened \union {Current}
    BY DEF OpenFails
  <1>2. pc \in Walking /\ pc' \in Walking
    BY <1>1 DEF Walking
  <1>3. UNCHANGED <<flags, paths, present, changed, listed>>
    BY DEF OpenFails, line, tree
  <1>4. Rest = Pending(stack) \union Reach(flags.recursive, Current) /\ Rest' = Pending(stack)
    BY <1>1 DEF Rest
  <1>5. PICK S : S = Opened'
    OBVIOUS
  <1>6. S \in SUBSET Dir /\ Current \notin S
    BY <1>1, <1>3, <1>5 DEF Opened, Steady, StructInv, TypeInv
  <1>7. ASSUME NEW d, d \in Way(flags.recursive, Operands[stack[1].i], S),
               d \in Reach(flags.recursive, Current)
        PROVE  FALSE
    <2>1. Current \in Dir
      BY <1>7, TreeNone DEF Reach
    <2>2. Current \in Reach(flags.recursive, Operands[stack[1].i])
      BY <1>1, <2>1, AtCurrent
    <2>3. Current \in S
      BY <1>6, <1>7, <2>2, WayThrough
    <2> QED
      BY <1>6, <2>3
  <1>8. \A d \in Wanted :
          d \in Way(flags.recursive, Operands[stack[1].i], Opened') /\ d \in Rest => d \in Rest'
    BY <1>4, <1>5, <1>7
  <1>9. Rest' \subseteq Rest /\ stack'[1].i = stack[1].i /\ unopened \subseteq unopened'
    BY <1>1, <1>4
  <1> QED
    BY <1>2, <1>3, <1>8, <1>9, VisitSameRest

LEMMA VisitOpenDir ==
  ASSUME VisitInv, OpenDir
  PROVE  VisitInv'
  <1>1. pc = "print" /\ pc' = "read" /\ UNCHANGED <<stack, flags, paths, present, changed, listed, unopened>>
    BY DEF OpenDir, line, tree
  <1>2. pc \in Walking /\ pc' \in Walking
    BY <1>1 DEF Walking
  <1>3. UNCHANGED Current
    BY <1>1 DEF Current, Top, Depth
  <1>4. Rest' = Rest
    BY <1>1, <1>3 DEF Rest
  <1> QED
    BY <1>1, <1>2, <1>4, VisitSameRest

LEMMA VisitPrintNothing ==
  ASSUME StructInv, SteadyInv, VisitInv, PrintNothing
  PROVE  VisitInv'
  <1>1. pc = "read" /\ pc' = "turn" /\ stack' = stack
    BY DEF PrintNothing
  <1>2. pc \in Walking /\ pc' \in Walking
    BY <1>1 DEF Walking
  <1>3. UNCHANGED <<flags, paths, present, changed, listed, unopened>>
    BY DEF PrintNothing, line, tree
  <1>4. Rest = Pending(stack) \union Reach(flags.recursive, Current) /\ Rest' = Pending(stack)
    BY <1>1 DEF Rest
  <1>5. \A d \in Wanted : d \notin Reach(flags.recursive, Current)
    BY WantedShows
  <1>6. Rest' \subseteq Rest /\ \A d \in Wanted : d \in Rest => d \in Rest'
    BY <1>4, <1>5
  <1> QED
    BY <1>1, <1>2, <1>3, <1>6, VisitSameRest

LEMMA VisitPrintDir ==
  ASSUME StructInv, NestInv, SteadyInv, VisitInv, PrintDir
  PROVE  VisitInv'
  <1>1. pc = "read" /\ pc \in Walking /\ Current \in Dir /\ listed' = Append(listed, Current)
    BY PrintDirEffect DEF Walking
  <1>2. UNCHANGED <<flags, paths, present, changed, unopened>>
    BY DEF PrintDir, line, tree
  <1>3. /\ Depth \in Nat \ {0} /\ Len(stack) = Depth
        /\ \A k \in 1..Depth : Len(stack[k].dirs) \in Nat
        /\ \A k \in 1..(Depth - 1) : stack[k].i \in 1..Len(stack[k].dirs)
        /\ Top = stack[Depth] /\ Top.i \in 1..Len(Top.dirs)
    BY <1>1, OnStack
  <1>4. Nested(stack, changed)
    BY <1>1 DEF NestInv
  <1>5. PICK x \in Dir : x = Current
    BY <1>1
  <1>6. /\ Len(stack) \in Nat \ {0} /\ stack[Len(stack)].i \in 1..Len(stack[Len(stack)].dirs)
        /\ x = stack[Len(stack)].dirs[stack[Len(stack)].i]
    BY <1>3, <1>5 DEF Current
  <1>7. x \in Unmoved => x \notin Pending(stack)
    <2> SUFFICES ASSUME x \in Unmoved PROVE x \notin Pending(stack)
      OBVIOUS
    <2>1. /\ x \in Steady /\ Steady \intersect changed = {}
          /\ \A z \in Steady \ {Cwd} : Parent[z] \in Steady
      BY <1>1, <1>5 DEF Unmoved, Steady, SteadyInv, StructInv, ReadInv
    <2> QED
      BY <1>3, <1>4, <1>6, <2>1, NestedApart
  <1>8. PICK n \in Nat : DOMAIN Operands = 1..n /\ n = Len(Operands)
    BY OperandsType DEF StructInv
  <1>9. stack[1].i \in 1..n
    BY <1>1, <1>8, AtCurrent
  <1>10. x \in Reach(flags.recursive, Operands[stack[1].i])
    BY <1>1, <1>5, AtCurrent
  <1>11. Rest = Pending(stack) \union Reach(flags.recursive, x) /\ x \in Reach(flags.recursive, x)
    BY <1>1, <1>5, TreeRoot DEF Rest, Reach
  <1>12. PICK t : t = stack'
    OBVIOUS
  <1>13. ASSUME pc' \in {"turn", "enter"}, stack'[1].i = stack[1].i,
                Pending(t) \subseteq Rest, x \in Unmoved => x \notin Pending(t),
                Wanted \intersect Rest \subseteq Pending(t) \union {x}
         PROVE  VisitInv'
    <2>1. Rest' = Pending(t) /\ pc' \in Walking
      BY <1>12, <1>13 DEF Rest, Walking
    <2>2. Visited(listed, Operands, flags.recursive, stack[1].i, Rest, Unmoved, Wanted, Opened)
      BY <1>1 DEF VisitInv
    <2>3. listed \in Seq(Dir) /\ x \in Rest
      BY <1>11 DEF StructInv, TypeInv
    <2>4. PICK i \in 1..n : i = stack[1].i
      BY <1>9
    <2>5. Visited(Append(listed, x), Operands, flags.recursive, i, Pending(t), Unmoved, Wanted, Opened)
      BY <1>8, <1>10, <1>13, <2>2, <2>3, <2>4, VisitedMore
    <2>a. Opened' = Opened
      BY <1>2 DEF Opened, Steady
    <2>6. Visited(listed', Operands, flags.recursive, stack'[1].i, Rest', Unmoved, Wanted, Opened')
      BY <1>1, <1>5, <1>13, <2>1, <2>4, <2>5, <2>a, Zenon
    <2> QED
      BY <1>2, <2>1, <2>6, VisitTo
  <1>14. \A d \in Wanted : d \in Reach(flags.recursive, x) /\ d # x =>
           flags.recursive /\ \E c \in Subdirs(x) \ touched : d \in Tree(c)
    BY WantedBelow
  <1>15. CASE pc' = "turn" /\ UNCHANGED stack /\ (flags.recursive => <<>> \in Readings)
    <2>1. pc' = "turn" /\ stack' = stack
      BY <1>15
    <2>2. \A d \in Wanted : d \in Reach(flags.recursive, x) => d = x
      BY <1>1, <1>5, <1>14, <1>15, NoReading
    <2> QED
      BY <1>7, <1>11, <1>12, <1>13, <2>1, <2>2
  <1>16. CASE pc' # "turn"
    <2>1. /\ pc' = "enter" /\ Depth' = Depth + 1 /\ flags.recursive
          /\ \A k \in 1..Depth : stack'[k] = stack[k]
          /\ stack'[Depth + 1].dirs \in Readings /\ stack'[Depth + 1].i = 0
      BY <1>16, PrintDirEffect
    <2>2. PICK s \in Readings : s = stack'[Depth + 1].dirs
      BY <2>1
    <2>3. /\ \A j \in 1..Len(s) : s[j] \in Visible /\ Parent[s[j]] = x
          /\ \A c \in Subdirs(x) \ touched : \E j \in 1..Len(s) : s[j] = c
      BY <1>1, <1>5, ReadingsAre
    <2>4. /\ Len(t) = Len(stack) + 1 /\ t[Len(t)].dirs = s /\ t[Len(t)].i = 0
          /\ \A k \in 1..Len(stack) : t[k] = stack[k]
      BY <1>3, <1>12, <2>1, <2>2 DEF Depth
    <2>5. \A d : d \in Pending(t) <=>
             d \in Pending(stack) \/ \E j \in 1..Len(s) : d \in Tree(s[j])
      <3>1. Pushed(stack, t, s)
        BY <1>6, <2>4 DEF Pushed
      <3> QED
        BY <2>4, <3>1, PendingPush
    <2>6. ASSUME NEW j \in 1..Len(s) PROVE x \notin Tree(s[j]) /\ Tree(s[j]) \subseteq Tree(x)
      <3>1. s[j] \in Visible /\ Parent[s[j]] = x
        BY <2>3
      <3>2. x \notin Tree(s[j])
        BY <3>1, TreeAcyclic
      <3>3. s[j] \in Tree(x)
        BY <3>1, TreeRoot, TreeDown
      <3> QED
        BY <3>2, <3>3, TreeTransitive
    <2>7. x \in Unmoved => x \notin Pending(t)
      BY <1>7, <2>5, <2>6
    <2>8. Pending(t) \subseteq Rest
      BY <1>11, <2>1, <2>5, <2>6 DEF Reach
    <2>9. Wanted \intersect Rest \subseteq Pending(t) \union {x}
      <3> SUFFICES ASSUME NEW d \in Wanted, d \in Reach(flags.recursive, x), d # x
                   PROVE  d \in Pending(t)
        BY <1>11, <2>5
      <3>1. PICK c \in Subdirs(x) \ touched : d \in Tree(c)
        BY <1>14
      <3>2. PICK j \in 1..Len(s) : s[j] = c
        BY <2>3
      <3> QED
        BY <2>5, <3>1, <3>2
    <2>10. stack'[1].i = stack[1].i
      BY <1>3, <2>1
    <2> QED
      BY <1>13, <2>1, <2>7, <2>8, <2>9, <2>10
  <1> QED
    BY <1>15, <1>16, PrintDirEffect

LEMMA VisitReturn ==
  ASSUME StructInv, VisitInv, Return
  PROVE  VisitInv'
  <1>1. /\ pc = "back" /\ pc' = "turn" /\ Depth > 1 /\ Depth' = Depth - 1
        /\ \A k \in 1..(Depth - 1) : stack'[k] = stack[k]
    BY ReturnEffect DEF StructInv
  <1>2. pc \in Walking /\ pc' \in Walking
    BY <1>1 DEF Walking
  <1>3. UNCHANGED <<flags, paths, present, changed, listed, unopened>>
    BY DEF Return, line, tree
  <1>4. /\ Depth \in Nat \ {0} /\ Len(stack) = Depth
        /\ \A k \in 1..Depth : Len(stack[k].dirs) \in Nat
        /\ stack[Depth].i = Len(stack[Depth].dirs)
    BY <1>1, <1>2, OnStack DEF StructInv, ControlInv, Top
  <1>5. PICK t : t = stack'
    OBVIOUS
  <1>6. /\ Len(t) = Len(stack) - 1 /\ \A k \in 1..Len(t) : t[k] = stack[k]
        /\ Len(stack) \in Nat /\ Len(stack) > 1
        /\ Len(stack[Len(stack)].dirs) \in Nat /\ stack[Len(stack)].i = Len(stack[Len(stack)].dirs)
    BY <1>1, <1>4, <1>5 DEF Depth
  <1>7. Pending(t) = Pending(stack)
    BY <1>6, PendingReturn
  <1>8. Rest' = Rest
    BY <1>1, <1>5, <1>7 DEF Rest
  <1>9. stack'[1].i = stack[1].i
    BY <1>1, <1>4
  <1> QED
    BY <1>2, <1>3, <1>8, <1>9, VisitSameRest

LEMMA VisitExit ==
  ASSUME StructInv, NestInv, VisitInv, Exit
  PROVE  VisitInv'
  <1>1. pc = "back" /\ pc \in Walking /\ Depth = 1 /\ pc' = "exit"
    BY DEF Exit, Walking
  <1>2. UNCHANGED <<flags, paths, present, changed, listed, err, unopened>>
    BY DEF Exit, line, tree
  <1>3. Len(stack) = 1 /\ stack[1].i = Len(stack[1].dirs) /\ stack[1].dirs = Operands /\ err = 0
    BY <1>1 DEF StructInv, ControlInv, NestInv, Top, Depth
  <1>4. Rest = {}
    BY <1>1, <1>3, PendingNone DEF Rest
  <1>5. Visited(listed, Operands, flags.recursive, Len(Operands), {}, Unmoved, Wanted, Opened)
    BY <1>1, <1>3, <1>4 DEF VisitInv
  <1>6. UNCHANGED <<Operands, Unmoved, Wanted, Opened>>
    BY <1>2 DEF Operands, Unmoved, Wanted, Opened, Steady
  <1>7. Visited(listed', Operands', flags'.recursive, Len(Operands'), {}, Unmoved', Wanted', Opened')
    BY <1>2, <1>5, <1>6, Zenon
  <1> QED
    BY <1>1, <1>2, <1>3, <1>7 DEF VisitInv, Walking

WalkInv == StructInv /\ NestInv /\ SteadyInv /\ VisitInv

LEMMA VisitStep == WalkInv /\ [Next]_vars => VisitInv'
  <1> SUFFICES ASSUME WalkInv, [Next]_vars PROVE VisitInv'
    OBVIOUS
  <1>1. StructInv /\ NestInv /\ SteadyInv /\ VisitInv
    BY DEF WalkInv
  <1>2. CASE UNCHANGED vars
    BY <1>1, <1>2 DEF vars, line, tree, VisitInv, Operands, Rest, Current, Top, Depth, Unmoved,
                      Wanted, Opened, Steady
  <1>3. CASE ParseArgument
    <2>1. listed' = <<>> /\ (pc' = "parse" \/ (pc' = "exit" /\ err' = 7))
      BY <1>1, <1>3 DEF ParseArgument, StructInv, ControlInv
    <2>2. CASE pc' = "parse"
      BY <2>2 DEF VisitInv, Walking, Ended
    <2>3. CASE pc' = "exit" /\ err' = 7
      <3>1. PICK o, r : o = Operands' /\ r = flags'.recursive
        OBVIOUS
      <3>2. Len(o) \in Nat /\ DOMAIN o = 1..Len(o)
        <4>1. TypeInv'
          BY <1>1, <1>3, ParseStruct
        <4>2. Operands' \in Seq(Named)
          <5>1. Cwd \in Named /\ paths' \in Seq(Named)
            BY <4>1, WalkAssumption DEF TypeInv, Named
          <5>2. <<Cwd>> \in Seq(Named)
            BY <5>1
          <5> QED
            BY <5>1, <5>2 DEF Operands
        <4> QED
          BY <3>1, <4>2, LenProperties
      <3>a. PICK U, S : U = Unmoved' /\ S = Opened'
        OBVIOUS
      <3>3. Visited(<<>>, o, r, 0, {}, U, {}, S)
        BY <3>2, VisitedNone
      <3>4. Visited(<<>>, o, r, Len(o), {}, U, {}, S)
        BY <3>2, <3>3, VisitedEnd
      <3>5. Visited(listed', Operands', flags'.recursive, Len(Operands'), {}, Unmoved', {}, Opened')
        BY <2>1, <3>1, <3>4, <3>a, Zenon
      <3> QED
        BY <2>3, <3>5 DEF VisitInv, Walking
    <2> QED
      BY <2>1, <2>2, <2>3
  <1>4. CASE CallLs
    <2>1. /\ pc' = "enter" /\ Depth' = 1 /\ stack'[1].i = 0 /\ listed' = <<>>
          /\ UNCHANGED <<flags, paths, present, changed>>
      BY <1>1, <1>4, CallEffect DEF CallLs, line, tree, StructInv, ControlInv
    <2>2. PICK R, S : R = Rest' /\ S = Opened'
      OBVIOUS
    <2>3. Visited(<<>>, Operands, flags.recursive, 0, R, Unmoved, Wanted, S)
      BY <1>1, OperandsType, VisitedNone DEF StructInv
    <2>4. Visited(listed', Operands, flags.recursive, stack'[1].i, Rest', Unmoved, Wanted, Opened')
      BY <2>1, <2>2, <2>3, Zenon
    <2> QED
      BY <2>1, <2>4, VisitTo DEF Walking
  <1>5. CASE Concat
    <2>1. CASE pc' = "print"
      BY <1>1, <1>5, <2>1, VisitConcat
    <2>2. CASE pc' # "print"
      <3>1. /\ pc = "turn" /\ pc' = "ub"
            /\ UNCHANGED <<listed, flags, paths, changed, present, unopened>>
        BY <1>5, <2>2 DEF Concat, line, tree
      <3>2. UNCHANGED Operands
        BY <3>1 DEF Operands
      <3> QED
        BY <1>1, <3>1, <3>2, VisitGivenUp DEF Ended
    <2> QED
      BY <2>1, <2>2
  <1>6. CASE EndLoop
    <2>1. /\ pc = "turn" /\ pc' = "back" /\ stack' = stack
          /\ UNCHANGED <<flags, paths, present, changed, listed, unopened>>
      BY <1>6 DEF EndLoop, line, tree
    <2>2. Rest' = Rest /\ pc \in Walking /\ pc' \in Walking
      BY <2>1 DEF Rest, Walking
    <2> QED
      BY <1>1, <2>1, <2>2, VisitSameRest
  <1>7. CASE Killed
    <2>1. /\ pc \notin Ended /\ pc' = "killed"
          /\ UNCHANGED <<listed, flags, paths, changed, present, unopened>>
      BY <1>7 DEF Killed, line, tree
    <2>2. UNCHANGED Operands
      BY <2>1 DEF Operands
    <2> QED
      BY <1>1, <2>1, <2>2, VisitGivenUp DEF Ended
  <1>8. CASE Enter \/ OpenFails \/ OpenDir \/ PrintNothing \/ PrintDir \/ Return \/ Exit
    BY <1>1, <1>8, VisitEnter, VisitOpenFails, VisitOpenDir, VisitPrintNothing, VisitPrintDir,
       VisitReturn, VisitExit
  <1>9. CASE \E d \in Dir \ {Cwd} : Change(d)
    BY <1>1, <1>9, VisitChange
  <1> QED
    BY <1>2, <1>3, <1>4, <1>5, <1>6, <1>7, <1>8, <1>9 DEF Next, Step

LEMMA WalkCorrect == Spec => []WalkInv
  <1>1. Init => NestInv
    BY DEF Init, NestInv, Walking
  <1>2. Init => WalkInv
    BY <1>1, StructInit, SteadyInit, VisitInit DEF WalkInv
  <1>3. WalkInv /\ [Next]_vars => WalkInv'
    BY StructStep, NestStep, SteadyStep, VisitStep DEF WalkInv, StructInv
  <1> QED
    BY <1>2, <1>3, PTL DEF Spec

(* Where l lists d, and the operands that reach d. *)
Places(l, d) == {k \in DOMAIN l : l[k] = d}
Origins(ops, r, d) == {j \in DOMAIN ops : d \in Reach(r, ops[j])}

Ways(ops, r, S, d) == {j \in DOMAIN ops : d \in Way(r, ops[j], S)}

LEMMA VisitCounts ==
  ASSUME NEW n \in Nat, NEW ops, DOMAIN ops = 1..n, NEW l \in Seq(Dir), NEW r,
         NEW i, NEW R, NEW U, NEW W, NEW S, Visited(l, ops, r, i, R, U, W, S), NEW d
  PROVE  /\ d \in U => Cardinality(Places(l, d)) <= Cardinality(Origins(ops, r, d))
         /\ d \in W /\ i = n /\ R = {} =>
              Cardinality(Places(l, d)) >= Cardinality(Ways(ops, r, S, d))
  <1> DEFINE K == Places(l, d)
             J == Origins(ops, r, d)
             J2 == Ways(ops, r, S, d)
  <1>1. PICK f : Lists(f, l, ops, r, U) /\ Behind(f, l, ops, r, i, R, W, S)
    BY DEF Visited
  <1>2. IsFiniteSet(J)
    <2>1. IsFiniteSet(1..n)
      BY FS_Interval
    <2> QED
      BY <2>1, FS_Subset DEF Origins
  <1> DEFINE g == [k \in K |-> f[k]]
  <1>3. /\ g \in [K -> J] /\ \A k \in K : g[k] = f[k]
    BY <1>1 DEF Lists, Places, Origins
  <1> HIDE DEF g
  <1>4. ASSUME d \in U PROVE Cardinality(K) <= Cardinality(J)
    <2>1. \A j, k \in K : g[j] = g[k] => j = k
      BY <1>1, <1>3, <1>4 DEF Lists, Places
    <2>2. g \in Injection(K, J)
      BY <1>3, <2>1 DEF Injection, IsInjective
    <2> QED
      BY <1>2, <2>2, FS_Injection
  <1>5. ASSUME d \in W, i = n, R = {} PROVE Cardinality(K) >= Cardinality(J2)
    <2>1. IsFiniteSet(K)
      <3>1. Len(l) \in Nat /\ DOMAIN l = 1..Len(l)
        BY LenProperties
      <3>2. IsFiniteSet(1..Len(l))
        BY <3>1, FS_Interval
      <3>3. K \in SUBSET (1..Len(l))
        BY <3>1 DEF Places
      <3> QED
        BY <3>2, <3>3, FS_Subset
    <2>2. ASSUME NEW j \in J2 PROVE \E k \in K : f[k] = j
      <3>1. j \in DOMAIN ops /\ d \in Way(r, ops[j], S) /\ (j < i \/ (j = i /\ d \notin R))
        BY <1>5 DEF Ways
      <3>2. \E k \in DOMAIN l : l[k] = d /\ f[k] = j
        BY <1>1, <1>5, <3>1 DEF Behind
      <3> QED
        BY <3>2 DEF Places
    <2> DEFINE K2 == {k \in K : f[k] \in J2}
               h == [k \in K2 |-> f[k]]
    <2>3. h \in [K2 -> J2] /\ \A j \in J2 : \E k \in K2 : h[k] = j
      BY <2>2
    <2>4. h \in Surjection(K2, J2)
      BY <2>3 DEF Surjection
    <2>5. IsFiniteSet(K2) /\ Cardinality(K2) <= Cardinality(K)
      BY <2>1, FS_Subset
    <2> HIDE DEF K2, h
    <2>6. IsFiniteSet(J2) /\ Cardinality(J2) <= Cardinality(K2)
      BY <2>4, <2>5, FS_Surjection
    <2>7. Cardinality(J2) \in Nat /\ Cardinality(K2) \in Nat /\ Cardinality(K) \in Nat
      BY <2>1, <2>5, <2>6, FS_CardinalityType
    <2> QED
      BY <2>5, <2>6, <2>7
  <1> QED
    BY <1>4, <1>5

LEMMA CountsDef ==
  ASSUME NEW d
  PROVE  /\ Times(d) = Cardinality(Places(listed, d))
         /\ Visits(d, Dir) = Cardinality(Origins(Operands, flags.recursive, d))
         /\ \A S : Visits(d, S) = Cardinality(Ways(Operands, flags.recursive, S, d))
  <1>1. \A x : Below(x, Dir) = Reach(flags.recursive, x)
    BY BelowTree DEF Reach
  <1>2. \A x, S : Below(x, S) = Way(flags.recursive, x, S)
    BY WayDef
  <1> QED
    BY <1>1, <1>2 DEF Times, Places, Visits, Origins, Ways

(* Every directory listed so far is listed for one of the operands. *)
LEMMA SomeVisited ==
  ASSUME WalkInv
  PROVE  /\ listed \in Seq(Dir) /\ Len(listed) \in Nat /\ Len(Operands) \in Nat
         /\ DOMAIN Operands = 1..Len(Operands)
         /\ \E i, R, W : Visited(listed, Operands, flags.recursive, i, R, Unmoved, W, Opened)
  <1>1. /\ listed \in Seq(Dir) /\ Len(listed) \in Nat /\ Len(Operands) \in Nat
        /\ DOMAIN Operands = 1..Len(Operands)
    BY OperandsType, LenProperties DEF WalkInv, StructInv, TypeInv
  <1>2. CASE pc \in Walking \/ pc \in Ended
    BY <1>1, <1>2 DEF WalkInv, VisitInv
  <1>3. CASE pc \notin Walking /\ pc \notin Ended
    <2>1. listed = <<>>
      BY <1>3 DEF WalkInv, StructInv, TypeInv, ControlInv, Running, Walking
    <2> QED
      BY <1>1, <2>1, VisitedNone
  <1> QED
    BY <1>2, <1>3

(* For every tree, command line, failure of opendir() and interleaving     *)
(* with those who change the tree, also while readdir() goes through it:   *)
(* no directory that nobody makes or removes is listed more often than the *)
(* operands reach it.                                                      *)
THEOREM LsVisitedOnce == Spec => []VisitedOnce
  <1>1. WalkInv => VisitedOnce
    <2> SUFFICES ASSUME WalkInv, NEW d \in Dir \ changed PROVE Times(d) <= Visits(d, Dir)
      BY DEF VisitedOnce
    <2>1. /\ Len(Operands) \in Nat /\ DOMAIN Operands = 1..Len(Operands) /\ listed \in Seq(Dir)
          /\ \E i, R, W : Visited(listed, Operands, flags.recursive, i, R, Unmoved, W, Opened)
      BY SomeVisited
    <2>2. PICK i, R, W : Visited(listed, Operands, flags.recursive, i, R, Unmoved, W, Opened)
      BY <2>1
    <2>3. d \in Unmoved
      BY DEF Unmoved
    <2>4. Cardinality(Places(listed, d)) <= Cardinality(Origins(Operands, flags.recursive, d))
      BY <2>1, <2>2, <2>3, VisitCounts
    <2> QED
      BY <2>4, CountsDef
  <1> QED
    BY <1>1, WalkCorrect, PTL

(* For every tree, command line, failure of opendir() and interleaving     *)
(* with those who change the tree, also while readdir() goes through it:   *)
(* when ls exits with 0, every directory that was there all the time and   *)
(* has something to show has been listed, once for every operand it is     *)
(* below by a way on which opendir() never failed.                         *)
THEOREM LsNothingMissed == Spec => []NothingMissed
  <1>1. WalkInv => NothingMissed
    <2> SUFFICES ASSUME WalkInv, pc = "exit", err = 0, NEW d \in Steady, d \in Wanted
                 PROVE  Times(d) >= Visits(d, Opened)
      BY DEF NothingMissed, Opened, Steady, Wanted
    <2>1. /\ listed \in Seq(Dir) /\ Len(Operands) \in Nat
          /\ DOMAIN Operands = 1..Len(Operands)
      BY OperandsType DEF WalkInv, StructInv, TypeInv
    <2>2. Visited(listed, Operands, flags.recursive, Len(Operands), {}, Unmoved, Wanted, Opened)
      BY DEF WalkInv, VisitInv, Ended
    <2>3. Cardinality(Places(listed, d)) >= Cardinality(Ways(Operands, flags.recursive, Opened, d))
      BY <2>1, <2>2, VisitCounts
    <2> QED
      BY <2>3, CountsDef
  <1> QED
    BY <1>1, WalkCorrect, PTL
-----------------------------------------------------------------------------
(* The walk ends: how deep it goes depends on the tree alone, and what is  *)
(* left to do at each depth on what the readings gave, however often       *)
(* others change the tree.                                                 *)
Deepest == Cardinality(Dir) + 1

(* The directory that an activation is at. *)
At(k) == stack[k].dirs[stack[k].i]

LEMMA NotDeeper ==
  ASSUME StructInv, NestInv, pc \in Walking
  PROVE  Depth \in Nat \ {0} /\ Deepest \in Nat /\ Depth <= Deepest
  <1>1. /\ Depth \in Nat \ {0} /\ Len(stack) = Depth
        /\ \A k \in 1..Depth : Len(stack[k].dirs) \in Nat
        /\ \A k \in 1..(Depth - 1) : stack[k].i \in 1..Len(stack[k].dirs)
    BY OnStack
  <1>2. Cardinality(Dir) \in Nat /\ Deepest \in Nat
    BY TreeAssumption, FS_CardinalityType DEF Deepest
  <1>3. Nested(stack, changed)
    BY DEF NestInv
  <1>4. ASSUME NEW m \in 1..(Depth - 1) PROVE At(m) \in Dir
    <2>1. Depth \in 2..Len(stack) /\ m \in 1..(Depth - 1)
      BY <1>1
    <2>2. stack[Depth].dirs # <<>> /\ stack[Depth].dirs \in Seq(Named)
      <3>1. stack[Depth] \in Frames
        BY <1>1, OnStack, ElementOfSeq
      <3> QED
        BY <1>3, <2>1, <3>1 DEF Nested, Frames
    <2>3. 1 \in 1..Len(stack[Depth].dirs)
      BY <2>2, EmptySeq, LenProperties
    <2>4. stack[Depth].dirs[1] \in Tree(At(m))
      BY <1>3, <2>1, <2>3 DEF Nested, At
    <2> QED
      BY <2>4, TreeDir
  <1>5. ASSUME NEW n \in 1..(Depth - 1), NEW m \in 1..(n - 1) PROVE At(m) # At(n)
    <2>1. n \in 2..Len(stack) /\ n - 1 \in 1..(Depth - 1) /\ m \in 1..(Depth - 1)
      BY <1>1
    <2>2. At(n) \in Visible /\ Parent[At(n)] = At(n - 1)
      BY <1>1, <1>3, <2>1 DEF Nested, At
    <2>3. At(n - 1) \in Tree(At(m))
      <3>1. CASE m = n - 1
        BY <1>4, <2>1, <3>1, TreeRoot
      <3>2. CASE m # n - 1
        <4>1. n - 1 \in 2..Len(stack) /\ m \in 1..((n - 1) - 1)
          BY <2>1, <3>2
        <4> QED
          BY <1>1, <1>3, <2>1, <4>1 DEF Nested, At
      <3> QED
        BY <3>1, <3>2
    <2> QED
      BY <2>2, <2>3, TreeAcyclic
  <1> DEFINE K == 1..(Depth - 1)
             f == [m \in K |-> At(m)]
  <1>6. f \in [K -> Dir] /\ \A m \in K : f[m] = At(m)
    BY <1>4
  <1>7. \A m, n \in K : f[m] = f[n] => m = n
    <2> SUFFICES ASSUME NEW m \in K, NEW n \in K, m # n PROVE At(m) # At(n)
      BY <1>6
    <2>1. m \in 1..(n - 1) \/ n \in 1..(m - 1)
      BY <1>1
    <2> QED
      BY <1>5, <2>1
  <1>8. Cardinality(K) = Depth - 1
    BY <1>1, FS_Interval
  <1> HIDE DEF f, K
  <1>9. f \in Injection(K, Dir)
    BY <1>6, <1>7 DEF Injection, IsInjective
  <1>10. Cardinality(K) <= Cardinality(Dir)
    BY <1>9, TreeAssumption, FS_Injection
  <1> QED
    BY <1>1, <1>2, <1>8, <1>10 DEF Deepest

(* What the k-th activation has still to do, apart from what those that it *)
(* has called have.                                                        *)
Work(k) ==
  IF pc \notin Walking \/ k > Depth THEN 0
  ELSE 4 * (Len(stack[k].dirs) - stack[k].i)
         + (IF k < Depth THEN 2
            ELSE IF pc = "enter" THEN 6 ELSE IF pc = "print" THEN 4
            ELSE IF pc = "read" THEN 3 ELSE IF pc = "turn" THEN 1 ELSE 0)

(* The arguments to read, then the walk. *)
Phase == IF pc = "parse" THEN Len(argv) + 3 - arg ELSE IF pc \in Walking THEN 1 ELSE 0

(* What ls has still to do: first the phases, then the activations from    *)
(* the first one down.                                                     *)
Left == [n \in 1..(Deepest + 1) |-> IF n = 1 THEN Phase ELSE Work(n - 1)]
Amounts == [1..(Deepest + 1) -> Nat]

NatLess == {p \in Nat \X Nat : p[1] < p[2]}
Lower == LexProductOrdering(NatLess, Nat, Deepest + 1)

LEMMA LowerWellFounded == IsWellFoundedOn(Lower, Amounts)
  <1>1. NatLess = OpToRel(<, Nat)
    BY DEF NatLess, OpToRel
  <1>2. IsWellFoundedOn(NatLess, Nat)
    BY <1>1, NatLessThanWellFounded
  <1>3. Deepest + 1 \in Nat
    BY TreeAssumption, FS_CardinalityType DEF Deepest
  <1> QED
    BY <1>2, <1>3, WFLexProductOrdering DEF Lower, Amounts

LeftParts ==
  /\ Phase \in Nat /\ (pc \in Walking => Phase = 1)
  /\ pc = "parse" => Phase = Len(argv) + 3 - arg /\ Phase > 1
  /\ pc \in Ended => Phase = 0
  /\ \A k \in 1..Deepest : Work(k) \in Nat
  /\ Left \in Amounts

LEMMA LeftType == WalkInv => LeftParts
  <1> SUFFICES ASSUME WalkInv PROVE LeftParts
    OBVIOUS
  <1>1. StructInv /\ TypeInv /\ ControlInv /\ NestInv
    BY DEF WalkInv, StructInv
  <1>2. /\ Phase \in Nat /\ (pc \in Walking => Phase = 1)
        /\ pc = "parse" => Phase = Len(argv) + 3 - arg /\ Phase > 1
        /\ pc \in Ended => Phase = 0
    <2>1. Len(argv) \in Nat /\ arg \in 1..(Len(argv) + 1)
      BY <1>1, LenProperties DEF TypeInv
    <2> QED
      BY <2>1 DEF Phase, Walking, Ended
  <1>3. Deepest \in Nat
    BY TreeAssumption, FS_CardinalityType DEF Deepest
  <1>4. ASSUME NEW k \in 1..Deepest PROVE Work(k) \in Nat
    <2>1. CASE pc \in Walking /\ k <= Depth
      <3>1. k \in 1..Depth
        BY <1>1, <1>3, <2>1, OnStack
      <3>2. Len(stack[k].dirs) \in Nat /\ stack[k].i \in 0..Len(stack[k].dirs)
        BY <1>1, <2>1, <3>1, OnStack DEF ControlInv
      <3>3. Len(stack[k].dirs) - stack[k].i \in Nat
        BY <3>2
      <3> QED
        BY <3>3 DEF Work
    <2>2. CASE pc \notin Walking \/ k > Depth
      BY <2>2 DEF Work
    <2>3. pc \in Walking => Depth \in Nat
      BY <1>1, OnStack
    <2> QED
      BY <1>3, <2>1, <2>2, <2>3
  <1>5. \A n \in 1..(Deepest + 1) : n # 1 => n - 1 \in 1..Deepest
    BY <1>3
  <1> QED
    BY <1>2, <1>3, <1>4, <1>5 DEF Left, LeftParts, Amounts

LEMMA LeftTypeNext == WalkInv' => LeftParts'
  BY LeftType, PTL

LEMMA DeepestType == Deepest \in Nat
  BY TreeAssumption, FS_CardinalityType DEF Deepest

(* The two ways in which a step gets on. *)
LEMMA LowerPhase ==
  ASSUME WalkInv, WalkInv', Phase' < Phase
  PROVE  <<Left', Left>> \in Lower
  <1>1. Left \in Amounts /\ Left' \in Amounts /\ Phase \in Nat /\ Phase' \in Nat /\ Deepest \in Nat
    BY DeepestType, LeftType, LeftTypeNext DEF LeftParts
  <1>2. 1 \in 1..(Deepest + 1)
    BY <1>1
  <1>3. Left[1] = Phase /\ Left'[1] = Phase'
    BY <1>2 DEF Left
  <1>4. <<Left'[1], Left[1]>> \in NatLess
    BY <1>1, <1>3 DEF NatLess
  <1>5. \A n \in 1..(1 - 1) : Left'[n] = Left[n]
    OBVIOUS
  <1> HIDE DEF Left
  <1>6. PICK a, b : a = Left' /\ b = Left
    OBVIOUS
  <1>7. <<a, b>> \in Lower
    BY <1>1, <1>2, <1>4, <1>5, <1>6 DEF Lower, LexProductOrdering, Amounts
  <1> QED
    BY <1>6, <1>7

LEMMA LowerWork ==
  ASSUME WalkInv, WalkInv', Phase' = Phase, NEW k \in 1..Deepest,
         Work(k)' < Work(k), \A j \in 1..(k - 1) : Work(j)' = Work(j)
  PROVE  <<Left', Left>> \in Lower
  <1>1. /\ Left \in Amounts /\ Left' \in Amounts /\ Deepest \in Nat
        /\ Work(k) \in Nat /\ Work(k)' \in Nat
    BY DeepestType, LeftType, LeftTypeNext DEF LeftParts
  <1>2. k + 1 \in 1..(Deepest + 1) /\ k + 1 # 1 /\ (k + 1) - 1 = k
    BY <1>1
  <1>3. Left[k + 1] = Work(k) /\ Left'[k + 1] = Work(k)'
    BY <1>2 DEF Left
  <1>4. <<Left'[k + 1], Left[k + 1]>> \in NatLess
    BY <1>1, <1>3 DEF NatLess
  <1>5. ASSUME NEW n \in 1..((k + 1) - 1) PROVE Left'[n] = Left[n]
    <2>1. n \in 1..(Deepest + 1)
      BY <1>1
    <2>2. CASE n = 1
      BY <2>1, <2>2 DEF Left
    <2>3. CASE n # 1
      <3>1. n - 1 \in 1..(k - 1)
        BY <2>3
      <3>2. Work(n - 1)' = Work(n - 1)
        BY <3>1
      <3> QED
        BY <2>1, <2>3, <3>2 DEF Left
    <2> QED
      BY <2>2, <2>3
  <1>6. PICK a, b : a = Left' /\ b = Left
    OBVIOUS
  <1>7. <<a, b>> \in Lower
    BY <1>1, <1>2, <1>4, <1>5, <1>6 DEF Lower, LexProductOrdering, Amounts
  <1> QED
    BY <1>6, <1>7

(* A step of the k-th activation, the one on top before or after it. *)
LEMMA LowerAt ==
  ASSUME WalkInv, WalkInv', pc \in Walking, pc' \in Walking, NEW k \in 1..Depth,
         k <= Depth', Work(k)' < Work(k),
         \A j \in 1..(k - 1) : stack'[j].dirs = stack[j].dirs /\ stack'[j].i = stack[j].i
  PROVE  <<Left', Left>> \in Lower
  <1>1. StructInv /\ NestInv /\ StructInv' /\ NestInv'
    BY DEF WalkInv
  <1>2. Depth \in Nat \ {0} /\ Deepest \in Nat /\ Depth <= Deepest
    BY <1>1, NotDeeper
  <1>3. Depth' \in Nat \ {0}
    <2>1. stack' \in Seq(Frames)
      BY <1>1 DEF StructInv, TypeInv
    <2>2. Depth' \in Nat
      BY <2>1, LenProperties DEF Depth
    <2> QED
      BY <1>2, <2>2
  <1>4. k \in 1..Deepest
    BY <1>2
  <1>5. Phase' = Phase
    BY LeftType, LeftTypeNext DEF LeftParts
  <1>6. ASSUME NEW j \in 1..(k - 1) PROVE Work(j)' = Work(j)
    <2>1. j < Depth /\ j < Depth' /\ ~(j > Depth) /\ ~(j > Depth')
      BY <1>2, <1>3
    <2>2. stack'[j].dirs = stack[j].dirs /\ stack'[j].i = stack[j].i
      OBVIOUS
    <2>3. Work(j) = 4 * (Len(stack[j].dirs) - stack[j].i) + 2
      BY <2>1 DEF Work
    <2>4. Work(j)' = 4 * (Len(stack'[j].dirs) - stack'[j].i) + 2
      BY <2>1 DEF Work
    <2> QED
      BY <2>2, <2>3, <2>4
  <1> QED
    BY <1>4, <1>5, <1>6, LowerWork

(* What the activation on top has still to do. *)
LEMMA WorkOfTop ==
  ASSUME StructInv, pc \in Walking
  PROVE  Work(Depth) = 4 * (Len(stack[Depth].dirs) - stack[Depth].i)
                         + (IF pc = "enter" THEN 6 ELSE IF pc = "print" THEN 4
                            ELSE IF pc = "read" THEN 3 ELSE IF pc = "turn" THEN 1 ELSE 0)
  <1>1. Depth \in Nat \ {0}
    BY OnStack
  <1>2. ~(Depth > Depth) /\ ~(Depth < Depth)
    BY <1>1
  <1> QED
    BY <1>2 DEF Work

LEMMA LeftStep ==
  ASSUME WalkInv, WalkInv', Next
  PROVE  <<Left', Left>> \in Lower \/ (Left' = Left /\ \E d \in Dir \ {Cwd} : Change(d))
  <1>1. StructInv /\ TypeInv /\ ControlInv
    BY DEF WalkInv, StructInv
  <1>2. pc \in Walking =>
          /\ Depth \in Nat \ {0} /\ Depth \in 1..Depth
          /\ \A k \in 1..Depth : Len(stack[k].dirs) \in Nat /\ stack[k].i \in Nat
    BY <1>1, OnStack
  <1>3. pc' \in Ended /\ pc \notin Ended => <<Left', Left>> \in Lower
    <2>1. SUFFICES ASSUME pc' \in Ended, pc \notin Ended PROVE <<Left', Left>> \in Lower
      OBVIOUS
    <2>2. pc = "parse" \/ pc \in Walking
      BY <1>1, <2>1 DEF TypeInv, Running, Walking
    <2>3. Phase \in Nat /\ Phase > 0 /\ Phase' = 0
      BY <2>1, <2>2, LeftType, LeftTypeNext DEF LeftParts
    <2> QED
      BY <2>3, LowerPhase
  <1>4. CASE ParseArgument
    <2>1. pc = "parse" /\ argv' = argv /\ arg' = arg + 1 /\ pc' \in {"parse", "exit"}
      BY <1>4 DEF ParseArgument
    <2>2. CASE pc' = "parse"
      <3>1. Phase = Len(argv) + 3 - arg /\ Phase' = Len(argv) + 3 - (arg + 1)
        BY <2>1, <2>2, LeftType, LeftTypeNext DEF LeftParts
      <3>2. Len(argv) \in Nat /\ arg \in Nat
        BY <1>1, LenProperties DEF TypeInv
      <3>3. Phase' < Phase
        BY <3>1, <3>2
      <3> QED
        BY <3>3, LowerPhase
    <2>3. CASE pc' = "exit"
      BY <1>3, <2>1, <2>3 DEF Ended
    <2> QED
      BY <2>1, <2>2, <2>3
  <1>5. CASE CallLs
    <2>1. pc = "parse" /\ pc' \in Walking
      BY <1>5 DEF CallLs, Walking
    <2>2. Phase > 1 /\ Phase' = 1
      BY <2>1, LeftType, LeftTypeNext DEF LeftParts
    <2> QED
      BY <2>2, LowerPhase
  <1>6. CASE Enter
    <2>1. /\ pc = "enter" /\ pc' = "turn" /\ Depth' = Depth
          /\ pc \in Walking /\ pc' \in Walking
      BY <1>1, <1>6, EnterEffect DEF Walking
    <2>2. PICK n : n = Depth
      OBVIOUS
    <2>3. \A k \in 1..Depth :
            /\ stack'[k].i = stack[k].i
            /\ stack'[k].dirs = IF k = Depth /\ Top.dirs = <<>> THEN <<Cwd>> ELSE stack[k].dirs
      BY <1>1, <1>6, EnterEffect
    <2>4. n \in 1..Depth /\ Depth \in Nat
      BY <1>2, <2>1, <2>2
    <2>5. PICK a \in Nat, b \in Nat : a = stack[n].i /\ b = Len(stack[n].dirs)
      BY <1>2, <2>1, <2>4
    <2>6. PICK c \in Nat : c = Len(stack'[n].dirs) /\ (c = 1 \/ c = b)
      <3>1. Len(<<Cwd>>) = 1
        OBVIOUS
      <3>2. stack'[n].dirs \in {<<Cwd>>, stack[n].dirs}
        BY <2>3, <2>4
      <3> QED
        BY <2>5, <3>1, <3>2
    <2>7. Work(n) = 4 * (b - a) + 6
      BY <1>1, <2>1, <2>2, <2>5, WorkOfTop
    <2>8. Work(n)' = 4 * (c - a) + 1
      <3>1. Work(n)' = 4 * (Len(stack'[n].dirs) - stack'[n].i) + 1
        BY <2>1, <2>2, <2>4 DEF Work
      <3> QED
        BY <2>3, <2>4, <2>5, <2>6, <3>1
    <2>10. Work(n)' < Work(n)
      <3>1. \A x, y, z \in Nat : z = 1 \/ z = y => 4 * (z - x) + 1 < 4 * (y - x) + 6
        OBVIOUS
      <3>2. 4 * (c - a) + 1 < 4 * (b - a) + 6
        BY <2>5, <2>6, <3>1, Zenon
      <3> QED
        BY <2>7, <2>8, <3>2
    <2>9. \A j \in 1..(n - 1) : stack'[j].dirs = stack[j].dirs /\ stack'[j].i = stack[j].i
      BY <2>2, <2>3, <2>4
    <2> QED
      BY <2>1, <2>2, <2>4, <2>9, <2>10, LowerAt
  <1>7. CASE Concat
    <2>1. /\ pc = "turn" /\ Depth' = Depth /\ pc' \in {"ub", "print"} /\ pc \in Walking
      BY <1>1, <1>7, ConcatEffect DEF Walking
    <2>2. CASE pc' = "ub"
      BY <1>3, <2>1, <2>2 DEF Ended
    <2>3. CASE pc' = "print"
      <3>1. PICK n : n = Depth
        OBVIOUS
      <3>2. \A k \in 1..Depth :
              /\ stack'[k].dirs = stack[k].dirs
              /\ stack'[k].i = IF k = Depth THEN stack[k].i + 1 ELSE stack[k].i
        BY <1>1, <1>7, <2>3, ConcatEffect
      <3>3. n \in 1..Depth /\ Depth \in Nat /\ pc' \in Walking
        BY <1>2, <2>1, <2>3, <3>1 DEF Walking
      <3>4. Work(n) = 4 * (Len(stack[n].dirs) - stack[n].i) + 1
        BY <1>1, <2>1, <3>1, WorkOfTop
      <3>5. Work(n)' = 4 * (Len(stack[n].dirs) - (stack[n].i + 1)) + 4
        <4>1. stack'[n].dirs = stack[n].dirs /\ stack'[n].i = stack[n].i + 1
          BY <3>1, <3>2, <3>3
        <4>2. Work(n)' = 4 * (Len(stack'[n].dirs) - stack'[n].i) + 4
          BY <2>1, <2>3, <3>1, <3>3 DEF Work
        <4> QED
          BY <4>1, <4>2
      <3>6. Work(n)' < Work(n)
        BY <1>2, <2>1, <3>3, <3>4, <3>5
      <3>7. \A j \in 1..(n - 1) : stack'[j].dirs = stack[j].dirs /\ stack'[j].i = stack[j].i
        BY <3>1, <3>2, <3>3
      <3> QED
        BY <2>1, <3>1, <3>3, <3>6, <3>7, LowerAt
    <2> QED
      BY <2>1, <2>2, <2>3
  <1>8. CASE Skips \/ EndLoop
    <2>1. /\ stack' = stack
          /\ \/ pc = "print" /\ pc' \in {"turn", "read"}
             \/ pc = "read" /\ pc' = "turn"
             \/ pc = "turn" /\ pc' = "back"
      BY <1>8 DEF Skips, OpenFails, OpenDir, PrintNothing, EndLoop
    <2>2. Depth' = Depth /\ pc \in Walking /\ pc' \in Walking
      BY <2>1 DEF Depth, Walking
    <2>3. PICK n : n = Depth
      OBVIOUS
    <2>4. n \in 1..Depth /\ Depth \in Nat
      BY <1>2, <2>2, <2>3
    <2>5. PICK w : w = 4 * (Len(stack[n].dirs) - stack[n].i)
      OBVIOUS
    <2>6. w \in Int
      BY <1>2, <2>2, <2>4, <2>5
    <2>7. Work(n) = w + (IF pc = "print" THEN 4 ELSE IF pc = "read" THEN 3 ELSE 1)
      BY <1>1, <2>1, <2>2, <2>3, <2>5, WorkOfTop
    <2>8. Work(n)' = w + (IF pc' = "read" THEN 3 ELSE IF pc' = "turn" THEN 1 ELSE 0)
      BY <2>1, <2>2, <2>3, <2>4, <2>5 DEF Work
    <2>9. Work(n)' < Work(n)
      BY <2>1, <2>6, <2>7, <2>8
    <2> QED
      BY <2>1, <2>2, <2>3, <2>4, <2>9, LowerAt
  <1>9. CASE PrintDir
    <2>1. pc = "read" /\ pc \in Walking
      BY <1>9 DEF PrintDir, Walking
    <2>2. PICK n : n = Depth
      OBVIOUS
    <2>3. n \in 1..Depth /\ Depth \in Nat
      BY <1>2, <2>1, <2>2
    <2>4. /\ \A k \in 1..Depth : stack'[k] = stack[k]
          /\ (pc' = "turn" /\ Depth' = Depth) \/ (pc' = "enter" /\ Depth' = Depth + 1)
      BY <1>1, <1>9, PrintDirEffect DEF Depth
    <2>5. stack'[n] = stack[n] /\ Depth' >= n /\ pc' \in Walking
      BY <2>2, <2>3, <2>4 DEF Walking
    <2>6. Work(n) = 4 * (Len(stack[n].dirs) - stack[n].i) + 3
      BY <1>1, <2>1, <2>2, WorkOfTop
    <2>7. \/ Work(n)' = 4 * (Len(stack'[n].dirs) - stack'[n].i) + 1
          \/ Work(n)' = 4 * (Len(stack'[n].dirs) - stack'[n].i) + 2
      BY <2>2, <2>3, <2>4, <2>5 DEF Work
    <2>8. Work(n)' < Work(n)
      BY <1>2, <2>1, <2>3, <2>5, <2>6, <2>7
    <2>9. \A j \in 1..(n - 1) : stack'[j].dirs = stack[j].dirs /\ stack'[j].i = stack[j].i
      BY <2>2, <2>3, <2>4
    <2>10. n <= Depth'
      BY <2>2, <2>3, <2>4
    <2> QED
      BY <2>1, <2>3, <2>5, <2>8, <2>9, <2>10, LowerAt
  <1>10. CASE Return
    <2>1. /\ pc = "back" /\ pc' = "turn" /\ Depth \in Nat /\ Depth > 1 /\ Depth' = Depth - 1
          /\ \A k \in 1..(Depth - 1) : stack'[k] = stack[k]
      BY <1>1, <1>10, ReturnEffect
    <2>2. PICK n : n = Depth - 1
      OBVIOUS
    <2>3. /\ n \in 1..Depth /\ n \in 1..(Depth - 1) /\ n < Depth /\ n = Depth'
          /\ pc \in Walking /\ pc' \in Walking
      BY <2>1, <2>2 DEF Walking
    <2>4. Work(n) = 4 * (Len(stack[n].dirs) - stack[n].i) + 2
      BY <2>1, <2>3 DEF Work
    <2>5. Work(n)' = 4 * (Len(stack[n].dirs) - stack[n].i) + 1
      <3>1. Work(n)' = 4 * (Len(stack'[n].dirs) - stack'[n].i) + 1
        BY <2>1, <2>3 DEF Work
      <3> QED
        BY <2>1, <2>3, <3>1
    <2>6. Work(n)' < Work(n)
      BY <1>2, <2>3, <2>4, <2>5
    <2>7. \A j \in 1..(n - 1) : stack'[j].dirs = stack[j].dirs /\ stack'[j].i = stack[j].i
      BY <2>1, <2>2
    <2>8. n <= Depth'
      BY <2>1, <2>3
    <2> QED
      BY <2>3, <2>6, <2>7, <2>8, LowerAt
  <1>11. CASE Exit \/ Killed
    BY <1>3, <1>11 DEF Exit, Killed, Ended
  <1>12. ASSUME NEW d \in Dir \ {Cwd}, Change(d)
         PROVE  Left' = Left
    <2>1. pc' = pc /\ argv' = argv /\ arg' = arg /\ stack' = stack
      BY <1>12 DEF Change, line
    <2>2. Phase' = Phase /\ \A k : Work(k)' = Work(k)
      BY <2>1 DEF Phase, Work, Depth
    <2> QED
      BY <2>2 DEF Left
  <1> QED
    BY <1>4, <1>5, <1>6, <1>7, <1>8, <1>9, <1>10, <1>11, <1>12 DEF Next, Step, Skips

(* For every tree, command line and interleaving, whatever the readings    *)
(* give and however often opendir() fails: what ls has still to do is      *)
(* taken from a well-founded order, every step of ls lowers it, and those  *)
(* who change the tree never put it up.  So ls can only fail to end by not *)
(* being scheduled: the walk cannot go round in circles, however the tree  *)
(* changes under it.  (A readdir() loop is one step here; module           *)
(* ListingProofs has its turns.)                                           *)
THEOREM LsGetsOn ==
  /\ IsWellFoundedOn(Lower, Amounts)
  /\ Spec => /\ [](Left \in Amounts)
             /\ [][\/ <<Left', Left>> \in Lower
                   \/ Left' = Left /\ \E d \in Dir \ {Cwd} : Change(d)]_vars
  <1>1. WalkInv => Left \in Amounts
    BY LeftType DEF LeftParts
  <1>2. WalkInv /\ WalkInv' /\ [Next]_vars =>
          [\/ <<Left', Left>> \in Lower
           \/ Left' = Left /\ \E d \in Dir \ {Cwd} : Change(d)]_vars
    BY LeftStep
  <1>3. Spec => /\ [](Left \in Amounts)
                /\ [][\/ <<Left', Left>> \in Lower
                      \/ Left' = Left /\ \E d \in Dir \ {Cwd} : Change(d)]_vars
    BY <1>1, <1>2, WalkCorrect, PTL DEF Spec
  <1> QED
    BY <1>3, LowerWellFounded
-----------------------------------------------------------------------------
CursorInv ==
  /\ pc \in {"parse", "exit"} => cursor = "shown"
  /\ pc \in Walking => cursor = "hidden"

(* For every tree, command line and interleaving: the cursor is hidden all *)
(* through the walk, and shown before it and when ls has exited, also     *)
(* after a usage error and with nothing listed.                            *)
THEOREM LsCursor == Spec => []CursorInv
  <1>1. Init => CursorInv
    BY DEF Init, CursorInv, Walking
  <1>2. StructInv /\ CursorInv /\ [Next]_vars => CursorInv'
    <2> SUFFICES ASSUME StructInv, CursorInv, [Next]_vars PROVE CursorInv'
      OBVIOUS
    <2>1. CASE UNCHANGED vars
      BY <2>1 DEF vars, CursorInv
    <2>2. CASE ParseArgument
      BY <2>2 DEF ParseArgument, CursorInv, Walking
    <2>3. CASE CallLs \/ Exit \/ Killed
      BY <2>3 DEF CallLs, Exit, Killed, CursorInv, Walking
    <2>4. CASE Enter \/ Concat \/ Skips \/ PrintDir \/ EndLoop \/ Return
      <3>1. cursor' = cursor /\ pc \in Walking /\ pc' \in Walking \union {"ub"}
        BY <2>4, SkipEffect DEF Enter, Concat, PrintDir, EndLoop, Return, Walking
      <3> QED
        BY <3>1 DEF CursorInv, Walking
    <2>5. CASE \E d \in Dir \ {Cwd} : Change(d)
      BY <2>5 DEF Change, CursorInv
    <2> QED
      BY <2>1, <2>2, <2>3, <2>4, <2>5 DEF Next, Step, Skips
  <1> QED
    BY <1>1, <1>2, OptionsCorrect, PTL DEF Spec
=============================================================================
