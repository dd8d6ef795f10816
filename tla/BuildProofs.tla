---------------------------- MODULE BuildProofs -----------------------------
(***************************************************************************)
(* What make promises for every number of jobs, whatever the order of its  *)
(* recipes and wherever it is interrupted; and, with one job, that it      *)
(* always gets there.                                                      *)
(***************************************************************************)
EXTENDS Build, TLAPS, FiniteSetTheorems, WellFoundedInduction
-----------------------------------------------------------------------------
(* The target a recipe is for. *)
Goal(t) == IF t = Touch THEN Tree ELSE t

TypeInv ==
  /\ c \in [Libs -> Nat] /\ h \in Nat
  /\ tree \in BOOLEAN /\ dirty \in BOOLEAN
  /\ objs \in [Libs -> Versions \union {None}]
  /\ built \in [Parts -> Versions \union {None}]
  /\ active \in 0..MaxDepth /\ clean \in 0..3
  /\ done \in [Levels -> SUBSET Targets]
  /\ remade \in [Levels -> SUBSET Libs]
  /\ jobs \subseteq Levels \X (Targets \union {Touch})
  /\ DOMAIN failed = Levels
  /\ broken \in BOOLEAN /\ misses \in Nat /\ events \in 0..MaxEvents

(* A recipe runs at a level that is there, for a target that is not done,  *)
(* when what it needs is.                                                  *)
JobsInv ==
  \A k \in Levels : \A t \in Targets \union {Touch} : <<k, t>> \in jobs =>
    /\ k <= active
    /\ Prerequisites[Goal(t)] \subseteq done[k]
    /\ Goal(t) \notin done[k]
    /\ t = Tree => <<k, Touch>> \notin jobs

(* The recipes done at a level have needed the tree, and that the check.   *)
DoneInv ==
  \A k \in Levels :
    /\ Tree \in done[k] => IsClean \in done[k]
    /\ \A t \in done[k] : t[1] \in {"lib", "prog", "image"} => Tree \in done[k]

(* make clean, and every further make, run inside the check of the one     *)
(* before.                                                                 *)
NestInv ==
  /\ \A k \in Levels : k < active => <<k, IsClean>> \in jobs
  /\ clean > 0 /\ active > 0 => active < MaxDepth /\ <<active, IsClean>> \in jobs

StructInv == TypeInv /\ JobsInv /\ DoneInv /\ NestInv

(* There is an image, and it is made from the sources as they are. *)
Good == image # None /\ Current(image)

(* What level k has done is there, and made from the sources as they are. *)
Made(k) ==
  /\ Tree \in done[k] => tree /\ dirty
  /\ \A l \in Libs : Lib(l) \in done[k] => built[l] = Version(l)
  /\ \A p \in Programs : Prog(p) \in done[k] => built[p] = [c |-> 0, h |-> h]
  /\ \A l \in remade[k] : objs[l] \in {None, Version(l)}
  /\ Image \in done[k] => Good

CurrentInv ==
  /\ \A k \in Levels : k <= active => Made(k)
  /\ \A k \in Levels : <<k, Touch>> \in jobs => tree
  /\ last = "ok" => Good

(* The recipe of a target is running or done. *)
Reached(k, t) == t \in done[k] \/ <<k, t>> \in jobs \/ (t = Tree /\ <<k, Touch>> \in jobs)

(* With one job a recipe is started when all the targets before its own    *)
(* are done.                                                               *)
OrderInv ==
  \A k \in Levels : \A t \in Targets : Reached(k, t) =>
    \A u \in Targets : Place[u] < Place[t] => u \in done[k]

(* With one job the objects that are there when the check is done are the  *)
(* ones this make has compiled, because there is none without the marker.  *)
ObjectsInv ==
  /\ \A k \in Levels : k <= active /\ IsClean \in done[k] =>
       \A l \in Libs : objs[l] # None => l \in remade[k]
  /\ \A k \in Levels : \A l \in Libs :
       k <= active /\ Obj(l) \in done[k] => l \in remade[k] /\ objs[l] # None
  /\ clean = 3 => \A l \in Libs : objs[l] = None
  /\ (\E l \in Libs : objs[l] # None) => dirty

(* With one job, and unless a command fails that has all it needs, only    *)
(* the check fails a make, and then there is an image.                     *)
FailedInv ==
  /\ ~broken => \A k \in Levels :
       /\ failed[k] \in {None, IsClean}
       /\ failed[k] = IsClean /\ (active > 0 \/ last # "none") => Good
  /\ active > 0 => last = "none"
  /\ last = "ok" => failed[1] = None
  /\ last = "failed" => failed[1] # None

SerialInv == Jobs = 1 => OrderInv /\ ObjectsInv /\ FailedInv
-----------------------------------------------------------------------------
(* The targets                                                             *)

LEMMA KindFacts ==
  /\ IsClean[1] = "is_clean" /\ Tree[1] = "tree" /\ Image[1] = "image" /\ Touch[1] = "touch"
  /\ \A l : Obj(l)[1] = "obj" /\ Obj(l)[2] = l /\ Lib(l)[1] = "lib" /\ Lib(l)[2] = l
  /\ \A p : Prog(p)[1] = "prog" /\ Prog(p)[2] = p
  BY DEF IsClean, Tree, Image, Touch, Obj, Lib, Prog

LEMMA OrderAt ==
  /\ DOMAIN Order = 1..14
  /\ Order[1] = IsClean /\ Order[2] = Tree
  /\ Order[3] = Obj("utils") /\ Order[4] = Lib("utils")
  /\ Order[5] = Obj("dynamic") /\ Order[6] = Lib("dynamic")
  /\ Order[7] = Obj("buffer") /\ Order[8] = Lib("buffer")
  /\ Order[9] = Prog("cat") /\ Order[10] = Prog("mount") /\ Order[11] = Prog("cd")
  /\ Order[12] = Prog("ls") /\ Order[13] = Prog("init") /\ Order[14] = Image
  BY DEF Order

LEMMA Fourteen ==
  ASSUME NEW n \in 1..14
  PROVE  \/ n = 1 \/ n = 2 \/ n = 3 \/ n = 4 \/ n = 5 \/ n = 6 \/ n = 7
         \/ n = 8 \/ n = 9 \/ n = 10 \/ n = 11 \/ n = 12 \/ n = 13 \/ n = 14
  OBVIOUS

LEMMA TargetKinds ==
  /\ IsClean \in Targets /\ Tree \in Targets /\ Image \in Targets
  /\ \A l \in Libs : Obj(l) \in Targets /\ Lib(l) \in Targets
  /\ \A p \in Programs : Prog(p) \in Targets
  /\ Touch \notin Targets
  /\ \A t \in Targets : \/ t \in {IsClean, Tree, Image}
                        \/ \E l \in Libs : t = Obj(l) \/ t = Lib(l)
                        \/ \E p \in Programs : t = Prog(p)
  <1>1. \A n \in 1..14 : Order[n] \in Targets
    BY OrderAt DEF Targets
  <1>2. IsClean \in Targets /\ Tree \in Targets /\ Image \in Targets
    BY <1>1, OrderAt
  <1>3. ASSUME NEW l \in Libs PROVE Obj(l) \in Targets /\ Lib(l) \in Targets
    <2>1. Obj("utils") \in Targets /\ Lib("utils") \in Targets
      BY <1>1, OrderAt
    <2>2. Obj("dynamic") \in Targets /\ Lib("dynamic") \in Targets
      BY <1>1, OrderAt
    <2>3. Obj("buffer") \in Targets /\ Lib("buffer") \in Targets
      BY <1>1, OrderAt
    <2> QED
      BY <2>1, <2>2, <2>3 DEF Libs
  <1>4. ASSUME NEW p \in Programs PROVE Prog(p) \in Targets
    <2>1. Prog("cat") \in Targets /\ Prog("mount") \in Targets /\ Prog("cd") \in Targets
      BY <1>1, OrderAt
    <2>2. Prog("ls") \in Targets /\ Prog("init") \in Targets
      BY <1>1, OrderAt
    <2> QED
      BY <2>1, <2>2 DEF Programs
  <1>5. ASSUME NEW t \in Targets
        PROVE  \/ t \in {IsClean, Tree, Image}
               \/ \E l \in Libs : t = Obj(l) \/ t = Lib(l)
               \/ \E p \in Programs : t = Prog(p)
    <2>1. PICK n \in 1..14 : t = Order[n]
      BY OrderAt DEF Targets
    <2>2. "utils" \in Libs /\ "dynamic" \in Libs /\ "buffer" \in Libs
      BY DEF Libs
    <2>3. "cat" \in Programs /\ "mount" \in Programs /\ "cd" \in Programs /\ "ls" \in Programs /\ "init" \in Programs
      BY DEF Programs
    <2>4. CASE n \in 1..2 \/ n = 14
      BY <2>1, <2>4, OrderAt
    <2>5. CASE n \in 3..8
      <3>1. n = 3 \/ n = 4 \/ n = 5 \/ n = 6 \/ n = 7 \/ n = 8
        BY <2>5
      <3>2. \E l \in Libs : t = Obj(l) \/ t = Lib(l)
        BY <2>1, <2>2, <3>1, OrderAt
      <3> QED
        BY <3>2
    <2>6. CASE n \in 9..13
      <3>1. n = 9 \/ n = 10 \/ n = 11 \/ n = 12 \/ n = 13
        BY <2>6
      <3>2. \E p \in Programs : t = Prog(p)
        BY <2>1, <2>3, <3>1, OrderAt
      <3> QED
        BY <3>2
    <2> QED
      BY <2>4, <2>5, <2>6
  <1>6. Touch \notin Targets
    BY <1>5, KindFacts
  <1> QED
    BY <1>2, <1>3, <1>4, <1>5, <1>6

(* The places of the targets that matter. *)
LEMMA Places ==
  /\ \A t \in Targets : Place[t] \in 1..14 /\ Order[Place[t]] = t
  /\ Place[IsClean] = 1 /\ Place[Tree] = 2
  /\ \A l \in Libs : Place[Obj(l)] \in 3..8 /\ Place[Lib(l)] \in 3..8
  /\ \A p \in Programs : Place[Prog(p)] \in 9..13
  /\ Place[Image] = 14
  <1>1. ASSUME NEW t \in Targets PROVE Place[t] \in 1..14 /\ Order[Place[t]] = t
    <2>1. \E n \in DOMAIN Order : Order[n] = t
      BY DEF Targets
    <2> QED
      BY <2>1, OrderAt DEF Place
  <1> DEFINE kind(n) == Order[n][1]
  <1>2. /\ kind(1) = "is_clean" /\ kind(2) = "tree" /\ kind(14) = "image"
        /\ kind(3) = "obj" /\ kind(5) = "obj" /\ kind(7) = "obj"
        /\ kind(4) = "lib" /\ kind(6) = "lib" /\ kind(8) = "lib"
        /\ kind(9) = "prog" /\ kind(10) = "prog" /\ kind(11) = "prog" /\ kind(12) = "prog" /\ kind(13) = "prog"
    BY OrderAt, KindFacts
  <1>3. ASSUME NEW n \in 1..14
        PROVE  /\ kind(n) = "is_clean" => n = 1
               /\ kind(n) = "tree" => n = 2
               /\ kind(n) \in {"obj", "lib"} => n \in 3..8
               /\ kind(n) = "prog" => n \in 9..13
               /\ kind(n) = "image" => n = 14
    <2> HIDE DEF kind
    <2> QED
      BY <1>2, Fourteen
  <1>4. ASSUME NEW t \in Targets PROVE kind(Place[t]) = t[1] /\ Place[t] \in 1..14
    BY <1>1
  <1> HIDE DEF kind
  <1>5. Place[IsClean] = 1 /\ Place[Tree] = 2 /\ Place[Image] = 14
    BY <1>3, <1>4, TargetKinds, KindFacts
  <1>6. ASSUME NEW l \in Libs PROVE Place[Obj(l)] \in 3..8 /\ Place[Lib(l)] \in 3..8
    <2>1. Obj(l) \in Targets /\ Lib(l) \in Targets /\ Obj(l)[1] = "obj" /\ Lib(l)[1] = "lib"
      BY TargetKinds, KindFacts
    <2>2. kind(Place[Obj(l)]) = "obj" /\ kind(Place[Lib(l)]) = "lib"
          /\ Place[Obj(l)] \in 1..14 /\ Place[Lib(l)] \in 1..14
      BY <1>4, <2>1
    <2> QED
      BY <1>3, <2>2
  <1>7. ASSUME NEW p \in Programs PROVE Place[Prog(p)] \in 9..13
    <2>1. Prog(p) \in Targets /\ Prog(p)[1] = "prog"
      BY TargetKinds, KindFacts
    <2>2. kind(Place[Prog(p)]) = "prog" /\ Place[Prog(p)] \in 1..14
      BY <1>4, <2>1
    <2> QED
      BY <1>3, <2>2
  <1> QED
    BY <1>1, <1>5, <1>6, <1>7

LEMMA PrerequisiteFacts ==
  /\ IsClean \in Prerequisites[Tree]
  /\ \A l \in Libs : Obj(l) \in Prerequisites[Lib(l)] /\ Tree \in Prerequisites[Lib(l)]
  /\ \A p \in Programs : Tree \in Prerequisites[Prog(p)]
  /\ \A l \in Libs : Lib(l) \in Prerequisites[Image]
  /\ \A p \in Programs : Prog(p) \in Prerequisites[Image]
  <1>1. IsClean \in Prerequisites[Tree]
    BY TargetKinds DEF Prerequisites
  <1>2. ASSUME NEW l \in Libs
        PROVE  /\ Obj(l) \in Prerequisites[Lib(l)] /\ Tree \in Prerequisites[Lib(l)]
               /\ Lib(l) \in Prerequisites[Image]
    <2>1. /\ Obj(l) \in Targets /\ Lib(l) \in Targets /\ Tree \in Targets /\ Image \in Targets
          /\ Lib(l)[1] = "lib" /\ Lib(l)[2] = l
      BY TargetKinds, KindFacts
    <2>2. Obj(l) \in Prerequisites[Lib(l)] /\ Tree \in Prerequisites[Lib(l)]
      BY <2>1 DEF Prerequisites
    <2>3. Lib(l) \in Prerequisites[Image]
      BY <2>1 DEF Prerequisites
    <2> QED
      BY <2>2, <2>3
  <1>3. ASSUME NEW p \in Programs
        PROVE  Tree \in Prerequisites[Prog(p)] /\ Prog(p) \in Prerequisites[Image]
    <2>1. Prog(p) \in Targets /\ Tree \in Targets /\ Image \in Targets /\ Prog(p)[1] = "prog"
      BY TargetKinds, KindFacts
    <2>2. Tree \in Prerequisites[Prog(p)]
      BY <2>1 DEF Prerequisites
    <2>3. Prog(p) \in Prerequisites[Image]
      BY <2>1 DEF Prerequisites
    <2> QED
      BY <2>2, <2>3
  <1> QED
    BY <1>1, <1>2, <1>3
-----------------------------------------------------------------------------
(* How the recipes of the makes relate                                     *)

LEMMA LevelFacts ==
  /\ MaxDepth \in Nat /\ MaxDepth = MaxEvents + 2 /\ MaxEvents \in Nat
  /\ 1 \in Levels /\ \A n \in Nat : n \in Levels <=> n >= 1 /\ n <= MaxDepth
  BY JobsAssumption DEF MaxDepth, Levels

LEMMA DoneAdd ==
  ASSUME TypeInv, NEW k \in Levels, NEW t \in Targets, Done(k, t)
  PROVE  /\ done' \in [Levels -> SUBSET Targets]
         /\ done'[k] = done[k] \union {t}
         /\ \A m \in Levels : m # k => done'[m] = done[m]
  BY DEF TypeInv, Done

LEMMA DoneGrows ==
  ASSUME TypeInv, NEW k \in Levels, NEW t \in Targets, UNCHANGED done \/ Done(k, t)
  PROVE  \A m \in Levels : /\ done[m] \subseteq done'[m]
                           /\ done'[m] \subseteq done[m] \union {t}
                           /\ m # k => done'[m] = done[m]
  BY DoneAdd

LEMMA VersionType ==
  ASSUME TypeInv
  PROVE  /\ \A l \in Libs : Version(l) \in Versions /\ Version(l) # None
         /\ [c |-> 0, h |-> h] \in Versions /\ [c |-> 0, h |-> h] # None
  <1>1. ASSUME NEW l \in Libs PROVE Version(l) \in Versions
    BY DEF TypeInv, Version, Versions
  <1>2. [c |-> 0, h |-> h] \in Versions
    BY DEF TypeInv, Versions
  <1> QED
    BY <1>1, <1>2, NoneAssumption

LEMMA NoPartsType == NoParts \in [Parts -> Versions \union {None}]
  BY DEF NoParts

LEMMA FailsType ==
  ASSUME TypeInv, NEW k, NEW t, UNCHANGED failed \/ Fails(k, t)
  PROVE  DOMAIN failed' = Levels
  BY DEF TypeInv, Fails

LEMMA BreaksType ==
  ASSUME TypeInv, NEW k, NEW t, UNCHANGED <<failed, broken>> \/ Breaks(k, t)
  PROVE  DOMAIN failed' = Levels /\ broken' \in BOOLEAN
  BY DEF TypeInv, Breaks, Fails

LEMMA GoalIsTarget ==
  ASSUME NEW t \in Targets \union {Touch}
  PROVE  Goal(t) \in Targets
  BY TargetKinds DEF Goal

LEMMA PartKinds == (\A l \in Libs : l \in Parts) /\ (\A p \in Programs : p \in Parts)
  BY DEF Parts

(* A level where the check is running is waiting for it; a level where the *)
(* check is done is the innermost.                                         *)
LEMMA Waits ==
  ASSUME StructInv, NEW k \in Levels, <<k, IsClean>> \in jobs
  PROVE  IsClean \notin done[k] /\ Tree \notin done[k]
  <1>1. IsClean \in Targets /\ Goal(IsClean) = IsClean
    BY TargetKinds, KindFacts DEF Goal
  <1> QED
    BY <1>1 DEF StructInv, JobsInv, DoneInv

LEMMA Innermost ==
  ASSUME StructInv, NEW k \in Levels, k <= active, <<k, IsClean>> \notin jobs
  PROVE  k = active /\ active \in Levels /\ clean = 0
  <1>1. active \in 0..MaxDepth /\ clean \in 0..3 /\ k \in Nat /\ active \in Nat
    BY LevelFacts DEF StructInv, TypeInv, Levels
  <1>2. ~(k < active)
    BY DEF StructInv, NestInv
  <1>3. k = active
    BY <1>1, <1>2
  <1>4. ~(clean > 0)
    BY <1>1, <1>3, LevelFacts DEF StructInv, NestInv, Levels
  <1> QED
    BY <1>1, <1>3, <1>4

LEMMA RemainsOf ==
  ASSUME NEW S, NEW f \in [S -> Versions \union {None}], NEW kept
  PROVE  /\ Remains(f, kept) \in [S -> Versions \union {None}]
         /\ \A x \in S : Remains(f, kept)[x] \in {None, f[x]}
  BY DEF Remains

(* What a line of `make clean` does, when it fails too. *)
LEMMA CleanSteps ==
  ASSUME StructInv, CleanLine \/ CleanFails
  PROVE  /\ clean \in 1..3 /\ clean' \in 0..3 /\ (clean' > 0 => clean' = clean + 1)
         /\ \/ active > 0 /\ clean' = 0 /\ active + 1 \in Levels /\ Begin(active + 1)
            \/ (clean' = 0 => active = 0) /\ UNCHANGED <<active, done, remade, failed>>
         /\ UNCHANGED <<c, h, image, last, jobs, broken>>
         /\ objs' \in [Libs -> Versions \union {None}]
         /\ built' \in [Parts -> Versions \union {None}]
         /\ \A l \in Libs : objs'[l] \in {None, objs[l]}
  <1>1. /\ clean \in 1..3 /\ active \in Nat /\ (active > 0 => active + 1 \in Levels)
        /\ objs \in [Libs -> Versions \union {None}] /\ built \in [Parts -> Versions \union {None}]
    <2>1. clean \in 1..3 /\ active \in 0..MaxDepth
      BY DEF CleanLine, CleanFails, StructInv, TypeInv
    <2>2. active > 0 => active < MaxDepth
      BY <2>1 DEF StructInv, NestInv
    <2>3. active \in Nat
      BY <2>1, LevelFacts
    <2>4. active > 0 => active + 1 \in Levels
      BY <2>2, <2>3, LevelFacts
    <2> QED
      BY <2>1, <2>3, <2>4 DEF StructInv, TypeInv
  <1>2. CASE CleanLine
    <2>1. clean' = (IF clean = 3 THEN 0 ELSE clean + 1) /\ UNCHANGED <<c, h, image, last, broken>>
      BY <1>2 DEF CleanLine, sources
    <2>2. IF clean = 3 THEN ThenBuild ELSE UNCHANGED make
      BY <1>2 DEF CleanLine
    <2>3. /\ \/ active > 0 /\ clean' = 0 /\ Begin(active + 1)
             \/ (clean' = 0 => active = 0) /\ UNCHANGED <<active, done, remade, failed>>
          /\ UNCHANGED jobs
      <3>1. CASE clean = 3 /\ active > 0
        BY <2>1, <2>2, <3>1 DEF ThenBuild
      <3>2. CASE ~(clean = 3 /\ active > 0)
        <4>1. UNCHANGED make
          BY <2>2, <3>2 DEF ThenBuild
        <4>2. clean' = 0 => active = 0
          BY <1>1, <2>1, <3>2
        <4> QED
          BY <4>1, <4>2 DEF make
      <3> QED
        BY <3>1, <3>2
    <2>4. objs' \in {objs, [l \in Libs |-> None]} /\ built' \in {built, NoParts}
      BY <1>2 DEF CleanLine
    <2>5. clean' \in 0..3 /\ (clean' > 0 => clean' = clean + 1)
      BY <1>1, <2>1
    <2>6. /\ objs' \in [Libs -> Versions \union {None}]
          /\ built' \in [Parts -> Versions \union {None}]
          /\ \A l \in Libs : objs'[l] \in {None, objs[l]}
      BY <1>1, <2>4, NoPartsType
    <2> QED
      BY <1>1, <2>1, <2>3, <2>5, <2>6
  <1>3. CASE CleanFails
    <2>1. clean' = 0 /\ UNCHANGED <<c, h, image, last, broken>> /\ ThenBuild
      BY <1>3 DEF CleanFails, sources
    <2>2. /\ \/ active > 0 /\ Begin(active + 1)
             \/ active = 0 /\ UNCHANGED <<active, done, remade, failed>>
          /\ UNCHANGED jobs
      BY <1>1, <2>1 DEF ThenBuild, make
    <2>3. objs' = objs \/ \E kept \in SUBSET Libs : objs' = Remains(objs, kept)
      BY <1>3 DEF CleanFails
    <2>4. built' = built \/ \E kept \in SUBSET {Libs, Programs} : built' = Remains(built, UNION kept)
      BY <1>3 DEF CleanFails
    <2>5. objs' \in [Libs -> Versions \union {None}] /\ \A l \in Libs : objs'[l] \in {None, objs[l]}
      BY <1>1, <2>3, RemainsOf
    <2>6. built' \in [Parts -> Versions \union {None}]
      <3>1. ASSUME NEW kept, built' = Remains(built, kept) PROVE built' \in [Parts -> Versions \union {None}]
        BY <1>1, <3>1, RemainsOf
      <3> QED
        BY <1>1, <2>4, <3>1
    <2> QED
      BY <1>1, <2>1, <2>2, <2>5, <2>6
  <1> QED
    BY <1>2, <1>3

LEMMA TypeStep ==
  ASSUME StructInv, [Next]_vars
  PROVE  TypeInv'
  <1>0. TypeInv /\ MaxDepth \in Nat /\ MaxEvents \in Nat
    BY LevelFacts DEF StructInv
  <1>1. CASE CleanLine \/ CleanFails
    <2>1. /\ clean' \in 0..3 /\ UNCHANGED <<c, h, jobs, broken>>
          /\ objs' \in [Libs -> Versions \union {None}] /\ built' \in [Parts -> Versions \union {None}]
      BY <1>1, CleanSteps
    <2>2. tree' \in BOOLEAN /\ dirty' \in BOOLEAN
      BY <1>0, <1>1 DEF CleanLine, CleanFails, TypeInv
    <2>3. /\ active' \in 0..MaxDepth /\ DOMAIN failed' = Levels
          /\ done' \in [Levels -> SUBSET Targets] /\ remade' \in [Levels -> SUBSET Libs]
      <3>1. CASE active + 1 \in Levels /\ Begin(active + 1)
        BY <1>0, <3>1, LevelFacts DEF Begin, TypeInv, Levels
      <3>2. CASE UNCHANGED <<active, done, remade, failed>>
        BY <1>0, <3>2 DEF TypeInv
      <3> QED
        BY <1>1, <3>1, <3>2, CleanSteps
    <2>4. misses' \in Nat /\ events' \in 0..MaxEvents
      BY <1>0, <1>1 DEF CleanLine, CleanFails, Event, TypeInv
    <2> QED
      BY <1>0, <2>1, <2>2, <2>3, <2>4 DEF TypeInv
  <1>2. ASSUME NEW k \in Levels, StartInner(k) PROVE TypeInv'
    <2>1. UNCHANGED <<c, h, dirty, tree, objs, built, active, done, remade, failed, broken, misses, events>>
          /\ clean' = 1 /\ jobs' = jobs \union {<<k, IsClean>>}
      BY <1>2 DEF StartInner, sources, disk
    <2>2. jobs' \subseteq Levels \X (Targets \union {Touch})
      BY <1>0, <2>1, TargetKinds DEF TypeInv
    <2> QED
      BY <1>0, <2>1, <2>2 DEF TypeInv
  <1>3. CASE InnerEnds
    <2>1. UNCHANGED <<c, h, dirty, tree, objs, built, done, remade, clean, broken, misses, events>>
          /\ active > 1 /\ active' = active - 1 /\ jobs' \subseteq jobs
      BY <1>3 DEF InnerEnds, Ends, sources, disk
    <2>2. DOMAIN failed' = Levels
      BY <1>0, <1>3, FailsType DEF InnerEnds
    <2>3. active' \in 0..MaxDepth
      BY <1>0, <2>1 DEF TypeInv
    <2> QED
      BY <1>0, <2>1, <2>2, <2>3 DEF TypeInv
  <1>4. CASE BuildEnds
    BY <1>0, <1>4 DEF BuildEnds, sources, disk, TypeInv
  <1>5. ASSUME NEW k \in Levels, NEW t \in Targets, Skip(k, t) PROVE TypeInv'
    <2>1. UNCHANGED <<c, h, dirty, tree, objs, built, active, remade, jobs, failed, clean, broken, misses, events>>
      BY <1>5 DEF Skip, sources, disk
    <2>2. done' \in [Levels -> SUBSET Targets]
      BY <1>0, <1>5, DoneAdd DEF Skip
    <2> QED
      BY <1>0, <2>1, <2>2 DEF TypeInv
  <1>6. ASSUME NEW k \in Levels, NEW t \in Targets, Start(k, t) PROVE TypeInv'
    <2>1. UNCHANGED <<c, h, dirty, tree, objs, built, active, remade, done, failed, clean, broken, misses, events>>
          /\ jobs' = jobs \union {<<k, t>>}
      BY <1>6 DEF Start, sources, disk
    <2>2. jobs' \subseteq Levels \X (Targets \union {Touch})
      BY <1>0, <2>1 DEF TypeInv
    <2> QED
      BY <1>0, <2>1, <2>2 DEF TypeInv
  <1>7. ASSUME NEW k \in Levels, MakeTree(k) PROVE TypeInv'
    <2>1. UNCHANGED <<c, h, dirty, objs, active, remade, done, clean, misses, events>>
          /\ tree' = TRUE /\ built' = NoParts
          /\ jobs' \subseteq jobs \union {<<k, Touch>>}
      BY <1>7 DEF MakeTree, Ends, sources
    <2>2. jobs' \subseteq Levels \X (Targets \union {Touch})
      BY <1>0, <2>1 DEF TypeInv
    <2>3. DOMAIN failed' = Levels /\ broken' \in BOOLEAN
      BY <1>0, <1>7, BreaksType DEF MakeTree
    <2> QED
      BY <1>0, <2>1, <2>2, <2>3, NoPartsType DEF TypeInv
  <1>8. ASSUME NEW k \in Levels, TouchDirty(k) PROVE TypeInv'
    <2>1. UNCHANGED <<c, h, tree, objs, built, active, remade, clean, misses, events>>
          /\ dirty' \in {dirty, TRUE} /\ jobs' \subseteq jobs
      BY <1>8 DEF TouchDirty, Ends, sources
    <2>2. done' \in [Levels -> SUBSET Targets]
      BY <1>0, <1>8, DoneAdd, TargetKinds DEF TouchDirty, TypeInv
    <2>3. DOMAIN failed' = Levels /\ broken' \in BOOLEAN
      BY <1>0, <1>8, BreaksType DEF TouchDirty
    <2> QED
      BY <1>0, <2>1, <2>2, <2>3 DEF TypeInv
  <1>9. ASSUME NEW k \in Levels, Pack(k) PROVE TypeInv'
    <2>1. UNCHANGED <<c, h, dirty, tree, objs, built, active, remade, failed, clean, broken, misses, events>>
          /\ jobs' \subseteq jobs
      BY <1>9 DEF Pack, Ends, sources
    <2>2. done' \in [Levels -> SUBSET Targets]
      BY <1>0, <1>9, DoneAdd, TargetKinds DEF Pack
    <2> QED
      BY <1>0, <2>1, <2>2 DEF TypeInv
  <1>10. ASSUME NEW k \in Levels, NEW l \in Libs, Compile(k, l) PROVE TypeInv'
    <2>1. UNCHANGED <<c, h, dirty, tree, built, active, clean, misses, events>>
          /\ jobs' \subseteq jobs
      BY <1>10 DEF Compile, Ends, sources
    <2>2. done' \in [Levels -> SUBSET Targets]
      BY <1>0, <1>10, DoneAdd, TargetKinds DEF Compile, TypeInv
    <2>3. objs' \in [Libs -> Versions \union {None}]
      <3>1. \E v \in {objs[l], None, Version(l)} : objs' = [objs EXCEPT ![l] = v]
        <4>1. [objs EXCEPT ![l] = objs[l]] = objs
          BY <1>0 DEF TypeInv
        <4> QED
          BY <1>10, <4>1 DEF Compile
      <3>2. Version(l) \in Versions
        BY <1>0, VersionType
      <3> QED
        BY <1>0, <3>1, <3>2 DEF TypeInv
    <2>4. remade' \in [Levels -> SUBSET Libs]
      BY <1>0, <1>10 DEF Compile, TypeInv
    <2>5. DOMAIN failed' = Levels /\ broken' \in BOOLEAN
      BY <1>0, <1>10, BreaksType DEF Compile
    <2> QED
      BY <1>0, <2>1, <2>2, <2>3, <2>4, <2>5 DEF TypeInv
  <1>11. ASSUME NEW k \in Levels, NEW t \in Targets, NEW x \in Parts, NEW v \in Versions \union {None},
                NEW ok \in BOOLEAN, Deliver(k, t, x, v, ok)
         PROVE  TypeInv'
    <2>1. UNCHANGED <<c, h, dirty, tree, objs, active, remade, clean, misses, events>>
          /\ jobs' \subseteq jobs
      BY <1>11 DEF Deliver, Ends, sources
    <2>2. done' \in [Levels -> SUBSET Targets]
      BY <1>0, <1>11, DoneAdd DEF Deliver, TypeInv
    <2>3. built' \in [Parts -> Versions \union {None}]
      BY <1>0, <1>11 DEF Deliver, TypeInv
    <2>4. DOMAIN failed' = Levels
      BY <1>0, <1>11, FailsType DEF Deliver
    <2>5. broken' \in BOOLEAN
      BY <1>0, <1>11 DEF Deliver, TypeInv
    <2> QED
      BY <1>0, <2>1, <2>2, <2>3, <2>4, <2>5 DEF TypeInv
  <1>12. ASSUME NEW k \in Levels, NEW l \in Libs, LinkLib(k, l) PROVE TypeInv'
    <2>1. (tree /\ l \in remade[k] /\ objs[l] # None) \in BOOLEAN
      OBVIOUS
    <2>2. objs[l] \in Versions \union {None} /\ Lib(l) \in Targets /\ l \in Parts
      BY <1>0, TargetKinds, PartKinds DEF TypeInv
    <2> QED
      BY <1>11, <1>12, <2>1, <2>2 DEF LinkLib
  <1>13. ASSUME NEW k \in Levels, NEW p \in Programs, LinkProgram(k, p) PROVE TypeInv'
    <2>1. (tree /\ Missing = {}) \in BOOLEAN
      OBVIOUS
    <2>2. [c |-> 0, h |-> h] \in Versions \union {None} /\ Prog(p) \in Targets /\ p \in Parts
      BY <1>0, TargetKinds, PartKinds, VersionType
    <2> QED
      BY <1>11, <1>13, <2>1, <2>2 DEF LinkProgram
  <1>14. CASE RunBuild
    <2>1. /\ UNCHANGED <<c, h, dirty, tree, objs, built, clean>> /\ active' = 1 /\ jobs' = {}
          /\ broken' = FALSE /\ misses' = 0
      BY <1>14 DEF RunBuild, Begin, sources, disk
    <2>2. done' \in [Levels -> SUBSET Targets] /\ remade' \in [Levels -> SUBSET Libs] /\ DOMAIN failed' = Levels
      BY <1>0, <1>14 DEF RunBuild, Begin, TypeInv
    <2>3. 1 \in 0..MaxDepth
      BY LevelFacts DEF Levels
    <2>4. events' \in 0..MaxEvents
      BY <1>0, <1>14 DEF RunBuild, Event, TypeInv
    <2> QED
      BY <1>0, <2>1, <2>2, <2>3, <2>4 DEF TypeInv
  <1>15. CASE RunClean
    <2>1. events' \in 0..MaxEvents
      BY <1>0, <1>15 DEF RunClean, Event, TypeInv
    <2> QED
      BY <1>0, <1>15, <2>1 DEF RunClean, sources, disk, make, TypeInv
  <1>16. CASE Edit
    <2>1. UNCHANGED <<dirty, tree, objs, built, active, done, remade, jobs, failed, clean, broken, misses>>
      BY <1>16 DEF Edit, disk, make
    <2>2. c' \in [Libs -> Nat] /\ h' \in Nat
      BY <1>0, <1>16 DEF Edit, TypeInv
    <2>3. events' \in 0..MaxEvents
      BY <1>0, <1>16 DEF Edit, Event, TypeInv
    <2> QED
      BY <1>0, <2>1, <2>2, <2>3 DEF TypeInv
  <1>17. CASE Interrupt
    <2>1. events' \in 0..MaxEvents
      BY <1>0, <1>17 DEF Interrupt, Event, TypeInv
    <2> QED
      BY <1>0, <1>17, <2>1 DEF Interrupt, sources, disk, TypeInv
  <1>18. CASE UNCHANGED vars
    BY <1>0, <1>18 DEF vars, sources, disk, make, TypeInv
  <1> QED
    BY <1>1, <1>2, <1>3, <1>4, <1>5, <1>6, <1>7, <1>8, <1>9, <1>10, <1>12, <1>13,
       <1>14, <1>15, <1>16, <1>17, <1>18 DEF Next, MakeStep

LEMMA NestKept ==
  ASSUME TypeInv, NestInv, UNCHANGED active, clean' > 0 => clean > 0,
         \A m \in Levels : <<m, IsClean>> \in jobs => <<m, IsClean>> \in jobs'
  PROVE  NestInv'
  <1>1. \A m \in Levels : m < active => <<m, IsClean>> \in jobs'
    BY DEF NestInv
  <1>2. active > 0 => active \in Levels
    BY LevelFacts DEF TypeInv, Levels
  <1>3. clean' > 0 /\ active > 0 => active < MaxDepth /\ <<active, IsClean>> \in jobs'
    BY <1>2 DEF NestInv
  <1> QED
    BY <1>1, <1>3 DEF NestInv

(* A recipe is over, whether or not its target is done now. *)
LEMMA StructEnds ==
  ASSUME StructInv, NEW k \in Levels, NEW t \in Targets \union {Touch}, <<k, t>> \in jobs, t # IsClean,
         Ends(k, t), UNCHANGED done \/ Done(k, Goal(t)), UNCHANGED <<active, clean>>
  PROVE  JobsInv' /\ DoneInv' /\ NestInv'
  <1> DEFINE g == Goal(t)
  <1>1. g \in Targets /\ g # IsClean /\ Touch # Tree /\ Touch \notin Targets
    BY GoalIsTarget, KindFacts, TargetKinds DEF Goal
  <1>2. /\ k <= active /\ Prerequisites[g] \subseteq done[k] /\ g \notin done[k]
        /\ t = Tree => <<k, Touch>> \notin jobs
    BY DEF StructInv, JobsInv
  <1>3. \A m \in Levels : /\ done[m] \subseteq done'[m]
                          /\ done'[m] \subseteq done[m] \union {g}
                          /\ m # k => done'[m] = done[m]
    BY <1>1, DoneGrows DEF StructInv
  <1>4. jobs' \subseteq jobs /\ <<k, t>> \notin jobs'
        /\ \A m \in Levels : \A u \in Targets \union {Touch} : <<m, u>> \in jobs /\ ~(m = k /\ u = t) => <<m, u>> \in jobs'
    BY DEF Ends
  <1>5. JobsInv'
    <2> SUFFICES ASSUME NEW m \in Levels, NEW u \in Targets \union {Touch}, <<m, u>> \in jobs'
                 PROVE  /\ m <= active'
                        /\ Prerequisites[Goal(u)] \subseteq done'[m]
                        /\ Goal(u) \notin done'[m]
                        /\ u = Tree => <<m, Touch>> \notin jobs'
      BY DEF JobsInv
    <2>1. /\ <<m, u>> \in jobs
          /\ m <= active
          /\ Prerequisites[Goal(u)] \subseteq done[m]
          /\ Goal(u) \notin done[m]
          /\ u = Tree => <<m, Touch>> \notin jobs
      BY <1>4 DEF StructInv, JobsInv
    <2>2. Goal(u) \notin done'[m]
      <3>1. CASE m # k
        BY <1>3, <2>1, <3>1
      <3>2. CASE m = k
        <4>1. u # t
          BY <1>4, <3>2
        <4>2. Goal(u) # g
          BY <1>1, <1>2, <2>1, <3>2, <4>1 DEF Goal
        <4> QED
          BY <1>3, <2>1, <4>2
      <3> QED
        BY <3>1, <3>2
    <2> QED
      BY <1>3, <1>4, <2>1, <2>2
  <1>6. DoneInv'
    <2>1. g = Tree => IsClean \in done[k]
      BY <1>2, PrerequisiteFacts
    <2>2. g[1] \in {"lib", "prog", "image"} => Tree \in done[k]
      <3>1. SUFFICES ASSUME g[1] \in {"lib", "prog", "image"} PROVE Tree \in done[k]
        OBVIOUS
      <3>2. CASE \E l \in Libs : g = Lib(l)
        BY <1>2, <3>2, PrerequisiteFacts
      <3>3. CASE \E p \in Programs : g = Prog(p)
        BY <1>2, <3>3, PrerequisiteFacts
      <3>4. CASE g = Image
        <4>1. Lib("utils") \in done[k]
          BY <1>2, <3>4, PrerequisiteFacts DEF Libs
        <4> QED
          BY <4>1, KindFacts DEF StructInv, DoneInv
      <3> HIDE DEF g
      <3> QED
        BY <1>1, <3>1, <3>2, <3>3, <3>4, TargetKinds, KindFacts
    <2> HIDE DEF g
    <2> SUFFICES ASSUME NEW m \in Levels
                 PROVE  /\ Tree \in done'[m] => IsClean \in done'[m]
                        /\ \A u \in done'[m] : u[1] \in {"lib", "prog", "image"} => Tree \in done'[m]
      BY DEF DoneInv
    <2>3. CASE m # k
      BY <1>3, <2>3 DEF StructInv, DoneInv
    <2>4. CASE m = k
      <3>1. Tree \in done'[m] => IsClean \in done'[m]
        BY <1>3, <2>1, <2>4 DEF StructInv, DoneInv
      <3>2. ASSUME NEW u \in done'[m], u[1] \in {"lib", "prog", "image"} PROVE Tree \in done'[m]
        BY <1>3, <2>2, <2>4, <3>2 DEF StructInv, DoneInv
      <3> QED
        BY <3>1, <3>2
    <2> QED
      BY <2>3, <2>4
  <1>7. NestInv'
    <2>1. \A m \in Levels : <<m, IsClean>> \in jobs => <<m, IsClean>> \in jobs'
      BY <1>4, TargetKinds
    <2> QED
      BY <2>1, NestKept DEF StructInv
  <1> QED
    BY <1>5, <1>6, <1>7

LEMMA StructStart ==
  ASSUME StructInv, NEW k \in Levels, NEW t \in Targets, CanStart(k, t),
         \/ t # IsClean /\ UNCHANGED clean
         \/ t = IsClean /\ k < MaxDepth /\ clean' = 1,
         jobs' = jobs \union {<<k, t>>}, UNCHANGED <<active, done>>
  PROVE  JobsInv' /\ DoneInv' /\ NestInv'
  <1>1. /\ k <= active /\ t \notin done[k] /\ <<k, t>> \notin jobs
        /\ t = Tree => <<k, Touch>> \notin jobs
        /\ Prerequisites[t] \subseteq done[k]
        /\ active \in 0..MaxDepth
    BY DEF CanStart, StructInv, TypeInv
  <1>2. Goal(t) = t /\ t # Touch
    BY TargetKinds DEF Goal
  <1>3. ASSUME NEW m \in Levels, NEW u \in Targets \union {Touch}, <<m, u>> \in jobs'
        PROVE  /\ m <= active'
               /\ Prerequisites[Goal(u)] \subseteq done'[m]
               /\ Goal(u) \notin done'[m]
               /\ u = Tree => <<m, Touch>> \notin jobs'
    <2>1. CASE <<m, u>> \in jobs
      <3>1. /\ m <= active /\ Prerequisites[Goal(u)] \subseteq done[m] /\ Goal(u) \notin done[m]
            /\ u = Tree => <<m, Touch>> \notin jobs
        BY <2>1 DEF StructInv, JobsInv
      <3> QED
        BY <1>2, <3>1
    <2>2. CASE m = k /\ u = t
      BY <1>1, <1>2, <2>2
    <2> QED
      BY <1>3, <2>1, <2>2
  <1>4. JobsInv'
    BY <1>3 DEF JobsInv
  <1>5. DoneInv'
    BY DEF StructInv, DoneInv
  <1>6. NestInv'
    <2>1. \A m \in Levels : <<m, IsClean>> \in jobs => <<m, IsClean>> \in jobs'
      OBVIOUS
    <2>2. CASE t # IsClean /\ UNCHANGED clean
      BY <2>1, <2>2, NestKept DEF StructInv
    <2>3. CASE t = IsClean /\ k < MaxDepth /\ clean' = 1
      <3>1. k = active
        BY <1>1, <2>3, Innermost
      <3>2. \A m \in Levels : m < active => <<m, IsClean>> \in jobs'
        BY <2>1 DEF StructInv, NestInv
      <3>3. <<active, IsClean>> \in jobs' /\ active < MaxDepth
        BY <2>3, <3>1
      <3> QED
        BY <3>2, <3>3 DEF NestInv
    <2> QED
      BY <2>2, <2>3
  <1> QED
    BY <1>4, <1>5, <1>6

LEMMA StructSkip ==
  ASSUME StructInv, NEW k \in Levels, NEW t \in Targets, Skip(k, t)
  PROVE  JobsInv' /\ DoneInv' /\ NestInv'
  <1>1. /\ t \notin done[k] /\ <<k, t>> \notin jobs /\ t[1] \in {"is_clean", "obj"}
        /\ UNCHANGED <<active, jobs, clean>>
    BY KindFacts DEF Skip, CanStart
  <1>2. done'[k] = done[k] \union {t} /\ \A m \in Levels : m # k => done'[m] = done[m]
    BY DoneAdd DEF Skip, StructInv
  <1>3. t # Tree /\ t # Touch
    BY <1>1, KindFacts
  <1>4. JobsInv'
    <2> SUFFICES ASSUME NEW m \in Levels, NEW u \in Targets \union {Touch}, <<m, u>> \in jobs
                 PROVE  /\ m <= active
                        /\ Prerequisites[Goal(u)] \subseteq done'[m]
                        /\ Goal(u) \notin done'[m]
                        /\ u = Tree => <<m, Touch>> \notin jobs
      BY <1>1 DEF JobsInv
    <2>1. /\ m <= active /\ Prerequisites[Goal(u)] \subseteq done[m] /\ Goal(u) \notin done[m]
          /\ u = Tree => <<m, Touch>> \notin jobs
      BY DEF StructInv, JobsInv
    <2>2. m = k => Goal(u) # t
      BY <1>1, <1>3 DEF Goal
    <2> QED
      BY <1>2, <2>1, <2>2
  <1>5. DoneInv'
    <2> SUFFICES ASSUME NEW m \in Levels
                 PROVE  /\ Tree \in done'[m] => IsClean \in done'[m]
                        /\ \A u \in done'[m] : u[1] \in {"lib", "prog", "image"} => Tree \in done'[m]
      BY DEF DoneInv
    <2>1. /\ Tree \in done[m] => IsClean \in done[m]
          /\ \A u \in done[m] : u[1] \in {"lib", "prog", "image"} => Tree \in done[m]
      BY DEF StructInv, DoneInv
    <2> QED
      BY <1>1, <1>2, <1>3, <2>1
  <1>6. NestInv'
    BY <1>1, NestKept DEF StructInv
  <1> QED
    BY <1>4, <1>5, <1>6

(* The first line of the recipe of the tree is over and the second next. *)
LEMMA StructTouch ==
  ASSUME StructInv, NEW k \in Levels, <<k, Tree>> \in jobs,
         jobs' = (jobs \ {<<k, Tree>>}) \union {<<k, Touch>>}, UNCHANGED <<active, done, clean>>
  PROVE  JobsInv' /\ DoneInv' /\ NestInv'
  <1>1. Tree # Touch /\ Tree # IsClean /\ Touch # IsClean /\ Tree \in Targets
    BY KindFacts, TargetKinds
  <1>2. k <= active /\ Prerequisites[Tree] \subseteq done[k] /\ Tree \notin done[k]
    BY <1>1 DEF StructInv, JobsInv, Goal
  <1>3. ASSUME NEW m \in Levels, NEW u \in Targets \union {Touch}, <<m, u>> \in jobs'
        PROVE  /\ m <= active'
               /\ Prerequisites[Goal(u)] \subseteq done'[m]
               /\ Goal(u) \notin done'[m]
               /\ u = Tree => <<m, Touch>> \notin jobs'
    <2>1. CASE m = k /\ u = Touch
      BY <1>1, <1>2, <2>1 DEF Goal
    <2>2. CASE ~(m = k /\ u = Touch)
      <3>1. <<m, u>> \in jobs /\ ~(m = k /\ u = Tree)
        BY <1>1, <1>3, <2>2
      <3>2. /\ m <= active /\ Prerequisites[Goal(u)] \subseteq done[m] /\ Goal(u) \notin done[m]
            /\ u = Tree => <<m, Touch>> \notin jobs
        BY <3>1 DEF StructInv, JobsInv
      <3> QED
        BY <3>1, <3>2
    <2> QED
      BY <2>1, <2>2
  <1>4. JobsInv'
    BY <1>3 DEF JobsInv
  <1>5. DoneInv'
    BY DEF StructInv, DoneInv
  <1>6. \A m \in Levels : <<m, IsClean>> \in jobs => <<m, IsClean>> \in jobs'
    BY <1>1
  <1>7. NestInv'
    BY <1>6, NestKept DEF StructInv
  <1> QED
    BY <1>4, <1>5, <1>7

(* make starts at a level where nothing runs. *)
LEMMA StructBegin ==
  ASSUME StructInv, NEW k \in Levels, Begin(k), \A t \in Targets \union {Touch} : <<k, t>> \notin jobs',
         jobs' \subseteq jobs, active <= k, clean' = 0,
         \A m \in Levels : m < k => <<m, IsClean>> \in jobs'
  PROVE  JobsInv' /\ DoneInv' /\ NestInv'
  <1>1. active' = k /\ done'[k] = {} /\ \A m \in Levels : m # k => done'[m] = done[m]
    BY DEF Begin, StructInv, TypeInv
  <1>2. ASSUME NEW m \in Levels, NEW u \in Targets \union {Touch}, <<m, u>> \in jobs'
        PROVE  /\ m <= active'
               /\ Prerequisites[Goal(u)] \subseteq done'[m]
               /\ Goal(u) \notin done'[m]
               /\ u = Tree => <<m, Touch>> \notin jobs'
    <2>1. m # k /\ <<m, u>> \in jobs
      BY <1>2
    <2>2. /\ m <= active /\ Prerequisites[Goal(u)] \subseteq done[m] /\ Goal(u) \notin done[m]
          /\ u = Tree => <<m, Touch>> \notin jobs
      BY <2>1 DEF StructInv, JobsInv
    <2>3. m <= active'
      <3>1. active \in Nat /\ m \in Nat /\ k \in Nat
        BY LevelFacts DEF StructInv, TypeInv, Levels
      <3> QED
        BY <1>1, <2>2, <3>1
    <2> QED
      BY <1>1, <2>1, <2>2, <2>3
  <1>3. JobsInv'
    BY <1>2 DEF JobsInv
  <1>4. DoneInv'
    <2> SUFFICES ASSUME NEW m \in Levels
                 PROVE  /\ Tree \in done'[m] => IsClean \in done'[m]
                        /\ \A u \in done'[m] : u[1] \in {"lib", "prog", "image"} => Tree \in done'[m]
      BY DEF DoneInv
    <2>1. CASE m = k
      BY <1>1, <2>1
    <2>2. CASE m # k
      BY <1>1, <2>2 DEF StructInv, DoneInv
    <2> QED
      BY <2>1, <2>2
  <1>5. NestInv'
    BY <1>1 DEF NestInv
  <1> QED
    BY <1>3, <1>4, <1>5

LEMMA NoneRuns ==
  ASSUME StructInv, NEW k \in Levels, active < k \/ RunningAt(k) = {}
  PROVE  \A t \in Targets \union {Touch} : <<k, t>> \notin jobs
  <1> SUFFICES ASSUME NEW t \in Targets \union {Touch}, <<k, t>> \in jobs PROVE FALSE
    OBVIOUS
  <1>1. active \in Nat /\ k \in Nat
    BY LevelFacts DEF StructInv, TypeInv, Levels
  <1>2. k <= active
    BY DEF StructInv, JobsInv
  <1>3. <<k, t>> \in RunningAt(k)
    BY DEF RunningAt
  <1> QED
    BY <1>1, <1>2, <1>3

LEMMA StructStep ==
  ASSUME StructInv, [Next]_vars
  PROVE  StructInv'
  <1>0. TypeInv'
    BY TypeStep DEF StructInv
  <1> SUFFICES JobsInv' /\ DoneInv' /\ NestInv'
    BY <1>0 DEF StructInv
  <1> USE DEF Goal
  <1>1. CASE CleanLine \/ CleanFails
    <2>1. CASE active > 0 /\ clean' = 0 /\ active + 1 \in Levels /\ Begin(active + 1)
      <3>1. PICK k \in Levels : k = active + 1
        BY <2>1
      <3>2. UNCHANGED jobs /\ clean > 0 /\ active \in Nat
        BY <1>1, CleanSteps, LevelFacts DEF StructInv, TypeInv
      <3>3. active < k /\ active <= k
        BY <3>1, <3>2
      <3>4. \A t \in Targets \union {Touch} : <<k, t>> \notin jobs
        BY <3>3, NoneRuns
      <3>5. \A m \in Levels : m < k => <<m, IsClean>> \in jobs
        <4> SUFFICES ASSUME NEW m \in Levels, m < k PROVE <<m, IsClean>> \in jobs
          OBVIOUS
        <4>1. m < active \/ m = active
          BY <3>1, <3>2, LevelFacts DEF Levels
        <4> QED
          BY <2>1, <3>2, <4>1 DEF StructInv, NestInv
      <3> QED
        BY <2>1, <3>1, <3>2, <3>3, <3>4, <3>5, StructBegin
    <2>2. CASE (clean' = 0 => active = 0) /\ UNCHANGED <<active, done, remade, failed>>
      <3>1. UNCHANGED jobs /\ clean > 0
        BY <1>1, CleanSteps
      <3>2. JobsInv' /\ DoneInv'
        BY <2>2, <3>1 DEF StructInv, JobsInv, DoneInv
      <3>3. NestInv'
        BY <2>2, <3>1, NestKept DEF StructInv
      <3> QED
        BY <3>2, <3>3
    <2> QED
      BY <1>1, <2>1, <2>2, CleanSteps
  <1>2. ASSUME NEW k \in Levels, StartInner(k) PROVE JobsInv' /\ DoneInv' /\ NestInv'
    BY <1>2, StructStart, TargetKinds DEF StartInner
  <1>3. CASE InnerEnds
    <2>1. /\ active > 1 /\ active' = active - 1 /\ jobs' = jobs \ {<<active - 1, IsClean>>}
          /\ UNCHANGED <<done, clean>> /\ RunningAt(active) = {}
      BY <1>3 DEF InnerEnds, Ends, Over
    <2>2. active \in Levels /\ active \in Nat
      BY <2>1, LevelFacts DEF StructInv, TypeInv, Levels
    <2>3. \A t \in Targets \union {Touch} : <<active, t>> \notin jobs
      BY <2>1, <2>2, NoneRuns, Zenon
    <2>4. JobsInv'
      <3> SUFFICES ASSUME NEW m \in Levels, NEW u \in Targets \union {Touch}, <<m, u>> \in jobs'
                   PROVE  /\ m <= active'
                          /\ Prerequisites[Goal(u)] \subseteq done'[m]
                          /\ Goal(u) \notin done'[m]
                          /\ u = Tree => <<m, Touch>> \notin jobs'
        BY DEF JobsInv
      <3>1. <<m, u>> \in jobs /\ m # active
        BY <2>1, <2>3
      <3>2. /\ m <= active /\ Prerequisites[Goal(u)] \subseteq done[m] /\ Goal(u) \notin done[m]
            /\ u = Tree => <<m, Touch>> \notin jobs
        BY <3>1 DEF StructInv, JobsInv
      <3>3. m <= active'
        BY <2>1, <2>2, <3>1, <3>2 DEF Levels
      <3> QED
        BY <2>1, <3>1, <3>2, <3>3
    <2>5. DoneInv'
      BY <2>1 DEF StructInv, DoneInv
    <2>6. clean = 0
      <3>1. <<active, IsClean>> \notin jobs /\ active <= active
        BY <2>2, <2>3, TargetKinds
      <3> QED
        BY <2>2, <3>1, Innermost
    <2>7. NestInv'
      <3> SUFFICES ASSUME NEW m \in Levels, m < active - 1 PROVE <<m, IsClean>> \in jobs'
        BY <2>1, <2>6 DEF NestInv
      <3>1. m < active /\ m # active - 1
        BY <2>2 DEF Levels
      <3> QED
        BY <2>1, <3>1 DEF StructInv, NestInv
    <2> QED
      BY <2>4, <2>5, <2>7
  <1>4. CASE BuildEnds
    <2>1. active = 1 /\ active' = 0 /\ UNCHANGED <<done, jobs, clean>> /\ RunningAt(1) = {}
      BY <1>4 DEF BuildEnds, Over
    <2>2. \A m \in Levels : \A t \in Targets \union {Touch} : <<m, t>> \notin jobs
      <3> SUFFICES ASSUME NEW m \in Levels PROVE \A t \in Targets \union {Touch} : <<m, t>> \notin jobs
        OBVIOUS
      <3>1. m = 1 \/ active < m
        BY <2>1 DEF Levels
      <3> QED
        BY <2>1, <3>1, NoneRuns
    <2>3. JobsInv'
      BY <2>1, <2>2 DEF JobsInv
    <2>4. NestInv'
      BY <2>1 DEF NestInv, Levels
    <2> QED
      BY <2>1, <2>3, <2>4 DEF StructInv, DoneInv
  <1>5. ASSUME NEW k \in Levels, NEW t \in Targets, Skip(k, t) PROVE JobsInv' /\ DoneInv' /\ NestInv'
    BY <1>5, StructSkip
  <1>6. ASSUME NEW k \in Levels, NEW t \in Targets, Start(k, t) PROVE JobsInv' /\ DoneInv' /\ NestInv'
    BY <1>6, StructStart DEF Start
  <1>7. ASSUME NEW k \in Levels, MakeTree(k) PROVE JobsInv' /\ DoneInv' /\ NestInv'
    <2>1. CASE jobs' = (jobs \ {<<k, Tree>>}) \union {<<k, Touch>>}
      BY <1>7, <2>1, StructTouch DEF MakeTree
    <2>2. CASE Ends(k, Tree)
      <3>1. Tree # IsClean
        BY KindFacts
      <3> QED
        BY <1>7, <2>2, <3>1, StructEnds, TargetKinds DEF MakeTree
    <2> QED
      BY <1>7, <2>1, <2>2 DEF MakeTree
  <1>8. ASSUME NEW k \in Levels, TouchDirty(k) PROVE JobsInv' /\ DoneInv' /\ NestInv'
    <2>1. Touch # IsClean /\ Goal(Touch) = Tree
      BY KindFacts
    <2> QED
      BY <1>8, <2>1, StructEnds DEF TouchDirty
  <1>9. ASSUME NEW k \in Levels, Pack(k) PROVE JobsInv' /\ DoneInv' /\ NestInv'
    <2>1. Image # IsClean /\ Goal(Image) = Image
      BY KindFacts
    <2> QED
      BY <1>9, <2>1, StructEnds, TargetKinds DEF Pack
  <1>10. ASSUME NEW k \in Levels, NEW l \in Libs, Compile(k, l) PROVE JobsInv' /\ DoneInv' /\ NestInv'
    <2>1. Obj(l) # IsClean /\ Goal(Obj(l)) = Obj(l) /\ Obj(l) \in Targets
      BY KindFacts, TargetKinds
    <2> QED
      BY <1>10, <2>1, StructEnds DEF Compile
  <1>11. ASSUME NEW k \in Levels, NEW l \in Libs, LinkLib(k, l) PROVE JobsInv' /\ DoneInv' /\ NestInv'
    <2>1. Lib(l) # IsClean /\ Goal(Lib(l)) = Lib(l) /\ Lib(l) \in Targets
      BY KindFacts, TargetKinds
    <2>2. Ends(k, Lib(l)) /\ (UNCHANGED done \/ Done(k, Lib(l))) /\ UNCHANGED <<active, clean>>
      BY <1>11 DEF LinkLib, Deliver
    <2> QED
      BY <1>11, <2>1, <2>2, StructEnds DEF LinkLib
  <1>12. ASSUME NEW k \in Levels, NEW p \in Programs, LinkProgram(k, p) PROVE JobsInv' /\ DoneInv' /\ NestInv'
    <2>1. Prog(p) # IsClean /\ Goal(Prog(p)) = Prog(p) /\ Prog(p) \in Targets
      BY KindFacts, TargetKinds
    <2>2. Ends(k, Prog(p)) /\ (UNCHANGED done \/ Done(k, Prog(p))) /\ UNCHANGED <<active, clean>>
      BY <1>12 DEF LinkProgram, Deliver
    <2> QED
      BY <1>12, <2>1, <2>2, StructEnds DEF LinkProgram
  <1>13. CASE RunBuild
    <2>1. active = 0 /\ clean' = 0 /\ Begin(1) /\ jobs' = {}
      BY <1>13 DEF RunBuild, Idle
    <2>2. 1 \in Levels /\ active <= 1 /\ \A m \in Levels : ~(m < 1)
      BY <2>1, LevelFacts DEF Levels
    <2> QED
      BY <2>1, <2>2, StructBegin
  <1>14. CASE RunClean
    <2>1. active = 0 /\ UNCHANGED <<active, done, jobs>>
      BY <1>14 DEF RunClean, Idle, make
    <2>2. JobsInv' /\ DoneInv'
      BY <2>1 DEF StructInv, JobsInv, DoneInv
    <2>3. NestInv'
      BY <2>1 DEF NestInv, Levels
    <2> QED
      BY <2>2, <2>3
  <1>15. CASE Edit \/ UNCHANGED vars
    <2>1. UNCHANGED <<active, done, jobs, clean>>
      BY <1>15 DEF Edit, make, vars
    <2>2. NestInv'
      BY <2>1, NestKept DEF StructInv
    <2> QED
      BY <2>1, <2>2 DEF StructInv, JobsInv, DoneInv
  <1>16. CASE Interrupt
    <2>1. active' = 0 /\ clean' = 0 /\ jobs' = {} /\ UNCHANGED done
      BY <1>16 DEF Interrupt
    <2>2. NestInv'
      BY <2>1 DEF NestInv, Levels
    <2> QED
      BY <2>1, <2>2 DEF StructInv, JobsInv, DoneInv
  <1> QED
    BY <1>1, <1>2, <1>3, <1>4, <1>5, <1>6, <1>7, <1>8, <1>9, <1>10, <1>11, <1>12, <1>13,
       <1>14, <1>15, <1>16 DEF Next, MakeStep

LEMMA StructInit ==
  ASSUME Init
  PROVE  StructInv
  <1>1. /\ done = [k \in Levels |-> {}] /\ remade = [k \in Levels |-> {}] /\ failed = [k \in Levels |-> None]
        /\ active = 0 /\ clean = 0 /\ jobs = {} /\ broken = FALSE /\ misses = 0 /\ events = 0
    BY DEF Init
  <1>2. /\ done \in [Levels -> SUBSET Targets] /\ remade \in [Levels -> SUBSET Libs]
        /\ DOMAIN failed = Levels /\ \A k \in Levels : done[k] = {}
    BY <1>1
  <1>3. TypeInv
    <2>1. tree \in BOOLEAN /\ dirty \in BOOLEAN
      BY Zenon DEF Init
    <2>2. c \in [Libs -> Nat] /\ h \in Nat /\ objs \in [Libs -> Versions \union {None}]
      BY DEF Init
    <2>3. built \in [Parts -> Versions \union {None}]
      BY NoPartsType DEF Init
    <2>4. active \in 0..MaxDepth /\ events \in 0..MaxEvents /\ misses \in Nat /\ clean \in 0..3
      BY <1>1, LevelFacts
    <2>5. broken \in BOOLEAN
      BY <1>1, Zenon
    <2> QED
      BY <1>1, <1>2, <2>1, <2>2, <2>3, <2>4, <2>5 DEF TypeInv
  <1>4. JobsInv /\ DoneInv /\ NestInv
    BY <1>1, <1>2 DEF JobsInv, DoneInv, NestInv, Levels
  <1> QED
    BY <1>3, <1>4 DEF StructInv

LEMMA BuildStructure == Spec => []StructInv
  <1>1. StructInv /\ [Next]_vars => StructInv'
    BY StructStep
  <1> QED
    BY <1>1, StructInit, PTL DEF Spec

(* While a make is at work on the tree, or `make clean` is on its way, no  *)
(* level that is there has done anything that needs the tree.              *)
LEMMA TreeIsAlone ==
  ASSUME StructInv, clean > 0 \/ \E k \in Levels : <<k, Tree>> \in jobs
  PROVE  \A m \in Levels : m <= active => Tree \notin done[m]
  <1> SUFFICES ASSUME NEW m \in Levels, m <= active, Tree \in done[m] PROVE FALSE
    OBVIOUS
  <1>1. <<m, IsClean>> \notin jobs
    BY Waits
  <1>2. m = active /\ clean = 0
    BY <1>1, Innermost
  <1>3. PICK k \in Levels : <<k, Tree>> \in jobs
    BY <1>2
  <1>4. Tree \in Targets /\ Goal(Tree) = Tree
    BY TargetKinds, KindFacts DEF Goal
  <1>5. k <= active /\ Tree \notin done[k] /\ IsClean \in done[k]
    BY <1>3, <1>4, PrerequisiteFacts DEF StructInv, JobsInv
  <1>6. <<k, IsClean>> \notin jobs
    BY <1>5, Waits
  <1>7. k = active
    BY <1>5, <1>6, Innermost
  <1> QED
    BY <1>2, <1>5, <1>7

(* However many jobs make runs, and whenever it is interrupted, the tree   *)
(* is never removed or made anew while a recipe of any of the makes that   *)
(* are nested writes in it.                                                *)
THEOREM BuildTreeNotShared == Spec => []TreeNotShared
  <1>1. StructInv => TreeNotShared
    <2> SUFFICES ASSUME StructInv, clean = 1 \/ (\E k \in Levels : <<k, Tree>> \in jobs),
                        NEW j \in jobs, j[2][1] \in {"lib", "prog", "image"}
                 PROVE  FALSE
      BY DEF TreeNotShared
    <2>1. PICK m \in Levels, t \in Targets \union {Touch} : j = <<m, t>>
      BY DEF StructInv, TypeInv
    <2>2. t[1] \in {"lib", "prog", "image"} /\ <<m, t>> \in jobs
      BY <2>1
    <2>3. t # Touch /\ t \in Targets
      BY <2>2, KindFacts
    <2>4. m <= active /\ Prerequisites[t] \subseteq done[m]
      BY <2>2, <2>3 DEF StructInv, JobsInv, Goal
    <2>5. Tree \in done[m]
      <3>1. CASE \E l \in Libs : t = Lib(l)
        BY <2>4, <3>1, PrerequisiteFacts
      <3>2. CASE \E p \in Programs : t = Prog(p)
        BY <2>4, <3>2, PrerequisiteFacts
      <3>3. CASE t = Image
        <4>1. Lib("utils") \in done[m]
          BY <2>4, <3>3, PrerequisiteFacts DEF Libs
        <4> QED
          BY <4>1, KindFacts DEF StructInv, DoneInv
      <3> QED
        BY <2>2, <2>3, <3>1, <3>2, <3>3, TargetKinds, KindFacts
    <2>6. clean > 0 \/ \E k \in Levels : <<k, Tree>> \in jobs
      OBVIOUS
    <2> QED
      BY <2>4, <2>5, <2>6, TreeIsAlone
  <1> QED
    BY <1>1, BuildStructure, PTL
-----------------------------------------------------------------------------
(* What a make that succeeds has built                                     *)

LEMMA GoodKept ==
  ASSUME UNCHANGED <<c, h, image>>
  PROVE  (Good' <=> Good) /\ \A l : Version(l)' = Version(l)
  BY DEF Good, Current, Version

(* Only the check and the objects are done at level k. *)
LEMMA MadeWithoutTree ==
  ASSUME NEW k \in Levels, Tree \notin done[k], DoneInv, \A l \in remade[k] : objs[l] \in {None, Version(l)}
  PROVE  Made(k)
  <1>1. \A t \in done[k] : t[1] \notin {"lib", "prog", "image"}
    BY DEF DoneInv
  <1>2. (\A l \in Libs : Lib(l) \notin done[k]) /\ (\A p \in Programs : Prog(p) \notin done[k]) /\ Image \notin done[k]
    BY <1>1, KindFacts
  <1> QED
    BY <1>2 DEF Made

(* A step that leaves the disk alone, and adds at most the check or an     *)
(* object to what is done.                                                 *)
LEMMA MadeKept ==
  ASSUME NEW k \in Levels, Made(k), UNCHANGED <<c, h, dirty, tree, objs, built, image>>,
         remade'[k] = remade[k],
         \A t \in done'[k] : t \in done[k] \/ t[1] \in {"is_clean", "obj"}
  PROVE  Made(k)'
  <1>1. /\ Tree \in done'[k] => Tree \in done[k]
        /\ Image \in done'[k] => Image \in done[k]
        /\ \A l \in Libs : Lib(l) \in done'[k] => Lib(l) \in done[k]
        /\ \A p \in Programs : Prog(p) \in done'[k] => Prog(p) \in done[k]
    BY KindFacts
  <1>2. (Good' <=> Good) /\ \A l : Version(l)' = Version(l)
    BY GoodKept
  <1> QED
    BY <1>1, <1>2 DEF Made

(* While the tree is removed its marker is not about to be written. *)
LEMMA CleanOrTouch ==
  ASSUME StructInv, clean > 0, NEW k \in Levels
  PROVE  <<k, Touch>> \notin jobs
  <1>1. SUFFICES ASSUME <<k, Touch>> \in jobs PROVE FALSE
    OBVIOUS
  <1>2. k <= active /\ IsClean \in done[k]
    BY <1>1, PrerequisiteFacts DEF StructInv, JobsInv, Goal
  <1>3. <<k, IsClean>> \notin jobs
    BY <1>2, Waits
  <1>4. clean = 0
    BY <1>2, <1>3, Innermost
  <1> QED
    BY <1>4

LEMMA CurrentTree ==
  ASSUME StructInv, CurrentInv, StructInv', CleanLine \/ CleanFails \/ \E k \in Levels : MakeTree(k)
  PROVE  CurrentInv'
  <1>1. UNCHANGED <<c, h, image, last>>
    BY CleanSteps DEF MakeTree, sources
  <1>2. \A m \in Levels : m <= active => Tree \notin done[m]
    <2>1. clean > 0 \/ \E k \in Levels : <<k, Tree>> \in jobs
      BY DEF CleanLine, CleanFails, MakeTree
    <2> QED
      BY <2>1, TreeIsAlone
  <1>3. ASSUME NEW m \in Levels, m <= active' PROVE Made(m)'
    <2>1. \/ m <= active /\ done'[m] = done[m] /\ remade'[m] = remade[m]
          \/ done'[m] = {} /\ remade'[m] = {}
      <3>1. CASE active + 1 \in Levels /\ Begin(active + 1)
        <4>1. PICK k \in Levels : k = active + 1
          BY <3>1
        <4>2. /\ active' = k /\ done'[k] = {} /\ remade'[k] = {}
              /\ m # k => done'[m] = done[m] /\ remade'[m] = remade[m]
          BY <3>1, <4>1 DEF Begin, StructInv, TypeInv
        <4>3. m # k => m <= active
          BY <1>3, <4>1, <4>2 DEF StructInv, TypeInv, Levels
        <4> QED
          BY <4>2, <4>3
      <3>2. CASE UNCHANGED <<active, done, remade, failed>>
        BY <1>3, <3>2
      <3>3. CASE \E k \in Levels : MakeTree(k)
        BY <1>3, <3>3 DEF MakeTree
      <3> QED
        BY <3>1, <3>2, <3>3, CleanSteps
    <2>2. Tree \notin done'[m]
      BY <1>2, <2>1
    <2>3. \A l \in Libs : objs'[l] = None \/ objs'[l] = objs[l]
      BY CleanSteps DEF MakeTree
    <2>4. \A l : Version(l)' = Version(l)
      BY <1>1, GoodKept
    <2>5. ASSUME NEW l \in remade'[m] PROVE objs'[l] \in {None, Version(l)'}
      <3>1. l \in Libs
        BY DEF StructInv, TypeInv
      <3>2. l \in remade[m] /\ m <= active
        BY <2>1, <2>5
      <3>3. objs[l] \in {None, Version(l)}
        BY <3>2 DEF CurrentInv, Made
      <3> QED
        BY <2>3, <2>4, <3>1, <3>3
    <2>6. DoneInv'
      BY DEF StructInv
    <2>7. /\ \A l \in Libs : Lib(l) \notin done'[m]
          /\ \A p \in Programs : Prog(p) \notin done'[m]
          /\ Image \notin done'[m]
      BY <2>2, <2>6, KindFacts DEF DoneInv
    <2> QED
      BY <2>2, <2>5, <2>7 DEF Made
  <1>4. ASSUME NEW m \in Levels, <<m, Touch>> \in jobs' PROVE tree'
    <2>1. CASE CleanLine \/ CleanFails
      <3>1. jobs' = jobs /\ clean > 0
        BY <2>1, CleanSteps
      <3> QED
        BY <1>4, <3>1, CleanOrTouch
    <2>2. CASE \E k \in Levels : MakeTree(k)
      BY <2>2 DEF MakeTree
    <2> QED
      BY <2>1, <2>2
  <1>5. last' = "ok" => Good'
    BY <1>1, GoodKept DEF CurrentInv
  <1> QED
    BY <1>3, <1>4, <1>5 DEF CurrentInv

(* Steps that leave the disk alone. *)
LEMMA CurrentNoWrite ==
  ASSUME StructInv, CurrentInv, UNCHANGED <<c, h, dirty, tree, objs, built, image, remade, last>>,
         \/ InnerEnds
         \/ \E k \in Levels : StartInner(k) \/ \E t \in Targets : Skip(k, t) \/ Start(k, t)
         \/ UNCHANGED vars
  PROVE  CurrentInv'
  <1>0. active \in Nat
    BY LevelFacts DEF StructInv, TypeInv
  <1>1. active' = active \/ active' = active - 1
    BY DEF StructInv, TypeInv, StartInner, InnerEnds, Skip, Start, vars, make
  <1>2. \A m \in Levels : \A t \in done'[m] : t \in done[m] \/ t[1] \in {"is_clean", "obj"}
    <2>1. CASE UNCHANGED done
      BY <2>1
    <2>2. ASSUME NEW k \in Levels, NEW t \in Targets, Skip(k, t)
          PROVE  \A m \in Levels : \A u \in done'[m] : u \in done[m] \/ u[1] \in {"is_clean", "obj"}
      <3>1. t[1] \in {"is_clean", "obj"}
        BY <2>2, KindFacts DEF Skip
      <3>2. done'[k] = done[k] \union {t} /\ \A m \in Levels : m # k => done'[m] = done[m]
        BY <2>2, DoneAdd DEF Skip, StructInv
      <3> QED
        BY <3>1, <3>2
    <2> QED
      BY <2>1, <2>2 DEF StartInner, InnerEnds, Start, vars, make
  <1>3. ASSUME NEW m \in Levels, m <= active' PROVE Made(m)'
    <2>0. m <= active
      BY <1>0, <1>1, <1>3 DEF Levels
    <2>1. Made(m) /\ remade'[m] = remade[m]
      BY <2>0 DEF CurrentInv
    <2>2. \A t \in done'[m] : t \in done[m] \/ t[1] \in {"is_clean", "obj"}
      BY <1>2
    <2> QED
      BY <2>1, <2>2, MadeKept
  <1>4. ASSUME NEW m \in Levels, <<m, Touch>> \in jobs' PROVE tree'
    <2>1. \A t \in Targets : t # Touch
      BY TargetKinds
    <2>2. <<m, Touch>> \in jobs
      BY <1>4, <2>1, TargetKinds DEF StartInner, InnerEnds, Skip, Start, vars, make, Ends
    <2> QED
      BY <2>2 DEF CurrentInv
  <1>5. last' = "ok" => Good'
    BY GoodKept DEF CurrentInv
  <1> QED
    BY <1>3, <1>4, <1>5 DEF CurrentInv

(* A recipe of level k that writes only what is current, and whose target  *)
(* g, if it is done now, is there.                                         *)
LEMMA CurrentWrite ==
  ASSUME StructInv, CurrentInv, NEW k \in Levels, NEW g \in Targets,
         UNCHANGED <<c, h, active, last, tree>>, dirty => dirty', jobs' \subseteq jobs,
         \A l \in Libs : built'[l] \in {built[l], Version(l)} /\ objs'[l] \in {objs[l], None, Version(l)},
         \A p \in Programs : built'[p] \in {built[p], [c |-> 0, h |-> h]},
         \A m \in Levels : \A l \in remade'[m] : l \in Libs /\ (l \in remade[m] \/ objs'[l] = Version(l)),
         UNCHANGED image \/ Good',
         UNCHANGED done \/ Done(k, g),
         g = Tree /\ Done(k, g) => tree /\ dirty',
         \A l \in Libs : g = Lib(l) /\ Done(k, g) => built'[l] = Version(l),
         \A p \in Programs : g = Prog(p) /\ Done(k, g) => built'[p] = [c |-> 0, h |-> h],
         g = Image /\ Done(k, g) => Good'
  PROVE  CurrentInv'
  <1>1. \A l : Version(l)' = Version(l)
    BY DEF Version
  <1>2. Good => Good'
    BY GoodKept
  <1>3. \A m \in Levels : done'[m] = done[m] \/ (Done(k, g) /\ done'[m] \subseteq done[m] \union {g})
    BY DoneGrows DEF StructInv
  <1>4. ASSUME NEW m \in Levels, m <= active' PROVE Made(m)'
    <2>1. Made(m)
      BY <1>4 DEF CurrentInv
    <2>2. done'[m] = done[m] \/ (Done(k, g) /\ done'[m] \subseteq done[m] \union {g})
      BY <1>3
    <2>3. Tree \in done'[m] => tree' /\ dirty'
      BY <2>1, <2>2 DEF Made
    <2>4. ASSUME NEW l \in Libs, Lib(l) \in done'[m] PROVE built'[l] = Version(l)'
      <3>1. CASE Lib(l) \in done[m]
        BY <1>1, <2>1, <3>1 DEF Made
      <3>2. CASE Lib(l) \notin done[m]
        BY <1>1, <2>2, <2>4, <3>2
      <3> QED
        BY <3>1, <3>2
    <2>5. ASSUME NEW p \in Programs, Prog(p) \in done'[m] PROVE built'[p] = [c |-> 0, h |-> h']
      <3>1. CASE Prog(p) \in done[m]
        BY <2>1, <3>1 DEF Made
      <3>2. CASE Prog(p) \notin done[m]
        BY <2>2, <2>5, <3>2
      <3> QED
        BY <3>1, <3>2
    <2>6. ASSUME NEW l \in remade'[m] PROVE objs'[l] \in {None, Version(l)'}
      BY <1>1, <2>1, <2>6 DEF Made
    <2>7. Image \in done'[m] => Good'
      BY <1>2, <2>1, <2>2 DEF Made
    <2> QED
      BY <2>3, <2>4, <2>5, <2>6, <2>7 DEF Made
  <1>5. ASSUME NEW m \in Levels, <<m, Touch>> \in jobs' PROVE tree'
    BY <1>5 DEF CurrentInv
  <1>6. last' = "ok" => Good'
    BY <1>2 DEF CurrentInv
  <1> QED
    BY <1>4, <1>5, <1>6 DEF CurrentInv

LEMMA CurrentTouch ==
  ASSUME StructInv, CurrentInv, NEW k \in Levels, TouchDirty(k)
  PROVE  CurrentInv'
  <1>1. /\ <<k, Touch>> \in jobs /\ jobs' \subseteq jobs
        /\ (dirty' = TRUE /\ Done(k, Tree)) \/ UNCHANGED <<dirty, done>>
        /\ UNCHANGED <<c, h, tree, objs, built, image, active, remade, last>>
    BY DEF TouchDirty, Ends, sources
  <1>2. tree
    BY <1>1 DEF CurrentInv
  <1>3. Tree \in Targets /\ Tree # Image /\ \A x : Tree # Lib(x) /\ Tree # Prog(x)
    BY TargetKinds, KindFacts
  <1>4. \A m \in Levels : \A l \in remade'[m] : l \in Libs /\ l \in remade[m]
    BY <1>1 DEF StructInv, TypeInv
  <1>5. UNCHANGED done => ~Done(k, Tree)
    <2>1. Tree \notin done[k]
      BY <1>1 DEF StructInv, JobsInv, Goal
    <2>2. Done(k, Tree) => Tree \in done'[k]
      BY <1>3, DoneAdd DEF StructInv
    <2> QED
      BY <2>1, <2>2
  <1>6. (dirty => dirty') /\ (Done(k, Tree) => dirty') /\ (UNCHANGED done \/ Done(k, Tree))
    BY <1>1, <1>5
  <1> QED
    BY <1>1, <1>2, <1>3, <1>4, <1>6, CurrentWrite

LEMMA CurrentCompile ==
  ASSUME StructInv, CurrentInv, NEW k \in Levels, NEW l \in Libs, Compile(k, l)
  PROVE  CurrentInv'
  <1>1. /\ jobs' \subseteq jobs /\ UNCHANGED <<c, h, dirty, tree, built, image, active, last>>
        /\ UNCHANGED done \/ Done(k, Obj(l))
    BY DEF Compile, Ends, sources
  <1>2. /\ Obj(l) \in Targets /\ Obj(l) # Tree /\ Obj(l) # Image
        /\ \A x : Obj(l) # Lib(x) /\ Obj(l) # Prog(x)
    BY TargetKinds, KindFacts
  <1>3. \A x \in Libs : objs'[x] \in {objs[x], None, Version(x)}
    BY DEF Compile, StructInv, TypeInv
  <1>4. \A m \in Levels : \A x \in remade'[m] : x \in Libs /\ (x \in remade[m] \/ objs'[x] = Version(x))
    <2>1. CASE /\ objs' = [objs EXCEPT ![l] = Version(l)]
               /\ remade' = [remade EXCEPT ![k] = @ \union {l}]
      <3>1. objs'[l] = Version(l)
        BY <2>1 DEF StructInv, TypeInv
      <3> QED
        BY <2>1, <3>1 DEF StructInv, TypeInv
    <2>2. CASE UNCHANGED remade
      BY <2>2 DEF StructInv, TypeInv
    <2> QED
      BY <2>1, <2>2 DEF Compile
  <1> QED
    BY <1>1, <1>2, <1>3, <1>4, CurrentWrite

LEMMA CurrentLib ==
  ASSUME StructInv, CurrentInv, NEW k \in Levels, NEW l \in Libs, LinkLib(k, l)
  PROVE  CurrentInv'
  <1> DEFINE ok == tree /\ l \in remade[k] /\ objs[l] # None
  <1>1. /\ <<k, Lib(l)>> \in jobs /\ jobs' \subseteq jobs
        /\ UNCHANGED <<c, h, dirty, tree, objs, image, active, remade, last>>
        /\ \/ ok /\ built' = [built EXCEPT ![l] = objs[l]] /\ Done(k, Lib(l))
           \/ UNCHANGED <<built, done>>
    BY DEF LinkLib, Deliver, Ends, sources
  <1>2. Lib(l) \in Targets /\ Lib(l) # Touch /\ l \in Parts
    BY TargetKinds, KindFacts, PartKinds
  <1>3. k <= active
    BY <1>1, <1>2 DEF StructInv, JobsInv
  <1>4. ok => objs[l] = Version(l)
    BY <1>3 DEF CurrentInv, Made
  <1> HIDE DEF ok
  <1>5. \/ built' = [built EXCEPT ![l] = Version(l)] /\ Done(k, Lib(l))
        \/ UNCHANGED <<built, done>>
    BY <1>1, <1>4
  <1>6. \A x \in Parts : x # l => built'[x] = built[x]
    BY <1>5 DEF StructInv, TypeInv
  <1>7. \A x \in Libs : built'[x] \in {built[x], Version(x)}
    BY <1>2, <1>5, <1>6, PartKinds DEF StructInv, TypeInv
  <1>8. \A p \in Programs : p # l
    BY DEF Programs, Libs
  <1>9. \A p \in Programs : built'[p] = built[p]
    BY <1>6, <1>8, PartKinds
  <1>10. /\ Lib(l) # Tree /\ Lib(l) # Image /\ \A x : Lib(l) # Prog(x)
         /\ \A x : Lib(l) = Lib(x) => x = l
    BY KindFacts
  <1>11. UNCHANGED done => ~Done(k, Lib(l))
    <2>1. Lib(l) \notin done[k]
      BY <1>1, <1>2 DEF StructInv, JobsInv, Goal
    <2>2. Done(k, Lib(l)) => Lib(l) \in done'[k]
      BY <1>2, DoneAdd DEF StructInv
    <2> QED
      BY <2>1, <2>2
  <1>12. Done(k, Lib(l)) => built'[l] = Version(l)
    BY <1>2, <1>5, <1>11 DEF StructInv, TypeInv
  <1>13. \A x \in Libs : Lib(l) = Lib(x) /\ Done(k, Lib(l)) => built'[x] = Version(x)
    BY <1>10, <1>12
  <1>14. \A m \in Levels : \A x \in remade'[m] : x \in Libs /\ x \in remade[m]
    BY <1>1 DEF StructInv, TypeInv
  <1>15. UNCHANGED done \/ Done(k, Lib(l))
    BY <1>1
  <1> QED
    BY <1>1, <1>2, <1>7, <1>9, <1>10, <1>13, <1>14, <1>15, CurrentWrite

LEMMA CurrentProgram ==
  ASSUME StructInv, CurrentInv, NEW k \in Levels, NEW p \in Programs, LinkProgram(k, p)
  PROVE  CurrentInv'
  <1> DEFINE v == [c |-> 0, h |-> h]
  <1>1. /\ <<k, Prog(p)>> \in jobs /\ jobs' \subseteq jobs
        /\ UNCHANGED <<c, h, dirty, tree, objs, image, active, remade, last>>
        /\ \/ built' = [built EXCEPT ![p] = v] /\ Done(k, Prog(p))
           \/ UNCHANGED <<built, done>>
    BY DEF LinkProgram, Deliver, Ends, sources
  <1>2. Prog(p) \in Targets /\ Prog(p) # Touch /\ p \in Parts
    BY TargetKinds, KindFacts, PartKinds
  <1> HIDE DEF v
  <1>6. \A x \in Parts : x # p => built'[x] = built[x]
    BY <1>1 DEF StructInv, TypeInv
  <1>7. \A x \in Programs : built'[x] \in {built[x], v}
    BY <1>1, <1>2, <1>6, PartKinds DEF StructInv, TypeInv
  <1>8. \A l \in Libs : p # l
    BY DEF Programs, Libs
  <1>9. \A l \in Libs : built'[l] = built[l]
    BY <1>6, <1>8, PartKinds
  <1>10. /\ Prog(p) # Tree /\ Prog(p) # Image /\ \A x : Prog(p) # Lib(x)
         /\ \A x : Prog(p) = Prog(x) => x = p
    BY KindFacts
  <1>11. UNCHANGED done => ~Done(k, Prog(p))
    <2>1. Prog(p) \notin done[k]
      BY <1>1, <1>2 DEF StructInv, JobsInv, Goal
    <2>2. Done(k, Prog(p)) => Prog(p) \in done'[k]
      BY <1>2, DoneAdd DEF StructInv
    <2> QED
      BY <2>1, <2>2
  <1>12. Done(k, Prog(p)) => built'[p] = v
    BY <1>1, <1>2, <1>11 DEF StructInv, TypeInv
  <1>13. \A x \in Programs : Prog(p) = Prog(x) /\ Done(k, Prog(p)) => built'[x] = v
    BY <1>10, <1>12
  <1>14. \A m \in Levels : \A x \in remade'[m] : x \in Libs /\ x \in remade[m]
    BY <1>1 DEF StructInv, TypeInv
  <1>15. UNCHANGED done \/ Done(k, Prog(p))
    BY <1>1
  <1> QED
    BY <1>1, <1>2, <1>7, <1>9, <1>10, <1>13, <1>14, <1>15, CurrentWrite DEF v

(* What is packed is made from the sources as they are. *)
LEMMA PackGood ==
  ASSUME StructInv, CurrentInv, NEW k \in Levels, Pack(k)
  PROVE  Good'
  <1>1. /\ <<k, Image>> \in jobs /\ jobs' \subseteq jobs /\ Done(k, Image)
        /\ UNCHANGED <<c, h, dirty, tree, objs, built, active, remade, last>>
    BY DEF Pack, Ends, sources
  <1>2. /\ Image \in Targets /\ Image # Touch /\ Image # Tree
        /\ \A x : Image # Lib(x) /\ Image # Prog(x)
    BY TargetKinds, KindFacts
  <1>3. k <= active /\ Prerequisites[Image] \subseteq done[k]
    BY <1>1, <1>2 DEF StructInv, JobsInv, Goal
  <1>4. Made(k)
    BY <1>3 DEF CurrentInv
  <1>5. \A l \in Libs : built[l] = Version(l)
    BY <1>3, <1>4, PrerequisiteFacts DEF Made
  <1>6. \A p \in Programs : built[p] = [c |-> 0, h |-> h]
    BY <1>3, <1>4, PrerequisiteFacts DEF Made
  <1>7. PICK whole \in BOOLEAN : image' = [parts |-> built, whole |-> whole]
    BY DEF Pack
  <1>8. image' \in Images /\ image'.parts = built
    BY <1>7 DEF StructInv, TypeInv, Images
  <1>9. image' # None
    BY <1>8, NoneAssumption
  <1>10. \A l \in Libs : image'.parts[l] = Version(l)'
    BY <1>1, <1>5, <1>8 DEF Version
  <1>11. \A p \in Programs : image'.parts[p] # None /\ image'.parts[p].h = h'
    BY <1>1, <1>6, <1>8, VersionType DEF StructInv
  <1> QED
    BY <1>9, <1>10, <1>11 DEF Good, Current

LEMMA CurrentPack ==
  ASSUME StructInv, CurrentInv, NEW k \in Levels, Pack(k)
  PROVE  CurrentInv'
  <1>1. /\ jobs' \subseteq jobs /\ Done(k, Image)
        /\ UNCHANGED <<c, h, dirty, tree, objs, built, active, remade, last>>
    BY DEF Pack, Ends, sources
  <1>2. /\ Image \in Targets /\ Image # Tree
        /\ \A x : Image # Lib(x) /\ Image # Prog(x)
    BY TargetKinds, KindFacts
  <1>3. Good'
    BY PackGood
  <1>4. \A m \in Levels : \A x \in remade'[m] : x \in Libs /\ x \in remade[m]
    BY <1>1 DEF StructInv, TypeInv
  <1> QED
    BY <1>1, <1>2, <1>3, <1>4, CurrentWrite

LEMMA CurrentStep ==
  ASSUME StructInv, CurrentInv, [Next]_vars
  PROVE  CurrentInv'
  <1>0. StructInv'
    BY StructStep
  <1>1. CASE CleanLine \/ CleanFails \/ \E k \in Levels : MakeTree(k)
    BY <1>0, <1>1, CurrentTree
  <1>2. CASE \/ InnerEnds
             \/ \E k \in Levels : StartInner(k) \/ \E t \in Targets : Skip(k, t) \/ Start(k, t)
             \/ UNCHANGED vars
    <2>1. UNCHANGED <<c, h, dirty, tree, objs, built, image, remade, last>>
      BY <1>2 DEF StartInner, InnerEnds, Skip, Start, vars, sources, disk, make
    <2> QED
      BY <1>2, <2>1, CurrentNoWrite
  <1>3. ASSUME NEW k \in Levels, NEW l \in Libs, Compile(k, l) \/ LinkLib(k, l) PROVE CurrentInv'
    BY <1>3, CurrentCompile, CurrentLib
  <1>4. ASSUME NEW k \in Levels, NEW p \in Programs, LinkProgram(k, p) PROVE CurrentInv'
    BY <1>4, CurrentProgram
  <1>5. ASSUME NEW k \in Levels, TouchDirty(k) \/ Pack(k) PROVE CurrentInv'
    BY <1>5, CurrentTouch, CurrentPack
  <1>6. CASE BuildEnds
    <2>1. /\ active = 1 /\ active' = 0 /\ UNCHANGED <<c, h, image, jobs, tree>>
          /\ last' = "ok" => failed[1] = None
          /\ Image \in done[1] \/ failed[1] # None
      BY <1>6 DEF BuildEnds, Over, sources, disk
    <2>2. Made(1)
      BY <2>1, LevelFacts DEF CurrentInv
    <2>3. last' = "ok" => Good'
      BY <2>1, <2>2, GoodKept DEF Made
    <2>4. \A m \in Levels : ~(m <= active')
      BY <2>1 DEF Levels
    <2> QED
      BY <2>1, <2>3, <2>4 DEF CurrentInv
  <1>7. CASE RunBuild
    <2>1. active' = 1 /\ done'[1] = {} /\ remade'[1] = {} /\ jobs' = {} /\ last' = "none"
      BY <1>7, LevelFacts DEF RunBuild, Begin, StructInv, TypeInv
    <2>2. Made(1)'
      BY <2>1 DEF Made
    <2>3. ASSUME NEW m \in Levels, m <= active' PROVE Made(m)'
      <3>1. m = 1
        BY <2>1, <2>3 DEF Levels
      <3> QED
        BY <2>2, <3>1
    <2> QED
      BY <2>1, <2>3 DEF CurrentInv
  <1>8. CASE RunClean \/ Edit \/ Interrupt
    <2>1. active' = 0 /\ last' = "none" /\ jobs' \subseteq jobs /\ UNCHANGED tree
      BY <1>8 DEF RunClean, Edit, Interrupt, Idle, make, disk
    <2>2. \A m \in Levels : ~(m <= active')
      BY <2>1 DEF Levels
    <2> QED
      BY <2>1, <2>2 DEF CurrentInv
  <1> QED
    BY <1>1, <1>2, <1>3, <1>4, <1>5, <1>6, <1>7, <1>8 DEF Next, MakeStep

LEMMA BuildCurrent == Spec => [](StructInv /\ CurrentInv)
  <1>1. Init => CurrentInv
    BY DEF Init, CurrentInv, Levels
  <1>2. StructInv /\ CurrentInv /\ [Next]_vars => CurrentInv'
    BY CurrentStep
  <1> QED
    BY <1>1, <1>2, BuildStructure, PTL DEF Spec

(* However many jobs make runs, and whatever earlier builds have left      *)
(* behind, a build that reports success has packed every part, and all of  *)
(* them are made from the sources as they are.                             *)
THEOREM BuildSuccessIsCurrent == Spec => []SuccessIsCurrent
  <1>1. CurrentInv => SuccessIsCurrent
    BY DEF CurrentInv, Good, SuccessIsCurrent
  <1> QED
    BY <1>1, BuildCurrent, PTL
-----------------------------------------------------------------------------
(* One job                                                                 *)

LEMMA OrderKept ==
  ASSUME OrderInv,
         \A m \in Levels : \A t \in Targets : Reached(m, t)' => Reached(m, t),
         \A m \in Levels : done[m] \subseteq done'[m]
  PROVE  OrderInv'
  <1> SUFFICES ASSUME NEW m \in Levels, NEW t \in Targets, Reached(m, t)',
                      NEW u \in Targets, Place[u] < Place[t]
               PROVE  u \in done'[m]
    BY DEF OrderInv
  <1>1. Reached(m, t)
    OBVIOUS
  <1>2. u \in done[m]
    BY <1>1 DEF OrderInv
  <1> QED
    BY <1>2

LEMMA OrderStarts ==
  ASSUME OrderInv, Jobs = 1, NEW k \in Levels, NEW t \in Targets, CanStart(k, t),
         \A m \in Levels : \A u \in Targets : Reached(m, u)' => Reached(m, u) \/ (m = k /\ u = t),
         \A m \in Levels : done[m] \subseteq done'[m]
  PROVE  OrderInv'
  <1>1. \A u \in Targets : Place[u] < Place[t] => u \in done[k]
    BY DEF CanStart, JobsAt
  <1> SUFFICES ASSUME NEW m \in Levels, NEW v \in Targets, Reached(m, v)',
                      NEW u \in Targets, Place[u] < Place[v]
               PROVE  u \in done'[m]
    BY DEF OrderInv
  <1>2. CASE Reached(m, v)
    BY <1>2 DEF OrderInv
  <1>3. CASE m = k /\ v = t
    BY <1>1, <1>3
  <1> QED
    BY <1>2, <1>3

LEMMA OrderEnds ==
  ASSUME OrderInv, StructInv, NEW k \in Levels, NEW t \in Targets \union {Touch}, <<k, t>> \in jobs,
         Ends(k, t), UNCHANGED done \/ Done(k, Goal(t))
  PROVE  OrderInv'
  <1>1. Goal(t) \in Targets
    BY GoalIsTarget
  <1>2. \A m \in Levels : /\ done[m] \subseteq done'[m]
                          /\ done'[m] \subseteq done[m] \union {Goal(t)}
                          /\ m # k => done'[m] = done[m]
    BY <1>1, DoneGrows DEF StructInv
  <1>3. Reached(k, Goal(t))
    BY DEF Reached, Goal
  <1>4. jobs' \subseteq jobs
    BY DEF Ends
  <1>5. ASSUME NEW m \in Levels, NEW u \in Targets, Reached(m, u)' PROVE Reached(m, u)
    BY <1>2, <1>3, <1>4, <1>5 DEF Reached
  <1> QED
    BY <1>2, <1>5, OrderKept

LEMMA OrderBegins ==
  ASSUME OrderInv, StructInv, NEW k \in Levels, Begin(k), jobs' \subseteq jobs,
         \A t \in Targets \union {Touch} : <<k, t>> \notin jobs'
  PROVE  OrderInv'
  <1>1. done'[k] = {} /\ \A m \in Levels : m # k => done'[m] = done[m]
    BY DEF Begin, StructInv, TypeInv
  <1> SUFFICES ASSUME NEW m \in Levels, NEW v \in Targets, Reached(m, v)',
                      NEW u \in Targets, Place[u] < Place[v]
               PROVE  u \in done'[m]
    BY DEF OrderInv
  <1>2. m # k
    BY <1>1 DEF Reached
  <1>3. Reached(m, v)
    BY <1>1, <1>2 DEF Reached
  <1>4. u \in done[m]
    BY <1>3 DEF OrderInv
  <1> QED
    BY <1>1, <1>2, <1>4

LEMMA OrderStep ==
  ASSUME StructInv, OrderInv, Jobs = 1, [Next]_vars
  PROVE  OrderInv'
  <1>1. CASE CleanLine \/ CleanFails
    <2>1. UNCHANGED jobs
      BY <1>1, CleanSteps
    <2>2. CASE active + 1 \in Levels /\ Begin(active + 1)
      <3>1. PICK k \in Levels : k = active + 1
        BY <2>2
      <3>2. active < k
        BY <3>1, LevelFacts DEF StructInv, TypeInv
      <3>3. \A t \in Targets \union {Touch} : <<k, t>> \notin jobs
        BY <3>2, NoneRuns
      <3> QED
        BY <2>1, <2>2, <3>1, <3>3, OrderBegins
    <2>3. CASE UNCHANGED <<active, done, remade, failed>>
      BY <2>1, <2>3, OrderKept DEF Reached
    <2> QED
      BY <1>1, <2>2, <2>3, CleanSteps
  <1>2. ASSUME NEW k \in Levels, StartInner(k) PROVE OrderInv'
    <2>1. CanStart(k, IsClean) /\ jobs' = jobs \union {<<k, IsClean>>} /\ UNCHANGED done /\ IsClean \in Targets
      BY <1>2, TargetKinds DEF StartInner
    <2>2. \A m \in Levels : \A u \in Targets : Reached(m, u)' => Reached(m, u) \/ (m = k /\ u = IsClean)
      BY <2>1, KindFacts DEF Reached
    <2> QED
      BY <2>1, <2>2, OrderStarts
  <1>3. CASE InnerEnds \/ BuildEnds \/ RunClean \/ Edit \/ Interrupt \/ UNCHANGED vars
    <2>1. UNCHANGED done /\ jobs' \subseteq jobs
      BY <1>3 DEF InnerEnds, BuildEnds, RunClean, Edit, Interrupt, vars, make, Ends
    <2>2. \A m \in Levels : \A u \in Targets : Reached(m, u)' => Reached(m, u)
      BY <2>1 DEF Reached
    <2> QED
      BY <2>1, <2>2, OrderKept
  <1>4. ASSUME NEW k \in Levels, NEW t \in Targets, Skip(k, t) \/ Start(k, t) PROVE OrderInv'
    <2>1. CanStart(k, t)
      BY <1>4 DEF Skip, Start
    <2>2. \A m \in Levels : /\ done[m] \subseteq done'[m]
                            /\ done'[m] \subseteq done[m] \union {t}
                            /\ m # k => done'[m] = done[m]
      BY <1>4, DoneGrows DEF Skip, Start, StructInv
    <2>3. jobs' \subseteq jobs \union {<<k, t>>}
      BY <1>4 DEF Skip, Start
    <2>4. t # Touch
      BY TargetKinds
    <2>5. \A m \in Levels : \A u \in Targets : Reached(m, u)' => Reached(m, u) \/ (m = k /\ u = t)
      BY <2>2, <2>3, <2>4 DEF Reached
    <2> QED
      BY <2>1, <2>2, <2>5, OrderStarts
  <1>5. ASSUME NEW k \in Levels, MakeTree(k) PROVE OrderInv'
    <2>1. UNCHANGED done /\ jobs' \subseteq jobs \union {<<k, Touch>>} /\ <<k, Tree>> \in jobs
      BY <1>5 DEF MakeTree, Ends
    <2>2. Touch \notin Targets
      BY TargetKinds
    <2>3. \A m \in Levels : \A u \in Targets : Reached(m, u)' => Reached(m, u)
      BY <2>1, <2>2 DEF Reached
    <2> QED
      BY <2>1, <2>3, OrderKept
  <1>6. ASSUME NEW k \in Levels, TouchDirty(k) PROVE OrderInv'
    <2>1. Goal(Touch) = Tree
      BY DEF Goal
    <2> QED
      BY <1>6, <2>1, OrderEnds DEF TouchDirty
  <1>7. ASSUME NEW k \in Levels, Pack(k) PROVE OrderInv'
    <2>1. Image \in Targets /\ Goal(Image) = Image
      BY TargetKinds DEF Goal
    <2> QED
      BY <1>7, <2>1, OrderEnds DEF Pack
  <1>8. ASSUME NEW k \in Levels, NEW l \in Libs, Compile(k, l) PROVE OrderInv'
    <2>1. Obj(l) \in Targets /\ Goal(Obj(l)) = Obj(l)
      BY TargetKinds DEF Goal
    <2> QED
      BY <1>8, <2>1, OrderEnds DEF Compile
  <1>9. ASSUME NEW k \in Levels, NEW l \in Libs, LinkLib(k, l) PROVE OrderInv'
    <2>1. Lib(l) \in Targets /\ Goal(Lib(l)) = Lib(l)
      BY TargetKinds DEF Goal
    <2>2. <<k, Lib(l)>> \in jobs /\ Ends(k, Lib(l)) /\ (UNCHANGED done \/ Done(k, Lib(l)))
      BY <1>9 DEF LinkLib, Deliver
    <2> QED
      BY <2>1, <2>2, OrderEnds
  <1>10. ASSUME NEW k \in Levels, NEW p \in Programs, LinkProgram(k, p) PROVE OrderInv'
    <2>1. Prog(p) \in Targets /\ Goal(Prog(p)) = Prog(p)
      BY TargetKinds DEF Goal
    <2>2. <<k, Prog(p)>> \in jobs /\ Ends(k, Prog(p)) /\ (UNCHANGED done \/ Done(k, Prog(p)))
      BY <1>10 DEF LinkProgram, Deliver
    <2> QED
      BY <2>1, <2>2, OrderEnds
  <1>11. CASE RunBuild
    <2>1. Begin(1) /\ jobs' = {}
      BY <1>11 DEF RunBuild
    <2> QED
      BY <2>1, LevelFacts, OrderBegins
  <1> QED
    BY <1>1, <1>2, <1>3, <1>4, <1>5, <1>6, <1>7, <1>8, <1>9, <1>10, <1>11 DEF Next, MakeStep

(* What the order means for the recipes that need something. *)
LEMMA OrderFacts ==
  ASSUME OrderInv, NEW k \in Levels
  PROVE  /\ \A t \in Targets : t # IsClean /\ Reached(k, t) => IsClean \in done[k]
         /\ \A l \in Libs : Reached(k, Obj(l)) => Tree \in done[k]
         /\ \A p \in Programs : \A l \in Libs : Reached(k, Prog(p)) => Lib(l) \in done[k]
  <1>1. ASSUME NEW t \in Targets, t # IsClean, Reached(k, t) PROVE IsClean \in done[k]
    <2>1. Place[t] \in 1..14 /\ Order[Place[t]] = t /\ Place[IsClean] = 1 /\ IsClean \in Targets
      BY Places, TargetKinds
    <2>2. Place[t] # 1
      BY <1>1, <2>1, OrderAt
    <2>3. Place[IsClean] < Place[t]
      BY <2>1, <2>2
    <2> QED
      BY <1>1, <2>1, <2>3 DEF OrderInv
  <1>2. ASSUME NEW l \in Libs, Reached(k, Obj(l)) PROVE Tree \in done[k]
    <2>1. Place[Tree] = 2 /\ Place[Obj(l)] \in 3..8 /\ Tree \in Targets /\ Obj(l) \in Targets
      BY Places, TargetKinds
    <2>2. Place[Tree] < Place[Obj(l)]
      BY <2>1
    <2> QED
      BY <1>2, <2>1, <2>2 DEF OrderInv
  <1>3. ASSUME NEW p \in Programs, NEW l \in Libs, Reached(k, Prog(p)) PROVE Lib(l) \in done[k]
    <2>1. Place[Lib(l)] \in 3..8 /\ Place[Prog(p)] \in 9..13 /\ Lib(l) \in Targets /\ Prog(p) \in Targets
      BY Places, TargetKinds
    <2>2. Place[Lib(l)] < Place[Prog(p)]
      BY <2>1
    <2> QED
      BY <1>3, <2>1, <2>2 DEF OrderInv
  <1> QED
    BY <1>1, <1>2, <1>3

(* The step touches neither the objects nor what ObjectsInv says of what   *)
(* is done.                                                                *)
LEMMA ObjectsKept ==
  ASSUME ObjectsInv, UNCHANGED <<objs, remade>>, active \in Nat, active' \in Nat, active' <= active,
         dirty => dirty', clean' = 3 => clean = 3,
         \A m \in Levels : \A t \in Targets : t \in done'[m] =>
           t \in done[m] \/ t[1] \in {"tree", "lib", "prog", "image"}
  PROVE  ObjectsInv'
  <1>1. ASSUME NEW m \in Levels PROVE /\ IsClean \in done'[m] => IsClean \in done[m]
                                      /\ \A l \in Libs : Obj(l) \in done'[m] => Obj(l) \in done[m]
    BY TargetKinds, KindFacts
  <1>2. ASSUME NEW m \in Levels, m <= active', IsClean \in done'[m]
        PROVE  \A l \in Libs : objs'[l] # None => l \in remade'[m]
    <2>1. m <= active /\ IsClean \in done[m]
      BY <1>1, <1>2 DEF Levels
    <2> QED
      BY <2>1 DEF ObjectsInv
  <1>3. ASSUME NEW m \in Levels, NEW l \in Libs, m <= active', Obj(l) \in done'[m]
        PROVE  l \in remade'[m] /\ objs'[l] # None
    <2>1. m <= active /\ Obj(l) \in done[m]
      BY <1>1, <1>3 DEF Levels
    <2> QED
      BY <2>1 DEF ObjectsInv
  <1>4. clean' = 3 => \A l \in Libs : objs'[l] = None
    BY DEF ObjectsInv
  <1>5. (\E l \in Libs : objs'[l] # None) => dirty'
    BY DEF ObjectsInv
  <1> QED
    BY <1>2, <1>3, <1>4, <1>5 DEF ObjectsInv

LEMMA ObjectsClean ==
  ASSUME StructInv, OrderInv, ObjectsInv, CleanLine \/ CleanFails
  PROVE  ObjectsInv'
  <1>1. clean \in 1..3 /\ \A l \in Libs : objs'[l] \in {None, objs[l]}
    BY CleanSteps
  <1>2. \A m \in Levels : m <= active => Tree \notin done[m]
    BY <1>1, TreeIsAlone
  <1>3. \A m \in Levels : m <= active => \A l \in Libs : Obj(l) \notin done[m]
    BY <1>2, OrderFacts DEF Reached
  <1>4. ASSUME NEW m \in Levels, m <= active'
        PROVE  \/ m <= active /\ done'[m] = done[m] /\ remade'[m] = remade[m]
               \/ done'[m] = {}
    <2>1. CASE active + 1 \in Levels /\ Begin(active + 1)
      <3>1. PICK k \in Levels : k = active + 1
        BY <2>1
      <3>2. /\ active' = k /\ done'[k] = {}
            /\ m # k => done'[m] = done[m] /\ remade'[m] = remade[m]
        BY <2>1, <3>1 DEF Begin, StructInv, TypeInv
      <3>3. m # k => m <= active
        BY <1>4, <3>1, <3>2 DEF StructInv, TypeInv, Levels
      <3> QED
        BY <3>2, <3>3
    <2>2. CASE UNCHANGED <<active, done, remade, failed>>
      BY <1>4, <2>2
    <2> QED
      BY <2>1, <2>2, CleanSteps
  <1>5. ASSUME NEW m \in Levels, m <= active', IsClean \in done'[m]
        PROVE  \A l \in Libs : objs'[l] # None => l \in remade'[m]
    BY <1>1, <1>4, <1>5 DEF ObjectsInv
  <1>6. ASSUME NEW m \in Levels, NEW l \in Libs, m <= active' PROVE Obj(l) \notin done'[m]
    BY <1>3, <1>4, <1>6
  <1>7. clean' = 3 => \A l \in Libs : objs'[l] = None
    BY <1>1 DEF CleanLine, CleanFails
  <1>8. (\E l \in Libs : objs'[l] # None) => dirty'
    <2>1. CASE clean = 3 /\ CleanLine
      BY <1>1, <2>1 DEF ObjectsInv
    <2>2. CASE UNCHANGED dirty
      BY <1>1, <2>2 DEF ObjectsInv
    <2> QED
      BY <2>1, <2>2 DEF CleanLine, CleanFails
  <1> QED
    BY <1>5, <1>6, <1>7, <1>8 DEF ObjectsInv

LEMMA ObjectsSkip ==
  ASSUME StructInv, OrderInv, ObjectsInv, Jobs = 1, NEW k \in Levels, NEW t \in Targets, Skip(k, t)
  PROVE  ObjectsInv'
  <1>1. UNCHANGED <<objs, remade, dirty, active, clean>>
    BY DEF Skip, disk
  <1>2. done'[k] = done[k] \union {t} /\ \A m \in Levels : m # k => done'[m] = done[m]
    BY DoneAdd DEF Skip, StructInv
  <1>3. k <= active
    BY DEF Skip, CanStart, StructInv, TypeInv
  <1>4. t = IsClean => \A l \in Libs : objs[l] = None
    <2>1. t = IsClean => ~dirty
      BY KindFacts DEF Skip
    <2> QED
      BY <2>1 DEF ObjectsInv
  <1>5. ASSUME NEW l \in Libs, t = Obj(l) PROVE l \in remade[k] /\ objs[l] # None
    <2>1. UpToDate(l)
      BY <1>5, KindFacts DEF Skip
    <2>2. Place[IsClean] < Place[t] /\ IsClean \in Targets
      <3>1. Place[IsClean] = 1 /\ Place[t] \in 3..8
        BY <1>5, Places
      <3> QED
        BY <3>1, TargetKinds
    <2>3. IsClean \in done[k]
      BY <2>2 DEF Skip, CanStart, JobsAt
    <2> QED
      BY <1>3, <2>1, <2>3 DEF ObjectsInv, UpToDate
  <1>6. ASSUME NEW m \in Levels, m <= active', IsClean \in done'[m]
        PROVE  \A l \in Libs : objs'[l] # None => l \in remade'[m]
    <2>1. CASE IsClean \in done[m]
      BY <1>1, <1>6, <2>1 DEF ObjectsInv
    <2>2. CASE IsClean \notin done[m]
      <3>1. t = IsClean
        BY <1>2, <1>6, <2>2
      <3> QED
        BY <1>1, <1>4, <3>1
    <2> QED
      BY <2>1, <2>2
  <1>7. ASSUME NEW m \in Levels, NEW l \in Libs, m <= active', Obj(l) \in done'[m]
        PROVE  l \in remade'[m] /\ objs'[l] # None
    <2>1. CASE Obj(l) \in done[m]
      BY <1>1, <1>7, <2>1 DEF ObjectsInv
    <2>2. CASE Obj(l) \notin done[m]
      <3>1. t = Obj(l) /\ m = k
        BY <1>2, <1>7, <2>2
      <3> QED
        BY <1>1, <1>5, <3>1
    <2> QED
      BY <2>1, <2>2
  <1> QED
    BY <1>1, <1>6, <1>7 DEF ObjectsInv

(* A compilation ends, and makes the object, or leaves the old one, or     *)
(* none.                                                                   *)
LEMMA ObjectsCompile ==
  ASSUME StructInv, CurrentInv, OrderInv, ObjectsInv, NEW k \in Levels, NEW l \in Libs, Compile(k, l)
  PROVE  ObjectsInv'
  <1>1. /\ \/ /\ objs' = [objs EXCEPT ![l] = Version(l)]
              /\ remade' = [remade EXCEPT ![k] = @ \union {l}] /\ Done(k, Obj(l))
           \/ objs' \in {objs, [objs EXCEPT ![l] = None]} /\ UNCHANGED <<remade, done>>
        /\ <<k, Obj(l)>> \in jobs /\ UNCHANGED <<dirty, active, clean>>
    BY DEF Compile
  <1>2. Obj(l) \in Targets /\ Obj(l) # IsClean /\ Obj(l) # Touch
    BY TargetKinds, KindFacts
  <1>3. k <= active /\ Obj(l) \notin done[k]
    BY <1>1, <1>2 DEF StructInv, JobsInv, Goal
  <1>4. IsClean \in done[k] /\ Tree \in done[k]
    BY <1>1, <1>2, OrderFacts DEF Reached
  <1>5. <<k, IsClean>> \notin jobs
    BY <1>4, Waits
  <1>6. k = active /\ clean = 0 /\ dirty
    BY <1>3, <1>4, <1>5, Innermost DEF CurrentInv, Made
  <1>7. ASSUME NEW m \in Levels, m # k, m <= active
        PROVE  IsClean \notin done[m] /\ \A x \in Libs : Obj(x) \notin done[m]
    <2>1. <<m, IsClean>> \in jobs
      BY <1>6, <1>7, Innermost
    <2>2. IsClean \notin done[m]
      BY <2>1, Waits
    <2> QED
      BY <2>2, OrderFacts, TargetKinds, KindFacts DEF Reached
  <1>8. \A x \in Libs : x # l => objs'[x] = objs[x]
    BY <1>1 DEF StructInv, TypeInv
  <1>9. CASE UNCHANGED <<remade, done>> /\ objs' \in {objs, [objs EXCEPT ![l] = None]}
    <2>1. objs'[l] \in {objs[l], None}
      BY <1>9 DEF StructInv, TypeInv
    <2>2. ASSUME NEW m \in Levels, m <= active', IsClean \in done'[m]
          PROVE  \A x \in Libs : objs'[x] # None => x \in remade'[m]
      BY <1>1, <1>8, <1>9, <2>1, <2>2 DEF ObjectsInv
    <2>3. ASSUME NEW m \in Levels, NEW x \in Libs, m <= active', Obj(x) \in done'[m]
          PROVE  x \in remade'[m] /\ objs'[x] # None
      <3>1. m = k /\ Obj(x) \in done[k]
        BY <1>1, <1>7, <1>9, <2>3
      <3>2. x # l
        BY <1>3, <3>1
      <3> QED
        BY <1>3, <1>8, <1>9, <3>1, <3>2 DEF ObjectsInv
    <2> QED
      BY <1>1, <1>6, <2>2, <2>3 DEF ObjectsInv
  <1>10. CASE /\ objs' = [objs EXCEPT ![l] = Version(l)]
              /\ remade' = [remade EXCEPT ![k] = @ \union {l}] /\ Done(k, Obj(l))
    <2>1. objs'[l] # None
      BY <1>10, VersionType DEF StructInv, TypeInv
    <2>2. remade'[k] = remade[k] \union {l} /\ \A m \in Levels : m # k => remade'[m] = remade[m]
      BY <1>10 DEF StructInv, TypeInv
    <2>3. done'[k] = done[k] \union {Obj(l)} /\ \A m \in Levels : m # k => done'[m] = done[m]
      BY <1>2, <1>10, DoneAdd DEF StructInv
    <2>4. ASSUME NEW m \in Levels, m <= active', IsClean \in done'[m]
          PROVE  \A x \in Libs : objs'[x] # None => x \in remade'[m]
      <3>1. m = k
        BY <1>1, <1>7, <2>3, <2>4
      <3> QED
        BY <1>3, <1>4, <1>8, <2>2, <3>1 DEF ObjectsInv
    <2>5. ASSUME NEW m \in Levels, NEW x \in Libs, m <= active', Obj(x) \in done'[m]
          PROVE  x \in remade'[m] /\ objs'[x] # None
      <3>1. CASE Obj(x) \in done[m]
        <4>1. x \in remade[m] /\ objs[x] # None
          BY <1>1, <2>5, <3>1 DEF ObjectsInv
        <4> QED
          BY <1>8, <2>1, <2>2, <4>1
      <3>2. CASE Obj(x) \notin done[m]
        <4>1. m = k /\ Obj(x) = Obj(l)
          BY <2>3, <2>5, <3>2
        <4>2. x = l
          BY <4>1, KindFacts
        <4> QED
          BY <2>1, <2>2, <4>1, <4>2
      <3> QED
        BY <3>1, <3>2
    <2> QED
      BY <1>1, <1>6, <2>4, <2>5 DEF ObjectsInv
  <1> QED
    BY <1>1, <1>9, <1>10

(* A recipe that is no compilation ends. *)
LEMMA ObjectsEnds ==
  ASSUME StructInv, ObjectsInv, UNCHANGED <<objs, remade, active, clean>>, dirty => dirty',
         NEW k \in Levels, NEW g \in Targets, g[1] \in {"tree", "lib", "prog", "image"},
         UNCHANGED done \/ Done(k, g)
  PROVE  ObjectsInv'
  <1>1. \A m \in Levels : done'[m] \subseteq done[m] \union {g}
    BY DoneGrows DEF StructInv
  <1>2. active \in Nat /\ active' \in Nat /\ active' <= active
    BY LevelFacts DEF StructInv, TypeInv
  <1>3. \A m \in Levels : \A t \in Targets : t \in done'[m] =>
          t \in done[m] \/ t[1] \in {"tree", "lib", "prog", "image"}
    BY <1>1
  <1> QED
    BY <1>2, <1>3, ObjectsKept

LEMMA ObjectsStep ==
  ASSUME StructInv, CurrentInv, OrderInv, ObjectsInv, Jobs = 1, [Next]_vars
  PROVE  ObjectsInv'
  <1>1. CASE CleanLine \/ CleanFails
    BY <1>1, ObjectsClean
  <1>2. ASSUME NEW k \in Levels, NEW t \in Targets, Skip(k, t) PROVE ObjectsInv'
    BY <1>2, ObjectsSkip
  <1>3. ASSUME NEW k \in Levels, NEW l \in Libs, Compile(k, l) PROVE ObjectsInv'
    BY <1>3, ObjectsCompile
  <1>4. CASE \/ InnerEnds \/ BuildEnds \/ UNCHANGED vars
             \/ \E k \in Levels : StartInner(k) \/ MakeTree(k) \/ \E t \in Targets : Start(k, t)
    <2>1. UNCHANGED <<objs, remade, dirty, done>>
      BY <1>4 DEF StartInner, InnerEnds, BuildEnds, MakeTree, Start, vars, disk, make
    <2>2. active \in Nat
      BY LevelFacts DEF StructInv, TypeInv
    <2>3. /\ active' = active \/ (active > 0 /\ active' = active - 1)
          /\ clean' = 3 => clean = 3
      <3>1. CASE InnerEnds \/ BuildEnds
        BY <2>2, <3>1 DEF InnerEnds, BuildEnds
      <3>2. CASE UNCHANGED active /\ (UNCHANGED clean \/ clean' = 1)
        BY <3>2
      <3> QED
        BY <1>4, <3>1, <3>2 DEF StartInner, MakeTree, Start, vars, make
    <2>4. active' \in Nat /\ active' <= active
      BY <2>2, <2>3
    <2> QED
      BY <2>1, <2>2, <2>3, <2>4, ObjectsKept
  <1>5. ASSUME NEW k \in Levels, TouchDirty(k) PROVE ObjectsInv'
    <2>1. Tree \in Targets /\ Tree[1] = "tree"
      BY TargetKinds, KindFacts
    <2>2. UNCHANGED <<objs, remade, active, clean>> /\ (dirty => dirty') /\ (UNCHANGED done \/ Done(k, Tree))
      BY <1>5 DEF TouchDirty
    <2> QED
      BY <2>1, <2>2, ObjectsEnds
  <1>6. ASSUME NEW k \in Levels, Pack(k) PROVE ObjectsInv'
    <2>1. Image \in Targets /\ Image[1] = "image"
      BY TargetKinds, KindFacts
    <2>2. UNCHANGED <<objs, remade, active, clean, dirty>> /\ Done(k, Image)
      BY <1>6 DEF Pack
    <2> QED
      BY <2>1, <2>2, ObjectsEnds
  <1>7. ASSUME NEW k \in Levels, NEW l \in Libs, LinkLib(k, l) PROVE ObjectsInv'
    <2>1. Lib(l) \in Targets /\ Lib(l)[1] = "lib"
      BY TargetKinds, KindFacts
    <2>2. UNCHANGED <<objs, remade, active, clean, dirty>> /\ (UNCHANGED done \/ Done(k, Lib(l)))
      BY <1>7 DEF LinkLib, Deliver
    <2> QED
      BY <2>1, <2>2, ObjectsEnds
  <1>8. ASSUME NEW k \in Levels, NEW p \in Programs, LinkProgram(k, p) PROVE ObjectsInv'
    <2>1. Prog(p) \in Targets /\ Prog(p)[1] = "prog"
      BY TargetKinds, KindFacts
    <2>2. UNCHANGED <<objs, remade, active, clean, dirty>> /\ (UNCHANGED done \/ Done(k, Prog(p)))
      BY <1>8 DEF LinkProgram, Deliver
    <2> QED
      BY <2>1, <2>2, ObjectsEnds
  <1>9. CASE RunBuild
    <2>1. active' = 1 /\ done'[1] = {} /\ clean' = 0 /\ UNCHANGED <<objs, dirty>>
      BY <1>9, LevelFacts DEF RunBuild, Begin, Idle, disk, StructInv, TypeInv
    <2>2. \A m \in Levels : m <= active' => done'[m] = {}
      BY <2>1 DEF Levels
    <2> QED
      BY <2>1, <2>2 DEF ObjectsInv
  <1>10. CASE RunClean \/ Edit \/ Interrupt
    <2>1. active' = 0 /\ clean' # 3 /\ UNCHANGED <<objs, dirty>>
      BY <1>10 DEF RunClean, Edit, Interrupt, Idle, disk, make
    <2>2. \A m \in Levels : ~(m <= active')
      BY <2>1 DEF Levels
    <2> QED
      BY <2>1, <2>2 DEF ObjectsInv
  <1> QED
    BY <1>1, <1>2, <1>3, <1>4, <1>5, <1>6, <1>7, <1>8, <1>9, <1>10 DEF Next, MakeStep

LEMMA FailsAt ==
  ASSUME TypeInv, NEW k \in Levels, NEW t, Fails(k, t)
  PROVE  /\ failed'[k] = IF failed[k] = None THEN t ELSE failed[k]
         /\ \A m \in Levels : m # k => failed'[m] = failed[m]
  BY DEF TypeInv, Fails

(* With one job no library and no program fails to be linked. *)
LEMMA LinksSucceed ==
  ASSUME StructInv, CurrentInv, OrderInv, ObjectsInv, NEW k \in Levels
  PROVE  /\ \A l \in Libs : <<k, Lib(l)>> \in jobs => tree /\ l \in remade[k] /\ objs[l] # None
         /\ \A p \in Programs : <<k, Prog(p)>> \in jobs => tree /\ Missing = {}
  <1>1. ASSUME NEW l \in Libs, <<k, Lib(l)>> \in jobs
        PROVE  tree /\ l \in remade[k] /\ objs[l] # None
    <2>1. Lib(l) \in Targets /\ Lib(l) # Touch
      BY TargetKinds, KindFacts
    <2>2. k <= active /\ Obj(l) \in done[k] /\ Tree \in done[k]
      BY <1>1, <2>1, PrerequisiteFacts DEF StructInv, JobsInv, Goal
    <2> QED
      BY <2>2 DEF CurrentInv, Made, ObjectsInv
  <1>2. ASSUME NEW p \in Programs, <<k, Prog(p)>> \in jobs
        PROVE  tree /\ Missing = {}
    <2>1. Prog(p) \in Targets /\ Prog(p) # Touch
      BY TargetKinds, KindFacts
    <2>2. k <= active /\ Tree \in done[k]
      BY <1>2, <2>1, PrerequisiteFacts DEF StructInv, JobsInv, Goal
    <2>3. \A l \in Libs : Lib(l) \in done[k]
      BY <1>2, OrderFacts DEF Reached
    <2>4. tree /\ \A l \in Libs : built[l] = Version(l)
      BY <2>2, <2>3 DEF CurrentInv, Made
    <2>5. \A l \in Libs : built[l] # None
      BY <2>4, VersionType DEF StructInv
    <2> QED
      BY <2>4, <2>5 DEF Missing
  <1> QED
    BY <1>1, <1>2

(* The step changes no failure. *)
LEMMA FailedKept ==
  ASSUME FailedInv, UNCHANGED <<failed, broken, active, last>>, Good => Good'
  PROVE  FailedInv'
  BY DEF FailedInv

(* A command has failed that has all it needs. *)
LEMMA FailedBreaks ==
  ASSUME StructInv, FailedInv, UNCHANGED <<active, last>>, broken' = TRUE,
         NEW k \in Levels, NEW t \in Targets \union {Touch}, <<k, t>> \in jobs
  PROVE  FailedInv'
  <1>1. active > 0
    <2>1. k <= active
      BY DEF StructInv, JobsInv
    <2> QED
      BY <2>1, LevelFacts DEF StructInv, TypeInv, Levels
  <1>2. last' = "none"
    BY <1>1 DEF FailedInv
  <1> QED
    BY <1>2 DEF FailedInv

LEMMA FailedStep ==
  ASSUME StructInv, CurrentInv, OrderInv, ObjectsInv, FailedInv, Jobs = 1, [Next]_vars
  PROVE  FailedInv'
  <1>0. None # IsClean /\ broken \in BOOLEAN
    BY NoneAssumption, TargetKinds DEF StructInv, TypeInv
  <1>1. CASE CleanLine \/ CleanFails
    <2>1. UNCHANGED <<c, h, image, last, jobs, broken>>
      BY <1>1, CleanSteps
    <2>2. Good' <=> Good
      BY <2>1, GoodKept
    <2>3. CASE active > 0 /\ active + 1 \in Levels /\ Begin(active + 1)
      <3>1. active' > 0 /\ \A m \in Levels : failed'[m] \in {None, failed[m]}
        BY <2>3, LevelFacts DEF Begin, StructInv, TypeInv
      <3> QED
        BY <1>0, <2>1, <2>2, <2>3, <3>1 DEF FailedInv
    <2>4. CASE UNCHANGED <<active, done, remade, failed>>
      BY <2>1, <2>2, <2>4, FailedKept
    <2> QED
      BY <1>1, <2>3, <2>4, CleanSteps
  <1>2. CASE InnerEnds
    <2>1. /\ active > 1 /\ active' = active - 1 /\ UNCHANGED <<c, h, image, last, broken>>
          /\ Image \in done[active] \/ failed[active] # None
          /\ Fails(active - 1, IsClean)
      BY <1>2 DEF InnerEnds, Over, sources, disk
    <2>2. PICK k \in Levels, i \in Levels : k = active /\ i = active - 1
      BY <2>1, LevelFacts DEF StructInv, TypeInv, Levels
    <2>3. last = "none" /\ active > 0 /\ active' > 0 /\ k <= active
      BY <2>1, <2>2, LevelFacts DEF FailedInv, Levels
    <2>4. Good' <=> Good
      BY <2>1, GoodKept
    <2>5. ~broken => Good
      <3>1. CASE failed[k] # None
        BY <2>3, <3>1 DEF FailedInv
      <3>2. CASE Image \in done[k]
        BY <2>3, <3>2 DEF CurrentInv, Made
      <3> QED
        BY <2>1, <2>2, <3>1, <3>2
    <2>6. \A m \in Levels : failed'[m] \in {failed[m], IsClean}
      BY <2>1, <2>2, FailsAt DEF StructInv
    <2> QED
      BY <2>1, <2>3, <2>4, <2>5, <2>6 DEF FailedInv
  <1>3. CASE BuildEnds
    <2>1. /\ active = 1 /\ active' = 0 /\ UNCHANGED <<c, h, image, failed, broken>>
          /\ last' = IF failed[1] = None THEN "ok" ELSE "failed"
      BY <1>3 DEF BuildEnds, sources, disk
    <2>2. Good' <=> Good
      BY <2>1, GoodKept
    <2> QED
      BY <2>1, <2>2 DEF FailedInv
  <1>4. CASE \/ UNCHANGED vars
             \/ \E k \in Levels : StartInner(k) \/ \E t \in Targets : Skip(k, t) \/ Start(k, t)
    <2>1. UNCHANGED <<c, h, image, failed, broken, active, last>>
      BY <1>4 DEF StartInner, Skip, Start, sources, disk, vars, make
    <2>2. Good' <=> Good
      BY <2>1, GoodKept
    <2> QED
      BY <2>1, <2>2, FailedKept
  <1>5. ASSUME NEW k \in Levels, NEW t \in Targets \union {Touch}, <<k, t>> \in jobs,
               UNCHANGED <<c, h, image, active, last>>, UNCHANGED <<failed, broken>> \/ broken' = TRUE
        PROVE  FailedInv'
    <2>1. Good' <=> Good
      BY <1>5, GoodKept
    <2> QED
      BY <1>5, <2>1, FailedKept, FailedBreaks
  <1>6. ASSUME NEW k \in Levels, MakeTree(k) PROVE FailedInv'
    BY <1>5, <1>6, TargetKinds DEF MakeTree, Breaks, sources
  <1>7. ASSUME NEW k \in Levels, TouchDirty(k) PROVE FailedInv'
    BY <1>5, <1>7, TargetKinds DEF TouchDirty, Breaks, sources
  <1>8. ASSUME NEW k \in Levels, NEW l \in Libs, Compile(k, l) PROVE FailedInv'
    BY <1>5, <1>8, TargetKinds DEF Compile, Breaks, sources
  <1>9. ASSUME NEW k \in Levels, Pack(k) PROVE FailedInv'
    <2>1. UNCHANGED <<failed, broken, active, last>>
      BY <1>9 DEF Pack
    <2>2. Good'
      BY <1>9, PackGood
    <2> QED
      BY <2>1, <2>2, FailedKept
  <1>10. ASSUME NEW k \in Levels, NEW l \in Libs, LinkLib(k, l) PROVE FailedInv'
    <2>1. <<k, Lib(l)>> \in jobs /\ Lib(l) \in Targets
      BY <1>10, TargetKinds DEF LinkLib
    <2>2. tree /\ l \in remade[k] /\ objs[l] # None
      BY <2>1, LinksSucceed
    <2>3. UNCHANGED <<c, h, image, active, last>> /\ (UNCHANGED <<failed, broken>> \/ broken' = TRUE)
      BY <1>10, <2>2 DEF LinkLib, Deliver, sources
    <2> QED
      BY <1>5, <2>1, <2>3
  <1>11. ASSUME NEW k \in Levels, NEW p \in Programs, LinkProgram(k, p) PROVE FailedInv'
    <2>1. <<k, Prog(p)>> \in jobs /\ Prog(p) \in Targets
      BY <1>11, TargetKinds DEF LinkProgram
    <2>2. tree /\ Missing = {}
      BY <2>1, LinksSucceed
    <2>3. UNCHANGED <<c, h, image, active, last>> /\ (UNCHANGED <<failed, broken>> \/ broken' = TRUE)
      BY <1>11, <2>2 DEF LinkProgram, Deliver, sources
    <2> QED
      BY <1>5, <2>1, <2>3
  <1>12. CASE RunBuild
    <2>1. last' = "none" /\ \A m \in Levels : failed'[m] = None
      BY <1>12 DEF RunBuild, Begin, Levels
    <2> QED
      BY <1>0, <2>1 DEF FailedInv
  <1>13. CASE RunClean \/ Edit \/ Interrupt
    <2>1. active' = 0 /\ last' = "none" /\ UNCHANGED <<failed, broken>>
      BY <1>13 DEF RunClean, Edit, Interrupt, Idle, make
    <2> QED
      BY <2>1 DEF FailedInv
  <1> QED
    BY <1>1, <1>2, <1>3, <1>4, <1>6, <1>7, <1>8, <1>9, <1>10, <1>11, <1>12, <1>13
    DEF Next, MakeStep

LEMMA BuildSerial == Spec => [](CurrentInv /\ SerialInv)
  <1>1. Init => SerialInv
    <2> SUFFICES ASSUME Init PROVE OrderInv /\ ObjectsInv /\ FailedInv
      BY DEF SerialInv
    <2>1. /\ done = [k \in Levels |-> {}] /\ failed = [k \in Levels |-> None] /\ active = 0 /\ clean = 0 /\ jobs = {}
          /\ last = "none" /\ objs = [l \in Libs |-> None]
      BY DEF Init
    <2>2. \A k \in Levels : failed[k] = None /\ done[k] = {}
      BY <2>1
    <2>3. OrderInv
      BY <2>1, <2>2 DEF OrderInv, Reached
    <2>4. ObjectsInv
      BY <2>1, <2>2 DEF ObjectsInv
    <2>5. FailedInv
      BY <2>1, <2>2 DEF FailedInv
    <2> QED
      BY <2>3, <2>4, <2>5
  <1>2. StructInv /\ CurrentInv /\ SerialInv /\ [Next]_vars => SerialInv'
    <2> SUFFICES ASSUME StructInv, CurrentInv, SerialInv, [Next]_vars, Jobs = 1
                 PROVE  OrderInv' /\ ObjectsInv' /\ FailedInv'
      BY DEF SerialInv
    <2>1. OrderInv /\ ObjectsInv /\ FailedInv
      BY DEF SerialInv
    <2> QED
      BY <2>1, OrderStep, ObjectsStep, FailedStep
  <1> QED
    BY <1>1, <1>2, BuildCurrent, PTL DEF Spec

(* Without -j no interruption, of a build or of a clean, leaves objects    *)
(* that the next make would take for up to date.                           *)
THEOREM BuildObjectsImplyDirty == Spec => []ObjectsImplyDirty
  <1>1. SerialInv => ObjectsImplyDirty
    BY DEF SerialInv, ObjectsInv, ObjectsImplyDirty
  <1> QED
    BY <1>1, BuildSerial, PTL

(* Without -j every build that is not interrupted, and in which no command *)
(* fails that has all it needs, packs an image of the sources as they are, *)
(* also when `make clean` has failed in it; if it reports an error, that   *)
(* is because is_clean always does on a dirty tree.                        *)
THEOREM BuildSerialAlwaysBuilds == Spec => []SerialAlwaysBuilds
  <1>1. CurrentInv /\ SerialInv => SerialAlwaysBuilds
    <2> SUFFICES ASSUME CurrentInv, FailedInv, last \in {"ok", "failed"}, ~broken
                 PROVE  Good /\ failed[1] \in {None, IsClean}
      BY DEF SerialInv, SerialAlwaysBuilds, Good
    <2>1. failed[1] \in {None, IsClean} /\ (failed[1] = IsClean => Good)
      BY LevelFacts DEF FailedInv
    <2>2. CASE last = "ok"
      BY <2>1, <2>2 DEF CurrentInv
    <2>3. CASE last = "failed"
      BY <2>1, <2>3 DEF FailedInv
    <2> QED
      BY <2>1, <2>2, <2>3
  <1> QED
    BY <1>1, BuildSerial, PTL
-----------------------------------------------------------------------------
(* The end of a make                                                       *)

Unreached(k) == {t \in Targets : ~Reached(k, t)}

(* The steps left at level k: those of the recipes that are running, of    *)
(* which only the one of the tree has two lines, and as long as nothing    *)
(* has failed at most three for every target that is still to be started.  *)
Steps(running, first, ok, waiting) ==
  running + (IF first THEN 1 ELSE 0) + (IF ok THEN 3 * waiting ELSE 0)

LevelLeft(k) ==
  Steps(Cardinality(RunningAt(k)), <<k, Tree>> \in jobs, failed[k] = None, Cardinality(Unreached(k)))

(* What level k has still to do, apart from the makes inside it: a step of *)
(* it may stand for a `make clean`.                                        *)
Work(k) ==
  (IF k <= active THEN 5 * LevelLeft(k) + 1 ELSE 0)
    + (IF clean > 0 /\ k = (IF active = 0 THEN 1 ELSE active) THEN 4 - clean ELSE 0)

(* What make has still to do, from the outermost level down. *)
MakeLeft == [k \in Levels |-> Work(k)]
Amounts == [Levels -> Nat]

NatLess == {p \in Nat \X Nat : p[1] < p[2]}
Lower == LexProductOrdering(NatLess, Nat, MaxDepth)

LEMMA LowerWellFounded == IsWellFoundedOn(Lower, Amounts)
  <1>1. NatLess = OpToRel(<, Nat)
    BY DEF NatLess, OpToRel
  <1>2. IsWellFoundedOn(NatLess, Nat)
    BY <1>1, NatLessThanWellFounded
  <1> QED
    BY <1>2, LevelFacts, WFLexProductOrdering DEF Lower, Amounts, Levels

LEMMA UpTo ==
  ASSUME NEW n \in Nat
  PROVE  IsFiniteSet(1..n) /\ Cardinality(1..n) = n
  <1>1. IsFiniteSet(1..n) /\ Cardinality(1..n) = IF 1 > n THEN 0 ELSE n - 1 + 1
    BY FS_Interval
  <1> QED
    BY <1>1

LEMMA FourteenTargets == IsFiniteSet(Targets) /\ Cardinality(Targets) \in 0..14
  <1>1. IsFiniteSet(1..14) /\ Cardinality(1..14) = 14
    BY UpTo
  <1> DEFINE f == [k \in 1..14 |-> Order[k]]
  <1>2. f \in Surjection(1..14, Targets)
    <2>1. \A k \in 1..14 : Order[k] \in Targets
      BY OrderAt DEF Targets
    <2>2. \A t \in Targets : \E k \in 1..14 : f[k] = t
      BY OrderAt DEF Targets
    <2> QED
      BY <2>1, <2>2 DEF Surjection
  <1>3. IsFiniteSet(Targets) /\ Cardinality(Targets) <= 14
    BY <1>1, <1>2, FS_Surjection
  <1>4. Cardinality(Targets) \in Nat
    BY <1>3, FS_CardinalityType
  <1> QED
    BY <1>3, <1>4

LEMMA LevelFinite ==
  ASSUME TypeInv, NEW k \in Levels
  PROVE  /\ IsFiniteSet(RunningAt(k)) /\ Cardinality(RunningAt(k)) \in Nat
         /\ IsFiniteSet(Unreached(k)) /\ Cardinality(Unreached(k)) \in 0..14
         /\ LevelLeft(k) \in Nat
  <1>1. IsFiniteSet(Levels)
    BY LevelFacts, UpTo DEF Levels
  <1>2. IsFiniteSet(Targets \union {Touch})
    BY FourteenTargets, FS_AddElement
  <1>3. IsFiniteSet(Levels \X (Targets \union {Touch}))
    BY <1>1, <1>2, FS_Product
  <1>4. RunningAt(k) \in SUBSET (Levels \X (Targets \union {Touch}))
    BY DEF TypeInv, RunningAt
  <1>5. IsFiniteSet(RunningAt(k))
    BY <1>3, <1>4, FS_Subset
  <1>6. Unreached(k) \in SUBSET Targets
    BY DEF Unreached
  <1>7. IsFiniteSet(Unreached(k)) /\ Cardinality(Unreached(k)) <= Cardinality(Targets)
    BY <1>6, FourteenTargets, FS_Subset
  <1>8. Cardinality(RunningAt(k)) \in Nat /\ Cardinality(Unreached(k)) \in Nat
    BY <1>5, <1>7, FS_CardinalityType
  <1>9. Cardinality(Unreached(k)) \in 0..14
    BY <1>7, <1>8, FourteenTargets
  <1>10. LevelLeft(k) \in Nat
    BY <1>8 DEF LevelLeft, Steps
  <1> QED
    BY <1>5, <1>7, <1>8, <1>9, <1>10

LEMMA LevelSame ==
  ASSUME NEW k \in Levels, RunningAt(k)' = RunningAt(k), done'[k] = done[k], failed'[k] = failed[k]
  PROVE  LevelLeft(k)' = LevelLeft(k)
  <1>1. \A t : <<k, t>> \in jobs' <=> <<k, t>> \in jobs
    BY DEF RunningAt
  <1>2. Unreached(k)' = Unreached(k)
    BY <1>1 DEF Unreached, Reached
  <1> QED
    BY <1>1, <1>2 DEF LevelLeft

(* A recipe starts, or a target needs none. *)
LEMMA LevelStart ==
  ASSUME TypeInv, NEW k \in Levels, NEW t \in Targets, CanStart(k, t), UNCHANGED failed,
         \/ jobs' = jobs \union {<<k, t>>} /\ UNCHANGED done
         \/ UNCHANGED jobs /\ Done(k, t)
  PROVE  LevelLeft(k)' < LevelLeft(k)
  <1>1. failed[k] = None /\ t \in Unreached(k) /\ <<k, t>> \notin RunningAt(k)
    BY DEF CanStart, Unreached, Reached, RunningAt
  <1>2. Unreached(k)' = Unreached(k) \ {t}
    <2>1. ASSUME NEW u \in Targets PROVE Reached(k, u)' <=> Reached(k, u) \/ u = t
      <3>1. CASE jobs' = jobs \union {<<k, t>>} /\ UNCHANGED done
        <4>1. Touch # t
          BY TargetKinds
        <4> QED
          BY <3>1, <4>1 DEF Reached
      <3>2. CASE UNCHANGED jobs /\ Done(k, t)
        BY <3>2, DoneAdd DEF Reached
      <3> QED
        BY <3>1, <3>2
    <2> QED
      BY <2>1 DEF Unreached
  <1>3. RunningAt(k)' \in {RunningAt(k), RunningAt(k) \union {<<k, t>>}}
    BY DEF RunningAt
  <1>4. PICK u \in Nat : u = Cardinality(Unreached(k))
    BY LevelFinite
  <1>5. PICK r \in Nat : r = Cardinality(RunningAt(k))
    BY LevelFinite
  <1>6. Cardinality(Unreached(k)') = u - 1
    BY <1>1, <1>2, <1>4, LevelFinite, FS_RemoveElement
  <1>7. Cardinality(RunningAt(k)') \in {r, r + 1}
    BY <1>1, <1>3, <1>5, LevelFinite, FS_AddElement
  <1>8. /\ LevelLeft(k) = Steps(r, <<k, Tree>> \in jobs, TRUE, u)
        /\ \E q \in {r, r + 1} : LevelLeft(k)' = Steps(q, <<k, Tree>> \in jobs', TRUE, u - 1)
    BY <1>1, <1>4, <1>5, <1>6, <1>7 DEF LevelLeft
  <1> QED
    BY <1>8 DEF Steps

(* A recipe ends: its target is done, or the level fails. *)
LEMMA LevelEnd ==
  ASSUME TypeInv, NEW k \in Levels, NEW t \in Targets \union {Touch}, <<k, t>> \in jobs, Ends(k, t),
         \/ Done(k, Goal(t)) /\ UNCHANGED failed
         \/ UNCHANGED done /\ Fails(k, Goal(t))
  PROVE  LevelLeft(k)' < LevelLeft(k)
  <1>1. RunningAt(k)' = RunningAt(k) \ {<<k, t>>} /\ <<k, t>> \in RunningAt(k)
    BY DEF Ends, RunningAt
  <1>2. PICK u \in Nat : u = Cardinality(Unreached(k))
    BY LevelFinite
  <1>3. PICK r \in Nat : r = Cardinality(RunningAt(k))
    BY LevelFinite
  <1>4. Cardinality(RunningAt(k)') = r - 1
    <2>1. IsFiniteSet(RunningAt(k))
      BY LevelFinite
    <2>2. Cardinality(RunningAt(k) \ {<<k, t>>}) = Cardinality(RunningAt(k)) - 1
      BY <1>1, <2>1, FS_RemoveElement, Zenon
    <2> QED
      BY <1>1, <1>3, <2>2
  <1>5. <<k, Tree>> \in jobs' => <<k, Tree>> \in jobs
    BY DEF Ends
  <1>6. LevelLeft(k) = Steps(r, <<k, Tree>> \in jobs, failed[k] = None, u)
    BY <1>2, <1>3 DEF LevelLeft
  <1>7. CASE Done(k, Goal(t)) /\ UNCHANGED failed
    <2>1. Goal(t) \in Targets
      BY GoalIsTarget
    <2>2. done'[k] = done[k] \union {Goal(t)}
      BY <1>7, <2>1, DoneAdd
    <2>3. \A v \in Targets : Reached(k, v)' <=> Reached(k, v)
      BY <2>2, TargetKinds DEF Reached, Ends, Goal
    <2>4. Unreached(k)' = Unreached(k)
      BY <2>3 DEF Unreached
    <2>5. LevelLeft(k)' = Steps(r - 1, <<k, Tree>> \in jobs', failed[k] = None, u)
      BY <1>2, <1>4, <1>7, <2>4 DEF LevelLeft
    <2> QED
      BY <1>5, <1>6, <2>5 DEF Steps
  <1>8. CASE UNCHANGED done /\ Fails(k, Goal(t))
    <2>1. failed'[k] # None
      BY <1>8, GoalIsTarget, FailsAt, NoneAssumption
    <2>2. LevelLeft(k)' = Steps(r - 1, <<k, Tree>> \in jobs', FALSE, Cardinality(Unreached(k)'))
      BY <1>4, <2>1 DEF LevelLeft
    <2> QED
      BY <1>5, <1>6, <2>2 DEF Steps
  <1> QED
    BY <1>7, <1>8

(* The first line of the recipe of the tree is done. *)
LEMMA LevelTouch ==
  ASSUME StructInv, NEW k \in Levels, <<k, Tree>> \in jobs, UNCHANGED <<done, failed>>,
         jobs' = (jobs \ {<<k, Tree>>}) \union {<<k, Touch>>}
  PROVE  LevelLeft(k)' < LevelLeft(k)
  <1>1. TypeInv /\ <<k, Touch>> \notin jobs /\ Touch # Tree
    BY TargetKinds DEF StructInv, JobsInv
  <1> DEFINE M == RunningAt(k) \ {<<k, Tree>>}
  <1>2. PICK u \in Nat : u = Cardinality(Unreached(k))
    BY <1>1, LevelFinite
  <1>3. PICK r \in Nat : r = Cardinality(RunningAt(k))
    BY <1>1, LevelFinite
  <1>4. RunningAt(k)' = M \union {<<k, Touch>>} /\ <<k, Touch>> \notin M /\ <<k, Tree>> \in RunningAt(k)
    BY <1>1 DEF RunningAt
  <1>5. IsFiniteSet(M) /\ Cardinality(M) = r - 1
    BY <1>1, <1>3, <1>4, LevelFinite, FS_RemoveElement
  <1> HIDE DEF M
  <1>6. Cardinality(RunningAt(k)') = r - 1 + 1
    BY <1>4, <1>5, FS_AddElement
  <1>7. \A v \in Targets : Reached(k, v)' <=> Reached(k, v)
    BY <1>1, TargetKinds DEF Reached
  <1>8. Unreached(k)' = Unreached(k)
    BY <1>7 DEF Unreached
  <1>9. <<k, Tree>> \notin jobs'
    BY <1>1
  <1>10. LevelLeft(k) = r + 1 + (IF failed[k] = None THEN 3 * u ELSE 0)
    BY <1>2, <1>3 DEF LevelLeft, Steps
  <1>11. LevelLeft(k)' = (r - 1 + 1) + 0 + (IF failed[k] = None THEN 3 * u ELSE 0)
    BY <1>2, <1>6, <1>8, <1>9 DEF LevelLeft, Steps
  <1> QED
    BY <1>10, <1>11

LevelsNat == \A k \in Levels : LevelLeft(k) \in Nat

LEMMA LevelNat == TypeInv => LevelsNat
  BY LevelFinite DEF LevelsNat

LEMMA LevelNatNext == TypeInv' => LevelsNat'
  BY LevelNat, PTL

LEMMA WorkType == TypeInv => MakeLeft \in Amounts
  <1> SUFFICES ASSUME TypeInv, NEW k \in Levels PROVE Work(k) \in Nat
    BY DEF MakeLeft, Amounts
  <1>1. LevelLeft(k) \in Nat /\ clean \in 0..3
    BY LevelNat DEF LevelsNat, TypeInv
  <1> QED
    BY <1>1 DEF Work

LEMMA WorkTypeNext == TypeInv' => (MakeLeft \in Amounts)'
  BY WorkType, PTL

(* Less to do at a level, and the same at those outside it. *)
LEMMA LowerAt ==
  ASSUME TypeInv, TypeInv', NEW k \in Levels, Work(k)' < Work(k),
         \A m \in Levels : m < k => Work(m)' = Work(m)
  PROVE  <<MakeLeft', MakeLeft>> \in Lower
  <1>1. MakeLeft \in Amounts /\ MakeLeft' \in Amounts
    BY WorkType, WorkTypeNext
  <1>2. \A m \in Levels : MakeLeft[m] = Work(m) /\ MakeLeft'[m] = Work(m)'
    BY DEF MakeLeft
  <1>3. PICK x, y : x = MakeLeft' /\ y = MakeLeft
    OBVIOUS
  <1>4. x \in Amounts /\ y \in Amounts /\ x[k] < y[k] /\ \A m \in Levels : m < k => x[m] = y[m]
    BY <1>1, <1>2, <1>3
  <1>5. <<x[k], y[k]>> \in NatLess
    BY <1>4 DEF NatLess, Amounts
  <1>6. \A m \in 1..(k - 1) : x[m] = y[m]
    BY <1>4, LevelFacts DEF Levels
  <1>7. <<x, y>> \in Lower
    BY <1>4, <1>5, <1>6 DEF Lower, LexProductOrdering, Amounts, Levels
  <1> QED
    BY <1>3, <1>7

LEMMA WorkSame ==
  ASSUME TypeInv, TypeInv', NEW m \in Levels, m < active, m < active', LevelLeft(m)' = LevelLeft(m)
  PROVE  Work(m)' = Work(m)
  <1>1. active \in Nat /\ active' \in Nat /\ m \in Nat \ {0}
    BY LevelFacts DEF TypeInv, Levels
  <1>2. Work(m) = 5 * LevelLeft(m) + 1 + 0
    BY <1>1 DEF Work
  <1>3. Work(m)' = 5 * LevelLeft(m)' + 1 + 0
    BY <1>1 DEF Work
  <1> QED
    BY <1>2, <1>3

(* Less to do at a level is less to do for make. *)
LEMMA LessAtLevel ==
  ASSUME TypeInv, TypeInv', NEW k \in Levels, k <= active, k <= active',
         LevelLeft(k)' < LevelLeft(k), \A m \in Levels : m < k => LevelLeft(m)' = LevelLeft(m)
  PROVE  <<MakeLeft', MakeLeft>> \in Lower
  <1>1. /\ active \in Nat /\ active' \in Nat /\ k \in Nat
        /\ clean \in 0..3 /\ clean' \in 0..3
    BY LevelFacts DEF TypeInv, Levels
  <1>2. LevelLeft(k) \in Nat /\ LevelLeft(k)' \in Nat
    BY LevelNat, LevelNatNext DEF LevelsNat
  <1>3. Work(k) >= 5 * LevelLeft(k) + 1
    BY <1>1, <1>2 DEF Work
  <1>4. Work(k)' <= 5 * LevelLeft(k)' + 4
    BY <1>1, <1>2 DEF Work
  <1>5. Work(k)' < Work(k)
    <2>1. Work(k) \in Nat /\ Work(k)' \in Nat
      BY <1>1, <1>2 DEF Work
    <2>2. \A x, y, v, w \in Nat : x >= 5 * y + 1 /\ v <= 5 * w + 4 /\ w < y => v < x
      OBVIOUS
    <2> QED
      BY <1>2, <1>3, <1>4, <2>1, <2>2
  <1>6. ASSUME NEW m \in Levels, m < k PROVE Work(m)' = Work(m)
    <2>1. m < active /\ m < active'
      BY <1>1, <1>6 DEF Levels
    <2> QED
      BY <1>6, <2>1, WorkSame
  <1> QED
    BY <1>5, <1>6, LowerAt

(* A step at one level leaves the others alone. *)
LEMMA OtherLevel ==
  ASSUME TypeInv, NEW k \in Levels, NEW t, NEW g \in Targets,
         \/ UNCHANGED jobs
         \/ jobs' = jobs \union {<<k, t>>}
         \/ jobs' = jobs \ {<<k, t>>}
         \/ jobs' = (jobs \ {<<k, Tree>>}) \union {<<k, t>>},
         UNCHANGED done \/ Done(k, g),
         UNCHANGED failed \/ Fails(k, g)
  PROVE  \A m \in Levels : m # k => LevelLeft(m)' = LevelLeft(m)
  <1> SUFFICES ASSUME NEW m \in Levels, m # k PROVE LevelLeft(m)' = LevelLeft(m)
    OBVIOUS
  <1>1. RunningAt(m)' = RunningAt(m)
    BY DEF RunningAt
  <1>2. done'[m] = done[m]
    BY DoneGrows
  <1>3. failed'[m] = failed[m]
    BY FailsAt
  <1> QED
    BY <1>1, <1>2, <1>3, LevelSame

LEMMA LeftStart ==
  ASSUME StructInv, TypeInv', NEW k \in Levels, NEW t \in Targets, Skip(k, t) \/ Start(k, t)
  PROVE  <<MakeLeft', MakeLeft>> \in Lower
  <1>1. /\ CanStart(k, t) /\ k <= active /\ UNCHANGED <<active, clean, failed>> /\ TypeInv
        /\ \/ jobs' = jobs \union {<<k, t>>} /\ UNCHANGED done
           \/ UNCHANGED jobs /\ Done(k, t)
    BY LevelFacts DEF Skip, Start, CanStart, StructInv, TypeInv, Levels
  <1>2. LevelLeft(k)' < LevelLeft(k)
    BY <1>1, LevelStart
  <1>3. \A m \in Levels : m # k => LevelLeft(m)' = LevelLeft(m)
    BY <1>1, OtherLevel
  <1>4. \A m \in Levels : m < k => m # k
    BY DEF Levels
  <1>5. k <= active' /\ \A m \in Levels : m < k => LevelLeft(m)' = LevelLeft(m)
    BY <1>1, <1>3, <1>4
  <1> QED
    BY <1>1, <1>2, <1>5, LessAtLevel

LEMMA LeftEnd ==
  ASSUME StructInv, TypeInv', NEW k \in Levels, NEW t \in Targets \union {Touch},
         <<k, t>> \in jobs, Ends(k, t), UNCHANGED <<active, clean>>,
         \/ Done(k, Goal(t)) /\ UNCHANGED failed
         \/ UNCHANGED done /\ Fails(k, Goal(t))
  PROVE  <<MakeLeft', MakeLeft>> \in Lower
  <1>1. TypeInv /\ k <= active /\ Goal(t) \in Targets
    BY GoalIsTarget DEF StructInv, JobsInv
  <1>2. LevelLeft(k)' < LevelLeft(k)
    BY <1>1, LevelEnd
  <1>3. jobs' = jobs \ {<<k, t>>}
    BY DEF Ends
  <1>4. \A m \in Levels : m # k => LevelLeft(m)' = LevelLeft(m)
    BY <1>1, <1>3, OtherLevel
  <1>5. \A m \in Levels : m < k => m # k
    BY DEF Levels
  <1>6. k <= active' /\ \A m \in Levels : m < k => LevelLeft(m)' = LevelLeft(m)
    BY <1>1, <1>4, <1>5
  <1> QED
    BY <1>1, <1>2, <1>6, LessAtLevel

LEMMA LeftTree ==
  ASSUME StructInv, TypeInv', NEW k \in Levels, MakeTree(k)
  PROVE  <<MakeLeft', MakeLeft>> \in Lower
  <1>1. <<k, Tree>> \in jobs /\ UNCHANGED <<active, clean, done>> /\ TypeInv /\ Tree \in Targets
    BY TargetKinds DEF MakeTree, StructInv
  <1>2. CASE jobs' = (jobs \ {<<k, Tree>>}) \union {<<k, Touch>>} /\ UNCHANGED failed
    <2>1. LevelLeft(k)' < LevelLeft(k)
      BY <1>1, <1>2, LevelTouch
    <2>2. \A m \in Levels : m # k => LevelLeft(m)' = LevelLeft(m)
      BY <1>1, <1>2, OtherLevel
    <2>3. k <= active /\ k <= active'
      BY <1>1 DEF StructInv, JobsInv
    <2>4. \A m \in Levels : m < k => m # k
      BY DEF Levels
    <2>5. \A m \in Levels : m < k => LevelLeft(m)' = LevelLeft(m)
      BY <2>2, <2>4
    <2> QED
      BY <1>1, <2>1, <2>3, <2>5, LessAtLevel
  <1>3. CASE Ends(k, Tree) /\ Fails(k, Tree)
    <2>1. Goal(Tree) = Tree
      BY DEF Goal
    <2> QED
      BY <1>1, <1>3, <2>1, LeftEnd
  <1> QED
    BY <1>2, <1>3 DEF MakeTree, Breaks

LEMMA LeftRecipe ==
  ASSUME StructInv, TypeInv', NEW k \in Levels,
         \/ TouchDirty(k) \/ Pack(k)
         \/ \E l \in Libs : Compile(k, l) \/ LinkLib(k, l)
         \/ \E p \in Programs : LinkProgram(k, p)
  PROVE  <<MakeLeft', MakeLeft>> \in Lower
  <1>1. \A t \in Targets : Goal(t) = t
    BY TargetKinds DEF Goal
  <1>2. CASE TouchDirty(k)
    <2>1. Goal(Touch) = Tree
      BY DEF Goal
    <2>2. /\ <<k, Touch>> \in jobs /\ Ends(k, Touch) /\ UNCHANGED <<active, clean>>
          /\ \/ Done(k, Tree) /\ UNCHANGED failed
             \/ UNCHANGED done /\ Fails(k, Tree)
      BY <1>2 DEF TouchDirty, Breaks
    <2> QED
      BY <2>1, <2>2, LeftEnd
  <1>3. CASE Pack(k)
    BY <1>1, <1>3, LeftEnd, TargetKinds DEF Pack
  <1>4. ASSUME NEW l \in Libs, Compile(k, l) PROVE <<MakeLeft', MakeLeft>> \in Lower
    <2>1. Obj(l) \in Targets /\ Goal(Obj(l)) = Obj(l)
      BY <1>1, TargetKinds
    <2>2. /\ <<k, Obj(l)>> \in jobs /\ Ends(k, Obj(l)) /\ UNCHANGED <<active, clean>>
          /\ \/ Done(k, Obj(l)) /\ UNCHANGED failed
             \/ UNCHANGED done /\ Fails(k, Obj(l))
      BY <1>4 DEF Compile, Breaks
    <2> QED
      BY <2>1, <2>2, LeftEnd
  <1>5. ASSUME NEW l \in Libs, LinkLib(k, l) PROVE <<MakeLeft', MakeLeft>> \in Lower
    <2>1. Lib(l) \in Targets /\ Goal(Lib(l)) = Lib(l)
      BY <1>1, TargetKinds
    <2>2. /\ <<k, Lib(l)>> \in jobs /\ Ends(k, Lib(l)) /\ UNCHANGED <<active, clean>>
          /\ \/ Done(k, Lib(l)) /\ UNCHANGED failed
             \/ UNCHANGED done /\ Fails(k, Lib(l))
      BY <1>5 DEF LinkLib, Deliver
    <2> QED
      BY <2>1, <2>2, LeftEnd
  <1>6. ASSUME NEW p \in Programs, LinkProgram(k, p) PROVE <<MakeLeft', MakeLeft>> \in Lower
    <2>1. Prog(p) \in Targets /\ Goal(Prog(p)) = Prog(p)
      BY <1>1, TargetKinds
    <2>2. /\ <<k, Prog(p)>> \in jobs /\ Ends(k, Prog(p)) /\ UNCHANGED <<active, clean>>
          /\ \/ Done(k, Prog(p)) /\ UNCHANGED failed
             \/ UNCHANGED done /\ Fails(k, Prog(p))
      BY <1>6 DEF LinkProgram, Deliver
    <2> QED
      BY <2>1, <2>2, LeftEnd
  <1> QED
    BY <1>2, <1>3, <1>4, <1>5, <1>6

(* A line of `make clean`: it is one of those of the innermost level, or   *)
(* the clean is over and a further make begins inside that level.          *)
LEMMA LeftClean ==
  ASSUME StructInv, TypeInv', CleanLine \/ CleanFails
  PROVE  <<MakeLeft', MakeLeft>> \in Lower
  <1>1. TypeInv /\ active \in Nat /\ clean \in 1..3 /\ clean' \in 0..3 /\ (clean' > 0 => clean' = clean + 1)
    BY CleanSteps, LevelFacts DEF StructInv, TypeInv
  <1>2. \A m \in Levels : RunningAt(m)' = RunningAt(m)
    BY CleanSteps DEF RunningAt
  <1>3. CASE active > 0 /\ clean' = 0 /\ active + 1 \in Levels /\ Begin(active + 1)
    <2>1. PICK k \in Levels : k = active
      BY <1>1, <1>3, LevelFacts DEF Levels
    <2>2. active' = active + 1
      BY <1>3 DEF Begin
    <2>3. ASSUME NEW m \in Levels, m <= k PROVE LevelLeft(m)' = LevelLeft(m)
      <3>1. PICK i \in Levels : i = active + 1
        BY <1>3
      <3>2. m # i /\ ~(m >= i)
        BY <1>1, <2>1, <2>3, <3>1 DEF Levels
      <3>3. done'[m] = done[m] /\ failed'[m] = failed[m]
        BY <1>1, <1>3, <3>1, <3>2 DEF Begin, TypeInv
      <3> QED
        BY <1>2, <3>3, LevelSame
    <2>4. LevelLeft(k) \in Nat /\ LevelLeft(k)' = LevelLeft(k)
      <3>1. k <= k
        BY DEF Levels
      <3> QED
        BY <1>1, <2>3, <3>1, LevelNat DEF LevelsNat
    <2>5. Work(k) = 5 * LevelLeft(k) + 1 + (4 - clean)
      BY <1>1, <1>3, <2>1 DEF Work
    <2>6. Work(k)' = 5 * LevelLeft(k)' + 1 + 0
      BY <1>1, <1>3, <2>1, <2>2 DEF Work
    <2>7. Work(k)' < Work(k)
      BY <1>1, <2>4, <2>5, <2>6
    <2>8. ASSUME NEW m \in Levels, m < k PROVE Work(m)' = Work(m)
      <3>1. m <= k /\ m < active /\ m < active'
        BY <1>1, <2>1, <2>2, <2>8 DEF Levels
      <3> QED
        BY <1>1, <2>3, <3>1, WorkSame
    <2> QED
      BY <1>1, <2>7, <2>8, LowerAt
  <1>4. CASE (clean' = 0 => active = 0) /\ UNCHANGED <<active, done, remade, failed>>
    <2>1. PICK k \in Levels : k = IF active = 0 THEN 1 ELSE active
      BY LevelFacts DEF StructInv, TypeInv, Levels
    <2>2. ASSUME NEW m \in Levels PROVE LevelLeft(m)' = LevelLeft(m) /\ LevelLeft(m) \in Nat
      BY <1>1, <1>2, <1>4, LevelSame, LevelNat DEF LevelsNat
    <2>3. PICK w \in Nat : w = IF k <= active THEN 5 * LevelLeft(k) + 1 ELSE 0
      BY <2>2
    <2>4. Work(k) = w + (4 - clean)
      BY <1>1, <2>1, <2>3 DEF Work
    <2>5. Work(k)' = w + (IF clean' > 0 THEN 4 - clean' ELSE 0)
      BY <1>4, <2>1, <2>2, <2>3 DEF Work
    <2>6. Work(k)' < Work(k)
      <3>1. CASE clean' > 0
        <4>1. clean' = clean + 1 /\ Work(k)' = w + (4 - clean')
          BY <1>1, <2>5, <3>1
        <4> QED
          BY <1>1, <2>4, <4>1
      <3>2. CASE ~(clean' > 0)
        <4>1. Work(k)' = w
          BY <2>5, <3>2
        <4> QED
          BY <1>1, <2>4, <4>1
      <3> QED
        BY <3>1, <3>2
    <2>7. ASSUME NEW m \in Levels, m < k PROVE Work(m)' = Work(m)
      <3>1. m < active /\ m < active'
        BY <1>1, <1>4, <2>1, <2>7 DEF Levels
      <3> QED
        BY <1>1, <2>2, <3>1, WorkSame
    <2> QED
      BY <1>1, <2>6, <2>7, LowerAt
  <1> QED
    BY <1>3, <1>4, CleanSteps

(* The check of a dirty tree starts, and fails when the make inside it is  *)
(* over.                                                                   *)
LEMMA LeftCheck ==
  ASSUME StructInv, TypeInv', NEW k \in Levels,
         StartInner(k) \/ (InnerEnds /\ k = active - 1)
  PROVE  <<MakeLeft', MakeLeft>> \in Lower
  <1>1. TypeInv /\ active \in Nat /\ k \in Nat /\ IsClean \in Targets /\ Goal(IsClean) = IsClean
    BY LevelFacts, TargetKinds DEF StructInv, TypeInv, Goal, Levels
  <1>2. CASE StartInner(k)
    <2>1. /\ CanStart(k, IsClean) /\ jobs' = jobs \union {<<k, IsClean>>}
          /\ UNCHANGED <<active, done, failed>>
      BY <1>2 DEF StartInner
    <2>2. LevelLeft(k)' < LevelLeft(k)
      BY <1>1, <2>1, LevelStart
    <2>3. k <= active /\ k <= active'
      BY <1>1, <2>1 DEF CanStart
    <2>4. \A m \in Levels : m # k => LevelLeft(m)' = LevelLeft(m)
      BY <1>1, <2>1, OtherLevel
    <2>5. \A m \in Levels : m < k => m # k
      BY <1>1 DEF Levels
    <2> QED
      BY <1>1, <2>2, <2>3, <2>4, <2>5, LessAtLevel
  <1>3. CASE InnerEnds /\ k = active - 1
    <2>1. /\ active' = k /\ Ends(k, IsClean) /\ Fails(k, IsClean) /\ UNCHANGED done
      BY <1>3 DEF InnerEnds
    <2>2. k <= active /\ k <= active' /\ k < active
      BY <1>1, <1>3, <2>1
    <2>3. <<k, IsClean>> \in jobs
      BY <2>2 DEF StructInv, NestInv
    <2>4. LevelLeft(k)' < LevelLeft(k)
      BY <1>1, <2>1, <2>3, LevelEnd
    <2>5. jobs' = jobs \ {<<k, IsClean>>}
      BY <2>1 DEF Ends
    <2>6. \A m \in Levels : m # k => LevelLeft(m)' = LevelLeft(m)
      BY <1>1, <2>1, <2>5, OtherLevel
    <2>7. \A m \in Levels : m < k => m # k
      BY <1>1 DEF Levels
    <2> QED
      BY <1>1, <2>2, <2>4, <2>6, <2>7, LessAtLevel
  <1> QED
    BY <1>2, <1>3

(* The make is over, by itself or not. *)
LEMMA LeftOver ==
  ASSUME StructInv, TypeInv', BuildEnds \/ Interrupt
  PROVE  <<MakeLeft', MakeLeft>> \in Lower
  <1>1. /\ TypeInv /\ active \in Nat /\ clean \in 0..3 /\ clean' \in 0..3
        /\ 1 \in Levels /\ \A m \in Levels : ~(m < 1)
    BY LevelFacts DEF StructInv, TypeInv, Levels
  <1>2. LevelLeft(1) \in Nat
    BY <1>1, LevelNat DEF LevelsNat
  <1>3. Work(1)' < Work(1)
    <2>1. CASE BuildEnds
      <3>1. active = 1 /\ active' = 0 /\ clean' = clean
        BY <2>1 DEF BuildEnds
      <3>2. PICK e \in Nat : e = IF clean > 0 THEN 4 - clean ELSE 0
        BY <1>1
      <3>3. Work(1) = 5 * LevelLeft(1) + 1 + e /\ Work(1)' = 0 + e
        BY <1>1, <3>1, <3>2 DEF Work
      <3> QED
        BY <1>2, <3>2, <3>3
    <2>2. CASE Interrupt
      <3>1. active' = 0 /\ clean' = 0 /\ (active > 0 \/ (active = 0 /\ clean > 0))
        BY <1>1, <2>2 DEF Interrupt, Idle
      <3>2. Work(1)' = 0 + 0
        BY <3>1 DEF Work
      <3>3. Work(1) >= 1
        BY <1>1, <1>2, <3>1 DEF Work
      <3>4. Work(1) \in Nat
        BY <1>1, <1>2 DEF Work
      <3> QED
        BY <3>2, <3>3, <3>4
    <2> QED
      BY <2>1, <2>2
  <1> QED
    BY <1>1, <1>3, LowerAt

LEMMA LeftStep ==
  ASSUME StructInv, TypeInv', Next
  PROVE  \/ <<MakeLeft', MakeLeft>> \in Lower
         \/ RunBuild \/ RunClean
         \/ Edit /\ MakeLeft' = MakeLeft
  <1>1. CASE CleanLine \/ CleanFails
    BY <1>1, LeftClean
  <1>2. CASE InnerEnds
    <2>1. PICK k \in Levels : k = active - 1
      BY <1>2, LevelFacts DEF InnerEnds, StructInv, TypeInv, Levels
    <2> QED
      BY <1>2, <2>1, LeftCheck
  <1>3. ASSUME NEW k \in Levels, StartInner(k) PROVE <<MakeLeft', MakeLeft>> \in Lower
    BY <1>3, LeftCheck
  <1>4. CASE BuildEnds \/ Interrupt
    BY <1>4, LeftOver
  <1>5. ASSUME NEW k \in Levels, NEW t \in Targets, Skip(k, t) \/ Start(k, t)
        PROVE  <<MakeLeft', MakeLeft>> \in Lower
    BY <1>5, LeftStart
  <1>6. ASSUME NEW k \in Levels, MakeTree(k) PROVE <<MakeLeft', MakeLeft>> \in Lower
    BY <1>6, LeftTree
  <1>7. ASSUME NEW k \in Levels,
               \/ TouchDirty(k) \/ Pack(k)
               \/ \E l \in Libs : Compile(k, l) \/ LinkLib(k, l)
               \/ \E p \in Programs : LinkProgram(k, p)
        PROVE  <<MakeLeft', MakeLeft>> \in Lower
    BY <1>7, LeftRecipe
  <1>8. CASE Edit
    <2>1. active = 0 /\ clean = 0 /\ active' = 0 /\ clean' = 0
      BY <1>8 DEF Edit, Idle, make
    <2>2. ASSUME NEW k \in Levels PROVE Work(k) = 0 + 0 /\ Work(k)' = 0 + 0
      BY <2>1 DEF Work, Levels
    <2>3. MakeLeft' = MakeLeft
      BY <2>2 DEF MakeLeft
    <2> QED
      BY <1>8, <2>3
  <1> QED
    BY <1>1, <1>2, <1>3, <1>4, <1>5, <1>6, <1>7, <1>8 DEF Next, MakeStep

(* For every number of jobs, every order of the recipes and every failure, *)
(* of the compiler, of a script and of `make clean` too: what the makes    *)
(* have still to do is taken from a well-founded order, and every step of  *)
(* theirs lowers it, an interrupt as well; only the developer puts it up,  *)
(* by starting a make.  So a make does not go on for ever, unless clean    *)
(* fails for ever: the order has one place for every level, and there are  *)
(* no more of those than BuildNestsOnlyOnFailure allows.                   *)
THEOREM BuildGetsOn ==
  /\ IsWellFoundedOn(Lower, Amounts)
  /\ Spec => /\ [](MakeLeft \in Amounts)
             /\ [][\/ <<MakeLeft', MakeLeft>> \in Lower
                   \/ RunBuild \/ RunClean
                   \/ Edit /\ MakeLeft' = MakeLeft]_vars
  <1>1. StructInv => MakeLeft \in Amounts
    BY WorkType DEF StructInv
  <1>2. StructInv /\ StructInv' /\ [Next]_vars =>
          [\/ <<MakeLeft', MakeLeft>> \in Lower
           \/ RunBuild \/ RunClean
           \/ Edit /\ MakeLeft' = MakeLeft]_vars
    BY LeftStep DEF StructInv
  <1>3. Spec => /\ [](MakeLeft \in Amounts)
                /\ [][\/ <<MakeLeft', MakeLeft>> \in Lower
                      \/ RunBuild \/ RunClean
                      \/ Edit /\ MakeLeft' = MakeLeft]_vars
    BY <1>1, <1>2, BuildStructure, PTL DEF Spec
  <1> QED
    BY <1>3, LowerWellFounded
-----------------------------------------------------------------------------
(* How deep the makes are nested                                           *)

(* The innermost make cleans, or would if it got to its check now. *)
Cleaning == clean > 0 \/ (active > 0 /\ dirty /\ IsClean \notin done[active])

(* A make that is not the first one and is to clean again is there because *)
(* a clean has failed.                                                     *)
DepthInv ==
  /\ misses <= events
  /\ active <= 2 + misses
  /\ Cleaning => active <= 1 + misses

LEMMA DepthKept ==
  ASSUME TypeInv, DepthInv, UNCHANGED <<active, misses, clean>>, events <= events', dirty' => dirty,
         NEW k \in Levels, NEW g \in Targets, UNCHANGED done \/ Done(k, g), TypeInv'
  PROVE  DepthInv'
  <1>1. active > 0 => active \in Levels
    BY LevelFacts DEF TypeInv, Levels
  <1>2. active > 0 => done[active] \subseteq done'[active]
    BY <1>1, DoneGrows
  <1>3. Cleaning' => Cleaning
    BY <1>2 DEF Cleaning
  <1>4. misses' <= events'
    BY DEF DepthInv, TypeInv
  <1> QED
    BY <1>3, <1>4 DEF DepthInv

LEMMA DepthStep ==
  ASSUME StructInv, DepthInv, [Next]_vars
  PROVE  DepthInv'
  <1>0. /\ TypeInv /\ TypeInv' /\ active \in Nat /\ misses \in Nat /\ events \in Nat
        /\ 1 \in Levels /\ IsClean \in Targets
    BY TypeStep, LevelFacts, TargetKinds DEF StructInv, TypeInv
  <1>1. CASE CleanLine
    <2>1. UNCHANGED <<misses, events>> /\ clean \in 1..3
      BY <1>1 DEF CleanLine
    <2>2. active <= 1 + misses
      BY <2>1 DEF DepthInv, Cleaning
    <2>3. CASE active > 0 /\ clean' = 0 /\ Begin(active + 1)
      <3>1. active' = active + 1 /\ clean = 3
        BY <1>1, <2>1, <2>3 DEF CleanLine, Begin
      <3>2. dirty' = FALSE
        BY <1>1, <3>1 DEF CleanLine
      <3>3. ~Cleaning'
        BY <2>3, <3>2 DEF Cleaning
      <3> QED
        BY <1>0, <2>1, <2>2, <3>1, <3>3 DEF DepthInv
    <2>4. CASE UNCHANGED <<active, done, remade, failed>>
      BY <1>0, <2>1, <2>2, <2>4 DEF DepthInv
    <2> QED
      BY <1>1, <2>3, <2>4, CleanSteps
  <1>2. CASE CleanFails
    <2>1. misses' = misses + 1 /\ events' = events + 1 /\ clean > 0
      BY <1>2 DEF CleanFails, Event
    <2>2. active <= 1 + misses
      BY <2>1 DEF DepthInv, Cleaning
    <2>3. active' = active + 1 \/ active' = active
      BY <1>2, CleanSteps DEF Begin
    <2> QED
      BY <1>0, <2>1, <2>2, <2>3 DEF DepthInv
  <1>3. ASSUME NEW k \in Levels, StartInner(k) PROVE DepthInv'
    <2>1. /\ k <= active /\ IsClean \notin done[k] /\ <<k, IsClean>> \notin jobs /\ dirty
          /\ UNCHANGED <<active, misses, events>>
      BY <1>0, <1>3 DEF StartInner, CanStart
    <2>2. k = active /\ active > 0
      BY <1>0, <2>1, Innermost DEF Levels
    <2>3. active <= 1 + misses
      BY <2>1, <2>2 DEF DepthInv, Cleaning
    <2> QED
      BY <1>0, <2>1, <2>3 DEF DepthInv
  <1>4. CASE InnerEnds
    <2>1. active' = active - 1 /\ UNCHANGED <<misses, events>>
      BY <1>4 DEF InnerEnds
    <2> QED
      BY <1>0, <2>1 DEF DepthInv
  <1>5. CASE BuildEnds \/ RunClean \/ Interrupt
    <2>1. active' = 0 /\ misses' = misses /\ (events' = events \/ events' = events + 1)
      BY <1>5 DEF BuildEnds, RunClean, Interrupt, Event, Idle, make
    <2> QED
      BY <1>0, <2>1 DEF DepthInv
  <1>6. CASE RunBuild
    <2>1. active' = 1 /\ misses' = 0 /\ events' = events + 1
      BY <1>6 DEF RunBuild, Event, Begin
    <2> QED
      BY <1>0, <2>1 DEF DepthInv
  <1>7. ASSUME NEW k \in Levels, TouchDirty(k) PROVE DepthInv'
    <2>1. <<k, Touch>> \in jobs /\ UNCHANGED <<active, clean, misses, events>> /\ Tree \in Targets
      BY <1>7, TargetKinds DEF TouchDirty
    <2>2. k <= active /\ IsClean \in done[k]
      BY <2>1, PrerequisiteFacts DEF StructInv, JobsInv, Goal
    <2>3. <<k, IsClean>> \notin jobs
      BY <2>2, Waits
    <2>4. k = active /\ clean = 0
      BY <2>2, <2>3, Innermost
    <2>5. IsClean \in done'[k]
      BY <1>0, <1>7, <2>1, <2>2, DoneGrows DEF TouchDirty
    <2>6. ~Cleaning'
      BY <2>1, <2>4, <2>5 DEF Cleaning
    <2> QED
      BY <2>1, <2>6 DEF DepthInv
  <1>8. ASSUME NEW k \in Levels, NEW g \in Targets, UNCHANGED <<active, misses, clean, dirty, events>>,
               UNCHANGED done \/ Done(k, g)
        PROVE  DepthInv'
    BY <1>0, <1>8, DepthKept
  <1>9. ASSUME NEW k \in Levels, NEW t \in Targets, Skip(k, t) \/ Start(k, t) PROVE DepthInv'
    BY <1>8, <1>9 DEF Skip, Start, disk
  <1>10. ASSUME NEW k \in Levels, MakeTree(k) \/ Pack(k) PROVE DepthInv'
    BY <1>8, <1>10, TargetKinds DEF MakeTree, Pack
  <1>11. ASSUME NEW k \in Levels, NEW l \in Libs, Compile(k, l) \/ LinkLib(k, l) PROVE DepthInv'
    <2>1. Obj(l) \in Targets /\ Lib(l) \in Targets
      BY TargetKinds
    <2>2. CASE Compile(k, l)
      BY <1>8, <2>1, <2>2 DEF Compile
    <2>3. CASE LinkLib(k, l)
      BY <1>8, <2>1, <2>3 DEF LinkLib, Deliver
    <2> QED
      BY <1>11, <2>2, <2>3
  <1>12. ASSUME NEW k \in Levels, NEW p \in Programs, LinkProgram(k, p) PROVE DepthInv'
    <2>1. Prog(p) \in Targets
      BY TargetKinds
    <2> QED
      BY <1>8, <1>12, <2>1 DEF LinkProgram, Deliver
  <1>13. CASE Edit \/ UNCHANGED vars
    <2>1. UNCHANGED <<active, misses, clean, dirty, done>> /\ (events' = events \/ events' = events + 1)
      BY <1>13 DEF Edit, Event, vars, disk, make
    <2> QED
      BY <1>0, <2>1 DEF DepthInv, Cleaning
  <1> QED
    BY <1>1, <1>2, <1>3, <1>4, <1>5, <1>6, <1>7, <1>9, <1>10, <1>11, <1>12, <1>13 DEF Next, MakeStep

LEMMA BuildDepth == Spec => [](StructInv /\ DepthInv)
  <1>1. Init => DepthInv
    BY DEF Init, DepthInv, Cleaning
  <1>2. StructInv /\ DepthInv /\ [Next]_vars => DepthInv'
    BY DepthStep
  <1> QED
    BY <1>1, <1>2, BuildStructure, PTL DEF Spec

(* For every number of jobs, whatever earlier makes have left and however  *)
(* clean fails: the make that is_clean calls after a `make clean` that has *)
(* succeeded never finds the marker at its own check, although recipes of  *)
(* other levels may be running beside it, so that makes are nested one     *)
(* deeper than two only for each clean that has failed.                    *)
THEOREM BuildNestsOnlyOnFailure == Spec => []NestsOnlyOnFailure
  <1>1. DepthInv => NestsOnlyOnFailure
    BY DEF DepthInv, NestsOnlyOnFailure
  <1> QED
    BY <1>1, BuildDepth, PTL

(* A check that finds the marker can start its clean and the make after it *)
(* as far as the bound on the depth is concerned.                          *)
RoomToNest == \A k \in Levels : CanStart(k, IsClean) /\ dirty => k < MaxDepth

(* For every MaxEvents: the bound on the depth of the nested makes never   *)
(* keeps is_clean from doing what it does, so that no behaviour of the     *)
(* recipes is lost to it.                                                  *)
THEOREM BuildRoomToNest == Spec => []RoomToNest
  <1>1. StructInv /\ DepthInv => RoomToNest
    <2> SUFFICES ASSUME StructInv, DepthInv, NEW k \in Levels, CanStart(k, IsClean), dirty
                 PROVE  k < MaxDepth
      BY DEF RoomToNest
    <2>1. /\ active \in Nat /\ misses \in Nat /\ events \in 0..MaxEvents
          /\ MaxEvents \in Nat /\ MaxDepth = MaxEvents + 2
      BY LevelFacts DEF StructInv, TypeInv
    <2>2. k <= active /\ IsClean \notin done[k] /\ <<k, IsClean>> \notin jobs
      BY <2>1 DEF CanStart
    <2>3. k = active /\ active > 0
      BY <2>1, <2>2, Innermost DEF Levels
    <2>4. active <= 1 + misses /\ misses <= events
      BY <2>2, <2>3 DEF DepthInv, Cleaning
    <2> QED
      BY <2>1, <2>3, <2>4
  <1> QED
    BY <1>1, BuildDepth, PTL
=============================================================================
