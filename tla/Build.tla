------------------------------- MODULE Build --------------------------------
(***************************************************************************)
(* The Makefile and scripts/build: what `make build` and `make clean` do   *)
(* to the tree .build/initramfs, the objects next to the sources, the      *)
(* marker .build/dirty and the image.  make runs up to Jobs recipes at a   *)
(* time, starts a recipe when the prerequisites the Makefile names are     *)
(* done, and stops starting when one has failed.  On a dirty tree the      *)
(* recipe of is_clean runs `make clean` and, however that ended, a second  *)
(* make (level 2) inside the first; if the marker is still there, that one *)
(* does the same.  The developer edits sources and may interrupt make at   *)
(* any time; every command may fail, for reasons that are not modelled.    *)
(***************************************************************************)
EXTENDS Naturals, Sequences, FiniteSets

CONSTANTS
  Jobs,      \* make -j
  None,      \* no file
  MaxEvents  \* bound: what the developer does and how often clean fails

ASSUME JobsAssumption == Jobs \in Nat \ {0} /\ MaxEvents \in Nat

VARIABLES
  c, h,     \* versions of the libraries' sources and of the headers
  dirty,    \* .build/dirty exists
  tree,     \* .build/initramfs exists
  objs,     \* src/lib/*.o: the versions each was made from
  built,    \* the libraries and programs in the tree
  image,    \* initramfs.cpio.gz
  active,   \* how many makes are running, one inside the other
  done,     \* at each level, the targets that are up to date
  remade,   \* at each level, the libraries whose object was compiled
  jobs,     \* the recipes that are running: level and target
  failed,   \* at each level, the target whose recipe has failed
  broken,   \* since make build was started: some command had all it needs, and failed
  misses,   \* ... how often `make clean` failed
  clean,    \* the line of `make clean` that is next, 0 for none
  last,     \* how the last make build ended
  events    \* what the developer has done, and cleans that failed, so far

sources == <<c, h>>
disk == <<dirty, tree, objs, built, image>>
make == <<active, done, remade, jobs, failed>>
vars == <<sources, disk, make, broken, misses, clean, last, events>>
-----------------------------------------------------------------------------
Libs == {"utils", "dynamic", "buffer"}
Programs == {"cat", "mount", "cd", "ls", "init"}
Parts == Libs \union Programs

(* The targets, in the order in which a make without -j gets to them. *)
IsClean == <<"is_clean", "">>
Tree == <<"tree", "">>
Image == <<"image", "">>
Touch == <<"touch", "">>  \* the second line of the recipe of Tree
Obj(l) == <<"obj", l>>
Lib(l) == <<"lib", l>>
Prog(p) == <<"prog", p>>
Order ==
  <<IsClean, Tree, Obj("utils"), Lib("utils"), Obj("dynamic"), Lib("dynamic"),
    Obj("buffer"), Lib("buffer"), Prog("cat"), Prog("mount"), Prog("cd"),
    Prog("ls"), Prog("init"), Image>>
Targets == {Order[k] : k \in DOMAIN Order}
Place == [t \in Targets |-> CHOOSE k \in DOMAIN Order : Order[k] = t]

(* The libraries a program's rule names: lines 37 and 39. *)
Names(p) == IF p = "mount" THEN {"utils"} ELSE IF p = "ls" THEN {"utils", "dynamic"} ELSE {}

(* The libraries without the tree. *)
FaultyPrerequisites ==
  [t \in Targets |->
    {u \in Targets :
       \/ t = Tree /\ u = IsClean
       \/ t[1] = "lib" /\ u = Obj(t[2])
       \/ t[1] = "prog" /\ u \in {Tree} \union {Lib(l) : l \in Names(t[2])}
       \/ t = Image /\ u[1] \in {"lib", "prog"}}]

(* What must be done before a target.  An object depends on its source     *)
(* only.                                                                   *)
Prerequisites ==
  [t \in Targets |->
    {u \in Targets :
       \/ t = Tree /\ u = IsClean
       \/ t[1] = "lib" /\ u \in {Obj(t[2]), Tree}
       \/ t[1] = "prog" /\ u \in {Tree} \union {Lib(l) : l \in Names(t[2])}
       \/ t = Image /\ u[1] \in {"lib", "prog"}}]

(* The makes, each inside the one before it.  The bound is never reached:  *)
(* NestsOnlyOnFailure.                                                     *)
MaxDepth == MaxEvents + 2
Levels == 1..MaxDepth

(* An inner make is given no job slots. *)
JobsAt(k) == IF k = 1 THEN Jobs ELSE 1
RunningAt(k) == {j \in jobs : j[1] = k}

CanStart(k, t) ==
  /\ k \in 1..active /\ failed[k] = None
  /\ t \notin done[k] /\ <<k, t>> \notin jobs
  /\ t = Tree => <<k, Touch>> \notin jobs
  /\ Prerequisites[t] \subseteq done[k]
  /\ Cardinality(RunningAt(k)) < JobsAt(k)
  /\ JobsAt(k) = 1 => \A u \in Targets : Place[u] < Place[t] => u \in done[k]

(* What a part is made from, and an image. *)
Versions == [c : Nat, h : Nat]
Images == [parts : [Parts -> Versions \union {None}], whole : BOOLEAN]

ASSUME NoneAssumption == None \notin Versions \union Images \union Targets

NoParts == [x \in Parts |-> None]
Version(l) == [c |-> c[l], h |-> h]

(* A clean checkout. *)
Init ==
  /\ c = [l \in Libs |-> 1] /\ h = 1
  /\ dirty = FALSE /\ tree = FALSE
  /\ objs = [l \in Libs |-> None] /\ built = NoParts /\ image = None
  /\ active = 0
  /\ done = [k \in Levels |-> {}] /\ remade = [k \in Levels |-> {}]
  /\ jobs = {} /\ failed = [k \in Levels |-> None]
  /\ broken = FALSE /\ misses = 0
  /\ clean = 0
  /\ last = "none" /\ events = 0

Done(k, t) == done' = [done EXCEPT ![k] = @ \union {t}]
Ends(k, t) == jobs' = jobs \ {<<k, t>>}
Fails(k, t) == failed' = [failed EXCEPT ![k] = IF @ = None THEN t ELSE @]
Breaks(k, t) == Fails(k, t) /\ broken' = TRUE

(* make starts at level k with nothing done. *)
Begin(k) ==
  /\ active' = k
  /\ done' = [done EXCEPT ![k] = {}] /\ remade' = [remade EXCEPT ![k] = {}]
  /\ failed' = [m \in Levels |-> IF m >= k THEN None ELSE failed[m]]

(* make compares an object with its source, and with no header. *)
UpToDate(l) == objs[l] # None /\ objs[l].c = c[l]

(* The test of is_clean, and objects that need not be compiled. *)
Skip(k, t) ==
  /\ CanStart(k, t)
  /\ (t = IsClean /\ ~dirty) \/ (t[1] = "obj" /\ UpToDate(t[2]))
  /\ Done(k, t)
  /\ UNCHANGED <<sources, disk, active, remade, jobs, failed, broken, misses, clean, last, events>>

Start(k, t) ==
  /\ CanStart(k, t)
  /\ t # IsClean /\ ~(t[1] = "obj" /\ UpToDate(t[2]))
  /\ jobs' = jobs \union {<<k, t>>}
  /\ UNCHANGED <<sources, disk, active, done, remade, failed, broken, misses, clean, last, events>>

(* is_clean on a dirty tree: make clean, and when that is over make build. *)
StartInner(k) ==
  /\ CanStart(k, IsClean) /\ dirty /\ k < MaxDepth
  /\ jobs' = jobs \union {<<k, IsClean>>}
  /\ clean' = 1
  /\ UNCHANGED <<sources, disk, active, done, remade, failed, broken, misses, last, events>>

(* A clean started by is_clean is over. *)
ThenBuild == IF active > 0 THEN Begin(active + 1) /\ UNCHANGED jobs ELSE UNCHANGED make

(* The marker removed before the objects. *)
FaultyCleanLine ==
  /\ clean \in 1..3
  /\ \/ clean = 1 /\ tree' = FALSE /\ built' = NoParts /\ UNCHANGED <<objs, dirty>>
     \/ clean = 2 /\ dirty' = FALSE /\ UNCHANGED <<tree, built, objs>>
     \/ clean = 3 /\ objs' = [l \in Libs |-> None] /\ UNCHANGED <<tree, built, dirty>>
  /\ clean' = IF clean = 3 THEN 0 ELSE clean + 1
  /\ IF clean = 3 THEN ThenBuild ELSE UNCHANGED make
  /\ UNCHANGED <<sources, image, broken, misses, last, events>>

(* The last line forgotten, so that the marker stays. *)
ForgetfulCleanLine ==
  /\ clean \in 1..2
  /\ \/ clean = 1 /\ tree' = FALSE /\ built' = NoParts /\ UNCHANGED <<objs, dirty>>
     \/ clean = 2 /\ objs' = [l \in Libs |-> None] /\ UNCHANGED <<tree, built, dirty>>
  /\ clean' = IF clean = 2 THEN 0 ELSE clean + 1
  /\ IF clean = 2 THEN ThenBuild ELSE UNCHANGED make
  /\ UNCHANGED <<sources, image, broken, misses, last, events>>

(* The three lines of the recipe of clean. *)
CleanLine ==
  /\ clean \in 1..3
  /\ \/ clean = 1 /\ tree' = FALSE /\ built' = NoParts /\ UNCHANGED <<objs, dirty>>
     \/ clean = 2 /\ objs' = [l \in Libs |-> None] /\ UNCHANGED <<tree, built, dirty>>
     \/ clean = 3 /\ dirty' = FALSE /\ UNCHANGED <<tree, built, objs>>
  /\ clean' = IF clean = 3 THEN 0 ELSE clean + 1
  /\ IF clean = 3 THEN ThenBuild ELSE UNCHANGED make
  /\ UNCHANGED <<sources, image, broken, misses, last, events>>

Event == events < MaxEvents /\ events' = events + 1

(* What is left of f when some of it could not be removed. *)
Remains(f, kept) == [x \in DOMAIN f |-> IF x \in kept THEN f[x] ELSE None]

(* One of the lines fails, with part of its work done (rm goes on with the *)
(* other directories), and clean is over: the marker stays where it was.   *)
CleanFails ==
  /\ clean \in 1..3 /\ Event
  /\ \/ /\ clean = 1 /\ UNCHANGED objs
        /\ \E kept \in SUBSET {Libs, Programs} : built' = Remains(built, UNION kept)
     \/ /\ clean = 2 /\ UNCHANGED built
        /\ \E kept \in SUBSET Libs : objs' = Remains(objs, kept)
     \/ clean = 3 /\ UNCHANGED <<built, objs>>
  /\ clean' = 0 /\ misses' = misses + 1
  /\ ThenBuild
  /\ UNCHANGED <<sources, dirty, tree, image, broken, last>>

(* The first line of the recipe of the tree, scripts/build/initramfs: the  *)
(* tree is made anew, or the script ends with an error (no C library)... *)
MakeTree(k) ==
  /\ <<k, Tree>> \in jobs
  /\ tree' = TRUE /\ built' = NoParts
  /\ \/ jobs' = (jobs \ {<<k, Tree>>}) \union {<<k, Touch>>} /\ UNCHANGED <<failed, broken>>
     \/ Ends(k, Tree) /\ Breaks(k, Tree)
  /\ UNCHANGED <<sources, dirty, objs, image, active, done, remade, misses, clean, last, events>>

(* ...and the second. *)
TouchDirty(k) ==
  /\ <<k, Touch>> \in jobs
  /\ Ends(k, Touch)
  /\ \/ dirty' = TRUE /\ Done(k, Tree) /\ UNCHANGED <<failed, broken>>
     \/ Breaks(k, Tree) /\ UNCHANGED <<dirty, done>>
  /\ UNCHANGED <<sources, tree, objs, built, image, active, remade, misses, clean, last, events>>

(* An error of the compiler leaves no object, or the old one. *)
Compile(k, l) ==
  /\ <<k, Obj(l)>> \in jobs
  /\ Ends(k, Obj(l))
  /\ \/ /\ objs' = [objs EXCEPT ![l] = Version(l)]
        /\ remade' = [remade EXCEPT ![k] = @ \union {l}]
        /\ Done(k, Obj(l)) /\ UNCHANGED <<failed, broken>>
     \/ /\ objs' \in {objs, [objs EXCEPT ![l] = None]}
        /\ Breaks(k, Obj(l)) /\ UNCHANGED <<remade, done>>
  /\ UNCHANGED <<sources, dirty, tree, built, image, active, misses, clean, last, events>>

(* Writing x into the tree as v, or failing: always unless ok, when        *)
(* something that is needed is not there, and otherwise for an error in    *)
(* the source or for want of space.                                        *)
Deliver(k, t, x, v, ok) ==
  /\ Ends(k, t)
  /\ \/ ok /\ built' = [built EXCEPT ![x] = v] /\ Done(k, t) /\ UNCHANGED <<failed, broken>>
     \/ Fails(k, t) /\ broken' = (broken \/ ok) /\ UNCHANGED <<built, done>>
  /\ UNCHANGED <<sources, dirty, tree, objs, image, active, remade, misses, clean, last, events>>

(* The object linked wherever make has found it. *)
FaultyLinkLib(k, l) ==
  /\ <<k, Lib(l)>> \in jobs
  /\ Deliver(k, Lib(l), l, objs[l], tree /\ objs[l] # None)

(* A library is linked from src/$<.  An object that make found up to date  *)
(* through VPATH has src/ in its name already, and is not found.           *)
LinkLib(k, l) ==
  /\ <<k, Lib(l)>> \in jobs
  /\ Deliver(k, Lib(l), l, objs[l], tree /\ l \in remade[k] /\ objs[l] # None)

Missing == {l \in Libs : built[l] = None}

(* Every program is linked with all the libraries. *)
LinkProgram(k, p) ==
  /\ <<k, Prog(p)>> \in jobs
  /\ Deliver(k, Prog(p), p, [c |-> 0, h |-> h], tree /\ Missing = {})

(* initramfs_links and compress_initramfs end with `cd`, so a failure of   *)
(* cpio or gzip leaves part of an image and no error.                      *)
Pack(k) ==
  /\ <<k, Image>> \in jobs
  /\ \E whole \in BOOLEAN : image' = [parts |-> built, whole |-> whole]
  /\ Ends(k, Image) /\ Done(k, Image)
  /\ UNCHANGED <<sources, dirty, tree, objs, built, active, remade, failed, broken, misses, clean,
                 last, events>>

(* Nothing is running and nothing more will be started. *)
Over(k) == RunningAt(k) = {} /\ (Image \in done[k] \/ failed[k] # None)

(* Whatever the inner make did, is_clean fails the outer one. *)
InnerEnds ==
  /\ active > 1 /\ Over(active)
  /\ active' = active - 1
  /\ Ends(active - 1, IsClean) /\ Fails(active - 1, IsClean)
  /\ UNCHANGED <<sources, disk, done, remade, broken, misses, clean, last, events>>

BuildEnds ==
  /\ active = 1 /\ Over(1)
  /\ active' = 0
  /\ last' = IF failed[1] = None THEN "ok" ELSE "failed"
  /\ UNCHANGED <<sources, disk, done, remade, jobs, failed, broken, misses, clean, events>>

MakeStep ==
  \/ CleanLine \/ CleanFails \/ InnerEnds \/ BuildEnds
  \/ \E k \in Levels :
       \/ StartInner(k)
       \/ \E t \in Targets : Skip(k, t) \/ Start(k, t)
       \/ MakeTree(k) \/ TouchDirty(k) \/ Pack(k)
       \/ \E l \in Libs : Compile(k, l) \/ LinkLib(k, l)
       \/ \E p \in Programs : LinkProgram(k, p)

Idle == active = 0 /\ clean = 0

RunBuild ==
  /\ Idle /\ Event
  /\ Begin(1) /\ jobs' = {}
  /\ broken' = FALSE /\ misses' = 0
  /\ last' = "none"
  /\ UNCHANGED <<sources, disk, clean>>

RunClean ==
  /\ Idle /\ Event
  /\ clean' = 1 /\ last' = "none"
  /\ UNCHANGED <<sources, disk, make, broken, misses>>

Edit ==
  /\ Idle /\ Event
  /\ \/ \E l \in Libs : c' = [c EXCEPT ![l] = @ + 1] /\ UNCHANGED h
     \/ h' = h + 1 /\ UNCHANGED c
  /\ last' = "none"
  /\ UNCHANGED <<disk, make, broken, misses, clean>>

(* Interrupting make ends every level and its recipes; what they have    *)
(* written stays.                                                          *)
Interrupt ==
  /\ ~Idle /\ Event
  /\ active' = 0 /\ jobs' = {} /\ clean' = 0
  /\ last' = "none"
  /\ UNCHANGED <<sources, disk, done, remade, failed, broken, misses>>

Next == MakeStep \/ RunBuild \/ RunClean \/ Edit \/ Interrupt

(* make and its recipes go on; the developer need not do anything. *)
Spec == Init /\ [][Next]_vars /\ WF_vars(MakeStep)
-----------------------------------------------------------------------------
Current(i) ==
  i # None => /\ \A l \in Libs : i.parts[l] = Version(l)
              /\ \A p \in Programs : i.parts[p] # None /\ i.parts[p].h = h

(* A build that reports success has packed an image with every part, all   *)
(* of them made from the sources as they are, however the jobs were        *)
(* interleaved and whatever earlier builds, interrupted ones too, have     *)
(* left behind.  (Packing itself may have failed unnoticed.)               *)
SuccessIsCurrent == last = "ok" => image # None /\ Current(image)

(* Without -j a build that is not interrupted gets there unless a command  *)
(* that has all it needs fails in its own right, an error in the sources,  *)
(* no C library: no recipe ever lacks what an earlier one, or an earlier   *)
(* build, should have left or removed.  On a dirty tree make reports an    *)
(* error, but the innermost make has packed the image, also when `make     *)
(* clean` has failed on the way to it.                                     *)
SerialAlwaysBuilds ==
  Jobs = 1 /\ last \in {"ok", "failed"} /\ ~broken =>
    image # None /\ Current(image) /\ failed[1] \in {None, IsClean}

(* Without -j there are objects next to the sources only under a dirty     *)
(* tree, at any moment, so an interrupted build or clean never leaves      *)
(* objects that the next make would take for up to date.                   *)
ObjectsImplyDirty == Jobs = 1 /\ (\E l \in Libs : objs[l] # None) => dirty

(* The tree is never removed or made anew while another recipe, of any of  *)
(* the makes, writes in it.                                                *)
TreeNotShared ==
  clean = 1 \/ (\E k \in Levels : <<k, Tree>> \in jobs) =>
    \A j \in jobs : j[2][1] \notin {"lib", "prog", "image"}

(* is_clean runs one make inside another, and a further one inside that    *)
(* only for every time that `make clean` has failed: what a build leaves   *)
(* never sends a make that has cleaned back to cleaning.                   *)
NestsOnlyOnFailure == active <= 2 + misses

(* make ends, however its recipes fail, if `make clean` does not fail for  *)
(* ever (with MaxEvents it does not): is_clean would then start one make   *)
(* inside another without end.                                             *)
MakeEnds == active > 0 ~> active = 0
=============================================================================
