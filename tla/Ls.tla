--------------------------------- MODULE Ls ---------------------------------
(***************************************************************************)
(* src/bin/ls.c, the walk: main() reads the command line, ls() goes        *)
(* through a list of directories, and print_dir() calls ls() again on the  *)
(* subdirectories it has found.  The recursion is an explicit stack, one   *)
(* frame per activation of ls(), so that other processes can change the    *)
(* tree between any two steps.                                             *)
(*                                                                         *)
(* What print_dir() does with one directory is the subject of module       *)
(* Listing; here it is three steps, opendir(), the readdir() loop, during  *)
(* which the directory may change, and the rest.  A path is the directory  *)
(* it names (module Paths has the text).  The headings "path:" and         *)
(* "count =" are left out.                                                 *)
(***************************************************************************)
EXTENDS Integers, Sequences, FiniteSets

CONSTANTS
  Dir,          \* directories
  Cwd,          \* the one "." names
  Missing,      \* an operand that names no directory
  Parent,       \* the directory each of the others is in
  Hidden,       \* those whose name begins with '.'
  Files,        \* those with a visible entry that is no directory
  Large,        \* those whose padded listing outgrows the first block of names
  Late,         \* those that do not exist when ls starts
  CommandLines, \* the argument vectors
  MaxChanges,   \* bound: directories made or removed while ls runs
  MaxTimes      \* bound: how often readdir() returns an entry that changes meanwhile

VARIABLES
  pc,        \* where ls is, or how it ended
  argv, arg, \* the command line and the next argument
  flags,     \* FLAGS
  paths,     \* the operands
  stack,     \* the activations of ls()
  cursor,    \* of the terminal
  err,       \* the error under way, then the exit status
  heap,      \* blocks allocated and not released, without the maps
  lost,      \* the maps, which are never released
  listed,    \* the directories printed
  unopened,  \* those that opendir() failed for
  touched,   \* the entries changed since the directory being read was opened
  present,   \* the directories that exist
  changed,   \* those made or removed since ls started
  changes    \* how often that happened

line == <<argv, arg, flags, paths>>
tree == <<present, changed, changes>>
vars == <<pc, line, stack, cursor, err, heap, lost, listed, unopened, touched, tree>>
-----------------------------------------------------------------------------
(* Command-line arguments: "--" options by their text, "-" options by      *)
(* their letters, operands by the directory they name.                     *)
Long == {"sort=none", "sort=name", "sort=width", "sort=other", "reverse", "other"}
Letters == {"a", "A", "U", "r", "R", "l"}
Arguments ==
  [kind : {"long"}, text : Long] \union [kind : {"short"}, letters : SUBSET Letters]
    \union [kind : {"path"}, dir : Dir \union {Missing}]

ASSUME WalkAssumption ==
  /\ Cwd \in Dir /\ Missing \notin Dir
  /\ Parent \in [Dir \ {Cwd} -> Dir]
  /\ Hidden \subseteq Dir \ {Cwd} /\ Files \subseteq Dir /\ Large \subseteq Dir
  /\ Late \subseteq Dir \ {Cwd}
  /\ CommandLines \subseteq Seq(Arguments)
  /\ MaxChanges \in Nat /\ MaxTimes \in Nat

(* The directories are a finite tree: every set of them has a member that  *)
(* is in no other, so none is below itself.  What is in a directory that   *)
(* does not exist does not exist either.                                   *)
ASSUME TreeAssumption ==
  /\ IsFiniteSet(Dir)
  /\ \A S \in SUBSET Dir : S # {} => \E d \in S : d = Cwd \/ Parent[d] \notin S
  /\ \A c \in Dir \ {Cwd} : Parent[c] \in Late => c \in Late

DefaultFlags ==
  [show_hidden |-> FALSE, reverse |-> FALSE, sort |-> "NAME",
   list |-> FALSE, recursive |-> FALSE]

(* The options that parse_long_argument() returns 0 for: an unknown value  *)
(* of --sort= is one of them.                                              *)
LongOk(text) == text # "other"

(* The assignments of parse_long_argument(). *)
parse_long_argument(text, f) ==
  LET Sorts == [t \in {"sort=none", "sort=name", "sort=width"} |->
                  IF t = "sort=none" THEN "NONE" ELSE IF t = "sort=name" THEN "NAME" ELSE "WIDTH"]
  IN [f EXCEPT !.sort = IF text \in DOMAIN Sorts THEN Sorts[text] ELSE @,
               !.reverse = @ \/ text = "reverse"]

(* A missing break. *)
FaultyShortFlags(letters, f) ==
  [f EXCEPT !.show_hidden = @ \/ letters \intersect {"a", "A"} # {},
            !.sort = IF letters \intersect {"a", "A", "U"} # {} THEN "NONE" ELSE @,
            !.reverse = @ \/ "r" \in letters,
            !.recursive = @ \/ "R" \in letters]

(* -l taken for the long listing, which is a stub. *)
FaultyListFlags(letters, f) ==
  [f EXCEPT !.show_hidden = @ \/ letters \intersect {"a", "A"} # {},
            !.list = @ \/ "l" \in letters,
            !.recursive = @ \/ "R" \in letters]

(* The switch over the letters of one argument; other letters do nothing. *)
ShortFlags(letters, f) ==
  [f EXCEPT !.show_hidden = @ \/ letters \intersect {"a", "A"} # {},
            !.sort = IF "U" \in letters THEN "NONE" ELSE @,
            !.reverse = @ \/ "r" \in letters,
            !.recursive = @ \/ "R" \in letters]

(* A block: what it is for, the depth of its owner and the version that    *)
(* realloc() has made of it.  Static is memory that is never released: ""  *)
(* and the strings of the command line.                                    *)
Static == <<"static", 0, 0>>
Null == <<"null", 0, 0>>
Paths == <<"paths", 0, 0>>
FullPath(k, v) == <<"full_path", k, v>>
Names(k, v) == <<"names", k, v>>
Dirs(k) == <<"dirs", k, 0>>

(* An activation ls(path, dirs): source is the block the strings of dirs   *)
(* are in.                                                                 *)
Frame(path, dirs, source) ==
  [path |-> path, dirs |-> dirs, source |-> source, i |-> 0, full |-> Null]

Depth == Len(stack)
Top == stack[Depth]
Caller == SubSeq(stack, 1, Depth - 1)
Update(frame) == [stack EXCEPT ![Depth] = frame]

Init ==
  /\ pc = "parse"
  /\ argv \in CommandLines /\ arg = 1
  /\ flags = DefaultFlags
  /\ paths = <<>>
  /\ stack = <<>>
  /\ cursor = "shown"
  /\ err = 0
  /\ heap = {Paths} /\ lost = 0
  /\ listed = <<>> /\ unopened = {} /\ touched = {}
  /\ present = Dir \ Late /\ changed = {} /\ changes = 0

(* One argument of main()'s loop. *)
ParseArgument ==
  /\ pc = "parse" /\ arg <= Len(argv)
  /\ LET a == argv[arg]
     IN \/ /\ a.kind = "path"
           /\ paths' = Append(paths, a.dir)
           /\ UNCHANGED <<pc, flags, err>>
        \/ /\ a.kind = "short"
           /\ flags' = ShortFlags(a.letters, flags)
           /\ UNCHANGED <<pc, paths, err>>
        \/ /\ a.kind = "long" /\ LongOk(a.text)
           /\ flags' = parse_long_argument(a.text, flags)
           /\ UNCHANGED <<pc, paths, err>>
        \/ /\ a.kind = "long" /\ ~LongOk(a.text)
           /\ pc' = "exit" /\ err' = 7
           /\ UNCHANGED <<flags, paths>>
  /\ arg' = arg + 1
  /\ UNCHANGED <<argv, stack, cursor, heap, lost, listed, unopened, touched, tree>>

(* ls("", paths, flags), with the cursor hidden. *)
CallLs ==
  /\ pc = "parse" /\ arg > Len(argv)
  /\ cursor' = "hidden"
  /\ stack' = <<Frame(Static, paths, Static)>>
  /\ pc' = "enter"
  /\ UNCHANGED <<line, err, heap, lost, listed, unopened, touched, tree>>

(* The start of ls(): the stub ls_list() for -l, "." when there is no      *)
(* operand.                                                                *)
Enter ==
  /\ pc = "enter"
  /\ IF flags.list
     THEN pc' = "back" /\ err' = 69 /\ UNCHANGED stack
     ELSE /\ pc' = "turn"
          /\ stack' = IF Top.dirs = <<>> THEN Update([Top EXCEPT !.dirs = <<Cwd>>]) ELSE stack
          /\ UNCHANGED err
  /\ UNCHANGED <<line, cursor, heap, lost, listed, unopened, touched, tree>>

Live(block) == block \in heap \union {Static}

(* One turn too few... *)
FaultyMoreShort == Top.i + 1 < Len(Top.dirs)

(* The condition of ls()'s loop. *)
More == Top.i < Len(Top.dirs)

(* concat_path() makes the next path out of path and an element of dirs,   *)
(* in the block of the last one.                                           *)
Concat ==
  /\ pc = "turn" /\ More
  /\ LET full == FullPath(Depth, Top.i + 1)
     IN IF Live(Top.path) /\ Live(Top.source)
        THEN /\ heap' = (heap \ {Top.full}) \union {full}
             /\ stack' = Update([Top EXCEPT !.i = @ + 1, !.full = full])
             /\ pc' = "print"
        ELSE pc' = "ub" /\ UNCHANGED <<heap, stack>>
  /\ UNCHANGED <<line, cursor, err, lost, listed, unopened, touched, tree>>

(* The directory that print_dir() is called on. *)
Current == Top.dirs[Top.i]

(* Recursing into everything that -a shows, "." included. *)
FaultySubdirs(d) ==
  {c \in present \ {Cwd} : Parent[c] = d /\ (c \notin Hidden \/ flags.show_hidden)}
    \union (IF flags.show_hidden THEN {d} ELSE {})

(* The entries read_dir() puts in dirs: never "." nor "..", nor another    *)
(* hidden one, whatever the flags.                                         *)
Subdirs(d) == {c \in present \ {Cwd} : Parent[c] = d /\ c \notin Hidden}

(* Trying again until the directory can be opened. *)
FaultyOpenFails ==
  /\ pc = "print"
  /\ stack' = Update([Top EXCEPT !.i = @ - 1])
  /\ unopened' = unopened \union {Current}
  /\ pc' = "turn"
  /\ UNCHANGED <<line, cursor, err, heap, lost, listed, touched, tree>>

(* opendir() fails: there is no such directory, or it may not be read, or  *)
(* there are no descriptors or memory left.  print_dir() returns 0.        *)
OpenFails ==
  /\ pc = "print"
  /\ unopened' = unopened \union {Current}
  /\ pc' = "turn"
  /\ UNCHANGED <<line, stack, cursor, err, heap, lost, listed, touched, tree>>

OpenDir ==
  /\ pc = "print" /\ Current \in present
  /\ pc' = "read"
  /\ UNCHANGED <<line, stack, cursor, err, heap, lost, listed, unopened, touched, tree>>

(* What the readdir() loop may leave in dirs: the subdirectories in any    *)
(* order, each once, except for those made or removed since opendir(),     *)
(* which may come once, several times or not at all.                       *)
Readings ==
  LET steady == Subdirs(Current) \ touched
      most == Cardinality(steady) + MaxTimes * Cardinality(touched)
      occurs(c, s) == Cardinality({k \in DOMAIN s : s[k] = c})
  IN {s \in UNION {[1..n -> steady \union touched] : n \in 0..most} :
        /\ \A c \in steady : occurs(c, s) = 1
        /\ \A c \in touched : occurs(c, s) <= MaxTimes}

(* There is always an entry to show: "." and ".." with -a, or a file. *)
AlwaysEntries == flags.show_hidden \/ Current \in Files

(* Nothing to print.  A directory removed while it is read, even if it is  *)
(* made again, may have had no entry at all.                               *)
PrintNothing ==
  /\ pc = "read"
  /\ <<>> \in Readings /\ (Current \in changed \/ ~AlwaysEntries)
  /\ pc' = "turn" /\ touched' = {}
  /\ UNCHANGED <<line, stack, cursor, err, heap, lost, listed, unopened, tree>>

(* names and dirs released before the recursion. *)
FaultyPrintDir ==
  /\ pc = "read"
  /\ \E s \in Readings :
       /\ AlwaysEntries \/ s # <<>>
       /\ IF flags.recursive /\ s # <<>>
          THEN /\ stack' = Append(stack, Frame(Top.full, s, Names(Depth, 0)))
               /\ pc' = "enter"
          ELSE pc' = "turn" /\ UNCHANGED stack
  /\ listed' = Append(listed, Current)
  /\ lost' = lost + 1
  /\ touched' = {}
  /\ UNCHANGED <<line, cursor, err, heap, unopened, tree>>

(* print_dir() of a directory with entries.  map is not released.  names   *)
(* and dirs are kept during the recursion; the block of names may have     *)
(* moved since dirs was filled, when there was padding to add beyond it.   *)
PrintDir ==
  /\ pc = "read"
  /\ \E s \in Readings, v \in IF Current \in Large THEN {0, 1} ELSE {0} :
       /\ AlwaysEntries \/ s # <<>>
       /\ IF flags.recursive /\ s # <<>>
          THEN /\ stack' = Append(stack, Frame(Top.full, s, Names(Depth, 0)))
               /\ heap' = heap \union {Names(Depth, v), Dirs(Depth)}
               /\ pc' = "enter"
          ELSE pc' = "turn" /\ UNCHANGED <<stack, heap>>
  /\ listed' = Append(listed, Current)
  /\ lost' = lost + 1
  /\ touched' = {}
  /\ UNCHANGED <<line, cursor, err, unopened, tree>>

(* The end of ls()'s loop. *)
EndLoop ==
  /\ pc = "turn" /\ ~More
  /\ heap' = heap \ {Top.full}
  /\ pc' = "back"
  /\ UNCHANGED <<line, stack, cursor, err, lost, listed, unopened, touched, tree>>

(* print_dir() keeping what it gave to the recursion. *)
FaultyReturn ==
  /\ pc = "back" /\ Depth > 1
  /\ stack' = Caller
  /\ pc' = "turn"
  /\ UNCHANGED <<line, cursor, err, heap, lost, listed, unopened, touched, tree>>

(* ls() returns to print_dir().  An error goes up at once, ten times as    *)
(* large at every level; what the levels hold stays allocated.             *)
Return ==
  /\ pc = "back" /\ Depth > 1
  /\ stack' = Caller
  /\ IF err = 0
     THEN /\ heap' = heap \ {Names(Depth - 1, 0), Names(Depth - 1, 1), Dirs(Depth - 1)}
          /\ pc' = "turn" /\ UNCHANGED err
     ELSE err' = 10 * err /\ UNCHANGED <<pc, heap>>
  /\ UNCHANGED <<line, cursor, lost, listed, unopened, touched, tree>>

(* A return that forgets the cursor when nothing was listed. *)
FaultyExit ==
  /\ pc = "back" /\ Depth = 1
  /\ stack' = <<>>
  /\ cursor' = IF listed = <<>> THEN cursor ELSE "shown"
  /\ heap' = heap \ {Paths}
  /\ pc' = "exit"
  /\ UNCHANGED <<line, err, lost, listed, unopened, touched, tree>>

(* ls() returns to main(). *)
Exit ==
  /\ pc = "back" /\ Depth = 1
  /\ stack' = <<>>
  /\ cursor' = "shown"
  /\ heap' = heap \ {Paths}
  /\ pc' = "exit"
  /\ UNCHANGED <<line, err, lost, listed, unopened, touched, tree>>

Running == {"parse", "enter", "turn", "print", "read", "back"}
Ended == {"exit", "killed", "ub"}

(* The process is killed: an interrupt, the division by zero of a terminal *)
(* too narrow, an allocation refused and not checked.                      *)
Killed ==
  /\ pc \notin Ended
  /\ pc' = "killed"
  /\ UNCHANGED <<line, stack, cursor, err, heap, lost, listed, unopened, touched, tree>>

(* Other processes remove empty directories and make new ones. *)
Change(d) ==
  /\ pc \notin Ended
  /\ changes < MaxChanges
  /\ \/ d \in present /\ {c \in present \ {Cwd} : Parent[c] = d} = {} /\ present' = present \ {d}
     \/ d \notin present /\ Parent[d] \in present /\ present' = present \union {d}
  /\ changed' = changed \union {d} /\ changes' = changes + 1
  /\ touched' = IF pc = "read" /\ Parent[d] = Current /\ d \notin Hidden
                THEN touched \union {d} ELSE touched
  /\ UNCHANGED <<pc, line, stack, cursor, err, heap, lost, listed, unopened>>

Step ==
  \/ ParseArgument \/ CallLs \/ Enter \/ Concat
  \/ OpenFails \/ OpenDir \/ PrintNothing \/ PrintDir
  \/ EndLoop \/ Return \/ Exit

Next == Step \/ Killed \/ \E d \in Dir \ {Cwd} : Change(d)

(* A process that can take a step is scheduled; nobody must interrupt it   *)
(* or change the tree.                                                     *)
Spec == Init /\ [][Next]_vars /\ WF_vars(Step)
-----------------------------------------------------------------------------
(* The k-th argument; the options among the first n arguments. *)
Is(k, kind) == argv[k].kind = kind
Letter(S, n) == \E k \in 1..n : Is(k, "short") /\ argv[k].letters \intersect S # {}
LongOption(text, n) == \E k \in 1..n : Is(k, "long") /\ argv[k].text = text

(* The k-th argument says in which order to list. *)
Sorts(k) ==
  \/ Is(k, "short") /\ "U" \in argv[k].letters
  \/ Is(k, "long") /\ argv[k].text \in {"sort=none", "sort=name", "sort=width"}

(* What the first n arguments mean, whatever their order: each switch is   *)
(* on when one of its options occurs, the last option about the order of   *)
(* the listing wins, and paths has the operands, each once, in their       *)
(* order.  An unknown value of --sort= is as good as none.                 *)
Means(n) ==
  /\ flags.show_hidden <=> Letter({"a", "A"}, n)
  /\ flags.recursive <=> Letter({"R"}, n)
  /\ flags.reverse <=> Letter({"r"}, n) \/ LongOption("reverse", n)
  /\ (\A k \in 1..n : ~Sorts(k)) => flags.sort = "NAME"
  /\ \A k \in 1..n : Sorts(k) /\ (\A j \in 1..n : Sorts(j) => j <= k) =>
       flags.sort = IF Is(k, "short") \/ argv[k].text = "sort=none" THEN "NONE"
                    ELSE IF argv[k].text = "sort=name" THEN "NAME" ELSE "WIDTH"
  /\ \E at \in [DOMAIN paths -> 1..n] :
       /\ \A j, k \in DOMAIN paths : j < k => at[j] < at[k]
       /\ \A k \in 1..n : Is(k, "path") <=> \E j \in DOMAIN paths : at[j] = k
       /\ \A j \in DOMAIN paths : paths[j] = argv[at[j]].dir

(* Once the walk has started, the flags and the operands are what the      *)
(* command line means.                                                     *)
OptionsMean == pc \notin {"parse", "exit", "killed"} => Means(Len(argv))

(* ls exits with 7 for an unknown long option, before it touches the       *)
(* terminal, and with 0 for anything else, however many directories could  *)
(* not be opened: the other error values of ls.c are never returned.       *)
ExitStatus ==
  pc = "exit" => IF LongOption("other", Len(argv)) THEN err = 7 /\ listed = <<>> ELSE err = 0

(* With each of its directories, C has those in S that a recursive listing *)
(* goes down to.                                                           *)
Closed(C, S) == \A c \in S \ (Hidden \union {Cwd}) : Parent[c] \in C => c \in C

(* The directories a listing of d goes through when only those in S are    *)
(* there: d and, for a recursive one, what every closed set with d has.    *)
Below(d, S) ==
  IF flags.recursive
  THEN {x \in S : \A C \in SUBSET S : {d} \intersect S \subseteq C /\ Closed(C, S) => x \in C}
  ELSE {d} \intersect S

Operands == IF paths = <<>> THEN <<Cwd>> ELSE paths
Times(d) == Cardinality({k \in DOMAIN listed : listed[k] = d})
Visits(d, S) == Cardinality({k \in DOMAIN Operands : d \in Below(Operands[k], S)})

(* A directory that nobody makes or removes is never listed more often     *)
(* than the operands reach it, whatever happens to the others: the walk    *)
(* never goes back up, nor round in circles through "." and "..".  (One    *)
(* made again while its parent is read may come twice from readdir(), and  *)
(* is then listed twice.)                                                  *)
VisitedOnce == \A d \in Dir \ changed : Times(d) <= Visits(d, Dir)

(* When ls exits with 0, every directory that was there all the time has   *)
(* been listed, once for every operand it is below by a way on which       *)
(* opendir() never failed; removals and failures elsewhere do not make the *)
(* walk miss it.  (Without -a a directory without visible entries prints   *)
(* nothing.)                                                               *)
NothingMissed ==
  pc = "exit" /\ err = 0 =>
    LET steady == present \ changed
        shows(d) == flags.show_hidden \/ d \in Files
                      \/ \E c \in steady \ (Hidden \union {Cwd}) : Parent[c] = d
    IN \A d \in steady : shows(d) => Times(d) >= Visits(d, steady \ unopened)

(* While no error is under way the blocks allocated are those of the       *)
(* activations on the stack, one full_path each and one names and dirs for *)
(* each recursion: nothing is released under an activation that still uses *)
(* it, and nothing outlives its activation.  At exit none is left (except  *)
(* the maps, and the operands after a usage error).                        *)
HeapIsStack ==
  LET using == IF pc = "back" THEN Depth - 1 ELSE Depth
      full == {stack[k].full : k \in 1..using} \ {Null}
      names(k) == {b \in heap : b[1] = "names" /\ b[2] = k}
  IN /\ pc \in Running /\ err = 0 =>
          /\ {b \in heap : b[1] # "names"} =
               {Paths} \union full \union {Dirs(k) : k \in 1..(Depth - 1)}
          /\ \A k \in 1..(Depth - 1) : \E v \in {0, 1} : names(k) = {Names(k, v)}
          /\ \A b \in heap : b[1] = "names" => b[2] \in 1..(Depth - 1)
     /\ pc = "exit" => heap = IF err = 7 THEN {Paths} ELSE {}

(* ls reads through a dangling pointer only after it has listed some       *)
(* directory so large that padding its listing may move the block of       *)
(* names.                                                                  *)
DanglingOnlyIfLarge == pc = "ub" => \E k \in DOMAIN listed : listed[k] \in Large

(* A hidden cursor is shown again, unless the process is killed or runs    *)
(* into undefined behaviour.                                               *)
CursorReturns == cursor = "hidden" ~> (cursor = "shown" \/ pc \in {"killed", "ub"})

(* The walk ends, although others keep changing the tree. *)
Terminates == <>(pc \in Ended)
=============================================================================
