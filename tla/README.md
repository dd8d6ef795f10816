# Ne-os in TLA+

Ne-os is a small Linux system: a kernel image, an init program, a handful of
user programs in C, three C libraries of its own, and a build that packs them
with glibc and bash into an initramfs. This directory holds TLA+ models of its
own code, the TLC configurations that check them, and proofs checked by TLAPS.

Paths below are relative to the root of the repository.

## Inventory

| Part | State | Operations | Used by | What is hard |
|---|---|---|---|---|
| `src/lib/dynamic.c` growable array | one malloc block: header (`length`, `capacity`, `size`, `element_size`) and elements | `dynamic`, `_grow`, `_insert`, `_get`, `_size`, `_capacity`, `_shrink_to_fit`, `_resize`, `_free`, two printers | `ls` | no argument and no allocation is checked; the block moves; sizes wrap; four fields must keep agreeing with the block |
| `src/bin/ls.c`, one directory | arrays of names, types, inodes, subdirectories; the index `map`; column widths | `read_dir`, `print_dir`, `sort` | `ls()` | pointers kept into an array that moves; division by the number of columns; two loops with two index formulas over one grid |
| `src/bin/ls.c`, walk | flags, paths, the recursion | `main`, `ls`, `parse_long_argument` | the user | deep recursion with blocks held across it; directories that vanish, cannot be opened or change while they are read; the cursor must be shown again |
| `src/lib/utils.c` | none | `count_initial_flags`, `concat_path`, `print_args` | `ls`, `mount` | the empty string |
| `src/lib/buffer.c` | `used`, `size`, the buffer | `buffer`, `buffer_write`, `buffer_flush` | nobody yet | a flush in the middle of a write; the text is printf's format |
| `src/bin/cat.c` | one descriptor, one buffer | read/write loop | the user | short writes, errors |
| `src/init.c` | session, descriptors 0-2, mounts, terminal | a fixed list of system calls | the kernel, as process 1 | every step may fail and none is checked |
| `src/bin/mount.c`, `src/bin/cd.c` | none | one system call | `init`, the user | argument count; `cd` changes only its own process |
| `Makefile`, `scripts/build` | `.build` tree, `.build/dirty` | the rules | the developer | parallel jobs; the rebuild of a dirty tree; recipes that fail, clean among them |

glibc (`src/glibc-2.43`), the kernel image and the bash files under `initramfs`
are third-party or data. What they promise is modelled only where a program
relies on it (malloc, realloc, qsort, opendir, readdir, ioctl).

Every program is sequential. What makes them hard to test is the environment:
an allocator that may refuse or move a block at any call, a directory with any
number of entries in any order that others change while it is walked, a
terminal of any width or none at all, a file that grows while it is copied, a
kernel that refuses a request. The build is concurrent: make runs recipes in
parallel, runs itself inside one of them, and may be interrupted.

The hazards, each at its line with the properties that cover it, are listed in
`PROJECT.json` under `hazards`.

What would make each part correct:

- array: from a header that agrees with its block no call leaves the block,
  whatever the allocator does; a client that keeps the contract sees a plain
  sequence.
- one directory: indices stay in their arrays, every entry appears once, in
  order, in aligned columns no wider than the terminal; blocks are released;
  paths handed to the recursion are live.
- walk: every visible subdirectory that can be reached and stays there is listed
  once, the walk ends, the cursor is shown again.
- paths: the block is large enough and the path names the right file, also
  when the first part is empty.
- cat: the output is a prefix of the file, and all of it when cat returns 0.
- buffer: text stays in the block and arrives as it was written.
- mount: the exit status tells what was done.
- init: the shell runs with a controlling terminal when every step succeeded.
- build: a build that succeeds has packed every part, made from the sources as
  they are, however the jobs interleave and whatever an interrupt left behind.

## Modules

| Module | Models | Role |
|---|---|---|
| `Vector` | nothing in the code | what the array promises: a sequence that grows at the end and can be cut |
| `Dynamic` | `src/lib/dynamic.c`, `include/dynamic.h` | the array as the code has it: heap, pointer, header, elements |
| `DynamicContract` | the way clients call it | the contract, the properties, the refinement mapping to `Vector` |
| `Listing` | `src/bin/ls.c` lines 16-247 | reading and printing one directory |
| `Ls` | `src/bin/ls.c` lines 249-372, and the recursion through `print_dir` | the command line and the walk |
| `Paths` | `concat_path` of `src/lib/utils.c` | the paths of the walk |
| `Mount` | `src/bin/mount.c`, `count_initial_flags` of `src/lib/utils.c` | one run of mount |
| `Boot` | `src/init.c` | process 1, composed with three runs of `Mount` |
| `Copy` | nothing in the code | what cat promises |
| `Cat` | `src/bin/cat.c` | cat, and the refinement mapping to `Copy` |
| `Buffer` | `src/lib/buffer.c` | the output buffer |
| `Build` | `Makefile`, `scripts/build` | make, its recipes, and the developer |
| `MCDynamic`, `MCListing`, `MCLs`, `MCMount` | | constants for TLC |
| `DynamicProofs`, `ListingProofs`, `LsProofs`, `PathsProofs`, `BootProofs` (with `Mount`), `CatProofs`, `BufferProofs`, `BuildProofs` | | theorems |

An operator whose name begins with `Faulty` (or `Forgetful`) is not part of any
specification: it is a definition below it with a plausible bug, and
`PROJECT.json` names the property that catches it.

### Dynamic

`heap` maps each live block to its bytes; `handle` is the client's `DYNAMIC *`;
`hdr` is the header in the block and `mem` the elements written in it. There is
one action per function, named as in the code. `size_t` arithmetic is modulo
`SizeMod`; malloc and realloc may refuse any request, refuse all above
`HeapLimit` (PTRDIFF_MAX is below half of SIZE_MAX, which is the assumption
`2 * HeapLimit < SizeMod`), and realloc may move the block or not. An access
outside a live block sets `status` to `"ub"`, one through NULL to `"crashed"`;
nothing happens after either. `dynamic_grow` stores realloc's NULL and then
counts the element through it; `dynamic_shrink_to_fit` and `dynamic_resize`
store it and return, so the client is left with NULL and the block is lost.

`size`, `capacity`, `get` and the two printers change nothing; they are the
action `Inspect`, which matters only when there is no header to read.

`DynamicContract` states what a client must do for the array to be a sequence:
no element size 0, no size that wraps, no shrinking of an empty array, and
`dynamic_resize` only to cut. `ls.c`, the only client, keeps it. The three
prohibitions are needed: shrinking an empty array leaves a capacity of 0 that
doubling does not enlarge, and resizing upwards records a capacity the block
does not have, since the byte size is taken from the length.

### Listing

The program counter `pc` names the part of `read_dir` or `print_dir` that runs
next, or how it ended; each loop is one action per turn. `names` is the
sequence the DYNAMIC implements (that is what `DynamicProofs` shows), plus
`room` (its capacity) and `block` (how often it has moved), because `dirs` keeps
addresses inside the block: a pointer is an index and the block it was taken
in. A name is an atom with a length (`NameLen`) and a place in strcmp's order
(`Rank`). qsort yields any permutation in the order of the comparison function.
`get_stdout_width` returns any member of `Widths`: when stdin is no terminal
`ws_col` is uninitialized. `readdir` yields any name in any order, the same one
twice too (a directory may change while it is read). `cursor` and `edge` are
screen columns; `blocks` are the allocations held. Colours (and with them the
contents of `types` and `ino`) and the blank line after a listing are left out.
The recursive call of `ls()` is one step that succeeds or fails.

### Ls

`stack` has one frame per activation of `ls()`: the path it was called with, the
list of directories, the loop index, and its own `full_path`. A path is the
directory it names; with it goes the block of memory it is in, so that reading
through a released block (`pc = "ub"`) is visible. What `print_dir` does with
one directory is `Listing`; here it is two steps, opendir() and the rest,
followed by the recursive call when there is one. opendir() may fail for any
directory (`OpenFails`), because it is gone or for want of permission,
descriptors or memory; `unopened` records for which. Between any two steps other
processes may make or remove a directory (`Change`) and the process may be
killed (`Killed`). The entries made or removed between opendir() and the end of
the readdir() loop are in `touched`, and the loop returns each of these not at
all, once or up to `MaxTimes` times, and every other one once, in any order
(`Readings`). POSIX leaves the former open and promises the latter. Directories in
`Large` are those whose padded listing exceeds the first block of names;
`Listing` shows that only those can leave pointers dangling.

`Below(d, S)` is what a listing of `d` goes through when only the directories in
`S` are there. It is the least set with `d` that is closed under going down to a
visible entry, and not a recursion over the tree, so that it can be reasoned
about; `OptionsMean` says where the operands are on the command line with an
increasing map for the same reason.

The letter `l` is not among those the switch in `main` knows, so `ls_list`, a
stub that returns an error, is never reached, and nor are the error values that
`print_dir` multiplies by ten. `ExitStatus` states this; the error path is in the
model (`Enter`, `Return`) so that it is a result and not an assumption.

### Paths

`concat_path` one statement at a time. A path is a sequence of characters, of
which only the slash is special. `before` is the byte in front of `s1`, which
the code reads when `s1` is empty. A result is the next call's first argument,
as in the walk.

### Mount and Boot

`Mount` is one run on a command line: the flags are counted one per step, the
tests are made, the system call succeeds or fails. `Boot` has one action per
statement of `init.c`; `system()` runs `Mount` to its exit while `init` waits.
The kernel starts `init` with three descriptors on the console or with none, so
that `open()` returns 3 or 0. `/dev/ttyS0` exists only when devtmpfs is mounted.
Every call may fail, the two ioctls on an open terminal too (`Asked`). open()
gives a session leader its controlling terminal by itself, as Linux does without
O_NOCTTY, so that TIOCSCTTY only repeats it. `refused` records that the kernel
has refused something it could have done; `BootsUnlessRefused` assumes it did not.

### Cat and Copy

Byte k of the file is the number k. `read` returns any count up to the buffer,
or fails; `write` accepts any part of the buffer, or fails, or the reader of a
pipe is gone; the file may grow. `lost` says that a write was not complete:
`cat` does not look at the result, and the mapping takes such a copy to the
abstract phase `"broken"`.

### Buffer

The block is `size` bytes and one more. A write puts one character per step;
the character that finds the buffer full first hands it to `call`, whose result
decides whether the write goes on. With printf as `call` the text is the format:
a text with a directive (`Percent`) is undefined behaviour (`pc = "format"`), or
printf returns anything, 0 too; for other texts it returns the number of
characters, or an error. Any other function may return anything. `used` is never
advanced and the index is not reset after a flush, so what is true of the buffer
depends on its client: `plain` says that no text so far had a directive,
`longest` how long they were, and `unflushed` how many were written since the
last flush.

### Build

`done`, `jobs` and `failed` are make's own state, for the make the developer
started (level 1) and for those inside `is_clean`, each inside the one before
(levels 2, 3, ...). A recipe starts when the prerequisites the Makefile names
are done and a slot is free; it ends in a second step, so recipes overlap.
Sources have version numbers, a library carries the versions it was made from.
Programs are linked with all three libraries, but name none, one or two as
prerequisites. `lib/libstring.so` is in
`OBJECTS` without a source or recipe, so make does nothing for it; the line
`lib/dynamic.so: lib/libutils.so` names a target nobody asks for.

Every command may fail: the script that makes the tree, `touch`, the compiler
and the linker (with the old object left, or none), and each line of clean, with
part of its work done. `broken` records that a command failed in its own right,
an error in the sources or no C library, and not because something was missing
that an earlier recipe should have left. `is_clean` runs `make clean; make
build`, so that the inner make starts however the clean ended; after a failed
clean the marker is still there and it cleans and nests again. `misses` counts
the failed cleans of a build: `NestsOnlyOnFailure` says that there are no other
reasons to nest a second time.

## Runs

| Run | Specification | Shows |
|---|---|---|
| `dynamic_api` | `Spec` of `Dynamic`, all arguments | `StrayOnlyIfIncoherent`: a call leaves its memory only from a header that already disagrees with its block (or is a creation whose size wraps). `LeakOnlyOnRefusal`: a block is lost only in a step in which realloc refused |
| `dynamic_contract` | `ContractSpec` | `NoStray`: no call leaves the block. `SlackBounded`: unused room is bounded. `ImplementsVector`: the array is a `Vector` |
| `listing` | `Spec` of `Listing` | `IndexSafe`, `NoWrap`, `CellsFit`, `PrintedOnce`, `ColumnsSorted`: the listing is right. `NarrowOnly`: the division by zero needs a shown name that does not fit. `PointersLive`: the recursion gets live pointers while the padded listing fits the first block. `ReleasedAtReturn`: only `map` is left behind |
| `ls_walk` | `Spec` of `Ls`, six command lines | `VisitedOnce`, `NothingMissed`: a directory that stays there is listed as often as the operands reach it, no more and, by a way on which every opendir() succeeds, no less, whatever happens to the others. `HeapIsStack`: blocks live exactly as long as the activation that owns them. `DanglingOnlyIfLarge`: undefined behaviour only after a large directory was listed. `CursorReturns`, `Terminates` |
| `ls_options` | `Spec` of `Ls`, all short command lines | `OptionsMean`: the effect of options does not depend on their order, except that the last `--sort` or `-U` wins. `ExitStatus`: 7 for an unknown long option, 0 otherwise |
| `paths` | `Spec` of `Paths` | `NoOverrun`: strcpy and strcat stay in the block. `JoinsPaths`: the result has the names of both arguments in order, and is absolute when it should be, whatever byte lies in front of an empty string |
| `mount` | `MountSpec` | `StatusTells`: exit status 0 exactly when the right command line was carried out |
| `boot` | `BootSpec` | `ShellDescriptors`: all three descriptors on the terminal, or all as the kernel left them. `ShellTerminal`: a terminal that could be opened is the controlling terminal of a session leader, also when an ioctl is declined, and no other has its size set. `BootsUnlessRefused`: everything is in place unless the kernel refused something. `BootEnds`: a shell, or a panic without one |
| `cat` | `Spec` of `Cat` | `InOrder`: no byte twice or out of order, whatever is lost. `ImplementsCopy`: a copy while writes are complete. `CatEnds` |
| `buffer` | `Spec` of `Buffer` | `PrintfIsSafe`: with printf no text without a directive makes it leave the block. `ShortTextsStay`: with any function, only a client with a text longer than the buffer can. `FlushHandsOver`: a text that fits and is flushed before the next arrives as it was written |
| `build_serial` | `Spec` of `Build`, `Jobs = 1` | `SerialAlwaysBuilds`: a build that is not interrupted packs the current sources unless a command fails in its own right, also when a clean fails. `ObjectsImplyDirty`: objects only under the marker, at any moment. `NestsOnlyOnFailure`: makes are nested more than two deep only by one level for each clean that failed. `MakeEnds` |
| `build_parallel` | `Spec` of `Build`, `Jobs = 2` | `SuccessIsCurrent`: no build succeeds with a missing or stale part. `TreeNotShared`: the tree is not removed under a recipe that writes in it |

Several properties mark where the code stops being right:

- a listing whose padded grid exceeds `DYNAMIC_DEFAULT_CAPACITY` cells may hand
  dangling pointers to `ls()` (`PointersLive`, `DanglingOnlyIfLarge`);
- a terminal narrower than the longest name plus two kills `ls` (`NarrowOnly`),
  with the cursor hidden (`CursorReturns` excludes it);
- a directory that cannot be opened is left out without a word and the exit
  status is 0 (`NothingMissed` and `ExitStatus` allow it); one that is made again
  while its parent is read may be listed twice (`VisitedOnce` allows it);
- `cat` exits with 0 after a short write (`ImplementsCopy` excludes it);
- a text with a `%` is undefined behaviour in the output buffer with printf
  (`PrintfIsSafe` excludes it), and a text written before the last one was
  flushed overwrites it (`FlushHandsOver` excludes it);
- with `make -j` a program may be linked before a library its rule does not
  name; the build then fails, and never succeeds wrongly (`SuccessIsCurrent`;
  `SerialAlwaysBuilds` needs `Jobs = 1`);
- a build on a dirty tree packs the image and reports an error all the same
  (`SerialAlwaysBuilds`);
- after a clean that fails, makes are nested one deeper, and without end if it
  always fails (`NestsOnlyOnFailure`, `MakeEnds`);
- a failure of cpio or gzip goes unnoticed: `SuccessIsCurrent` says what was to
  be packed, not that it arrived whole.

Deadlock is not an error in any run: the programs end, and the developer need
not do anything.

### Bounds

- `dynamic_*`: two addresses (one block can move to the other, or a lost one can
  take it), header of 4 bytes, `SizeMod` 40, `HeapLimit` 17, default capacity 2,
  element sizes 0, 2, 3 and capacities 0, 1, 3, 14. Two doublings fit below the
  limit and the third is refused; 14 elements of 3 bytes wrap. `dynamic_api`
  uses one element value, `dynamic_contract` two so that elements can be told
  apart.
- `listing`: four names of lengths 1 to 4, one of them a directory, one a hidden
  directory; up to four entries; default capacity 3, so the fourth entry or
  padding moves the array; widths 0, 4, 7, 10, 13, 17 give no column, exactly
  one, several with a short last column, and more columns than entries.
- `ls_walk`: six directories in three levels, a hidden one with a subdirectory,
  one that is `Large` with a subdirectory, one that appears late; `MaxChanges` 3
  lets one vanish, come back and vanish again, and two change while their parent
  is read; `MaxTimes` 2 lets such a one come twice from readdir(). opendir() may
  fail any number of times. The command lines have no, one
  and several operands, overlapping operands, a missing operand, with and
  without `-R` and `-a`.
- `ls_options`: all lines of up to three of thirteen arguments; two orders of
  any two options, with a third in between, are among them.
- `paths`: `MaxLen` 4 over a slash and one other character: empty, only slashes,
  slashes at either end and doubled.
- `mount`: all lines of up to five of five words, one more than mount looks at.
- `boot`: descriptors 0 to 4; open() never needs more than 3. Every call fails
  or not independently, the ioctls included.
- `cat`: buffer 3, file up to 7 bytes: two full buffers and a part.
- `buffer`: sizes 0 to 3, texts up to 4 over three characters, one of them the
  beginning of a directive, any sequence of calls.
- `build_serial`: five events, what the developer does and cleans that fail
  (build, edit, build with two failed cleans, or build, interrupt, clean, edit,
  build); `build_parallel`: four, with two slots, which is enough for any two
  recipes to overlap. Other commands fail without counting. The depth of the
  makes is bounded by `MaxDepth`, which follows from `MaxEvents` and is never in
  the way (`BuildRoomToNest`).

### Fairness

`Ls`, `Cat`, `Boot` (with the `Mount` it runs) and `Build` assume weak fairness
of the program's own steps: a process that can run is scheduled, and make starts
what it can start. Nothing is assumed of the environment: nobody must change the
tree, append to the file, interrupt or kill anything, edit or build. That others
change a bounded number of directories, append a bounded number of bytes, and
that clean fails a bounded number of times, is part of `Terminates`, `CatEnds`
and `MakeEnds`; a file that grows faster than it is read is copied for ever, and
a clean that always fails nests makes for ever. `Dynamic`, `Listing`, `Paths`
and `Buffer` have no liveness property and no fairness.

## Proofs

| Theorem | Statement |
|---|---|
| `DynamicProofs!TypeCorrect` | `Spec => []TypeOK` |
| `DynamicProofs!StrayNeedsIncoherence`, `LeakNeedsRefusal` | `Spec => StrayOnlyIfIncoherent`, `Spec => LeakOnlyOnRefusal` |
| `DynamicProofs!ContractSafe` | `ContractSpec => [](ContractInv /\ NoStray /\ SlackBounded)` |
| `DynamicProofs!ContractNeverStrays`, `ContractSlack` | its parts `NoStray` and `SlackBounded` |
| `DynamicProofs!InsertIsAppend` | `ContractSpec => InsertAppends` |
| `DynamicProofs!DynamicIsVector` | `ContractSpec => ImplementsVector` |
| `ListingProofs!ListingCorrect` | `Spec => [](ListingInv /\ IndexSafe /\ NoWrap /\ CellsFit /\ PrintedOnce)` |
| `ListingProofs!ListingTypes`, `ListingStaysInArrays`, `ListingFitsTerminal`, `ListingFitsColumns`, `ListingIsComplete` | its parts `TypeOK`, `IndexSafe`, `NoWrap`, `CellsFit`, `PrintedOnce` |
| `ListingProofs!BlocksReleased`, `RecursionGetsLivePointers`, `OnlyNarrowTerminals` | `Spec => []ReleasedAtReturn`, `[]PointersLive`, `[]NarrowOnly` |
| `ListingProofs!ListingIsSorted` | `Spec => []ColumnsSorted` |
| `LsProofs!LsOptionsMean`, `LsExitStatus` | `Spec => []OptionsMean`, `[]ExitStatus` |
| `LsProofs!LsHeapIsStack`, `LsDanglingOnlyIfLarge` | `Spec => []HeapIsStack`, `[]DanglingOnlyIfLarge` |
| `LsProofs!LsVisitedOnce`, `LsNothingMissed` | `Spec => []VisitedOnce`, `[]NothingMissed` |
| `PathsProofs!ConcatFits`, `ConcatJoins` | `Spec => []NoOverrun`, `[]JoinsPaths` |
| `BootProofs!MountStatusTells` | `MountSpec => []StatusTells` |
| `BootProofs!BootShellDescriptors`, `BootShellTerminal`, `BootIsComplete` | `BootSpec => []ShellDescriptors`, `[]ShellTerminal`, `[]BootsUnlessRefused` |
| `CatProofs!CatTypes`, `CatKeepsOrder`, `CatPrefix` | `Spec => []TypeOK`, `[]InOrder`, `[]PrefixInv` |
| `CatProofs!CatIsCopy` | `Spec => ImplementsCopy` |
| `BufferProofs!PrintfStaysInBlock`, `ShortTextsStayInBlock`, `BufferFlushHandsOver` | `Spec => []PrintfIsSafe`, `[]ShortTextsStay`, `Spec => FlushHandsOver` |
| `BuildProofs!BuildTreeNotShared`, `BuildSuccessIsCurrent` | `Spec => []TreeNotShared`, `[]SuccessIsCurrent` |
| `BuildProofs!BuildObjectsImplyDirty`, `BuildSerialAlwaysBuilds` | `Spec => []ObjectsImplyDirty`, `[]SerialAlwaysBuilds` |
| `BuildProofs!BuildNestsOnlyOnFailure` | `Spec => []NestsOnlyOnFailure` |
| `BuildProofs!BuildRoomToNest` | `Spec => []RoomToNest`: the bound on the depth of the makes never stops one |
| `LsProofs!LsCursor` | `Spec => []CursorInv`: the cursor is hidden during the walk, shown before it and at exit |
| `LsProofs!LsGetsOn` | every step lowers `Left`, in a well-founded order; `Change` leaves it alone |
| `ListingProofs!ListingGetsOn` | every step lowers `<<Stage, Turns>>`, in a well-founded order; `ReadEntry` leaves it alone |
| `CatProofs!CatGetsOn` | every step lowers the number `CatLeft`; `GrowFile` raises it by 2 |
| `BootProofs!BootGetsOn` | every step lowers `BootLeft`, which is in 0..119 |
| `BuildProofs!BuildGetsOn` | every step but `RunBuild` and `RunClean` lowers `MakeLeft`, in a well-founded order; `Edit` leaves it alone |

They hold for every value of the constants that satisfies the named assumptions:
every header and element size, capacity, allocator limit, name length, width,
directory size, file size, buffer size and text; every finite directory tree,
every command line, every number of jobs and every sequence of builds, edits,
interrupts and failures. Every safety property the runs check is the subject of
a theorem.

The assumptions that say something about the world:

- `Dynamic`: no request above `HeapLimit` succeeds, and twice the limit does not
  wrap.
- `Ls!TreeAssumption`: the directories are a finite tree. `read_dir` puts only
  entries of type `DT_DIR` in `dirs`, so a symbolic link is never followed, and a
  directory has no second hard link. What lies in a directory that does not
  exist yet does not exist yet. Operands may be any of them, overlap and repeat.
- `Ls`: an entry that nobody makes or removes while its directory is read comes
  from readdir() exactly once, as POSIX says.
- `Mount`: no file system has a name that begins with `-`; `Boot`: the kernel has
  the three file systems that `init` mounts and the image their directories.
- The others say that a value standing for "none" is not a value, and that
  bounds are numbers.

*The array.* `NoStray` is not inductive: whether an insert stays in the block
depends on `capacity`, `size` and the block agreeing. `ContractInv` adds
`Coherent` (the four fields and the block agree, capacity is not 0) and that
only indices below `length` were written. That a doubled size does not wrap
follows from the block's own size being at most `HeapLimit`. One lemma per call
(`GrowEffect`, `InsertEffect`, `ShrinkEffect`, `ResizeEffect`, `CreateEffect`)
says what the call leaves behind, and both the invariant and the refinement are
read off these lemmas. The refinement maps an array that was lost to an
allocation to the vector's phase `"failed"`. `LeakNeedsRefusal` goes call by call:
realloc either keeps the block, moves it and releases the old one, or refuses.

*The listing.* `ListingInv` carries the reasons: no name is longer than
`max_size`; the grid holds every entry and fits the terminal; `map` is a
permutation; the columns measured so far hold their names; a row that has
printed c cells has used at most c times `max_size + 2` columns. The arithmetic
of the grid is in four lemmas: the k-th printed cell is in the grid and in
column `k % colums` (`CellInGrid`), every cell is printed (`CellOnto`), the rows
suffice (`RowsEnough`), the columns fit (`ColumsFit`).

*Its memory.* `Held` says which blocks are allocated at each point. `Pointers`
says that while `names` has not outgrown its first block it has not moved, and
every pointer in `dirs` is into that block. `Attained` says that `max_size` is the
length of a name that is shown, which is what `NarrowOnly` needs when `colums`
is 0.

*Its order.* `MapSorted` says the first `count` positions of `map` are in order
and the padding behind them is untouched; `DownIsCell` inverts the formula of
the printing loop, so the cell read down the columns is the next position of
`map`.

*The command line.* `OptionsInv` says that after `arg - 1` arguments the flags and
operands are what these mean (`Means`), and an unknown long option has not
occurred; `ParseMeans` is the step from n to n + 1 arguments.

*The walk's memory.* `GivenInv` says where each activation got its path and its
names from: the `full_path` and `names` of the activation below it. `HeldInv`
says the heap is what the activations own (`Owned`), where each block of names
is in its first version or a second one, the latter only when a large directory
was listed. From both: a pointer the walk reads through is live, or names has
moved.

*What the walk visits.* Four parts make the invariant `WalkInv`. `NestInv`: the
directories of an activation are entries of the one that the activation below is
at, each once unless somebody has changed it. `SteadyInv`: a directory that was
there all the time was in one that was there all the time. `VisitInv`: each
directory listed can be assigned to an operand that reaches it, none that is
unchanged twice to the same, nor to the operand under way if it is still in
`Rest`, and every steady directory with something to show that is behind has
been assigned to every operand it is below by a way on which opendir() has not
failed. `Rest` is what the activations still have to go through; a listing of x
takes x out of it and leaves everything below the entries that readdir()
returned. That nothing else is lost or met again rests on lemmas about the tree
(`Tree(d)`, the least closed set): no directory is below one of its entries
(`TreeAcyclic`), nothing is below two entries of one directory (`TreeSiblings`),
what is below d is below one of its entries (`TreeChild`), and a set closed
upwards contains the whole way (`TreeWayUp`). The counts of `VisitedOnce` and
`NothingMissed` follow because the assignment is an injection, and onto at exit.

*Paths.* `PathsInv` gives the result at each statement; `WordsOfWhole` says that
the words of two strings joined are those of the first and, shifted, those of
the second, when a slash, or nothing, is between them.

*mount and init.* `CountInv`: the words before i are flags and have been counted.
`MountsInv`: unless something was refused the commands run so far have mounted
their file systems. `TerminalInv` has the descriptors statement by statement:
open() returns 0 or 3, and what dup2() and close() make of each; and that the
terminal, once open, is the one a session leader has.

*cat.* `WriteEffect` says what `out` is after a write, element by element; the
order and the prefix follow from it. `PrefixInv` is the reason why cat is a
copy: what has arrived is what was read before the buffer still to be written.

*The buffer.* `Shape` (the block is one byte larger than `size`, `used` is 0)
and `CarefulInv`: for a client that uses printf without directives, or short
texts, the last byte stays Nul and the two indices of a write are the same;
`PlainInv` says that without a directive in the texts there is none in the block.
`LastInv` adds where the text in the block ends and that it begins with what was
written last; with one text since the last flush, and none longer before it,
that is all there is.

*The build.* `StructInv`: a recipe runs at a level that is there, for a target
that is not done, when its prerequisites are, and every make runs only inside
the check of the one before it (`NestInv`); `TreeNotShared` follows.
`CurrentInv`: what a level has done is there and made from the current sources,
because the developer edits only between builds and the tree is made anew or its
parts are remade. With one job also `OrderInv` (targets are done in the order of
the Makefile), `ObjectsInv` (the objects that are there were compiled by this
make, or there is the marker) and `FailedInv` (while no command has failed in
its own right only the check has failed a make, and then there is a current
image). `DepthInv` is why makes are nested no deeper: one that cleans, or would
if it got to its check now, has one level fewer above it than the failed cleans
allow; a clean that succeeds removes the marker, and only a recipe that comes
after the check puts it back.

*Why they end.* Each `...GetsOn` theorem names what a program has still to do and
shows that its own steps lower it. For `ls` that is, in this order: the arguments
to read, and then what each activation has to do, from the first one down: the
turns of its loop that are left and the step it is at. A recursive call gives
the activation below something to do, any number of directories if others keep
changing the tree, but the caller has a turn less. There are no more activations
than directories and one (`NotDeeper`): each is at a directory below those of the
ones before it, also when a name came twice. For `print_dir` it is the
statement it is at and the turns of the loop there; the readdir() loop is not
counted, since others may add entries. For `cat` it is two steps for each byte
not read. For `init` it is its statements, each as long as a whole run of mount.
For make it is the same, level by level: what the running recipes have to do and
three steps for each target not reached, as long as nothing failed, and the
lines of the clean in the innermost one. A nested make has all its work before
it, and the level it is in has spent a line of clean. That the lexicographic
orders are well-founded comes from the library module `WellFoundedInduction`.

Only model-checked: liveness (`Terminates`, `CursorReturns`, `CatEnds`,
`BootEnds`, `MakeEnds`). Beyond the measures it needs that a step is possible
until the program has ended, and is then taken: ENABLED and fairness, which the
prover does not do.

## Not modelled

- glibc (`src/glibc-2.43`), the kernel image and the data under `initramfs`:
  third-party. They are all but some 700 lines of the repository, so a share of
  lines says little here; of the project's own code every function that changes
  state is in a module.
- `src/bin/cd.c`: one chdir() in a process that then exits; nothing it changes
  outlives it.
- `scripts/build/glibc` and `run`: straight-line scripts around configure, make
  and qemu, run by hand. A missing C library is a failure of the recipe of the
  tree in `Build`.
- `print_args`: prints, and nobody calls it.
- Colours (with the contents of `types` and `ino`), the headings of the walk and
  blank lines.
- What `dynamic_insert` copies from behind the end of a shorter string: the cell
  is taken to hold the string.

## Plan

Every part of the inventory is modelled or listed above, and every safety
property of a run is proved. What is left:

1. The last part of the liveness properties, that a program which has not ended
   can take a step; with the measures only scheduling would be left to assume.
2. Shorter proofs where two modules argue alike.
