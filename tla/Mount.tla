------------------------------- MODULE Mount --------------------------------
(***************************************************************************)
(* src/bin/mount.c, with count_initial_flags() of src/lib/utils.c: one run *)
(* of the program `mount` on a command line, down to the system call.      *)
(***************************************************************************)
EXTENDS Naturals, Sequences

CONSTANTS
  Flag,         \* the words that begin with '-'
  Types,        \* file systems the kernel knows
  Targets,      \* directories one can be mounted on
  Null,         \* the pointer after the last argument
  CommandLines  \* the arguments mount is run with: argv[1], argv[2], ...

(* No file system has a name that begins with '-'. *)
ASSUME MountAssumption ==
  /\ "-t" \in Flag
  /\ Types \intersect Flag = {}
  /\ Null \notin Targets
  /\ \A line \in CommandLines : Len(line) \in Nat

VARIABLES
  mount_pc,  \* where mount is
  argv,      \* its arguments
  i, count,  \* of count_initial_flags()
  status,    \* its exit status
  mounts,    \* what is mounted: a target and a type
  refused    \* the kernel has refused something it could have done

mount_vars == <<mount_pc, argv, i, count, status>>
vars == <<mount_vars, mounts, refused>>
-----------------------------------------------------------------------------
(* mount is executed with arguments words. *)
Exec(words) ==
  /\ mount_pc' = "count"
  /\ argv' = words
  /\ i' = 1 /\ count' = 0
  /\ status' = 0

Init ==
  /\ mount_pc = "count"
  /\ argv \in CommandLines
  /\ i = 1 /\ count = 0
  /\ status = 0
  /\ mounts = {}
  /\ refused = FALSE

(* A loop that goes on at a word that is no flag. *)
FaultyEndlessCount ==
  /\ mount_pc = "count"
  /\ IF i <= Len(argv)
     THEN /\ i' = (IF argv[i] \in Flag THEN i + 1 ELSE i)
          /\ count' = i' - 1 /\ UNCHANGED mount_pc
     ELSE mount_pc' = "check" /\ UNCHANGED <<i, count>>
  /\ UNCHANGED <<argv, status, mounts, refused>>

(* One turn of count_initial_flags(). *)
CountFlag ==
  /\ mount_pc = "count"
  /\ IF i <= Len(argv) /\ argv[i] \in Flag
     THEN i' = i + 1 /\ count' = count + 1 /\ UNCHANGED mount_pc
     ELSE mount_pc' = "check" /\ UNCHANGED <<i, count>>
  /\ UNCHANGED <<argv, status, mounts, refused>>

(* argc counts the name of the program, too. *)
argc == Len(argv) + 1

(* The tests before the call: one flag, and that is -t, and two more       *)
(* arguments.  The target, argv[4], may still be missing.                  *)
UsageOk == count = 1 /\ argv[1] = "-t" /\ argc >= 4

Check ==
  /\ mount_pc = "check"
  /\ IF UsageOk
     THEN mount_pc' = "call" /\ UNCHANGED status
     ELSE mount_pc' = "exit" /\ status' = 1
  /\ UNCHANGED <<argv, i, count, mounts, refused>>

(* Target and source in the wrong order. *)
FaultyTarget == argv[3]

(* The arguments of the system call. *)
Target == IF argc >= 5 THEN argv[4] ELSE Null
Type == argv[2]

(* mount(2): it fails for a target or a type that is not there, and may    *)
(* fail for any other.                                                     *)
Call ==
  /\ mount_pc = "call"
  /\ \/ /\ Target \in Targets /\ Type \in Types
        /\ mounts' = mounts \union {[target |-> Target, type |-> Type]}
        /\ UNCHANGED <<status, refused>>
     \/ /\ Target \in Targets /\ Type \in Types
        /\ status' = 255 /\ refused' = TRUE
        /\ UNCHANGED mounts
     \/ /\ Target \notin Targets \/ Type \notin Types
        /\ status' = 255
        /\ UNCHANGED <<mounts, refused>>
  /\ mount_pc' = "exit"
  /\ UNCHANGED <<argv, i, count>>

MountStep == CountFlag \/ Check \/ Call

MountSpec == Init /\ [][MountStep]_vars
-----------------------------------------------------------------------------
(* The exit status tells whether a file system was mounted where the       *)
(* command line says: mount exits with 0 only when "-t type source target" *)
(* was carried out, with another status only when nothing was mounted, and *)
(* never with that because of how it counts: a right command line fails    *)
(* only if the kernel refuses it, and a missing target is an error         *)
(* although the test of argc lets it through.                              *)
StatusTells ==
  mount_pc = "exit" =>
    LET right == /\ Len(argv) >= 4 /\ argv[1] = "-t"
                 /\ argv[2] \in Types /\ argv[4] \in Targets
    IN IF status = 0
       THEN right /\ mounts = {[target |-> argv[4], type |-> argv[2]]}
       ELSE mounts = {} /\ (right => refused)
=============================================================================
