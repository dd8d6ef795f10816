-------------------------------- MODULE Boot --------------------------------
(***************************************************************************)
(* src/init.c, process 1, composed with the program it runs three times    *)
(* (module Mount).  Every call may fail and no result is looked at, so     *)
(* init always gets to the shell, if there is one; the question is what    *)
(* the shell finds.                                                        *)
(***************************************************************************)
EXTENDS Mount

CONSTANT MaxFd  \* bound: the last descriptor

ASSUME FdAssumption == MaxFd \in Nat /\ MaxFd >= 3

VARIABLES
  pc,       \* the statement of init that is next
  sh,       \* is there a /bin/sh?
  fds,      \* the descriptors of process 1: what each is open on
  kernel,   \* what they were when the kernel started init
  fd,       \* the result of open()
  leader,   \* process 1 leads a session
  ctty,     \* its controlling terminal
  sized     \* the terminal whose window size was set

init_vars == <<pc, sh, fds, kernel, fd, leader, ctty, sized>>
boot_vars == <<vars, init_vars>>
-----------------------------------------------------------------------------
(* The arguments of the three system() calls, in their order. *)
Commands ==
  <<<<"-t", "proc", "proc", "/proc">>,
    <<"-t", "sysfs", "sysfs", "/sys">>,
    <<"-t", "devtmpfs", "devtmpfs", "/dev">>>>

(* The kernel has the three file systems and the image the directories. *)
ASSUME CommandsAssumption ==
  \A k \in 1..3 : Commands[k][2] \in Types /\ Commands[k][4] \in Targets

(* setsid, three times system() and the wait for it, then the terminal. *)
Running(k) == <<"system", k>>
Waiting(k) == <<"wait", k>>
Statement(name) == <<name, 0>>

Fds == 0..MaxFd
Open(f) == {n \in Fds : f[n] # "closed"}
Lowest == CHOOSE n \in Fds \ Open(fds) : \A m \in Fds \ Open(fds) : n <= m
AllOn(device) == [n \in Fds |-> IF n <= 2 THEN device ELSE "closed"]

(* The kernel opens the console three times, or not at all when there is   *)
(* no /dev/console.                                                        *)
BootInit ==
  /\ mount_pc = "exit" /\ argv = <<>> /\ i = 1 /\ count = 0 /\ status = 0
  /\ mounts = {} /\ refused = FALSE
  /\ pc = Statement("setsid")
  /\ sh \in BOOLEAN
  /\ kernel \in {AllOn("console"), AllOn("closed")} /\ fds = kernel
  /\ fd = MaxFd + 1
  /\ leader = FALSE /\ ctty = "none" /\ sized = "none"

Setsid ==
  /\ pc = Statement("setsid")
  /\ leader' \in BOOLEAN /\ refused' = (refused \/ ~leader')
  /\ pc' = Running(1)
  /\ UNCHANGED <<mount_vars, mounts, sh, fds, kernel, fd, ctty, sized>>

(* The statement after the k-th system(). *)
After(k) == IF k < 3 THEN Running(k + 1) ELSE Statement("open")

(* system() forks a shell that becomes mount; without a shell, or when     *)
(* there is no process to be had, nothing is run.                          *)
System(k) ==
  /\ pc = Running(k)
  /\ \/ sh /\ Exec(Commands[k]) /\ pc' = Waiting(k) /\ UNCHANGED refused
     \/ sh /\ pc' = After(k) /\ refused' = TRUE /\ UNCHANGED mount_vars
     \/ ~sh /\ pc' = After(k) /\ UNCHANGED <<mount_vars, refused>>
  /\ UNCHANGED <<mounts, sh, fds, kernel, fd, leader, ctty, sized>>

(* Going on without waiting. *)
FaultyWait(k) ==
  /\ pc = Waiting(k)
  /\ pc' = After(k)
  /\ UNCHANGED <<vars, sh, fds, kernel, fd, leader, ctty, sized>>

(* system() returns when mount has ended; its status is not looked at. *)
Wait(k) ==
  /\ pc = Waiting(k) /\ mount_pc = "exit"
  /\ pc' = After(k)
  /\ UNCHANGED <<vars, sh, fds, kernel, fd, leader, ctty, sized>>

(* Is /dev/ttyS0 there?  The image has an empty /dev. *)
HasTty == [target |-> "/dev", type |-> "devtmpfs"] \in mounts

(* With O_NOCTTY. *)
FaultyOpenTty ==
  /\ pc = Statement("open")
  /\ \/ /\ HasTty
        /\ fd' = Lowest /\ fds' = [fds EXCEPT ![Lowest] = "tty"]
        /\ UNCHANGED refused
     \/ refused' = (refused \/ HasTty) /\ UNCHANGED <<fd, fds>>
  /\ pc' = <<"dup2", 0>>
  /\ UNCHANGED <<mount_vars, mounts, sh, kernel, leader, ctty, sized>>

(* open() takes the lowest free descriptor, and gives the leader of a      *)
(* session without a terminal its terminal.  No descriptor is MaxFd + 1.   *)
OpenTty ==
  /\ pc = Statement("open")
  /\ \/ /\ HasTty
        /\ fd' = Lowest /\ fds' = [fds EXCEPT ![Lowest] = "tty"]
        /\ ctty' = IF leader THEN "tty" ELSE ctty
        /\ UNCHANGED refused
     \/ refused' = (refused \/ HasTty) /\ UNCHANGED <<fd, fds, ctty>>
  /\ pc' = <<"dup2", 0>>
  /\ UNCHANGED <<mount_vars, mounts, sh, kernel, leader, sized>>

Valid == fd <= MaxFd

(* Standard error forgotten. *)
FaultyDup2(n) ==
  /\ pc = <<"dup2", n>>
  /\ fds' = IF Valid THEN [fds EXCEPT ![n] = fds[fd]] ELSE fds
  /\ pc' = IF n < 1 THEN <<"dup2", n + 1>> ELSE Statement("close")
  /\ UNCHANGED <<vars, sh, kernel, fd, leader, ctty, sized>>

(* dup2(fd, n) *)
Dup2(n) ==
  /\ pc = <<"dup2", n>>
  /\ fds' = IF Valid THEN [fds EXCEPT ![n] = fds[fd]] ELSE fds
  /\ pc' = IF n < 2 THEN <<"dup2", n + 1>> ELSE Statement("close")
  /\ UNCHANGED <<vars, sh, kernel, fd, leader, ctty, sized>>

(* fd > 2: it is not one of the three itself. *)
MustClose == Valid /\ fd > 2

Close ==
  /\ pc = Statement("close")
  /\ fds' = IF MustClose THEN [fds EXCEPT ![fd] = "closed"] ELSE fds
  /\ pc' = Statement("ioctl")
  /\ UNCHANGED <<vars, sh, kernel, fd, leader, ctty, sized>>

(* What an ioctl on descriptor 0 leaves: its device, or x as it was when   *)
(* the call is declined or there is no device.                             *)
Asked(x) == {x} \union ({fds[0]} \ {"closed"})

(* TIOCSCTTY, which is for session leaders without a terminal, and then    *)
(* TIOCSWINSZ.                                                             *)
Ioctl ==
  /\ pc = Statement("ioctl")
  /\ ctty' \in IF leader /\ ctty = "none" THEN Asked(ctty) ELSE {ctty}
  /\ sized' \in Asked(sized)
  /\ refused' = (refused \/ ctty' # fds[0] \/ sized' # fds[0])
  /\ pc' = Statement("execl")
  /\ UNCHANGED <<mount_vars, mounts, sh, fds, kernel, fd, leader>>

(* execl() returns only when it fails; process 1 then leaves main(), and   *)
(* the kernel panics.                                                      *)
Execl ==
  /\ pc = Statement("execl")
  /\ pc' = Statement(IF sh THEN "shell" ELSE "panic")
  /\ UNCHANGED <<vars, sh, fds, kernel, fd, leader, ctty, sized>>

InitStep ==
  \/ Setsid
  \/ \E k \in 1..3 : System(k) \/ Wait(k)
  \/ OpenTty
  \/ \E n \in 0..2 : Dup2(n)
  \/ Close
  \/ Ioctl
  \/ Execl

BootNext == InitStep \/ (MountStep /\ UNCHANGED init_vars)

(* Both processes are scheduled when they can take a step. *)
BootSpec ==
  /\ BootInit /\ [][BootNext]_boot_vars
  /\ WF_boot_vars(InitStep) /\ WF_boot_vars(MountStep /\ UNCHANGED init_vars)
-----------------------------------------------------------------------------
InShell == pc = Statement("shell")

(* The shell starts with its three descriptors on the terminal if that     *)
(* could be opened, and as the kernel left them if not; never some of each *)
(* and never another one.  init is right about this whether or not the     *)
(* kernel gave it descriptors: fd may be 0 itself, or 3.                   *)
ShellDescriptors ==
  InShell => fds = IF Valid THEN AllOn("tty") ELSE kernel

(* A session leader whose terminal could be opened has it as controlling   *)
(* terminal, also when TIOCSCTTY is declined, since open() has made it     *)
(* that; and no other terminal has its size set.                           *)
ShellTerminal ==
  InShell /\ Valid => sized \in {"tty", "none"} /\ (leader => ctty = "tty")

(* Unless the kernel refuses one of the requests, the shell finds the      *)
(* three file systems, the terminal with its size set, and a session: the  *)
(* command lines of init are ones mount understands, and /dev is mounted   *)
(* by the time the terminal is opened.                                     *)
BootsUnlessRefused ==
  InShell /\ ~refused =>
    /\ mounts = {[target |-> Commands[k][4], type |-> Commands[k][2]] : k \in 1..3}
    /\ fds = AllOn("tty") /\ ctty = "tty" /\ sized = "tty" /\ leader

(* The machine comes up or panics; it panics only without a shell. *)
BootEnds == <>(InShell \/ (pc = Statement("panic") /\ ~sh))
=============================================================================
