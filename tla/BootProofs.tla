----------------------------- MODULE BootProofs -----------------------------
(***************************************************************************)
(* What the exit status of mount tells, for every command line, and what   *)
(* the shell that init starts finds, for every way the calls of init and   *)
(* of mount can fail.                                                      *)
(***************************************************************************)
EXTENDS Boot, TLAPS
-----------------------------------------------------------------------------
(* mount                                                                   *)

(* The words before i are flags, and they have been counted; once counting *)
(* is over the word at i is none.                                          *)
CountInv ==
  /\ mount_pc \in {"count", "check", "call", "exit"}
  /\ Len(argv) \in Nat
  /\ i \in 1..(Len(argv) + 1) /\ count = i - 1
  /\ \A k \in 1..(i - 1) : argv[k] \in Flag
  /\ mount_pc \in {"check", "call"} => i = Len(argv) + 1 \/ argv[i] \notin Flag
  /\ mount_pc = "call" => UsageOk

(* A command line that asks for a file system the kernel has on a          *)
(* directory that is there.                                                *)
Right ==
  /\ Len(argv) >= 4 /\ argv[1] = "-t"
  /\ argv[2] \in Types /\ argv[4] \in Targets

LEMMA CountStep ==
  ASSUME CountInv, MountStep
  PROVE  CountInv'
  <1>1. /\ Len(argv) \in Nat /\ argv' = argv
        /\ i \in 1..(Len(argv) + 1) /\ i \in Nat /\ count = i - 1
    BY DEF CountInv, MountStep, CountFlag, Check, Call
  <1>2. CASE CountFlag
    <2>1. CASE i <= Len(argv) /\ argv[i] \in Flag
      <3>1. i' = i + 1 /\ count' = count + 1 /\ mount_pc' = "count"
        BY <1>2, <2>1 DEF CountFlag
      <3>2. \A k \in 1..(i' - 1) : argv'[k] \in Flag
        BY <1>1, <2>1, <3>1 DEF CountInv
      <3>3. i' \in 1..(Len(argv') + 1) /\ count' = i' - 1
        BY <1>1, <2>1, <3>1
      <3> QED
        BY <1>1, <3>1, <3>2, <3>3 DEF CountInv
    <2>2. CASE ~(i <= Len(argv) /\ argv[i] \in Flag)
      <3>1. i' = i /\ count' = count /\ mount_pc' = "check"
        BY <1>2, <2>2 DEF CountFlag
      <3>2. i = Len(argv) + 1 \/ argv[i] \notin Flag
        BY <1>1, <2>2
      <3> QED
        BY <1>1, <3>1, <3>2 DEF CountInv
    <2> QED
      BY <2>1, <2>2
  <1>3. CASE Check
    <2>1. UNCHANGED <<argv, i, count>> /\ mount_pc = "check" /\ mount_pc' \in {"call", "exit"}
          /\ (mount_pc' = "call" => UsageOk)
      BY <1>3 DEF Check
    <2> QED
      BY <2>1 DEF CountInv, UsageOk, argc
  <1>4. CASE Call
    <2>1. UNCHANGED <<argv, i, count>> /\ mount_pc' = "exit"
      BY <1>4 DEF Call
    <2> QED
      BY <2>1 DEF CountInv
  <1> QED
    BY <1>2, <1>3, <1>4 DEF MountStep

(* The flags of a right command line are counted right. *)
LEMMA RightIsUsage ==
  ASSUME CountInv, mount_pc = "check", Right
  PROVE  UsageOk
  <1>1. argv[1] \in Flag /\ argv[2] \notin Flag
    BY MountAssumption DEF Right
  <1>2. i \in Nat /\ count = i - 1 /\ Len(argv) \in Nat /\ Len(argv) >= 4 /\ i >= 1
    BY DEF CountInv, Right
  <1>3. i # 1
    BY <1>1, <1>2 DEF CountInv
  <1>4. ~(2 < i)
    BY <1>1, <1>2 DEF CountInv
  <1> QED
    BY <1>2, <1>3, <1>4 DEF UsageOk, argc, Right

(* A call that can succeed is one for a right command line. *)
LEMMA CallOfRight ==
  ASSUME CountInv, mount_pc = "call"
  PROVE  /\ (Target \in Targets /\ Type \in Types) <=> Right
         /\ Right => Target = argv[4] /\ Type = argv[2]
  <1>1. Len(argv) \in Nat /\ argv[1] = "-t"
    BY DEF CountInv, UsageOk
  <1>2. argc >= 5 <=> Len(argv) >= 4
    BY <1>1 DEF argc
  <1> QED
    BY <1>1, <1>2, MountAssumption DEF Target, Type, Right

(* Until it exits mount has done nothing, and then its status tells. *)
MountInv ==
  /\ CountInv
  /\ mount_pc # "exit" => mounts = {} /\ status = 0
  /\ StatusTells

LEMMA MountInvStep ==
  ASSUME MountInv, [MountStep]_vars
  PROVE  MountInv'
  <1>1. CASE UNCHANGED vars
    BY <1>1 DEF vars, mount_vars, MountInv, CountInv, StatusTells, UsageOk, argc
  <1>2. CASE MountStep
    <2>1. CountInv' /\ mount_pc # "exit" /\ mounts = {} /\ status = 0 /\ argv' = argv
      BY <1>2, CountStep DEF MountInv, MountStep, CountFlag, Check, Call
    <2>2. CASE CountFlag
      BY <2>1, <2>2 DEF CountFlag, MountInv, StatusTells
    <2>3. CASE Check
      <3>1. CASE UsageOk
        BY <2>1, <2>3, <3>1 DEF Check, MountInv, StatusTells
      <3>2. CASE ~UsageOk
        <4>1. ~Right
          BY <2>3, <3>2, RightIsUsage DEF Check, MountInv
        <4> QED
          BY <2>1, <2>3, <3>2, <4>1 DEF Check, MountInv, StatusTells, Right
      <3> QED
        BY <3>1, <3>2
    <2>4. CASE Call
      <3>1. (Target \in Targets /\ Type \in Types) <=> Right
        BY <2>4, CallOfRight DEF Call, MountInv
      <3>2. Right => Target = argv[4] /\ Type = argv[2]
        BY <2>4, CallOfRight DEF Call, MountInv
      <3>3. mount_pc' = "exit"
        BY <2>4 DEF Call
      <3>4. CASE Right /\ mounts' = mounts \union {[target |-> Target, type |-> Type]} /\ UNCHANGED status
        BY <2>1, <3>2, <3>3, <3>4 DEF MountInv, StatusTells, Right
      <3>5. CASE status' = 255 /\ UNCHANGED mounts /\ (Right => refused')
        BY <2>1, <3>3, <3>5 DEF MountInv, StatusTells, Right
      <3> QED
        BY <2>4, <3>1, <3>4, <3>5 DEF Call
    <2> QED
      BY <1>2, <2>2, <2>3, <2>4 DEF MountStep
  <1> QED
    BY <1>1, <1>2

(* For every command line mount exits with 0 exactly when it has mounted   *)
(* what the line asks for where it asks for it, and nothing else.          *)
THEOREM MountStatusTells == MountSpec => []StatusTells
  <1>1. Init => MountInv
    <2> SUFFICES ASSUME Init PROVE MountInv
      OBVIOUS
    <2>1. Len(argv) \in Nat
      BY MountAssumption DEF Init
    <2> QED
      BY <2>1 DEF Init, MountInv, CountInv, StatusTells
  <1>2. MountInv /\ [MountStep]_vars => MountInv'
    BY MountInvStep
  <1>3. MountInv => StatusTells
    BY DEF MountInv
  <1> QED
    BY <1>1, <1>2, <1>3, PTL DEF MountSpec
-----------------------------------------------------------------------------
(* init: what is mounted                                                   *)

FirstMounts(k) == {[target |-> Commands[m][4], type |-> Commands[m][2]] : m \in 1..k}

(* mount runs only while init waits for it.  Unless something was refused, *)
(* the commands carried out so far have all mounted their file system, and *)
(* the process leads its session.                                          *)
MountsInv ==
  /\ pc = Statement("setsid") => mounts = {}
  /\ \A k \in 1..3 : pc = Running(k) /\ sh /\ ~refused => mounts = FirstMounts(k - 1)
  /\ \A k \in 1..3 : pc = Waiting(k) =>
       /\ CountInv /\ argv = Commands[k]
       /\ sh
       /\ ~refused => mounts = FirstMounts(IF mount_pc = "exit" THEN k ELSE k - 1)
  /\ pc[1] \notin {"setsid", "system", "wait"} /\ sh /\ ~refused => mounts = FirstMounts(3)
  /\ pc[1] # "wait" => mount_pc = "exit"
  /\ pc[1] # "setsid" /\ ~refused => leader

LEMMA CommandFacts ==
  ASSUME NEW k \in 1..3
  PROVE  /\ Len(Commands[k]) = 4
         /\ Commands[k][1] = "-t"
         /\ Commands[k][2] \in Types /\ Commands[k][4] \in Targets
  <1>1. Commands[k][2] \in Types /\ Commands[k][4] \in Targets
    BY CommandsAssumption
  <1>2. k = 1 \/ k = 2 \/ k = 3
    OBVIOUS
  <1>3. /\ Commands[1] = <<"-t", "proc", "proc", "/proc">>
        /\ Commands[2] = <<"-t", "sysfs", "sysfs", "/sys">>
        /\ Commands[3] = <<"-t", "devtmpfs", "devtmpfs", "/dev">>
    BY DEF Commands
  <1>4. Len(Commands[k]) = 4 /\ Commands[k][1] = "-t"
    BY <1>2, <1>3
  <1> QED
    BY <1>1, <1>4

LEMMA NextMount ==
  ASSUME NEW k \in 1..3
  PROVE  FirstMounts(k) =
           FirstMounts(k - 1) \union {[target |-> Commands[k][4], type |-> Commands[k][2]]}
  <1>1. 1..k = (1..(k - 1)) \union {k}
    OBVIOUS
  <1> QED
    BY <1>1 DEF FirstMounts

LEMMA MountsMountStep ==
  ASSUME MountsInv, MountStep, UNCHANGED init_vars
  PROVE  MountsInv'
  <1>1. mount_pc # "exit"
    BY DEF MountStep, CountFlag, Check, Call
  <1>2. UNCHANGED <<pc, sh, leader>>
    BY DEF init_vars
  <1>3. pc[1] = "wait"
    BY <1>1 DEF MountsInv
  <1>4. ASSUME NEW k \in 1..3, pc = Waiting(k)
        PROVE  /\ CountInv' /\ argv' = Commands[k]
               /\ sh'
               /\ ~refused' => mounts' = FirstMounts(IF mount_pc' = "exit" THEN k ELSE k - 1)
    <2>1. CountInv /\ argv = Commands[k] /\ sh /\ (~refused => mounts = FirstMounts(k - 1))
      BY <1>1, <1>4 DEF MountsInv
    <2>2. Right
      BY <2>1, CommandFacts DEF Right
    <2>3. CountInv' /\ argv' = argv /\ sh'
      BY <1>2, <2>1, CountStep DEF MountStep, CountFlag, Check, Call
    <2>4. CASE CountFlag
      BY <2>1, <2>3, <2>4 DEF CountFlag
    <2>5. CASE Check
      <3>1. mount_pc' = "call" /\ UNCHANGED <<mounts, refused>>
        BY <2>1, <2>2, <2>5, RightIsUsage DEF Check
      <3> QED
        BY <2>1, <2>3, <3>1
    <2>6. CASE Call
      <3>1. Target = argv[4] /\ Type = argv[2] /\ Target \in Targets /\ Type \in Types
        BY <2>1, <2>2, <2>6, CallOfRight DEF Call
      <3>2. mount_pc' = "exit"
        BY <2>6 DEF Call
      <3>3. \/ mounts' = mounts \union {[target |-> argv[4], type |-> argv[2]]} /\ UNCHANGED refused
            \/ refused' = TRUE
        BY <2>6, <3>1 DEF Call
      <3>4. ~refused' => mounts' = FirstMounts(k)
        BY <2>1, <3>3, NextMount
      <3> QED
        BY <2>1, <2>3, <3>2, <3>4
    <2> QED
      BY <2>4, <2>5, <2>6 DEF MountStep
  <1>5. refused => refused'
    BY DEF MountStep, CountFlag, Check, Call
  <1>6. \A k \in 1..3 : pc # Running(k)
    BY <1>3 DEF Running
  <1>7. pc # Statement("setsid")
    BY <1>3 DEF Statement
  <1>8. /\ \A k \in 1..3 : pc' # Running(k)
        /\ pc' # Statement("setsid")
        /\ pc'[1] = "wait"
    BY <1>2, <1>3, <1>6, <1>7
  <1>9. ~refused' => leader'
    BY <1>2, <1>3, <1>5 DEF MountsInv
  <1>10. \A k \in 1..3 : pc' = Waiting(k) =>
           /\ CountInv' /\ argv' = Commands[k]
           /\ sh'
           /\ ~refused' => mounts' = FirstMounts(IF mount_pc' = "exit" THEN k ELSE k - 1)
    BY <1>2, <1>4 DEF Waiting
  <1> QED
    BY <1>8, <1>9, <1>10 DEF MountsInv, Running, Waiting, Statement

(* After the last system() nothing is mounted any more. *)
LEMMA MountsKept ==
  ASSUME MountsInv, UNCHANGED <<mounts, mount_pc, sh, leader>>, refused => refused',
         pc[1] \notin {"setsid", "system", "wait"}, pc'[1] \notin {"setsid", "system", "wait"}
  PROVE  MountsInv'
  <1>1. \A k \in 1..3 : pc' # Running(k) /\ pc' # Waiting(k)
    BY DEF Running, Waiting
  <1>2. pc' # Statement("setsid")
    BY DEF Statement
  <1>3. sh' /\ ~refused' => mounts' = FirstMounts(3) /\ leader'
    BY DEF MountsInv
  <1>4. mount_pc' = "exit" /\ (~refused' => leader')
    BY DEF MountsInv
  <1> QED
    BY <1>1, <1>2, <1>3, <1>4 DEF MountsInv, Running, Waiting, Statement

(* init goes on after the k-th command, whose file system is mounted. *)
LEMMA MountsAfter ==
  ASSUME NEW k \in 1..3, pc' = After(k), mount_pc' = "exit", ~refused' => leader',
         sh' /\ ~refused' => mounts' = FirstMounts(k)
  PROVE  MountsInv'
  <1>1. CASE k < 3
    <2>1. pc' = <<"system", k + 1>> /\ k + 1 \in 1..3
      BY <1>1 DEF After, Running
    <2>2. ASSUME NEW m \in 1..3
          PROVE  /\ pc' # Waiting(m) /\ pc' # Statement("setsid")
                 /\ pc' = Running(m) => m - 1 = k
      BY <2>1 DEF Running, Waiting, Statement
    <2>3. pc'[1] = "system"
      BY <2>1
    <2> QED
      BY <2>2, <2>3 DEF MountsInv, Running, Waiting, Statement
  <1>2. CASE k = 3
    <2>1. pc' = <<"open", 0>>
      BY <1>2 DEF After, Statement
    <2>2. ASSUME NEW m \in 1..3
          PROVE  pc' # Waiting(m) /\ pc' # Statement("setsid") /\ pc' # Running(m)
      BY <2>1 DEF Running, Waiting, Statement
    <2>3. pc'[1] = "open"
      BY <2>1
    <2> QED
      BY <1>2, <2>2, <2>3 DEF MountsInv, Running, Waiting, Statement
  <1> QED
    BY <1>1, <1>2

LEMMA MountsInitStep ==
  ASSUME MountsInv, refused \in BOOLEAN, InitStep
  PROVE  MountsInv'
  <1>1. CASE Setsid
    <2>1. pc = Statement("setsid") /\ pc' = Running(1) /\ mounts' = {} /\ mount_pc' = mount_pc
      BY <1>1 DEF Setsid, MountsInv, mount_vars
    <2>2. mount_pc = "exit"
      BY <2>1 DEF MountsInv, Statement
    <2>3. ~refused' => leader'
      BY <1>1 DEF Setsid
    <2>4. FirstMounts(1 - 1) = {}
      BY DEF FirstMounts
    <2>5. pc' = <<"system", 1>>
      BY <2>1 DEF Running
    <2>6. ASSUME NEW m \in 1..3
          PROVE  /\ pc' # Waiting(m) /\ pc' # Statement("setsid")
                 /\ pc' = Running(m) => m = 1
      BY <2>5 DEF Running, Waiting, Statement
    <2>7. pc'[1] = "system"
      BY <2>5
    <2> QED
      BY <2>1, <2>2, <2>3, <2>4, <2>6, <2>7 DEF MountsInv, Running, Waiting, Statement
  <1>2. ASSUME NEW k \in 1..3, System(k) PROVE MountsInv'
    <2>1. pc = Running(k) /\ pc[1] = "system" /\ UNCHANGED <<mounts, sh, leader>>
      BY <1>2 DEF System, Running
    <2>2. mount_pc = "exit" /\ (~refused => leader) /\ (sh /\ ~refused => mounts = FirstMounts(k - 1))
      BY <2>1 DEF MountsInv
    <2>3. CASE sh /\ Exec(Commands[k]) /\ pc' = Waiting(k) /\ UNCHANGED refused
      <3>1. mount_pc' = "count" /\ argv' = Commands[k] /\ i' = 1 /\ count' = 0 /\ Len(argv') = 4
        BY <2>3, CommandFacts DEF Exec
      <3>2. CountInv'
        BY <3>1 DEF CountInv
      <3>3. pc' = <<"wait", k>>
        BY <2>3 DEF Waiting
      <3>4. ASSUME NEW m \in 1..3
            PROVE  /\ pc' # Running(m) /\ pc' # Statement("setsid")
                   /\ pc' = Waiting(m) => m = k
        BY <3>3 DEF Running, Waiting, Statement
      <3>5. pc'[1] = "wait"
        BY <3>3
      <3> QED
        BY <2>1, <2>2, <2>3, <3>1, <3>2, <3>4, <3>5 DEF MountsInv, Running, Waiting, Statement
    <2>4. CASE sh /\ pc' = After(k) /\ refused' = TRUE /\ UNCHANGED mount_vars
      BY <2>1, <2>2, <2>4, MountsAfter DEF mount_vars
    <2>5. CASE ~sh /\ pc' = After(k) /\ UNCHANGED <<mount_vars, refused>>
      BY <2>1, <2>2, <2>5, MountsAfter DEF mount_vars
    <2> QED
      BY <1>2, <2>3, <2>4, <2>5 DEF System
  <1>3. ASSUME NEW k \in 1..3, Wait(k) PROVE MountsInv'
    <2>1. pc = Waiting(k) /\ mount_pc = "exit" /\ pc' = After(k)
          /\ UNCHANGED <<mount_pc, mounts, sh, refused, leader>>
      BY <1>3 DEF Wait, vars, mount_vars
    <2>2. (~refused => leader) /\ (~refused => mounts = FirstMounts(k))
      BY <2>1 DEF MountsInv, Waiting
    <2> QED
      BY <2>1, <2>2, MountsAfter
  <1>4. CASE OpenTty \/ (\E n \in 0..2 : Dup2(n)) \/ Close \/ Ioctl \/ Execl
    <2>1. UNCHANGED <<mounts, mount_pc, sh, leader>>
      BY <1>4 DEF OpenTty, Dup2, Close, Ioctl, Execl, vars, mount_vars
    <2>2. refused => refused'
      BY <1>4 DEF OpenTty, Dup2, Close, Ioctl, Execl, vars
    <2>3. pc[1] \notin {"setsid", "system", "wait"}
      BY <1>4 DEF OpenTty, Dup2, Close, Ioctl, Execl, Statement
    <2>4. pc'[1] \notin {"setsid", "system", "wait"}
      BY <1>4 DEF OpenTty, Dup2, Close, Ioctl, Execl, Statement
    <2> QED
      BY <2>1, <2>2, <2>3, <2>4, MountsKept
  <1> QED
    BY <1>1, <1>2, <1>3, <1>4 DEF InitStep
-----------------------------------------------------------------------------
(* init: the terminal                                                      *)

(* The descriptors after n calls of dup2(). *)
Duplicated(n) ==
  IF Valid THEN [m \in Fds |-> IF m < n \/ m = fd THEN "tty" ELSE kernel[m]] ELSE kernel

(* open() gives descriptor 0 or 3, as the kernel has opened none or three; *)
(* dup2() copies it to 0, 1 and 2, and it is closed unless it is one of    *)
(* them.  A session leader has its terminal from open() on, and open()     *)
(* does not fail unless something was refused.                             *)
TerminalInv ==
  /\ refused \in BOOLEAN /\ sh \in BOOLEAN
  /\ kernel \in {AllOn("console"), AllOn("closed")}
  /\ pc[1] \in {"setsid", "system", "wait", "open"} => fds = kernel /\ fd = MaxFd + 1
  /\ pc[1] \in {"dup2", "close", "ioctl", "execl", "shell"} =>
       /\ fd \in {0, 3, MaxFd + 1}
       /\ Valid /\ leader => ctty = "tty"
       /\ sh /\ ~refused => Valid
  /\ pc[1] = "dup2" => fds = Duplicated(pc[2])
  /\ pc[1] = "close" => fds = Duplicated(3)
  /\ pc[1] \in {"ioctl", "execl", "shell"} => fds = IF Valid THEN AllOn("tty") ELSE kernel
  /\ pc[1] = "shell" => sh

(* No size is set before the ioctls, and then only that of the terminal,   *)
(* unless that was declined.                                               *)
SizedInv ==
  /\ pc[1] \notin {"execl", "shell", "panic"} => sized = "none"
  /\ pc[1] \in {"execl", "shell"} /\ Valid =>
       sized \in {"tty", "none"} /\ (~refused => sized = "tty")

LEMMA LowestFree ==
  ASSUME fds = kernel, kernel \in {AllOn("console"), AllOn("closed")}
  PROVE  Lowest \in {0, 3} /\ Lowest \in Fds /\ Lowest <= MaxFd
  <1>1. 0 \in Fds /\ 3 \in Fds /\ MaxFd \in Nat
    BY FdAssumption DEF Fds
  <1> DEFINE free == Fds \ Open(fds)
             least(n) == \A m \in free : n <= m
  <1>2. Lowest = CHOOSE n \in free : least(n)
    BY DEF Lowest
  <1>3. CASE kernel = AllOn("closed")
    <2>1. free = Fds
      BY <1>3 DEF Open, AllOn
    <2>2. 0 \in free /\ least(0)
      BY <1>1, <2>1 DEF Fds
    <2>3. \A n \in free : least(n) => n = 0
      BY <1>1, <2>1 DEF Fds
    <2> QED
      BY <1>1, <1>2, <2>1, <2>2, <2>3
  <1>4. CASE kernel = AllOn("console")
    <2>1. free = {n \in Fds : ~(n <= 2)}
      BY <1>4 DEF Open, AllOn
    <2>2. 3 \in free /\ least(3)
      BY <1>1, <2>1 DEF Fds
    <2>3. \A n \in free : least(n) => n = 3
      BY <1>1, <2>1, <2>2 DEF Fds
    <2> QED
      BY <1>1, <1>2, <2>1, <2>2, <2>3, FdAssumption
  <1> QED
    BY <1>3, <1>4

LEMMA TerminalEarly ==
  ASSUME TerminalInv, pc[1] \in {"setsid", "system", "wait", "open"}, UNCHANGED <<fds, kernel, fd, sh>>,
         pc'[1] \in {"setsid", "system", "wait", "open"}, refused' \in BOOLEAN
  PROVE  TerminalInv'
  <1>1. fds' = kernel' /\ fd' = MaxFd + 1 /\ kernel' \in {AllOn("console"), AllOn("closed")} /\ sh' \in BOOLEAN
    BY DEF TerminalInv
  <1>2. pc'[1] \notin {"dup2", "close", "ioctl", "execl", "shell"}
    OBVIOUS
  <1> QED
    BY <1>1, <1>2 DEF TerminalInv

LEMMA TerminalOpen ==
  ASSUME TerminalInv, MountsInv, OpenTty
  PROVE  TerminalInv'
  <1>1. pc = <<"open", 0>> /\ pc' = <<"dup2", 0>> /\ UNCHANGED <<kernel, sh, leader, mounts>>
    BY DEF OpenTty, Statement
  <1>2. pc[1] = "open" /\ pc'[1] = "dup2" /\ pc'[2] = 0
    BY <1>1
  <1>3. /\ fds = kernel /\ fd = MaxFd + 1 /\ kernel \in {AllOn("console"), AllOn("closed")}
        /\ refused \in BOOLEAN /\ sh \in BOOLEAN
    BY <1>2 DEF TerminalInv
  <1>4. sh /\ ~refused => HasTty
    <2>1. SUFFICES ASSUME mounts = FirstMounts(3) PROVE HasTty
      BY <1>2 DEF MountsInv
    <2>2. Commands[3][4] = "/dev" /\ Commands[3][2] = "devtmpfs" /\ 3 \in 1..3
      BY DEF Commands
    <2> QED
      BY <2>1, <2>2 DEF FirstMounts, HasTty
  <1>5. MaxFd \in Nat
    BY FdAssumption
  <1>6. kernel' \in {AllOn("console"), AllOn("closed")} /\ sh' \in BOOLEAN /\ refused' \in BOOLEAN
    BY <1>1, <1>3 DEF OpenTty, HasTty
  <1>7. CASE /\ HasTty
             /\ fd' = Lowest /\ fds' = [fds EXCEPT ![Lowest] = "tty"]
             /\ ctty' = IF leader THEN "tty" ELSE ctty
             /\ UNCHANGED refused
    <2> DEFINE n == Lowest
    <2>1. n \in {0, 3} /\ n \in Fds /\ n <= MaxFd
      BY <1>3, LowestFree
    <2>2. fd' = n /\ fds' = [fds EXCEPT ![n] = "tty"]
      BY <1>7
    <2> HIDE DEF n
    <2>3. Valid'
      BY <2>1, <2>2 DEF Valid
    <2>4. kernel = [m \in Fds |-> kernel[m]]
      BY <1>3 DEF AllOn
    <2>5. fds' = [m \in Fds |-> IF m = n THEN "tty" ELSE kernel[m]]
      BY <1>3, <2>1, <2>2, <2>4
    <2>6. \A m \in Fds : ~(m < 0)
      BY <1>5 DEF Fds
    <2>7. Duplicated(0)' = [m \in Fds |-> IF m < 0 \/ m = n THEN "tty" ELSE kernel[m]]
      BY <1>1, <2>2, <2>3 DEF Duplicated
    <2>8. fds' = Duplicated(0)'
      BY <2>5, <2>6, <2>7
    <2>9. fds' = Duplicated(pc[2])'
      BY <1>2, <2>8 DEF Duplicated
    <2>10. fd' \in {0, 3, MaxFd + 1} /\ (leader' => ctty' = "tty")
      BY <1>1, <1>7, <2>1, <2>2
    <2> QED
      BY <1>2, <1>6, <2>3, <2>9, <2>10 DEF TerminalInv
  <1>8. CASE refused' = (refused \/ HasTty) /\ UNCHANGED <<fd, fds, ctty>>
    <2>1. ~Valid' /\ fd' = MaxFd + 1
      BY <1>3, <1>5, <1>8 DEF Valid
    <2>2. fds' = Duplicated(pc[2])'
      BY <1>1, <1>3, <1>8, <2>1 DEF Duplicated
    <2>3. ~(sh' /\ ~refused')
      BY <1>1, <1>3, <1>4, <1>8
    <2> QED
      BY <1>2, <1>6, <2>1, <2>2, <2>3 DEF TerminalInv
  <1> QED
    BY <1>7, <1>8 DEF OpenTty

(* The facts that stay when only fds and the statement change. *)
LEMMA TerminalLate ==
  ASSUME TerminalInv, pc[1] \in {"dup2", "close", "ioctl", "execl", "shell"},
         UNCHANGED <<kernel, fd, sh, leader>>, ctty = "tty" => ctty' = "tty",
         refused' \in BOOLEAN, refused => refused'
  PROVE  /\ refused' \in BOOLEAN /\ sh' \in BOOLEAN
         /\ kernel' \in {AllOn("console"), AllOn("closed")}
         /\ fd' \in {0, 3, MaxFd + 1}
         /\ Valid' /\ leader' => ctty' = "tty"
         /\ sh' /\ ~refused' => Valid'
         /\ Valid' <=> Valid
  BY DEF TerminalInv, Valid

LEMMA TerminalDup2 ==
  ASSUME TerminalInv, NEW n \in 0..2, Dup2(n)
  PROVE  TerminalInv'
  <1>1. pc = <<"dup2", n>> /\ UNCHANGED <<refused, sh, kernel, fd, leader, ctty, sized>>
    BY DEF Dup2, vars
  <1>2. pc[1] = "dup2" /\ pc[2] = n
    BY <1>1
  <1>3. MaxFd \in Nat /\ n \in Nat /\ n \in Fds /\ n + 1 \in 1..3
    BY FdAssumption DEF Fds
  <1>4. fds = Duplicated(n)
    BY <1>2 DEF TerminalInv
  <1>5. fds' = Duplicated(n + 1)
    <2>1. CASE ~Valid
      BY <1>4, <2>1 DEF Dup2, Duplicated
    <2>2. CASE Valid
      <3>1. fd \in Fds /\ MaxFd >= 3
        BY <1>2, <1>3, <2>2, FdAssumption DEF TerminalInv, Valid, Fds
      <3>2. fds = [m \in Fds |-> IF m < n \/ m = fd THEN "tty" ELSE kernel[m]]
        BY <1>4, <2>2 DEF Duplicated
      <3>3. fds[fd] = "tty"
        BY <3>1, <3>2
      <3>4. fds' = [fds EXCEPT ![n] = "tty"]
        BY <2>2, <3>3 DEF Dup2
      <3>5. fds' = [m \in Fds |-> IF m = n THEN "tty" ELSE fds[m]]
        BY <1>3, <3>2, <3>4
      <3>6. \A m \in Fds : m < n + 1 <=> m < n \/ m = n
        BY <1>3 DEF Fds
      <3>7. fds' = [m \in Fds |-> IF m < n + 1 \/ m = fd THEN "tty" ELSE kernel[m]]
        BY <3>2, <3>5, <3>6
      <3> QED
        BY <2>2, <3>7 DEF Duplicated
    <2> QED
      BY <2>1, <2>2
  <1>6. UNCHANGED <<kernel, fd>>
    BY <1>1
  <1>7. CASE n < 2
    <2>1. pc' = <<"dup2", n + 1>>
      BY <1>7 DEF Dup2
    <2>2. pc'[1] = "dup2" /\ pc'[2] = n + 1
      BY <2>1
    <2>3. fds' = Duplicated(pc[2])'
      BY <1>5, <1>6, <2>2 DEF Duplicated, Valid
    <2> QED
      BY <1>1, <1>2, <2>2, <2>3, TerminalLate DEF TerminalInv
  <1>8. CASE n = 2
    <2>1. pc' = <<"close", 0>>
      BY <1>8 DEF Dup2, Statement
    <2>2. pc'[1] = "close"
      BY <2>1
    <2>3. fds' = Duplicated(3)'
      BY <1>5, <1>6, <1>8 DEF Duplicated, Valid
    <2> QED
      BY <1>1, <1>2, <2>2, <2>3, TerminalLate DEF TerminalInv
  <1> QED
    BY <1>7, <1>8

LEMMA TerminalClose ==
  ASSUME TerminalInv, Close
  PROVE  TerminalInv'
  <1>1. pc = <<"close", 0>> /\ pc' = <<"ioctl", 0>>
        /\ UNCHANGED <<refused, sh, kernel, fd, leader, ctty, sized>>
    BY DEF Close, Statement, vars
  <1>2. pc[1] = "close" /\ pc'[1] = "ioctl"
    BY <1>1
  <1>3. fds = Duplicated(3) /\ fd \in {0, 3, MaxFd + 1}
        /\ kernel \in {AllOn("console"), AllOn("closed")}
    BY <1>2 DEF TerminalInv
  <1>4. MaxFd \in Nat /\ MaxFd >= 3
    BY FdAssumption
  <1>5. CASE ~Valid
    <2>1. fds' = kernel' /\ ~Valid'
      BY <1>1, <1>3, <1>5 DEF Close, MustClose, Duplicated, Valid
    <2> QED
      BY <1>1, <1>2, <2>1, TerminalLate DEF TerminalInv
  <1>6. CASE Valid
    <2>1. fd \in {0, 3}
      BY <1>3, <1>4, <1>6 DEF Valid
    <2>2. fds = [m \in Fds |-> IF m < 3 \/ m = fd THEN "tty" ELSE kernel[m]]
      BY <1>3, <1>6 DEF Duplicated
    <2>3. \A m \in Fds : (m < 3 <=> m <= 2) /\ (~(m <= 2) => kernel[m] = "closed")
      BY <1>3, <1>4 DEF Fds, AllOn
    <2>4. fds' = AllOn("tty")
      <3>1. CASE fd = 0
        <4>1. fds' = fds
          BY <3>1 DEF Close, MustClose
        <4> QED
          BY <2>2, <2>3, <3>1, <4>1 DEF AllOn
      <3>2. CASE fd = 3
        <4>1. fds' = [fds EXCEPT ![3] = "closed"]
          BY <1>6, <3>2 DEF Close, MustClose
        <4>2. fds' = [m \in Fds |-> IF m = 3 THEN "closed" ELSE fds[m]]
          BY <2>2, <4>1
        <4>3. \A m \in Fds : (IF m = 3 THEN "closed" ELSE fds[m]) = IF m <= 2 THEN "tty" ELSE "closed"
          BY <2>2, <2>3, <3>2
        <4> QED
          BY <4>2, <4>3 DEF AllOn
      <3> QED
        BY <2>1, <3>1, <3>2
    <2>5. Valid'
      BY <1>1, <1>6 DEF Valid
    <2> QED
      BY <1>1, <1>2, <2>4, <2>5, TerminalLate DEF TerminalInv
  <1> QED
    BY <1>5, <1>6

LEMMA TerminalEnd ==
  ASSUME TerminalInv, Ioctl \/ Execl
  PROVE  TerminalInv'
  <1>1. CASE Ioctl
    <2>1. pc = <<"ioctl", 0>> /\ pc' = <<"execl", 0>>
          /\ UNCHANGED <<sh, fds, kernel, fd, leader>>
      BY <1>1 DEF Ioctl, Statement
    <2>2. pc[1] = "ioctl" /\ pc'[1] = "execl"
      BY <2>1
    <2>3. ctty = "tty" => ctty' = "tty"
      BY <1>1 DEF Ioctl
    <2>4. fds = IF Valid THEN AllOn("tty") ELSE kernel
      BY <2>2 DEF TerminalInv
    <2>5. fds' = IF Valid' THEN AllOn("tty") ELSE kernel'
      BY <2>1, <2>4 DEF Valid
    <2>6. refused \in BOOLEAN
      BY DEF TerminalInv
    <2>7. refused' \in BOOLEAN /\ (refused => refused')
      BY <1>1, <2>6 DEF Ioctl
    <2> QED
      BY <2>1, <2>2, <2>3, <2>5, <2>7, TerminalLate DEF TerminalInv
  <1>2. CASE Execl
    <2>1. pc = <<"execl", 0>> /\ UNCHANGED <<refused, sh, fds, kernel, fd, leader, ctty, sized>>
          /\ pc' \in {<<"shell", 0>>, <<"panic", 0>>}
      BY <1>2 DEF Execl, Statement, vars
    <2>2. pc[1] = "execl" /\ pc'[1] \in {"shell", "panic"}
      BY <2>1
    <2>3. fds' = (IF Valid' THEN AllOn("tty") ELSE kernel') /\ refused \in BOOLEAN
      BY <2>1, <2>2 DEF TerminalInv, Valid
    <2>4. pc'[1] = "shell" => sh'
      BY <1>2, <2>1 DEF Execl, Statement
    <2> QED
      BY <2>1, <2>2, <2>3, <2>4, TerminalLate DEF TerminalInv
  <1> QED
    BY <1>1, <1>2

LEMMA SizedIoctl ==
  ASSUME TerminalInv, SizedInv, Ioctl
  PROVE  SizedInv'
  <1>1. pc = <<"ioctl", 0>> /\ pc' = <<"execl", 0>> /\ fd' = fd
    BY DEF Ioctl, Statement
  <1>2. pc[1] = "ioctl" /\ pc'[1] = "execl"
    BY <1>1
  <1>3. sized = "none" /\ fds = (IF Valid THEN AllOn("tty") ELSE kernel)
    BY <1>2 DEF SizedInv, TerminalInv
  <1>4. Valid => fds[0] = "tty"
    BY <1>3, FdAssumption DEF AllOn, Fds
  <1>5. Valid' => Valid
    BY <1>1 DEF Valid
  <1>6. Valid => sized' \in {"tty", "none"} /\ (~refused' => sized' = "tty")
    BY <1>3, <1>4 DEF Ioctl, Asked
  <1> QED
    BY <1>2, <1>5, <1>6 DEF SizedInv

LEMMA SizedStep ==
  ASSUME TerminalInv, SizedInv, MountsInv, [BootNext]_boot_vars
  PROVE  SizedInv'
  <1>1. CASE UNCHANGED boot_vars
    BY <1>1 DEF boot_vars, vars, init_vars, SizedInv, Valid
  <1>2. CASE MountStep /\ UNCHANGED init_vars
    <2>1. UNCHANGED <<pc, sized>> /\ pc[1] = "wait"
      BY <1>2 DEF init_vars, MountsInv, MountStep, CountFlag, Check, Call
    <2> QED
      BY <2>1 DEF SizedInv
  <1>3. CASE InitStep
    <2>1. CASE Ioctl
      BY <2>1, SizedIoctl
    <2>2. CASE Execl
      <3>1. pc = <<"execl", 0>> /\ UNCHANGED <<refused, fd, sized>>
            /\ pc' \in {<<"shell", 0>>, <<"panic", 0>>}
        BY <2>2 DEF Execl, Statement, vars
      <3>2. pc[1] = "execl" /\ pc'[1] \in {"shell", "panic"}
        BY <3>1
      <3> QED
        BY <3>1, <3>2 DEF SizedInv, Valid
    <2>3. CASE Setsid \/ (\E k \in 1..3 : System(k) \/ Wait(k)) \/ OpenTty \/ Close
      <3>1. sized' = sized /\ pc[1] \notin {"execl", "shell", "panic"}
        BY <2>3 DEF Setsid, System, Wait, OpenTty, Close, Statement, Running, Waiting
      <3>2. pc'[1] \notin {"execl", "shell", "panic"}
        BY <2>3 DEF Setsid, System, Wait, OpenTty, Close, After, Statement, Running, Waiting
      <3> QED
        BY <3>1, <3>2 DEF SizedInv
    <2>4. ASSUME NEW n \in 0..2, Dup2(n) PROVE SizedInv'
      <3>1. sized' = sized /\ pc[1] = "dup2" /\ pc'[1] \in {"dup2", "close"}
        BY <2>4 DEF Dup2, Statement
      <3> QED
        BY <3>1 DEF SizedInv
    <2> QED
      BY <1>3, <2>1, <2>2, <2>3, <2>4 DEF InitStep
  <1> QED
    BY <1>1, <1>2, <1>3 DEF BootNext

LEMMA BootStep ==
  ASSUME TerminalInv, MountsInv, [BootNext]_boot_vars
  PROVE  TerminalInv' /\ MountsInv'
  <1>1. CASE UNCHANGED boot_vars
    <2>1. UNCHANGED <<mount_pc, argv, i, count, status, mounts, refused, pc, sh, fds, kernel, fd, leader, ctty, sized>>
      BY <1>1 DEF boot_vars, vars, mount_vars, init_vars
    <2>2. TerminalInv'
      BY <2>1 DEF TerminalInv, Valid, Duplicated
    <2>3. CountInv' <=> CountInv
      BY <2>1 DEF CountInv, UsageOk, argc
    <2>4. MountsInv'
      BY <2>1, <2>3 DEF MountsInv
    <2> QED
      BY <2>2, <2>4
  <1>2. CASE MountStep /\ UNCHANGED init_vars
    <2>1. MountsInv'
      BY <1>2, MountsMountStep
    <2>2. UNCHANGED <<pc, sh, fds, kernel, fd>> /\ refused' \in BOOLEAN
      BY <1>2 DEF init_vars, MountStep, CountFlag, Check, Call, TerminalInv
    <2>3. pc[1] = "wait"
      BY <1>2 DEF MountsInv, MountStep, CountFlag, Check, Call
    <2>4. TerminalInv'
      BY <2>2, <2>3, TerminalEarly
    <2> QED
      BY <2>1, <2>4
  <1>3. CASE InitStep
    <2>1. MountsInv'
      BY <1>3, MountsInitStep DEF TerminalInv
    <2>2. CASE Setsid \/ \E k \in 1..3 : System(k) \/ Wait(k)
      <3>1. UNCHANGED <<fds, kernel, fd, sh>>
        BY <2>2 DEF Setsid, System, Wait
      <3>2. pc[1] \in {"setsid", "system", "wait", "open"}
        BY <2>2 DEF Setsid, System, Wait, Statement, Running, Waiting
      <3>3. pc'[1] \in {"setsid", "system", "wait", "open"}
        BY <2>2 DEF Setsid, System, Wait, After, Statement, Running, Waiting
      <3>4. refused' \in BOOLEAN
        BY <2>2 DEF Setsid, System, Wait, vars, TerminalInv
      <3> QED
        BY <2>1, <3>1, <3>2, <3>3, <3>4, TerminalEarly
    <2>3. CASE OpenTty
      BY <2>1, <2>3, TerminalOpen
    <2>4. ASSUME NEW n \in 0..2, Dup2(n) PROVE TerminalInv'
      BY <2>4, TerminalDup2
    <2>5. CASE Close
      BY <2>1, <2>5, TerminalClose
    <2>6. CASE Ioctl \/ Execl
      BY <2>1, <2>6, TerminalEnd
    <2> QED
      BY <1>3, <2>1, <2>2, <2>3, <2>4, <2>5, <2>6 DEF InitStep
  <1> QED
    BY <1>1, <1>2, <1>3 DEF BootNext

LEMMA BootInvariant == BootSpec => [](TerminalInv /\ MountsInv /\ SizedInv)
  <1>1. BootInit => TerminalInv /\ MountsInv /\ SizedInv
    <2> SUFFICES ASSUME BootInit PROVE TerminalInv /\ MountsInv /\ SizedInv
      OBVIOUS
    <2>1. pc = <<"setsid", 0>>
      BY DEF BootInit, Statement
    <2>2. pc[1] = "setsid" /\ \A k \in 1..3 : pc # Running(k) /\ pc # Waiting(k)
      BY <2>1 DEF Running, Waiting
    <2>3. TerminalInv
      BY <2>2 DEF BootInit, TerminalInv
    <2>4. MountsInv
      BY <2>2 DEF BootInit, MountsInv
    <2>5. SizedInv
      BY <2>2 DEF BootInit, SizedInv
    <2> QED
      BY <2>3, <2>4, <2>5
  <1>2. TerminalInv /\ MountsInv /\ SizedInv /\ [BootNext]_boot_vars
          => (TerminalInv /\ MountsInv /\ SizedInv)'
    BY BootStep, SizedStep
  <1> QED
    BY <1>1, <1>2, PTL DEF BootSpec

(* Whatever fails, the shell starts with its three descriptors on the      *)
(* terminal and no other one open, or as the kernel left them: init closes *)
(* the one that open() gave it exactly when it is not one of the three.    *)
THEOREM BootShellDescriptors == BootSpec => []ShellDescriptors
  <1>1. TerminalInv => ShellDescriptors
    BY DEF TerminalInv, ShellDescriptors, InShell, Statement
  <1> QED
    BY <1>1, BootInvariant, PTL

(* Whatever else fails, the ioctls included, a terminal that could be      *)
(* opened is the controlling terminal of a session leader, and the size of *)
(* no other one is set.                                                    *)
THEOREM BootShellTerminal == BootSpec => []ShellTerminal
  <1>1. TerminalInv /\ SizedInv => ShellTerminal
    BY DEF TerminalInv, SizedInv, ShellTerminal, InShell, Statement
  <1> QED
    BY <1>1, BootInvariant, PTL

(* Unless the kernel refuses something, the shell finds the three file     *)
(* systems, the terminal with its size set, and a session, whatever the    *)
(* order in which the two processes are scheduled.                         *)
THEOREM BootIsComplete == BootSpec => []BootsUnlessRefused
  <1>1. TerminalInv /\ MountsInv /\ SizedInv => BootsUnlessRefused
    <2> SUFFICES ASSUME TerminalInv, MountsInv, SizedInv, InShell, ~refused
                 PROVE  /\ mounts = FirstMounts(3)
                        /\ fds = AllOn("tty") /\ ctty = "tty" /\ sized = "tty" /\ leader
      BY DEF BootsUnlessRefused, FirstMounts
    <2>1. pc[1] = "shell"
      BY DEF InShell, Statement
    <2>2. sh
      BY <2>1 DEF TerminalInv
    <2> QED
      BY <2>1, <2>2 DEF TerminalInv, MountsInv, SizedInv
  <1> QED
    BY <1>1, BootInvariant, PTL
-----------------------------------------------------------------------------
(* The boot ends                                                           *)

(* The steps mount has still to take. *)
MountLeft ==
  IF mount_pc = "count" THEN Len(argv) + 4 - i
  ELSE IF mount_pc = "check" THEN 2 ELSE IF mount_pc = "call" THEN 1 ELSE 0

(* The statements init has still before it. *)
Statements ==
  IF pc[1] = "setsid" THEN 14
  ELSE IF pc[1] = "system" THEN 15 - 2 * pc[2]
  ELSE IF pc[1] = "wait" THEN 14 - 2 * pc[2]
  ELSE IF pc[1] = "open" THEN 7
  ELSE IF pc[1] = "dup2" THEN 6 - pc[2]
  ELSE IF pc[1] = "close" THEN 3
  ELSE IF pc[1] = "ioctl" THEN 2
  ELSE IF pc[1] = "execl" THEN 1 ELSE 0

(* No run of mount that init starts takes more than 7 steps. *)
BootLeft == 8 * Statements + MountLeft

PcInv ==
  \/ pc \in {Statement(name) : name \in {"setsid", "open", "close", "ioctl", "execl", "shell", "panic"}}
  \/ \E k \in 1..3 : pc = Running(k) \/ pc = Waiting(k)
  \/ \E n \in 0..2 : pc = <<"dup2", n>>

LEMMA MountGetsOn ==
  ASSUME CountInv, MountStep
  PROVE  MountLeft' < MountLeft
  <1>1. Len(argv) \in Nat /\ i \in Nat /\ i <= Len(argv) + 1 /\ argv' = argv
    BY DEF CountInv, MountStep, CountFlag, Check, Call
  <1>2. CASE CountFlag
    <2>1. CASE mount_pc = "count" /\ mount_pc' = "count" /\ i' = i + 1
      BY <1>1, <2>1 DEF MountLeft
    <2>2. CASE mount_pc = "count" /\ mount_pc' = "check"
      BY <1>1, <2>2 DEF MountLeft
    <2> QED
      BY <1>2, <2>1, <2>2 DEF CountFlag
  <1>3. CASE Check \/ Call
    BY <1>3 DEF Check, Call, MountLeft
  <1> QED
    BY <1>2, <1>3 DEF MountStep

LEMMA MountLeftType ==
  ASSUME MountsInv, PcInv
  PROVE  MountLeft \in 0..7 /\ (pc[1] # "wait" => MountLeft = 0)
  <1>1. CASE pc[1] # "wait"
    BY <1>1 DEF MountsInv, MountLeft
  <1>2. CASE pc[1] = "wait"
    <2>1. PICK k \in 1..3 : pc = Waiting(k)
      BY <1>2 DEF PcInv, Statement, Running
    <2>2. CountInv /\ argv = Commands[k]
      BY <2>1 DEF MountsInv
    <2>3. Len(argv) = 4
      BY <2>2, CommandFacts
    <2>4. i \in 1..(4 + 1)
      BY <2>2, <2>3 DEF CountInv
    <2> QED
      BY <1>2, <2>3, <2>4 DEF MountLeft
  <1> QED
    BY <1>1, <1>2

(* Where each statement of init leads. *)
LEMMA StatementsStep ==
  ASSUME PcInv, InitStep
  PROVE  /\ PcInv' /\ Statements' \in Nat /\ Statements' < Statements
         /\ mount_vars' = mount_vars \/ \E k \in 1..3 : pc' = Waiting(k)
  <1>1. CASE Setsid
    BY <1>1 DEF Setsid, Statement, Running, PcInv, Statements
  <1>2. ASSUME NEW k \in 1..3, System(k) \/ Wait(k)
        PROVE  /\ PcInv' /\ Statements' \in Nat /\ Statements' < Statements
               /\ mount_vars' = mount_vars \/ \E m \in 1..3 : pc' = Waiting(m)
    <2>1. /\ pc = Running(k) \/ pc = Waiting(k)
          /\ pc' = After(k) \/ (pc = Running(k) /\ pc' = Waiting(k))
          /\ mount_vars' = mount_vars \/ pc' = Waiting(k)
      BY <1>2 DEF System, Wait, vars
    <2>2. Statements \in Nat /\ Statements >= 14 - 2 * k
          /\ (pc = Running(k) => Statements = 15 - 2 * k)
      BY <2>1 DEF Statements, Running, Waiting
    <2>3. CASE pc = Running(k) /\ pc' = Waiting(k)
      BY <2>2, <2>3 DEF Statements, Waiting, PcInv
    <2>4. CASE pc' = After(k)
      <3>1. CASE k < 3
        <4>1. k + 1 \in 1..3 /\ pc' = Running(k + 1)
          BY <2>4, <3>1 DEF After
        <4>2. Statements' = 15 - 2 * (k + 1)
          BY <4>1 DEF Statements, Running
        <4> QED
          BY <2>1, <2>2, <4>1, <4>2 DEF PcInv
      <3>2. CASE k = 3
        <4>1. pc' = Statement("open")
          BY <2>4, <3>2 DEF After
        <4>2. Statements' = 7
          BY <4>1 DEF Statements, Statement
        <4> QED
          BY <2>1, <2>2, <3>2, <4>1, <4>2 DEF PcInv
      <3> QED
        BY <3>1, <3>2
    <2> QED
      BY <2>1, <2>3, <2>4
  <1>3. CASE OpenTty
    <2>1. pc = <<"open", 0>> /\ pc' = <<"dup2", 0>> /\ mount_vars' = mount_vars
      BY <1>3 DEF OpenTty, Statement
    <2> QED
      BY <2>1 DEF PcInv, Statements
  <1>4. ASSUME NEW n \in 0..2, Dup2(n)
        PROVE  /\ PcInv' /\ Statements' \in Nat /\ Statements' < Statements
               /\ mount_vars' = mount_vars
    <2>1. /\ pc = <<"dup2", n>> /\ mount_vars' = mount_vars
          /\ pc' = IF n < 2 THEN <<"dup2", n + 1>> ELSE Statement("close")
      BY <1>4 DEF Dup2, vars
    <2>2. CASE n < 2
      BY <2>1, <2>2 DEF PcInv, Statements
    <2>3. CASE n = 2
      BY <2>1, <2>3 DEF PcInv, Statements, Statement
    <2> QED
      BY <2>2, <2>3
  <1>5. CASE Close \/ Ioctl \/ Execl
    <2>1. \/ pc = <<"close", 0>> /\ pc' = Statement("ioctl")
          \/ pc = <<"ioctl", 0>> /\ pc' = Statement("execl")
          \/ pc = <<"execl", 0>> /\ (pc' = Statement("shell") \/ pc' = Statement("panic"))
      BY <1>5 DEF Close, Ioctl, Execl, Statement
    <2>2. mount_vars' = mount_vars
      BY <1>5 DEF Close, Ioctl, Execl, vars
    <2>3. PcInv'
      BY <2>1 DEF PcInv
    <2> QED
      BY <2>1, <2>2, <2>3 DEF Statements, Statement
  <1> QED
    BY <1>1, <1>2, <1>3, <1>4, <1>5 DEF InitStep, Setsid

LEMMA LessLeft ==
  ASSUME NEW s \in Nat, NEW m \in 0..7, NEW t \in Nat, NEW n \in 0..7,
         t < s \/ (t = s /\ n < m)
  PROVE  8 * t + n < 8 * s + m
  OBVIOUS

(* Whatever fails, the machine comes up or panics in a bounded number of   *)
(* steps of init and of the three mounts it waits for: every step leaves   *)
(* less to do, so init waits for no mount for ever, and mount goes round   *)
(* no loop.                                                                *)
THEOREM BootGetsOn ==
  BootSpec => [](BootLeft \in 0..119) /\ [][BootLeft' < BootLeft]_boot_vars
  <1>1. BootInit => PcInv
    BY DEF BootInit, PcInv
  <1>2. PcInv /\ [BootNext]_boot_vars => PcInv'
    <2>1. PcInv /\ InitStep => PcInv'
      BY StatementsStep
    <2>2. PcInv /\ pc' = pc => PcInv'
      BY DEF PcInv
    <2> QED
      BY <2>1, <2>2 DEF BootNext, boot_vars, init_vars
  <1>3. PcInv => Statements \in 0..14
    <2> SUFFICES ASSUME PcInv PROVE Statements \in 0..14
      OBVIOUS
    <2>1. CASE pc \in {Statement(name) : name \in {"setsid", "open", "close", "ioctl", "execl", "shell", "panic"}}
      BY <2>1 DEF Statements, Statement
    <2>2. CASE \E k \in 1..3 : pc = Running(k) \/ pc = Waiting(k)
      BY <2>2 DEF Statements, Running, Waiting
    <2>3. CASE \E n \in 0..2 : pc = <<"dup2", n>>
      BY <2>3 DEF Statements
    <2> QED
      BY <2>1, <2>2, <2>3 DEF PcInv
  <1>4. MountsInv /\ PcInv => MountLeft \in 0..7 /\ BootLeft \in 0..119
    BY <1>3, MountLeftType DEF BootLeft
  <1>5. ASSUME MountsInv, PcInv, MountsInv', PcInv', (MountLeft \in 0..7)', BootNext
        PROVE  BootLeft' < BootLeft
    <2>1. MountLeft \in 0..7 /\ MountLeft' \in 0..7 /\ Statements \in Nat
      BY <1>3, <1>4, <1>5
    <2>2. CASE InitStep
      <3>1. Statements' \in Nat /\ Statements' < Statements
        BY <1>5, <2>2, StatementsStep
      <3>2. 8 * Statements' + MountLeft' < 8 * Statements + MountLeft
        BY <2>1, <3>1, LessLeft
      <3> QED
        BY <3>2 DEF BootLeft
    <2>3. CASE MountStep /\ UNCHANGED init_vars
      <3>1. Statements' = Statements
        BY <2>3 DEF Statements, init_vars
      <3>2. mount_pc # "exit"
        BY <2>3 DEF MountStep, CountFlag, Check, Call
      <3>3. CountInv
        BY <1>5, <3>2 DEF MountsInv, PcInv, Statement, Running
      <3>4. MountLeft' < MountLeft
        BY <2>3, <3>3, MountGetsOn
      <3>5. 8 * Statements' + MountLeft' < 8 * Statements + MountLeft
        BY <2>1, <3>1, <3>4, LessLeft
      <3> QED
        BY <3>5 DEF BootLeft
    <2> QED
      BY <1>5, <2>2, <2>3 DEF BootNext
  <1>6. MountsInv /\ PcInv /\ MountsInv' /\ PcInv' /\ (MountLeft \in 0..7)' /\ [BootNext]_boot_vars =>
          [BootLeft' < BootLeft]_boot_vars
    BY <1>5
  <1> QED
    BY <1>1, <1>2, <1>4, <1>6, BootInvariant, PTL DEF BootSpec
=============================================================================
