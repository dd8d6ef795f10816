-------------------------------- MODULE Cat ---------------------------------
(***************************************************************************)
(* src/bin/cat.c: read a buffer, write it, until the end of the file.      *)
(* read() and write() may be short or fail; what write() returns is not    *)
(* looked at.  Another process may append to the file in the meantime.  A  *)
(* byte is its offset in the file: cat does not look at it.                *)
(***************************************************************************)
EXTENDS Naturals, Sequences

CONSTANTS
  BufSize,  \* bufsize
  MaxSize   \* bound: how large the file grows

ASSUME SizeAssumption == BufSize \in Nat \ {0} /\ MaxSize \in Nat

VARIABLES
  pc,      \* where cat is
  argc,    \* its arguments, with its name
  size,    \* bytes in the file
  pos,     \* the offset of the descriptor
  n_read,  \* what read() returned: the buffer holds the bytes before pos
  out,     \* what has reached standard output
  status,  \* the exit status
  lost     \* a write has been short or has failed

vars == <<pc, argc, size, pos, n_read, out, status, lost>>
-----------------------------------------------------------------------------
Smaller(a, b) == IF a < b THEN a ELSE b
Exit(s) == pc' = "exit" /\ status' = s

Init ==
  /\ pc = "open"
  /\ argc \in {1, 2}
  /\ size \in 0..MaxSize
  /\ pos = 0 /\ n_read = 0
  /\ out = <<>>
  /\ status = 0 /\ lost = FALSE

(* The argument and open(). *)
Open ==
  /\ pc = "open"
  /\ \/ argc < 2 /\ Exit(1)
     \/ argc >= 2 /\ Exit(2)
     \/ argc >= 2 /\ pc' = "read" /\ UNCHANGED status
  /\ UNCHANGED <<argc, size, pos, n_read, out, lost>>

(* A buffer that is not full taken for the end of the file. *)
FaultyRead ==
  /\ pc = "read"
  /\ \/ Exit(3) /\ UNCHANGED <<pos, n_read>>
     \/ pos = size /\ Exit(0) /\ UNCHANGED <<pos, n_read>>
     \/ \E n \in 1..Smaller(BufSize, size - pos) :
          /\ n_read' = n /\ pos' = pos + n
          /\ IF n < BufSize THEN Exit(0) ELSE pc' = "write" /\ UNCHANGED status
  /\ UNCHANGED <<argc, size, out, lost>>

(* No test for the end of the file. *)
FaultyReadOn ==
  /\ pc = "read"
  /\ \/ Exit(3) /\ UNCHANGED <<pos, n_read>>
     \/ \E n \in 0..Smaller(BufSize, size - pos) :
          /\ n = 0 => pos = size
          /\ n_read' = n /\ pos' = pos + n /\ pc' = "write" /\ UNCHANGED status
  /\ UNCHANGED <<argc, size, out, lost>>

(* read() fails, finds the end of the file, or fills part of the buffer. *)
Read ==
  /\ pc = "read"
  /\ \/ Exit(3) /\ UNCHANGED <<pos, n_read>>
     \/ pos = size /\ Exit(0) /\ UNCHANGED <<pos, n_read>>
     \/ \E n \in 1..Smaller(BufSize, size - pos) :
          n_read' = n /\ pos' = pos + n /\ pc' = "write" /\ UNCHANGED status
  /\ UNCHANGED <<argc, size, out, lost>>

(* The first n bytes of a buffer that holds those before pos. *)
Buffered(n) == [k \in 1..n |-> pos - n_read + k]

Amount == n_read

(* Writing the buffer again until everything was written. *)
FaultyWrite ==
  /\ pc = "write"
  /\ \E n \in 0..Amount :
       /\ out' = out \o Buffered(n)
       /\ lost' = (lost \/ n < Amount)
       /\ pc' = IF n < Amount THEN "write" ELSE "read"
  /\ UNCHANGED <<argc, size, pos, n_read, status>>

(* write() takes n of the bytes, 0 when it fails; cat goes on. *)
Write ==
  /\ pc = "write"
  /\ \E n \in 0..Amount :
       /\ out' = out \o Buffered(n)
       /\ lost' = (lost \/ n < Amount)
  /\ pc' = "read"
  /\ UNCHANGED <<argc, size, pos, n_read, status>>

(* Nobody reads the pipe any more: SIGPIPE, which is not caught. *)
BrokenPipe ==
  /\ pc = "write"
  /\ pc' = "killed"
  /\ UNCHANGED <<argc, size, pos, n_read, out, status, lost>>

(* Another process appends to the file. *)
GrowFile ==
  /\ pc \in {"open", "read", "write"} /\ size < MaxSize
  /\ size' = size + 1
  /\ UNCHANGED <<pc, argc, pos, n_read, out, status, lost>>

CatStep == Open \/ Read \/ Write

Next == CatStep \/ BrokenPipe \/ GrowFile

(* A process that can take a step is scheduled; nobody must append. *)
Spec == Init /\ [][Next]_vars /\ WF_vars(CatStep)
-----------------------------------------------------------------------------
TypeOK ==
  /\ pc \in {"open", "read", "write", "exit", "killed"}
  /\ argc \in {1, 2} /\ size \in Nat
  /\ pos \in 0..size /\ n_read \in 0..Smaller(BufSize, pos)
  /\ out \in Seq(1..pos)
  /\ status \in 0..3 /\ lost \in BOOLEAN

(* Whatever is lost, what arrives is in order and nothing arrives twice:   *)
(* every byte written comes from further on in the file than the one       *)
(* before it, and never from a part of the buffer that read() has not      *)
(* filled.                                                                 *)
InOrder ==
  /\ \A j, k \in DOMAIN out : j < k => out[j] < out[k]
  /\ \A k \in DOMAIN out : out[k] <= IF pc = "write" THEN pos - n_read ELSE pos

(* As long as every write is complete, cat is a copy: a prefix of the file *)
(* at any time, all of it when it exits with 0.  (A write that is not      *)
(* complete breaks this, unnoticed.)                                       *)
CopySize == IF lost THEN 0 ELSE size
CopyOut == IF lost THEN <<>> ELSE out
CopyPhase ==
  IF lost THEN "broken"
  ELSE IF pc \in {"open", "read", "write"} THEN "copying"
  ELSE IF pc = "exit" /\ status = 0 THEN "complete" ELSE "failed"

Contract == INSTANCE Copy WITH size <- CopySize, out <- CopyOut, phase <- CopyPhase

ImplementsCopy == Contract!CopySpec

(* cat ends when the file stops growing. *)
CatEnds == <>(pc \in {"exit", "killed"})

(* Why cat is a copy while nothing is lost: what has arrived is what was   *)
(* read before the buffer that is still to be written.                     *)
PrefixInv ==
  ~lost =>
    /\ pc \in {"open", "read", "exit"} => out = [k \in 1..pos |-> k]
    /\ pc \in {"write", "killed"} => out = [k \in 1..(pos - n_read) |-> k]
    /\ pc = "write" => n_read >= 1
=============================================================================
