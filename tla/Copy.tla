-------------------------------- MODULE Copy --------------------------------
(***************************************************************************)
(* What cat promises: the bytes of a file, in order, none twice, and all   *)
(* of them when it reports success.  A byte is its offset in the file.     *)
(***************************************************************************)
EXTENDS Naturals, Sequences

VARIABLES
  size,   \* bytes in the file
  out,    \* the bytes delivered
  phase   \* "copying", "complete", "failed", or "broken": all bets are off

copy_vars == <<size, out, phase>>

FirstBytes(n) == [k \in 1..n |-> k]

CopyInit ==
  /\ size \in Nat
  /\ out = <<>>
  /\ phase = "copying"

Deliver == \E n \in Len(out)..size : out' = FirstBytes(n) /\ UNCHANGED <<size, phase>>
Complete == out = FirstBytes(size) /\ phase' = "complete" /\ UNCHANGED <<size, out>>
Fail == phase' = "failed" /\ UNCHANGED <<size, out>>
Grow == size' = size + 1 /\ UNCHANGED <<out, phase>>
Break == phase' = "broken" /\ size' = 0 /\ out' = <<>>

CopyNext == phase = "copying" /\ (Deliver \/ Complete \/ Fail \/ Grow \/ Break)

CopySpec == CopyInit /\ [][CopyNext]_copy_vars
=============================================================================
