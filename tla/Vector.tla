------------------------------- MODULE Vector -------------------------------
(***************************************************************************)
(* What lib/dynamic.c promises its callers: a sequence of elements that    *)
(* grows at the end, keeps what was put in it, can be cut short, and can   *)
(* fail only as a whole (an allocation the system refuses).  Nothing here  *)
(* knows of headers, capacities, blocks or addresses.                      *)
(***************************************************************************)
EXTENDS Naturals, Sequences

CONSTANTS
  Value,   \* the values callers insert
  Junk     \* the content of an element nobody has written

VARIABLES
  elems,   \* the elements, in insertion order
  phase    \* "idle": no array, "open": usable, "failed": lost to an allocation

vars == <<elems, phase>>

Init == elems = <<>> /\ phase = "idle"

New == phase = "idle" /\ phase' = "open" /\ elems' = <<>>

Push(v) == phase = "open" /\ elems' = Append(elems, v) /\ UNCHANGED phase

Truncate(n) ==
  /\ phase = "open"
  /\ n \in 1..Len(elems)
  /\ elems' = SubSeq(elems, 1, n)
  /\ UNCHANGED phase

Fail == phase' = "failed" /\ elems' = <<>>

Free == phase # "idle" /\ phase' = "idle" /\ elems' = <<>>

Next ==
  \/ New
  \/ \E v \in Value \union {Junk} : Push(v)
  \/ \E n \in 1..Len(elems) : Truncate(n)
  \/ Fail
  \/ Free

Spec == Init /\ [][Next]_vars
=============================================================================
