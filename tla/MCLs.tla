-------------------------------- MODULE MCLs --------------------------------
(* Instances of Ls for TLC: a tree three levels deep with a hidden         *)
(* directory, and two sets of command lines.                               *)
EXTENDS Ls, TLC

CONSTANTS root, dirA, dirB, dirC, dot, dotD

MCDir == {root, dirA, dirB, dirC, dot, dotD}
MCParent == (dirA :> root) @@ (dirB :> root) @@ (dirC :> dirA) @@ (dot :> root) @@ (dotD :> dot)

Short(letters) == [kind |-> "short", letters |-> letters]
LongArg(text) == [kind |-> "long", text |-> text]
Operand(d) == [kind |-> "path", dir |-> d]

(* Command lines for walks. *)
WalkLines ==
  {<<>>, <<Short({"R"})>>, <<Short({"a", "R"})>>, <<Short({"R", "l"}), Operand(dirA), Operand(dot)>>,
   <<Operand(dirB), Operand(Missing), Operand(dirC)>>, <<Short({"R"}), Operand(dirA), Operand(root)>>}

(* Every command line of up to three of these arguments. *)
SomeArguments ==
  {Short({"a", "r"}), Short({"U"}), Short({"R"}), Short({"l", "A"}), Short({}), Operand(dirB), Operand(Missing)}
    \union {LongArg(t) : t \in Long}
OptionLines == UNION {[1..n -> SomeArguments] : n \in 0..3}
=============================================================================
