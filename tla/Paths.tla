------------------------------- MODULE Paths --------------------------------
(***************************************************************************)
(* src/lib/utils.c, concat_path(), statement by statement, called the way  *)
(* ls.c calls it: from "" to an operand, then from a directory to an entry *)
(* of it, again and again, in a new block or in the block of an earlier    *)
(* path.  A string is a sequence of characters, of which only the slash    *)
(* matters.                                                                *)
(***************************************************************************)
EXTENDS Naturals, Sequences

CONSTANTS
  Char,    \* characters of a path
  Slash,   \* '/'
  Nul,     \* the byte that ends a string
  MaxLen   \* bound: characters of an argument

ASSUME CharAssumption == Slash \in Char /\ Nul \notin Char /\ MaxLen \in Nat

VARIABLES
  pc,      \* the statement that is next
  s1, s2,  \* the arguments
  before,  \* the byte in front of s1, which is not part of it
  room,    \* bytes of the block of result
  result   \* its contents, without the byte that ends it

vars == <<pc, s1, s2, before, room, result>>
args == <<s1, s2, before>>
-----------------------------------------------------------------------------
Bytes == Char \union {Nul}

(* The characters up to the bound. *)
Strings(n) == UNION {[1..k -> Char] : k \in 0..n}

(* s[k], counted from 0 as in C: the byte at the end is Nul, the one at -1 *)
(* (len - 1 of the empty string) is whatever is in front of it.            *)
CharAt(s, k) == IF k < Len(s) THEN s[k + 1] ELSE Nul
LastChar == IF s1 = <<>> THEN before ELSE s1[Len(s1)]

Init ==
  /\ pc = "malloc"
  /\ s1 = <<>> /\ s2 \in Strings(MaxLen)
  /\ before \in Bytes
  /\ room = 0 /\ result = <<>>

(* No byte for the slash. *)
FaultyNeeded == Len(s1) + Len(s2) + 1

(* The size asked for: both strings, a slash and the byte that ends them. *)
Needed == Len(s1) + Len(s2) + 2

(* malloc() or realloc(): the old contents, if any, are not used. *)
Malloc ==
  /\ pc = "malloc"
  /\ room' = Needed
  /\ result' \in {<<>>, result}
  /\ pc' = "copy"
  /\ UNCHANGED args

(* malloc() returns NULL, which is not checked. *)
OutOfMemory ==
  /\ pc = "malloc"
  /\ pc' = "killed"
  /\ UNCHANGED <<args, room, result>>

Copied == s1

Copy ==
  /\ pc = "copy"
  /\ result' = Copied
  /\ pc' = "slash"
  /\ UNCHANGED <<args, room>>

(* The test for the empty string forgotten. *)
FaultyWantsSlash == LastChar # Slash /\ CharAt(s2, 0) # Slash

(* A slash between two names only if neither has one... *)
WantsSlash == LastChar # Slash /\ CharAt(s2, 0) # Slash /\ Len(s1) # 0

PutSlash ==
  /\ pc = "slash"
  /\ result' = IF WantsSlash THEN Append(result, Slash) ELSE result
  /\ pc' = "append"
  /\ UNCHANGED <<args, room>>

AppendName ==
  /\ pc = "append"
  /\ result' = result \o s2
  /\ pc' = "done"
  /\ UNCHANGED <<args, room>>

(* The next call: into the directory just named, or (in the loop of ls())  *)
(* another name in the same directory.                                     *)
Call ==
  /\ pc = "done"
  /\ s1' \in {s1, result} /\ Len(s1') <= MaxLen
  /\ s2' \in Strings(MaxLen)
  /\ before' \in Bytes
  /\ pc' = "malloc"
  /\ UNCHANGED <<room, result>>

Next == Malloc \/ OutOfMemory \/ Copy \/ PutSlash \/ AppendName \/ Call

Spec == Init /\ [][Next]_vars
-----------------------------------------------------------------------------
(* strcpy() and strcat() stay within the block, for every two strings: the *)
(* byte that ends the text has room, too.                                  *)
NoOverrun == pc \in {"slash", "append", "done"} => Len(result) + 1 <= room

(* The names in a path: what is between the slashes. *)
Word(s, j, k) == /\ \A m \in j..k : s[m] # Slash
                 /\ j = 1 \/ s[j - 1] = Slash
                 /\ k = Len(s) \/ s[k + 1] = Slash
Words(s) == {w \in (1..Len(s)) \X (1..Len(s)) : w[1] <= w[2] /\ Word(s, w[1], w[2])}
Text(s, w) == SubSeq(s, w[1], w[2])

(* The path made names what s2 names in the directory s1: the names on the *)
(* way are those of s1 and then those of s2, none of them split or run     *)
(* together, and it starts at the root exactly if s1 (or s2, when s1 is    *)
(* empty) does.  The byte in front of an empty s1, which the code reads,   *)
(* makes no difference.                                                    *)
JoinsPaths ==
  pc = "done" =>
    LET shift == Len(result) - Len(s2)
        moved == {<<w[1] + shift, w[2] + shift>> : w \in Words(s2)}
    IN /\ Words(result) = Words(s1) \union moved
       /\ \A w \in Words(s1) : Text(result, w) = Text(s1, w)
       /\ \A w \in Words(s2) : Text(result, <<w[1] + shift, w[2] + shift>>) = Text(s2, w)
       /\ CharAt(result, 0) = Slash <=> CharAt(IF s1 = <<>> THEN s2 ELSE s1, 0) = Slash
=============================================================================
