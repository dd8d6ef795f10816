------------------------------- MODULE Buffer -------------------------------
(***************************************************************************)
(* src/lib/buffer.c: text is collected in a block and handed to a function *)
(* `call` when it is full or flushed.  `used` is never advanced and the    *)
(* index is not reset by the flush in the middle of a write, so what the   *)
(* buffer does for which client is less than its name says; the properties *)
(* say what.                                                               *)
(***************************************************************************)
EXTENDS Integers, Sequences

CONSTANTS
  Char,    \* characters
  Nul,     \* the byte that ends a string
  Percent, \* the character that begins a directive of printf()
  Sizes,   \* the sizes asked for
  MaxText  \* bound: length of a text

ASSUME BufferAssumption ==
  Nul \notin Char /\ Percent \in Char /\ Sizes \subseteq Nat /\ MaxText \in Nat

VARIABLES
  pc,        \* "new", "idle" between two calls, "write" in buffer_write(), or an end
  kind,      \* what call is: "printf" returns a count, "other" anything, "NULL"
  size,      \* BUFFER.size
  used,      \* BUFFER.used
  buf,       \* the bytes of the block behind the header
  str, i, j, \* the text being written and the two indices
  sent,      \* the text last handed to call
  result,    \* the value last returned
  longest,   \* length of the longest text written so far
  plain,     \* no text so far has had a directive
  unflushed  \* texts written since the last flush: 0, 1, 2 for more

client == <<longest, plain, unflushed>>
vars == <<pc, kind, size, used, buf, str, i, j, sent, result, client>>
-----------------------------------------------------------------------------
Texts == UNION {[1..n -> Char] : n \in 0..MaxText}

(* buf as call reads it: up to the first Nul. *)
Terminated == \E k \in DOMAIN buf : buf[k] = Nul
Contents ==
  LET end == CHOOSE k \in DOMAIN buf : buf[k] = Nul /\ \A m \in 0..(k - 1) : buf[m] # Nul
  IN [k \in 1..end |-> buf[k - 1]]

(* printf() takes the text for its format, and is given nothing else. *)
Directive ==
  kind = "printf" /\ \E k \in DOMAIN buf : buf[k] = Percent /\ \A m \in 0..k : buf[m] # Nul

(* What call may return: printf() the length of a text without directives, *)
(* or an error.                                                            *)
CallReturns == IF kind = "printf" /\ ~Directive THEN {-1, Len(Contents)} ELSE {-1, 0, 1}

Init ==
  /\ pc = "new" /\ kind \in {"printf", "other", "NULL"}
  /\ size = 0 /\ used = 0 /\ buf = [k \in {} |-> Nul]
  /\ str = <<>> /\ i = 0 /\ j = 0
  /\ sent = <<>> /\ result = 0
  /\ longest = 0 /\ plain = TRUE /\ unflushed = 0

(* No byte for the end of the text. *)
FaultyBytes(s) == 0..(s - 1)

(* The indices of the block: one more than the size, for the Nul. *)
Bytes(s) == 0..s

(* buffer(): NULL for size 0 or no call; the result of calloc() is not     *)
(* checked.                                                                *)
Create(s) ==
  /\ pc = "new"
  /\ IF s = 0 \/ kind = "NULL" THEN pc' = "null" /\ UNCHANGED <<size, used, buf>>
     ELSE \/ pc' = "killed" /\ UNCHANGED <<size, used, buf>>
          \/ /\ pc' = "idle" /\ size' = s /\ used' = 0
             /\ buf' = [k \in Bytes(s) |-> Nul]
  /\ UNCHANGED <<kind, str, i, j, sent, result, client>>

(* What the client has done, with one more text. *)
Wrote(text) ==
  /\ longest' = IF Len(text) > longest THEN Len(text) ELSE longest
  /\ plain' = (plain /\ \A k \in DOMAIN text : text[k] # Percent)
  /\ unflushed' = IF unflushed = 0 THEN 1 ELSE 2

(* The index left where the last write ended, also by a flush. *)
FaultyStartWrite(text) ==
  /\ pc = "idle"
  /\ str' = text /\ j' = 0
  /\ Wrote(text)
  /\ pc' = "write"
  /\ UNCHANGED <<kind, size, used, buf, i, sent, result>>

(* buffer_write(text) is called. *)
StartWrite(text) ==
  /\ pc = "idle"
  /\ str' = text /\ i' = used /\ j' = 0
  /\ Wrote(text)
  /\ pc' = "write"
  /\ UNCHANGED <<kind, size, used, buf, sent, result>>

Full == i = size

(* buf[i++] = c, inside the block or not. *)
Put ==
  IF i \in DOMAIN buf
  THEN /\ buf' = [buf EXCEPT ![i] = str[j + 1]]
       /\ i' = i + 1 /\ j' = j + 1
       /\ UNCHANGED <<pc, result>>
  ELSE pc' = "ub" /\ UNCHANGED <<buf, i, j, result>>

(* A nonzero result ignored. *)
FaultyFailed(r) == FALSE

(* A nonzero result stops the write. *)
Failed(r) == r # 0

(* A character that finds room, as far as the code can tell... *)
PutChar ==
  /\ pc = "write" /\ j < Len(str) /\ ~Full
  /\ Put
  /\ UNCHANGED <<kind, size, used, str, sent, client>>

(* call(buf) goes wrong: it reads past the block, or printf() finds a      *)
(* directive and no argument for it.                                       *)
CallGoesWrong ==
  \/ ~Terminated /\ pc' = "ub"
  \/ Terminated /\ Directive /\ pc' = "format"

(* ...and one that finds the buffer full: call, then go on at index i. *)
FlushAndPut ==
  /\ pc = "write" /\ j < Len(str) /\ Full
  /\ \/ /\ Terminated /\ sent' = Contents
        /\ \E r \in CallReturns :
             IF Failed(r) THEN pc' = "idle" /\ result' = 1 /\ UNCHANGED <<buf, i, j, used>>
             ELSE Put /\ used' = 0
     \/ CallGoesWrong /\ UNCHANGED <<sent, result, buf, i, j, used>>
  /\ UNCHANGED <<kind, size, str, client>>

(* The end of the text; used stays as it is. *)
EndWrite ==
  /\ pc = "write" /\ j = Len(str)
  /\ pc' = "idle" /\ result' = 0
  /\ UNCHANGED <<kind, size, used, buf, str, i, j, sent, client>>

(* buffer_flush(): the bytes stay in the buffer. *)
Flush ==
  /\ pc = "idle"
  /\ \/ /\ Terminated /\ sent' = Contents
        /\ \E r \in CallReturns :
             IF Failed(r) THEN result' = 1 /\ UNCHANGED used ELSE result' = 0 /\ used' = 0
        /\ UNCHANGED pc
     \/ CallGoesWrong /\ UNCHANGED <<sent, result, used>>
  /\ unflushed' = 0
  /\ UNCHANGED <<kind, size, buf, str, i, j, longest, plain>>

Next ==
  \/ \E s \in Sizes : Create(s)
  \/ \E text \in Texts : StartWrite(text)
  \/ PutChar
  \/ FlushAndPut
  \/ EndWrite
  \/ Flush

Spec == Init /\ [][Next]_vars
-----------------------------------------------------------------------------
(* With printf as call no text without a directive, however long, is       *)
(* written or read outside the block: the count of characters that printf  *)
(* returns, taken for an error, stops the write before the index runs      *)
(* away.                                                                   *)
PrintfIsSafe == kind = "printf" /\ plain => pc \notin {"ub", "format"}

(* With any function the block is left only by a client that has written a *)
(* text longer than the buffer at some time: texts that fit always leave   *)
(* the last byte alone, whatever was written before them.                  *)
ShortTextsStay == pc = "ub" => longest > size

(* To a client that flushes each text before it writes the next the buffer *)
(* is one: a text that fits is handed over as it was written, unless a     *)
(* longer one came before it, which no flush takes out of the buffer.      *)
FlushHandsOver ==
  [][Flush /\ pc' = "idle" /\ unflushed = 1 /\ Len(str) = longest /\ longest <= size
       => sent' = str]_vars
=============================================================================
