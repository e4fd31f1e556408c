----------------------------- MODULE LineQueue ------------------------------
(***************************************************************************)
(* What a terminal in canonical mode promises its reader: the characters   *)
(* typed and not erased, in order, one line at a time.  A read is answered *)
(* only when a whole line is there, and never reaches past its end.        *)
(* Module TtyRing shows when the ring buffer of kernel/tty.c does that.    *)
(***************************************************************************)
EXTENDS Naturals, Sequences

CONSTANTS
  Letters,     \* the characters that are neither newline nor backspace
  NL, BS,      \* '\n' and '\b'
  Capacity,    \* how many characters may wait
  MaxCount     \* the longest read

VARIABLES
  pending,     \* the characters waiting to be read
  got          \* the answer to the last read

vars == <<pending, got>>

Lines(s) == {i \in 1..Len(s) : s[i] = NL}

\* the length of the answer to a read of n characters
Answer(s, n) ==
  CHOOSE k \in 1..n :
    /\ k = n \/ k = Len(s) \/ s[k] = NL
    /\ \A i \in 1..(k - 1) : i < Len(s) /\ s[i] # NL

Init == pending = <<>> /\ got = <<>>

Type(c) ==
  /\ Len(pending) < Capacity
  /\ pending' = Append(pending, c)
  /\ UNCHANGED got

Erase ==
  /\ pending # <<>>
  /\ pending[Len(pending)] # NL
  /\ pending' = SubSeq(pending, 1, Len(pending) - 1)
  /\ UNCHANGED got

Read(n) ==
  /\ Lines(pending) # {}
  /\ LET k == Answer(pending, n)
     IN  /\ got' = SubSeq(pending, 1, k)
         /\ pending' = SubSeq(pending, k + 1, Len(pending))

Next ==
  \/ \E c \in Letters \cup {NL} : Type(c)
  \/ Erase
  \/ \E n \in 1..MaxCount : Read(n)

Spec == Init /\ [][Next]_vars
=============================================================================
