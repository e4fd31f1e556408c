------------------------------ MODULE TtyRing -------------------------------
(***************************************************************************)
(* The input buffer of kernel/tty.c: a ring of TTY_BUF_SIZE characters and *)
(* the counter canon_lines of the lines in it.  tty_push_char() and        *)
(* __tty_read() run under the tty lock, that is, with interrupts off, so   *)
(* each is one step.  Module TtyWait puts them in their callers.           *)
(***************************************************************************)
EXTENDS Naturals, Sequences, FiniteSets

CONSTANTS
  TTY_BUF_SIZE,
  Letters,     \* the characters that are neither newline nor backspace
  NL, BS,      \* '\n' and '\b'
  NUL,         \* the zero byte kzalloc() leaves, which no key produces
  MaxCount,    \* the largest req_count of a read
  MaxLines     \* bound on canon_lines, which lost newlines inflate

ASSUME SizeAssumption == TTY_BUF_SIZE \in Nat /\ TTY_BUF_SIZE >= 2
ASSUME BoundAssumption == MaxCount \in Nat /\ MaxLines \in Nat
ASSUME CharAssumption ==
  /\ NL \notin Letters
  /\ BS \notin Letters
  /\ NL # BS
  /\ NUL \notin {NL, BS}

Keys == Letters \cup {NL, BS}
Chars == Letters \cup {NL, NUL}
Slots == 0..(TTY_BUF_SIZE - 1)

VARIABLES
  tty,     \* the buffer part of struct tty_struct
  got      \* the bounce buffer of the last __tty_read() that read anything

vars == <<tty, got>>

-----------------------------------------------------------------------------
\* the buffer tty_init() gets from kzalloc()
Empty_tty ==
  [buffer |-> [i \in Slots |-> NUL], head |-> 0, tail |-> 0, canon_lines |-> 0]

Has_line(y) == y.canon_lines > 0

Handle_backspace(y) ==
  IF y.head = y.tail
  THEN y
  ELSE [y EXCEPT !.tail = IF @ = 0 THEN TTY_BUF_SIZE - 1 ELSE @ - 1]

\* tty_push_char() of anything but a backspace: a full ring drops the
\* character, and a newline counts as a line even when it is dropped
Push_input(y, c) ==
  LET tail == (y.tail + 1) % TTY_BUF_SIZE
      full == tail = y.head
  IN  [y EXCEPT !.buffer = IF full THEN @ ELSE [@ EXCEPT ![y.tail] = c],
                !.tail = IF full THEN @ ELSE tail,
                !.canon_lines = IF c = NL THEN @ + 1 ELSE @]

Push_char(y, c) == IF c = BS THEN Handle_backspace(y) ELSE Push_input(y, c)

Available(y) ==
  IF y.head < y.tail THEN y.tail - y.head ELSE TTY_BUF_SIZE - y.head + y.tail

Nth(y, i) == y.buffer[(y.head + i) % TTY_BUF_SIZE]

\* faulty: the loop does not stop behind a newline
Read_len_unbroken(y, count) ==
  IF ~Has_line(y) THEN 0
  ELSE IF Available(y) < count THEN Available(y) ELSE count

\* __tty_read(): how many characters a read of count copies; the loop stops
\* behind the first newline
Read_len(y, count) ==
  LET tocopy == IF Available(y) < count THEN Available(y) ELSE count
  IN  IF ~Has_line(y) THEN 0
      ELSE CHOOSE k \in 0..tocopy :
             /\ k = tocopy \/ (k > 0 /\ Nth(y, k - 1) = NL)
             /\ \A i \in 1..(k - 1) : Nth(y, i - 1) # NL

\* the ring after __tty_read() copied k characters
After_read(y, k) ==
  [y EXCEPT !.head = (@ + k) % TTY_BUF_SIZE,
            !.canon_lines = IF k > 0 /\ Nth(y, k - 1) = NL THEN @ - 1 ELSE @]

-----------------------------------------------------------------------------
Init == tty = Empty_tty /\ got = <<>>

Push(c) ==
  /\ c = NL => tty.canon_lines < MaxLines
  /\ tty' = Push_char(tty, c)
  /\ UNCHANGED got

Read(n) ==
  LET k == Read_len(tty, n)
  IN  /\ k > 0
      /\ got' = [i \in 1..k |-> Nth(tty, i - 1)]
      /\ tty' = After_read(tty, k)

Next ==
  \/ \E c \in Keys : Push(c)
  \/ \E n \in 1..MaxCount : Read(n)

Spec == Init /\ [][Next]_vars

\* The keys a careful typist presses: no newline on a full ring, no
\* backspace right behind a newline that is still waiting to be read.
Last(y) == y.buffer[IF y.tail = 0 THEN TTY_BUF_SIZE - 1 ELSE y.tail - 1]

Careful(c) ==
  /\ c = NL => (tty.tail + 1) % TTY_BUF_SIZE # tty.head
  /\ c = BS => tty.head = tty.tail \/ Last(tty) # NL

CarefulNext ==
  \/ \E c \in Keys : Careful(c) /\ Push(c)
  \/ \E n \in 1..MaxCount : Read(n)

CarefulSpec == Init /\ [][CarefulNext]_vars

-----------------------------------------------------------------------------
\* Types of struct tty_struct: head and tail stay below TTY_BUF_SIZE.
TypeOK ==
  /\ tty \in [buffer : [Slots -> Chars], head : Slots, tail : Slots,
              canon_lines : Nat]
  /\ got \in Seq(Chars)

\* The characters between head and tail.
Contents(y) ==
  LET n == (y.tail + TTY_BUF_SIZE - y.head) % TTY_BUF_SIZE
  IN  [i \in 1..n |-> Nth(y, i - 1)]

LQ == INSTANCE LineQueue WITH Capacity <- TTY_BUF_SIZE - 1,
                              pending <- Contents(tty)

\* For a careful typist the ring is a queue of lines: nothing is lost,
\* repeated or reordered, and no read crosses the end of a line.
ImplementsLineQueue == LQ!Spec

\* kernel/tty.c:202 and 227, the line guarantee: canon_lines counts the
\* newlines in the ring, so a read that finds a line finds its end too.
LinesCounted ==
  tty.canon_lines = Cardinality({i \in 1..Len(Contents(tty)) :
                                   Contents(tty)[i] = NL})
=============================================================================
