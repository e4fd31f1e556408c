--------------------------- MODULE TtyRingProofs ----------------------------
(***************************************************************************)
(* The terminal's ring buffer is correct for every size of the ring.       *)
(***************************************************************************)
EXTENDS TtyRing, SequenceTheorems, FiniteSetTheorems,
        WellFoundedInduction, TLAPS

\* Remainders of the indices of the ring, which are all below 2 * N.
LEMMA ModLemma ==
  ASSUME NEW x \in Nat, x < 2 * TTY_BUF_SIZE
  PROVE  /\ x % TTY_BUF_SIZE \in 0..(TTY_BUF_SIZE - 1)
         /\ x < TTY_BUF_SIZE => x % TTY_BUF_SIZE = x
         /\ x >= TTY_BUF_SIZE => x % TTY_BUF_SIZE = x - TTY_BUF_SIZE
BY SizeAssumption

Wrap(x) == x % TTY_BUF_SIZE

\* An index of the ring wraps at most once.
LEMMA WrapLemma ==
  ASSUME NEW x \in Nat, x < 2 * TTY_BUF_SIZE
  PROVE  Wrap(x) = IF x < TTY_BUF_SIZE THEN x ELSE x - TTY_BUF_SIZE
<1>1. CASE x < TTY_BUF_SIZE
  BY <1>1, ModLemma DEF Wrap
<1>2. CASE ~(x < TTY_BUF_SIZE)
  BY <1>2, ModLemma, SizeAssumption DEF Wrap
<1> QED BY <1>1, <1>2

\* A set of numbers that is not empty has a least element.
LEMMA LeastLemma ==
  ASSUME NEW S \in SUBSET Nat, S # {}
  PROVE  \E m \in S : \A k \in S : m <= k
<1> DEFINE Below(k) == 0..k
           T == {Below(k) : k \in S}
<1>1. IsWellFoundedOn(StrictSubsetOrdering(Nat), FiniteSubsetsOf(Nat))
  BY FS_StrictSubsetOrderingWellFounded
<1>2. T \subseteq FiniteSubsetsOf(Nat)
  <2>1. \A k \in Nat : IsFiniteSet(0..k) /\ 0..k \subseteq Nat
    BY FS_Interval
  <2> QED BY <2>1 DEF FiniteSubsetsOf
<1>3. T # {}
  BY Zenon
<1>4. PICK m \in T : \A k \in T : ~(<<k, m>> \in StrictSubsetOrdering(Nat))
  <2> HIDE DEF T
  <2> QED BY <1>1, <1>2, <1>3, WFMin
<1>5. PICK j \in S : m = 0..j
  BY <1>4
<1>6. ASSUME NEW k \in S, ~(j <= k)
      PROVE  FALSE
  <2>1. 0..k \subseteq 0..j /\ 0..k # 0..j /\ 0..k \subseteq Nat /\ 0..j \subseteq Nat
    <3>1. k \in Nat /\ j \in Nat /\ k < j
      BY <1>6
    <3>2. j \in 0..j /\ j \notin 0..k
      BY <3>1
    <3> QED BY <3>1, <3>2
  <2>2. <<0..k, 0..j>> \in StrictSubsetOrdering(Nat)
    BY <2>1 DEF StrictSubsetOrdering
  <2> QED BY Zenon, <1>4, <1>5, <2>2
<1> QED BY <1>6

\* tocopy of __tty_read()
Tocopy(y, count) == IF Available(y) < count THEN Available(y) ELSE count

Ring == [buffer : [Slots -> Chars], head : Slots, tail : Slots,
         canon_lines : Nat]

\* What the copying loop of __tty_read() stops at: the first newline, or the
\* end of what there is or was asked for.
LEMMA ReadLenLemma ==
  ASSUME NEW y \in Ring, NEW count \in 1..MaxCount, Has_line(y)
  PROVE  /\ Available(y) \in 1..TTY_BUF_SIZE
         /\ Read_len(y, count) \in 1..Tocopy(y, count)
         /\ \/ Read_len(y, count) = Tocopy(y, count)
            \/ Nth(y, Read_len(y, count) - 1) = NL
         /\ \A i \in 1..(Read_len(y, count) - 1) : Nth(y, i - 1) # NL
<1> DEFINE to == Tocopy(y, count)
           Stops(k) == k = to \/ (k > 0 /\ Nth(y, k - 1) = NL)
           Ends == {k \in 1..to : Stops(k)}
           Fits(k) == Stops(k) /\ \A i \in 1..(k - 1) : Nth(y, i - 1) # NL
<1>1. y.head \in Slots /\ y.tail \in Slots /\ count \in Nat \ {0}
  BY BoundAssumption DEF Ring
<1>2. Available(y) \in 1..TTY_BUF_SIZE
  BY <1>1, SizeAssumption DEF Available, Slots
<1>3. to \in Nat \ {0}
  BY <1>1, <1>2, SizeAssumption DEF Tocopy
<1>4. Read_len(y, count) = CHOOSE k \in 0..to : Fits(k)
  BY DEF Read_len, Tocopy
<1> HIDE DEF to
<1>5. PICK m \in Ends : \A k \in Ends : m <= k
  <2>1. to \in Ends /\ Ends \subseteq Nat
    BY <1>3
  <2> HIDE DEF Ends
  <2> QED BY <2>1, LeastLemma
<1>6. m \in 0..to /\ Fits(m)
  <2>1. m \in 1..to /\ Stops(m)
    OBVIOUS
  <2>2. ASSUME NEW i \in 1..(m - 1)
        PROVE  Nth(y, i - 1) # NL
    <3>1. i \in 1..to /\ i < m /\ i > 0
      BY <1>3, <2>1
    <3> QED BY <1>5, <1>3, <3>1
  <2> QED BY <1>3, <2>1, <2>2
<1>7. Read_len(y, count) \in 0..to /\ Fits(Read_len(y, count))
  <2> HIDE DEF Fits
  <2> QED BY <1>4, <1>6
<1> QED BY <1>2, <1>3, <1>7 DEF to

-----------------------------------------------------------------------------
\* tty_init() leaves a well-formed ring.
LEMMA RingInit == Init => TypeOK
BY SizeAssumption DEF Init, TypeOK, Empty_tty, Slots, Chars

\* tty_push_char() keeps the ring well formed.
LEMMA PushType ==
  ASSUME NEW y \in Ring, NEW c \in Keys
  PROVE  Push_char(y, c) \in Ring
<1> USE SizeAssumption
<1>1. y.tail \in Slots /\ y.head \in Slots /\ y.tail + 1 \in Nat
      /\ y.tail + 1 < 2 * TTY_BUF_SIZE /\ y.canon_lines \in Nat
      /\ y.buffer \in [Slots -> Chars]
  BY DEF Ring, Slots
<1>2. (y.tail + 1) % TTY_BUF_SIZE \in Slots
  BY <1>1, ModLemma DEF Slots
<1>3. CASE c = BS
  <2>1. (IF y.tail = 0 THEN TTY_BUF_SIZE - 1 ELSE y.tail - 1) \in Slots
    BY <1>1 DEF Slots
  <2> QED BY <1>3, <2>1 DEF Push_char, Handle_backspace, Ring
<1>4. CASE c # BS
  <2>1. c \in Chars
    BY <1>4 DEF Keys, Chars
  <2> DEFINE next == (y.tail + 1) % TTY_BUF_SIZE
             b == IF next = y.head THEN y.buffer ELSE [y.buffer EXCEPT ![y.tail] = c]
             e == IF next = y.head THEN y.tail ELSE next
             l == IF c = NL THEN y.canon_lines + 1 ELSE y.canon_lines
  <2>2. b \in [Slots -> Chars] /\ e \in Slots /\ l \in Nat
    BY <1>1, <1>2, <2>1
  <2>3. Push_char(y, c) = [y EXCEPT !.buffer = b, !.tail = e, !.canon_lines = l]
    BY <1>4 DEF Push_char, Push_input
  <2> HIDE DEF b, e, l
  <2> QED BY Zenon, <2>2, <2>3 DEF Ring
<1> QED BY <1>3, <1>4

\* __tty_read() keeps the ring well formed, and reads at most what it is
\* asked for.
LEMMA ReadType ==
  ASSUME NEW y \in Ring, NEW n \in 1..MaxCount, Read_len(y, n) > 0
  PROVE  /\ Has_line(y)
         /\ Read_len(y, n) \in 1..n
         /\ After_read(y, Read_len(y, n)) \in Ring
         /\ [i \in 1..Read_len(y, n) |-> Nth(y, i - 1)] \in Seq(Chars)
<1> USE SizeAssumption, BoundAssumption
<1> DEFINE k == Read_len(y, n)
<1>1. Has_line(y)
  BY DEF Read_len
<1>2. k \in 1..n /\ k \in 1..TTY_BUF_SIZE
  BY <1>1, ReadLenLemma DEF Tocopy
<1> HIDE DEF k
<1>3. y.tail \in Slots /\ y.head \in Slots /\ y.canon_lines \in Nat
      /\ y.buffer \in [Slots -> Chars] /\ y.canon_lines > 0
  BY <1>1 DEF Ring, Has_line
<1>4. ASSUME NEW i \in 0..TTY_BUF_SIZE
      PROVE  (y.head + i) % TTY_BUF_SIZE \in Slots
  <2>1. y.head + i \in Nat /\ y.head + i < 2 * TTY_BUF_SIZE
    BY <1>3 DEF Slots
  <2> QED BY <2>1, ModLemma DEF Slots
<1>5. \A i \in 1..k : Nth(y, i - 1) \in Chars
  <2> TAKE i \in 1..k
  <2>1. i - 1 \in 0..TTY_BUF_SIZE
    BY <1>2
  <2> QED BY <1>3, <1>4, <2>1 DEF Nth
<1>6. [i \in 1..k |-> Nth(y, i - 1)] \in Seq(Chars)
  <2>1. k \in Nat
    BY <1>2
  <2> QED BY <1>5, <2>1
<1>7. After_read(y, k) \in Ring
  <2>1. (y.head + k) % TTY_BUF_SIZE \in Slots
    BY <1>2, <1>4
  <2> DEFINE h == (y.head + k) % TTY_BUF_SIZE
             l == IF k > 0 /\ Nth(y, k - 1) = NL THEN y.canon_lines - 1 ELSE y.canon_lines
  <2>2. l \in Nat
    BY <1>3
  <2>3. After_read(y, k) = [y EXCEPT !.head = h, !.canon_lines = l]
    BY DEF After_read
  <2> HIDE DEF h, l
  <2>4. h \in Slots
    BY <2>1 DEF h
  <2> QED BY Zenon, <2>2, <2>3, <2>4 DEF Ring
<1> QED BY <1>1, <1>2, <1>6, <1>7 DEF k

\* So does every call of tty_push_char() and __tty_read().
LEMMA RingStep == TypeOK /\ [Next]_vars => TypeOK'
<1> SUFFICES ASSUME TypeOK, [Next]_vars PROVE TypeOK'
  OBVIOUS
<1>1. tty \in Ring /\ got \in Seq(Chars)
  BY DEF TypeOK, Ring
<1>2. ASSUME NEW c \in Keys, Push(c) PROVE TypeOK'
  BY <1>1, <1>2, PushType DEF Push, TypeOK, Ring
<1>3. ASSUME NEW n \in 1..MaxCount, Read(n) PROVE TypeOK'
  BY <1>1, <1>3, ReadType DEF Read, TypeOK, Ring
<1>4. CASE UNCHANGED vars
  BY <1>4 DEF vars, TypeOK
<1> QED BY <1>2, <1>3, <1>4 DEF Next

\* head and tail of struct tty_struct stay indices of the buffer, and
\* canon_lines stays a count, whatever keys are pressed and whatever the
\* size of the ring.
THEOREM RingTypeCorrect == Spec => []TypeOK
BY RingInit, RingStep, PTL DEF Spec

-----------------------------------------------------------------------------
\* How many characters wait in the ring.
Used(y) ==
  IF y.tail >= y.head THEN y.tail - y.head ELSE y.tail + TTY_BUF_SIZE - y.head

\* The i-th slot behind the head.
Slot(y, i) ==
  IF y.head + i < TTY_BUF_SIZE THEN y.head + i ELSE y.head + i - TTY_BUF_SIZE

\* Sequences of the same length with the same elements are equal.
LEMMA SameSeq ==
  ASSUME NEW s \in Seq(Chars), NEW u \in Seq(Chars), Len(s) = Len(u),
         \A i \in 1..Len(s) : s[i] = u[i]
  PROVE  s = u
BY LenProperties

\* Contents(y) without remainders.
LEMMA ContentsLemma ==
  ASSUME NEW y \in Ring
  PROVE  /\ Used(y) \in 0..(TTY_BUF_SIZE - 1)
         /\ Contents(y) \in Seq(Chars)
         /\ Len(Contents(y)) = Used(y)
         /\ \A i \in 0..(TTY_BUF_SIZE - 1) : /\ Slot(y, i) \in Slots
                                          /\ Nth(y, i) = y.buffer[Slot(y, i)]
                                          /\ Nth(y, i) \in Chars
         /\ \A i \in 1..Used(y) : Contents(y)[i] = Nth(y, i - 1)
<1> USE SizeAssumption
<1>1. y.tail \in Slots /\ y.head \in Slots /\ y.buffer \in [Slots -> Chars]
  BY DEF Ring
<1>2. Used(y) \in 0..(TTY_BUF_SIZE - 1)
  BY <1>1 DEF Used, Slots
<1>3. (y.tail + TTY_BUF_SIZE - y.head) % TTY_BUF_SIZE = Used(y)
  <2> DEFINE x == y.tail + TTY_BUF_SIZE - y.head
  <2>1. x \in Nat /\ x < 2 * TTY_BUF_SIZE
    BY <1>1 DEF Slots
  <2>2. y.tail >= y.head <=> x >= TTY_BUF_SIZE
    BY <1>1 DEF Slots
  <2>3. x >= TTY_BUF_SIZE => x - TTY_BUF_SIZE = y.tail - y.head
    BY <1>1 DEF Slots
  <2>4. x % TTY_BUF_SIZE = IF x >= TTY_BUF_SIZE THEN x - TTY_BUF_SIZE ELSE x
    <3> HIDE DEF x
    <3>1. x % TTY_BUF_SIZE = Wrap(x)
      BY DEF Wrap
    <3> QED BY <2>1, <3>1, WrapLemma
  <2> QED BY <1>1, <2>2, <2>3, <2>4 DEF Used, Slots
<1>4. ASSUME NEW i \in 0..(TTY_BUF_SIZE - 1)
      PROVE  /\ Slot(y, i) \in Slots
             /\ Nth(y, i) = y.buffer[Slot(y, i)]
             /\ Nth(y, i) \in Chars
  <2>1. y.head + i \in Nat /\ y.head + i < 2 * TTY_BUF_SIZE
    BY <1>1 DEF Slots
  <2>2. (y.head + i) % TTY_BUF_SIZE = Slot(y, i)
    <3>1. (y.head + i) % TTY_BUF_SIZE
            = IF y.head + i < TTY_BUF_SIZE THEN y.head + i
              ELSE y.head + i - TTY_BUF_SIZE
      <4>1. (y.head + i) % TTY_BUF_SIZE = Wrap(y.head + i)
        BY DEF Wrap
      <4>2. Wrap(y.head + i) = IF y.head + i < TTY_BUF_SIZE THEN y.head + i
                               ELSE y.head + i - TTY_BUF_SIZE
        <5>1. y.head \in Nat /\ i \in Nat
          BY <1>1 DEF Slots
        <5> QED BY <2>1, <5>1, WrapLemma
      <4> QED BY <4>1, <4>2
    <3> QED BY <3>1 DEF Slot
  <2>3. Slot(y, i) \in Slots
    BY <1>1, <2>1 DEF Slot, Slots
  <2> QED BY <1>1, <2>2, <2>3 DEF Nth
<1>5. Contents(y) = [i \in 1..Used(y) |-> Nth(y, i - 1)]
  BY <1>3 DEF Contents
<1>6. \A i \in 1..Used(y) : Nth(y, i - 1) \in Chars
  <2> TAKE i \in 1..Used(y)
  <2>1. i - 1 \in 0..(TTY_BUF_SIZE - 1)
    BY <1>2
  <2> QED BY <1>4, <2>1
<1>7. Used(y) \in Nat
  BY <1>2
<1>8. Contents(y) \in Seq(Chars) /\ Len(Contents(y)) = Used(y)
  BY <1>5, <1>6, <1>7
<1> QED BY <1>2, <1>4, <1>5, <1>8

\* tty_push_char() on a ring that is not full appends the character.
LEMMA PushContents ==
  ASSUME NEW y \in Ring, NEW c \in Keys, c # BS,
         (y.tail + 1) % TTY_BUF_SIZE # y.head
  PROVE  /\ Used(y) < TTY_BUF_SIZE - 1
         /\ Contents(Push_char(y, c)) = Append(Contents(y), c)
<1> USE SizeAssumption
<1> DEFINE z == Push_char(y, c)
           next == IF y.tail + 1 < TTY_BUF_SIZE THEN y.tail + 1 ELSE 0
<1>1. z \in Ring
  BY PushType
<1>2. y.tail \in Slots /\ y.head \in Slots /\ y.buffer \in [Slots -> Chars]
  BY DEF Ring
<1>3. (y.tail + 1) % TTY_BUF_SIZE = next
  <2>1. y.tail + 1 \in Nat /\ y.tail + 1 < 2 * TTY_BUF_SIZE
    BY <1>2 DEF Slots
  <2>2. (y.tail + 1) % TTY_BUF_SIZE
          = IF y.tail + 1 < TTY_BUF_SIZE THEN y.tail + 1
            ELSE y.tail + 1 - TTY_BUF_SIZE
    <3>1. (y.tail + 1) % TTY_BUF_SIZE = Wrap(y.tail + 1)
      BY DEF Wrap
    <3>2. Wrap(y.tail + 1) = IF y.tail + 1 < TTY_BUF_SIZE THEN y.tail + 1
                             ELSE y.tail + 1 - TTY_BUF_SIZE
      <4>1. y.tail \in Nat
        BY <1>2 DEF Slots
      <4> QED BY <2>1, <4>1, WrapLemma
    <3> QED BY <3>1, <3>2
  <2> QED BY <1>2, <2>2 DEF Slots
<1>4. z.head = y.head /\ z.tail = next /\ z.buffer = [y.buffer EXCEPT ![y.tail] = c]
  <2>1. z = Push_input(y, c)
    BY DEF Push_char
  <2> DEFINE l == IF c = NL THEN y.canon_lines + 1 ELSE y.canon_lines
             b == [y.buffer EXCEPT ![y.tail] = c]
  <2>2. Push_input(y, c) = [y EXCEPT !.buffer = b, !.tail = next, !.canon_lines = l]
    BY Zenon, <1>3 DEF Push_input
  <2> HIDE DEF b, l, z, next
  <2>3. z.head = y.head /\ z.tail = next /\ z.buffer = b
    BY <2>1, <2>2 DEF Ring
  <2> QED BY <2>3 DEF b
<1> HIDE DEF z
<1>5. next # y.head
  BY <1>3
<1>6. Used(y) < TTY_BUF_SIZE - 1 /\ Used(z) = Used(y) + 1 /\ Used(y) \in Nat
  <2> DEFINE h == y.head
             e == y.tail
  <2>1. h \in 0..(TTY_BUF_SIZE - 1) /\ e \in 0..(TTY_BUF_SIZE - 1)
    BY <1>2 DEF Slots
  <2>2. Used(y) = IF e >= h THEN e - h ELSE e + TTY_BUF_SIZE - h
    BY DEF Used
  <2>3. Used(z) = IF next >= h THEN next - h ELSE next + TTY_BUF_SIZE - h
    BY <1>4 DEF Used
  <2>4. next = IF e + 1 < TTY_BUF_SIZE THEN e + 1 ELSE 0
    OBVIOUS
  <2>5. next # h
    BY <1>5
  <2> HIDE DEF h, e, next
  <2> QED BY <2>1, <2>2, <2>3, <2>4, <2>5
<1>7. Slot(y, Used(y)) = y.tail
  BY <1>2 DEF Used, Slot, Slots
<1>8. ASSUME NEW i \in 1..Used(z)
      PROVE  Contents(z)[i] = Append(Contents(y), c)[i]
  <2>1. i - 1 \in 0..(TTY_BUF_SIZE - 1) /\ Slot(z, i - 1) = Slot(y, i - 1)
    BY <1>4, <1>6 DEF Slot
  <2>2. Contents(z)[i] = z.buffer[Slot(y, i - 1)] /\ Slot(y, i - 1) \in Slots
    BY <1>1, <2>1, ContentsLemma
  <2>3. CASE i = Used(z)
    <3>1. Slot(y, i - 1) = y.tail
      BY <1>6, <1>7, <2>3
    <3>2. Contents(z)[i] = c
      BY <1>2, <1>4, <2>2, <3>1
    <3> QED BY <1>6, <2>3, <3>2, ContentsLemma
  <2>4. CASE i # Used(z)
    <3>1. i \in 1..Used(y)
      BY <1>6, <2>4
    <3>2. Slot(y, i - 1) # y.tail
      BY SMTT(30), <1>2, <1>6, <3>1 DEF Slot, Used, Slots
    <3>3. Contents(z)[i] = y.buffer[Slot(y, i - 1)]
      BY <1>2, <1>4, <2>2, <3>2
    <3>4. Contents(y)[i] = y.buffer[Slot(y, i - 1)]
      BY <2>1, <3>1, ContentsLemma
    <3> QED BY <3>1, <3>3, <3>4, ContentsLemma
  <2> QED BY Zenon, <2>3, <2>4
<1>9. c \in Chars
  BY DEF Keys, Chars
<1>10. Append(Contents(y), c) \in Seq(Chars) /\ Len(Append(Contents(y), c)) = Used(z)
  BY <1>6, <1>9, ContentsLemma
<1>11. Contents(z) \in Seq(Chars) /\ Len(Contents(z)) = Used(z)
  BY <1>1, ContentsLemma
<1>12. Contents(z) = Append(Contents(y), c)
  BY <1>8, <1>10, <1>11, SameSeq
<1> QED BY <1>6, <1>12 DEF z

\* On a full ring tty_push_char() drops the character.
LEMMA FullContents ==
  ASSUME NEW y \in Ring, NEW c \in Keys, c # BS,
         (y.tail + 1) % TTY_BUF_SIZE = y.head
  PROVE  Contents(Push_char(y, c)) = Contents(y)
<1> DEFINE z == Push_char(y, c)
           l == IF c = NL THEN y.canon_lines + 1 ELSE y.canon_lines
<1>1. z = [y EXCEPT !.buffer = y.buffer, !.tail = y.tail, !.canon_lines = l]
  BY DEF Push_char, Push_input
<1> HIDE DEF z, l
<1>2. z.head = y.head /\ z.tail = y.tail /\ z.buffer = y.buffer
  BY <1>1 DEF Ring
<1>3. Contents(z) = Contents(y)
  BY <1>2 DEF Contents, Nth
<1> QED BY <1>3 DEF z

\* The count of lines after tty_push_char().
LEMMA PushCount ==
  ASSUME NEW y \in Ring, NEW c \in Keys
  PROVE  Push_char(y, c).canon_lines
           = IF c = NL THEN y.canon_lines + 1 ELSE y.canon_lines
<1> DEFINE l == IF c = NL THEN y.canon_lines + 1 ELSE y.canon_lines
<1>1. CASE c = BS
  <2>1. c # NL
    BY <1>1, CharAssumption
  <2> QED BY <1>1, <2>1 DEF Push_char, Handle_backspace, Ring
<1>2. CASE c # BS
  <2> DEFINE next == (y.tail + 1) % TTY_BUF_SIZE
             b == IF next = y.head THEN y.buffer ELSE [y.buffer EXCEPT ![y.tail] = c]
             e == IF next = y.head THEN y.tail ELSE next
  <2>1. Push_char(y, c) = [y EXCEPT !.buffer = b, !.tail = e, !.canon_lines = l]
    BY <1>2 DEF Push_char, Push_input
  <2> HIDE DEF b, e, l
  <2>2. Push_char(y, c).canon_lines = l
    BY <2>1 DEF Ring
  <2> QED BY <2>2 DEF l
<1> QED BY <1>1, <1>2

\* A backspace takes the last character out of the ring.
LEMMA EraseContents ==
  ASSUME NEW y \in Ring, y.head # y.tail
  PROVE  /\ Used(y) > 0
         /\ Last(y) = Contents(y)[Used(y)]
         /\ Contents(Push_char(y, BS)) = SubSeq(Contents(y), 1, Used(y) - 1)
<1> USE SizeAssumption
<1> DEFINE z == Push_char(y, BS)
           last == IF y.tail = 0 THEN TTY_BUF_SIZE - 1 ELSE y.tail - 1
<1>1. z \in Ring
  BY PushType DEF Keys
<1>2. y.tail \in Slots /\ y.head \in Slots /\ y.buffer \in [Slots -> Chars]
  BY DEF Ring
<1>3. z.head = y.head /\ z.tail = last /\ z.buffer = y.buffer
  <2>1. z = [y EXCEPT !.tail = last]
    BY DEF Push_char, Handle_backspace
  <2> HIDE DEF z, last
  <2> QED BY <2>1 DEF Ring
<1> HIDE DEF z
<1>4. Used(y) > 0 /\ Used(z) = Used(y) - 1 /\ Used(y) \in Nat
  <2> DEFINE h == y.head
             e == y.tail
  <2>1. h \in 0..(TTY_BUF_SIZE - 1) /\ e \in 0..(TTY_BUF_SIZE - 1) /\ h # e
    BY <1>2 DEF Slots
  <2>2. Used(y) = IF e >= h THEN e - h ELSE e + TTY_BUF_SIZE - h
    BY DEF Used
  <2>3. Used(z) = IF last >= h THEN last - h ELSE last + TTY_BUF_SIZE - h
    BY <1>3 DEF Used
  <2>4. last = IF e = 0 THEN TTY_BUF_SIZE - 1 ELSE e - 1
    OBVIOUS
  <2> HIDE DEF h, e, last
  <2> QED BY <2>1, <2>2, <2>3, <2>4
<1>5. Last(y) = Contents(y)[Used(y)]
  <2>1. Used(y) - 1 \in 0..(TTY_BUF_SIZE - 1) /\ Used(y) \in 1..Used(y)
    BY <1>4, ContentsLemma
  <2>2. Slot(y, Used(y) - 1) = last
    BY SMTT(30), <1>2, <1>4 DEF Slot, Used, Slots
  <2>3. Contents(y)[Used(y)] = y.buffer[last]
    BY <2>1, <2>2, ContentsLemma
  <2> QED BY <2>3 DEF Last
<1>6. SubSeq(Contents(y), 1, Used(y) - 1) \in Seq(Chars)
      /\ Len(SubSeq(Contents(y), 1, Used(y) - 1)) = Used(y) - 1
      /\ \A i \in 1..(Used(y) - 1) :
           SubSeq(Contents(y), 1, Used(y) - 1)[i] = Contents(y)[i]
  <2>1. Contents(y) \in Seq(Chars) /\ Len(Contents(y)) = Used(y)
    BY ContentsLemma
  <2> QED BY <1>4, <2>1
<1>7. ASSUME NEW i \in 1..Used(z)
      PROVE  Contents(z)[i] = SubSeq(Contents(y), 1, Used(y) - 1)[i]
  <2>1. i - 1 \in 0..(TTY_BUF_SIZE - 1) /\ i \in 1..Used(y) /\ i \in 1..(Used(y) - 1)
    BY <1>4, ContentsLemma
  <2>2. Nth(z, i - 1) = Nth(y, i - 1)
    BY <1>3 DEF Nth
  <2>3. Contents(z)[i] = Nth(z, i - 1) /\ Contents(y)[i] = Nth(y, i - 1)
    BY <1>1, <2>1, ContentsLemma
  <2> QED BY <1>6, <2>1, <2>2, <2>3
<1>8. Contents(z) \in Seq(Chars) /\ Len(Contents(z)) = Used(z)
  BY <1>1, ContentsLemma
<1>9. Contents(z) = SubSeq(Contents(y), 1, Used(y) - 1)
  BY <1>4, <1>6, <1>7, <1>8, SameSeq
<1> QED BY <1>4, <1>5, <1>9 DEF z

\* __tty_read() takes the first k characters out of the ring.
LEMMA ReadContents ==
  ASSUME NEW y \in Ring, NEW k \in 1..Used(y), y.canon_lines > 0
  PROVE  /\ After_read(y, k) \in Ring
         /\ Contents(After_read(y, k)) = SubSeq(Contents(y), k + 1, Used(y))
         /\ [i \in 1..k |-> Nth(y, i - 1)] = SubSeq(Contents(y), 1, k)
         /\ After_read(y, k).canon_lines
              = IF Contents(y)[k] = NL THEN y.canon_lines - 1 ELSE y.canon_lines
<1> USE SizeAssumption
<1> DEFINE z == After_read(y, k)
           head == Slot(y, k)
           l == IF Contents(y)[k] = NL THEN y.canon_lines - 1 ELSE y.canon_lines
<1>1. y.tail \in Slots /\ y.head \in Slots /\ y.buffer \in [Slots -> Chars]
      /\ y.canon_lines \in Nat \ {0}
  BY DEF Ring
<1>2. Used(y) \in 0..(TTY_BUF_SIZE - 1) /\ k \in 0..(TTY_BUF_SIZE - 1) /\ k \in Nat
      /\ Contents(y) \in Seq(Chars) /\ Len(Contents(y)) = Used(y)
  BY ContentsLemma
<1>3. (y.head + k) % TTY_BUF_SIZE = head
  <2>1. y.head + k \in Nat /\ y.head + k < 2 * TTY_BUF_SIZE /\ y.head \in Nat
    BY <1>1, <1>2 DEF Slots
  <2>2. (y.head + k) % TTY_BUF_SIZE = Wrap(y.head + k)
    BY DEF Wrap
  <2>3. Wrap(y.head + k) = IF y.head + k < TTY_BUF_SIZE THEN y.head + k
                           ELSE y.head + k - TTY_BUF_SIZE
    BY <1>2, <2>1, WrapLemma
  <2> QED BY <2>2, <2>3 DEF Slot
<1>4. Contents(y)[k] = Nth(y, k - 1)
  BY ContentsLemma
<1>5. z.head = head /\ z.tail = y.tail /\ z.buffer = y.buffer /\ z.canon_lines = l
      /\ z \in Ring
  <2>1. z = [y EXCEPT !.head = head, !.canon_lines = l]
    <3> DEFINE m == IF k > 0 /\ Nth(y, k - 1) = NL THEN y.canon_lines - 1
                    ELSE y.canon_lines
    <3>1. m = l
      BY <1>2, <1>4
    <3>2. z = [y EXCEPT !.head = (y.head + k) % TTY_BUF_SIZE, !.canon_lines = m]
      BY DEF After_read
    <3> HIDE DEF m, l, z
    <3> QED BY Zenon, <1>3, <3>1, <3>2
  <2>2. head \in Slots /\ l \in Nat
    BY <1>1, <1>2, ContentsLemma
  <2> HIDE DEF z, head, l
  <2> QED BY Zenon, <2>1, <2>2 DEF Ring
<1> HIDE DEF z
<1>6. Used(z) = Used(y) - k
  <2> DEFINE h == y.head
             e == y.tail
  <2>1. h \in 0..(TTY_BUF_SIZE - 1) /\ e \in 0..(TTY_BUF_SIZE - 1)
    BY <1>1 DEF Slots
  <2>2. Used(y) = IF e >= h THEN e - h ELSE e + TTY_BUF_SIZE - h
    BY DEF Used
  <2>3. Used(z) = IF e >= head THEN e - head ELSE e + TTY_BUF_SIZE - head
    BY <1>5 DEF Used
  <2>4. head = IF h + k < TTY_BUF_SIZE THEN h + k ELSE h + k - TTY_BUF_SIZE
    BY DEF Slot
  <2> HIDE DEF h, e, head
  <2> QED BY <1>2, <2>1, <2>2, <2>3, <2>4
<1>7. ASSUME NEW i \in 1..(Used(y) - k)
      PROVE  Contents(z)[i] = Contents(y)[i + k]
  <2>1. /\ i - 1 \in 0..(TTY_BUF_SIZE - 1) /\ i \in 1..Used(z)
        /\ i + k - 1 \in 0..(TTY_BUF_SIZE - 1) /\ i + k \in 1..Used(y)
    BY <1>2, <1>6
  <2>2. Slot(z, i - 1) = Slot(y, i + k - 1)
    <3> DEFINE h == y.head
    <3>1. h \in 0..(TTY_BUF_SIZE - 1)
      BY <1>1 DEF Slots
    <3>2. head = IF h + k < TTY_BUF_SIZE THEN h + k ELSE h + k - TTY_BUF_SIZE
      BY DEF Slot
    <3>3. Slot(z, i - 1) = IF head + (i - 1) < TTY_BUF_SIZE THEN head + (i - 1)
                           ELSE head + (i - 1) - TTY_BUF_SIZE
      BY <1>5 DEF Slot
    <3>4. Slot(y, i + k - 1)
            = IF h + (i + k - 1) < TTY_BUF_SIZE THEN h + (i + k - 1)
              ELSE h + (i + k - 1) - TTY_BUF_SIZE
      BY DEF Slot
    <3> HIDE DEF h, head
    <3> QED BY <1>2, <2>1, <3>1, <3>2, <3>3, <3>4
  <2>3. Contents(z)[i] = z.buffer[Slot(z, i - 1)]
    BY <1>5, <2>1, ContentsLemma
  <2>4. Contents(y)[i + k] = y.buffer[Slot(y, i + k - 1)]
    BY SMTT(30), <2>1, ContentsLemma
  <2> QED BY <1>5, <2>2, <2>3, <2>4
<1>8. Contents(z) \in Seq(Chars) /\ Len(Contents(z)) = Used(z)
  BY <1>5, ContentsLemma
<1>9. Contents(z) = SubSeq(Contents(y), k + 1, Used(y))
  <2> DEFINE s == SubSeq(Contents(y), k + 1, Used(y))
  <2>1. s \in Seq(Chars) /\ Len(s) = Used(y) - k
        /\ \A i \in 1..(Used(y) - k) : s[i] = Contents(y)[i + k]
    BY <1>2
  <2> HIDE DEF s
  <2>2. Contents(z) = s
    BY <1>6, <1>7, <1>8, <2>1, SameSeq
  <2> QED BY <2>2 DEF s
<1>10. [i \in 1..k |-> Nth(y, i - 1)] = SubSeq(Contents(y), 1, k)
  <2>1. \A i \in 1..k : Contents(y)[i] = Nth(y, i - 1)
    BY <1>2, ContentsLemma
  <2> QED BY <1>2, <2>1
<1> QED BY <1>5, <1>9, <1>10 DEF z

-----------------------------------------------------------------------------
LinesIn(s) == {i \in 1..Len(s) : s[i] = NL}

\* The newlines of a ring are finitely many, so canon_lines can count them.
LEMMA LinesFinite ==
  ASSUME NEW s \in Seq(Chars)
  PROVE  /\ IsFiniteSet(LinesIn(s))
         /\ Cardinality(LinesIn(s)) \in Nat
         /\ (Cardinality(LinesIn(s)) > 0 <=> LinesIn(s) # {})
<1>1. Len(s) \in Nat /\ IsFiniteSet(1..Len(s))
  BY FS_Interval
<1>2. LinesIn(s) \in SUBSET (1..Len(s))
  BY DEF LinesIn
<1>3. IsFiniteSet(LinesIn(s))
  BY <1>1, <1>2, FS_Subset
<1>4. Cardinality(LinesIn(s)) \in Nat
  BY <1>3, FS_CardinalityType
<1>5. Cardinality(LinesIn(s)) = 0 <=> LinesIn(s) = {}
  BY <1>3, FS_EmptySet
<1> QED BY <1>3, <1>4, <1>5

\* Another character adds a line when it is a newline.
LEMMA AppendLines ==
  ASSUME NEW s \in Seq(Chars), NEW c \in Chars
  PROVE  Cardinality(LinesIn(Append(s, c)))
           = Cardinality(LinesIn(s)) + (IF c = NL THEN 1 ELSE 0)
<1>1. Len(s) \in Nat /\ Len(Append(s, c)) = Len(s) + 1
      /\ Append(s, c)[Len(s) + 1] = c
      /\ \A i \in 1..Len(s) : Append(s, c)[i] = s[i]
  OBVIOUS
<1>2. CASE c = NL
  <2>1. LinesIn(Append(s, c)) = LinesIn(s) \cup {Len(s) + 1}
    BY <1>1, <1>2 DEF LinesIn
  <2>2. Len(s) + 1 \notin LinesIn(s)
    BY <1>1 DEF LinesIn
  <2> QED BY Zenon, <1>2, <2>1, <2>2, LinesFinite, FS_AddElement
<1>3. CASE c # NL
  <2>1. LinesIn(Append(s, c)) = LinesIn(s)
    BY <1>1, <1>3 DEF LinesIn
  <2> QED BY <1>3, <2>1, LinesFinite
<1> QED BY <1>2, <1>3

\* Taking a letter off the end removes no line.
LEMMA EraseLines ==
  ASSUME NEW s \in Seq(Chars), Len(s) > 0, s[Len(s)] # NL
  PROVE  LinesIn(SubSeq(s, 1, Len(s) - 1)) = LinesIn(s)
<1> DEFINE u == SubSeq(s, 1, Len(s) - 1)
<1>1. Len(s) \in Nat /\ Len(u) = Len(s) - 1 /\ \A i \in 1..(Len(s) - 1) : u[i] = s[i]
  <2>1. Len(s) \in Nat /\ \A i \in 1..(Len(s) - 1) : s[i] \in Chars
    OBVIOUS
  <2>2. Len(u) = Len(s) - 1
    <3> DEFINE n == Len(s) - 1
    <3>1. n \in Nat /\ \A i \in 1..n : s[i] \in Chars
      BY <2>1
    <3> HIDE DEF n
    <3>2. Len(SubSeq(s, 1, n)) = IF 1 <= n THEN n - 1 + 1 ELSE 0
      BY <3>1, SubSeqProperties
    <3>3. Len(SubSeq(s, 1, n)) = n
      BY <3>1, <3>2
    <3> QED BY <3>3 DEF n
  <2>3. \A i \in 1..(Len(s) - 1) : u[i] = s[i]
    BY <2>1
  <2> QED BY <2>1, <2>2, <2>3
<1> HIDE DEF u
<1>2. LinesIn(u) = LinesIn(s)
  BY <1>1 DEF LinesIn
<1> QED BY <1>2 DEF u

\* Taking characters off the front up to the first newline removes that
\* line and no other.
LEMMA ReadLines ==
  ASSUME NEW s \in Seq(Chars), NEW k \in 1..Len(s),
         \A i \in 1..(k - 1) : s[i] # NL
  PROVE  Cardinality(LinesIn(SubSeq(s, k + 1, Len(s))))
           = Cardinality(LinesIn(s)) - (IF s[k] = NL THEN 1 ELSE 0)
<1> DEFINE u == SubSeq(s, k + 1, Len(s))
           L == LinesIn(s) \ {k}
           M == LinesIn(u)
           f == [i \in L |-> i - k]
<1>1. Len(s) \in Nat /\ Len(u) = Len(s) - k
      /\ \A i \in 1..(Len(s) - k) : u[i] = s[i + k]
  OBVIOUS
<1> HIDE DEF u
<1>2. \A i \in L : i \in (k + 1)..Len(s) /\ s[i] = NL
  <2> TAKE i \in L
  <2>1. i \in 1..Len(s) /\ s[i] = NL /\ i # k
    BY DEF LinesIn
  <2>2. i \notin 1..(k - 1)
    BY <2>1
  <2> QED BY <1>1, <2>1, <2>2
<1>3. \A i \in L : i - k \in M
  <2> TAKE i \in L
  <2>1. i - k \in 1..(Len(s) - k) /\ (i - k) + k = i
    BY <1>1, <1>2
  <2> QED BY <1>1, <1>2, <2>1 DEF LinesIn
<1>4. \A j \in M : j + k \in L /\ (j + k) - k = j
  <2> TAKE j \in M
  <2>1. j \in 1..(Len(s) - k) /\ u[j] = NL
    BY <1>1 DEF LinesIn
  <2>2. j + k \in 1..Len(s) /\ j + k # k /\ (j + k) - k = j
    BY <1>1, <2>1
  <2> QED BY <1>1, <2>1, <2>2 DEF LinesIn
<1>5. f \in Bijection(L, M)
  <2>1. f \in [L -> M]
    BY <1>3
  <2>2. \A i, j \in L : f[i] = f[j] => i = j
    BY <1>1, <1>2
  <2>3. \A j \in M : \E i \in L : f[i] = j
    BY <1>4
  <2> HIDE DEF f, L, M
  <2> QED BY <2>1, <2>2, <2>3 DEF Bijection, Injection, Surjection, IsInjective
<1>6. IsFiniteSet(L) /\ Cardinality(L)
        = IF k \in LinesIn(s) THEN Cardinality(LinesIn(s)) - 1
          ELSE Cardinality(LinesIn(s))
  BY LinesFinite, FS_RemoveElement
<1>7. Cardinality(M) = Cardinality(L)
  <2> HIDE DEF f, L, M
  <2>1. ExistsBijection(L, M)
    BY <1>5 DEF ExistsBijection
  <2> QED BY <1>6, <2>1, FS_Bijection
<1>8. k \in LinesIn(s) <=> s[k] = NL
  BY DEF LinesIn
<1> QED BY <1>6, <1>7, <1>8, LinesFinite DEF u

-----------------------------------------------------------------------------
\* What is true of the ring between two steps of a careful typist's session.
RingInv == TypeOK /\ LinesCounted

\* The empty ring of tty_init() counts its lines right.
LEMMA RingInvInit == Init => RingInv
<1> SUFFICES ASSUME Init PROVE RingInv
  OBVIOUS
<1>1. TypeOK /\ tty \in Ring
  BY RingInit DEF TypeOK, Ring
<1>2. tty.head = 0 /\ tty.tail = 0 /\ tty.canon_lines = 0
  BY DEF Init, Empty_tty
<1>3. Len(Contents(tty)) = 0
  BY <1>1, <1>2, ContentsLemma DEF Used
<1>4. {i \in 1..Len(Contents(tty)) : Contents(tty)[i] = NL} = {}
  BY <1>3
<1> QED BY <1>1, <1>2, <1>4, FS_EmptySet DEF RingInv, LinesCounted

\* A read finds its line: __tty_read() copies no more than the ring holds.
LEMMA ReadFits ==
  ASSUME RingInv, NEW n \in 1..MaxCount, Read_len(tty, n) > 0
  PROVE  /\ LinesIn(Contents(tty)) # {}
         /\ Read_len(tty, n) \in 1..Used(tty)
         /\ Read_len(tty, n) <= n
         /\ \/ Read_len(tty, n) = Used(tty)
            \/ Read_len(tty, n) = n
            \/ Contents(tty)[Read_len(tty, n)] = NL
         /\ \A i \in 1..(Read_len(tty, n) - 1) : Contents(tty)[i] # NL
<1> USE SizeAssumption, BoundAssumption
<1> DEFINE k == Read_len(tty, n)
           s == Contents(tty)
<1>1. tty \in Ring
  BY DEF RingInv, TypeOK, Ring
<1>2. Has_line(tty) /\ tty.canon_lines \in Nat
  BY Zenon, <1>1, ReadType DEF Ring
<1>3. s \in Seq(Chars) /\ Len(s) = Used(tty) /\ Used(tty) \in 0..(TTY_BUF_SIZE - 1)
  BY <1>1, ContentsLemma
<1>4. LinesIn(s) # {}
  <2>1. tty.canon_lines = Cardinality(LinesIn(s))
    BY DEF RingInv, LinesCounted, LinesIn
  <2> HIDE DEF s
  <2> QED BY <1>2, <1>3, <2>1, LinesFinite DEF Has_line
<1>5. Used(tty) > 0
  BY <1>3, <1>4 DEF LinesIn
<1>6. Available(tty) = Used(tty)
  BY <1>1, <1>5 DEF Available, Used, Ring, Slots
<1>7. /\ k \in 1..Tocopy(tty, n)
      /\ k = Tocopy(tty, n) \/ Nth(tty, k - 1) = NL
      /\ \A i \in 1..(k - 1) : Nth(tty, i - 1) # NL
  BY <1>1, <1>2, ReadLenLemma
<1> HIDE DEF k
<1>8. k \in 1..Used(tty) /\ k <= n /\ k \in 1..n
  BY <1>3, <1>6, <1>7 DEF Tocopy
<1>9. \A i \in 1..Used(tty) : s[i] = Nth(tty, i - 1)
  BY <1>1, ContentsLemma
<1>10. k = Used(tty) \/ k = n \/ s[k] = NL
  BY <1>6, <1>7, <1>8, <1>9 DEF Tocopy
<1>11. \A i \in 1..(k - 1) : s[i] # NL
  BY <1>3, <1>7, <1>8, <1>9
<1> QED BY <1>4, <1>8, <1>10, <1>11 DEF k

\* So does the ring after every call that the careful specification allows.
LEMMA RingInvStep == RingInv /\ [CarefulNext]_vars => RingInv'
<1> SUFFICES ASSUME RingInv, [CarefulNext]_vars PROVE RingInv'
  OBVIOUS
<1> DEFINE s == Contents(tty)
<1>1. tty \in Ring /\ TypeOK
  BY DEF RingInv, TypeOK, Ring
<1>2. TypeOK'
  BY <1>1, RingStep DEF CarefulNext, Next
<1>3. s \in Seq(Chars) /\ Len(s) = Used(tty) /\ Used(tty) \in Nat
  BY <1>1, ContentsLemma
<1>4. tty.canon_lines = Cardinality(LinesIn(s)) /\ tty.canon_lines \in Nat
  BY <1>1 DEF RingInv, LinesCounted, LinesIn, Ring
<1>5. SUFFICES tty'.canon_lines = Cardinality(LinesIn(Contents(tty')))
  BY <1>2 DEF RingInv, LinesCounted, LinesIn
<1>6. ASSUME NEW c \in Keys, Careful(c), Push(c)
      PROVE  tty'.canon_lines = Cardinality(LinesIn(Contents(tty')))
  <2>1. tty' = Push_char(tty, c)
    BY <1>6 DEF Push
  <2>2. tty'.canon_lines = IF c = NL THEN tty.canon_lines + 1 ELSE tty.canon_lines
    BY <1>1, <2>1, PushCount
  <2>3. CASE c = BS
    <3>1. c # NL
      BY <2>3, CharAssumption
    <3>2. CASE tty.head = tty.tail
      BY <1>4, <2>1, <2>3, <3>2 DEF Push_char, Handle_backspace
    <3>3. CASE tty.head # tty.tail
      <4>1. Last(tty) # NL
        BY <1>6, <2>3, <3>3 DEF Careful
      <4>2. /\ Used(tty) > 0 /\ Last(tty) = s[Used(tty)]
            /\ Contents(tty') = SubSeq(s, 1, Used(tty) - 1)
        BY <1>1, <2>1, <2>3, <3>3, EraseContents
      <4> HIDE DEF s
      <4> QED BY <1>3, <1>4, <2>2, <3>1, <4>1, <4>2, EraseLines
    <3> QED BY <3>2, <3>3
  <2>4. CASE c # BS /\ (tty.tail + 1) % TTY_BUF_SIZE = tty.head
    <3>1. c # NL
      BY <1>6, <2>4 DEF Careful
    <3>2. Contents(tty') = s
      BY <1>1, <2>1, <2>4, FullContents
    <3> QED BY <1>4, <2>2, <3>1, <3>2
  <2>5. CASE c # BS /\ (tty.tail + 1) % TTY_BUF_SIZE # tty.head
    <3>1. Contents(tty') = Append(s, c)
      BY <1>1, <2>1, <2>5, PushContents
    <3>2. c \in Chars
      BY <2>5 DEF Keys, Chars
    <3> HIDE DEF s
    <3> QED BY <1>3, <1>4, <2>2, <3>1, <3>2, AppendLines
  <2> QED BY <2>3, <2>4, <2>5
<1>7. ASSUME NEW n \in 1..MaxCount, Read(n)
      PROVE  tty'.canon_lines = Cardinality(LinesIn(Contents(tty')))
  <2> DEFINE k == Read_len(tty, n)
  <2>1. k > 0 /\ tty' = After_read(tty, k)
    BY <1>7 DEF Read
  <2>2. tty.canon_lines > 0
    BY Zenon, <1>1, <2>1, ReadType DEF Has_line
  <2>3. k \in 1..Used(tty) /\ \A i \in 1..(k - 1) : s[i] # NL
    BY <2>1, ReadFits
  <2> HIDE DEF k
  <2>4. /\ Contents(tty') = SubSeq(s, k + 1, Used(tty))
        /\ tty'.canon_lines
             = IF s[k] = NL THEN tty.canon_lines - 1 ELSE tty.canon_lines
    BY <1>1, <2>1, <2>2, <2>3, ReadContents
  <2> HIDE DEF s
  <2>5. Cardinality(LinesIn(SubSeq(s, k + 1, Len(s))))
          = Cardinality(LinesIn(s)) - (IF s[k] = NL THEN 1 ELSE 0)
    BY <1>3, <2>3, ReadLines
  <2> QED BY <1>3, <1>4, <2>4, <2>5
<1>8. CASE UNCHANGED vars
  BY <1>4, <1>8 DEF vars
<1> QED BY <1>6, <1>7, <1>8 DEF CarefulNext

\* For a careful typist canon_lines is the number of newlines in the ring:
\* the line guarantee of tty_wait_line() holds for every size of the ring.
THEOREM LinesCorrect == CarefulSpec => []LinesCounted
<1>1. RingInv => LinesCounted
  BY DEF RingInv
<1> QED BY <1>1, RingInvInit, RingInvStep, PTL DEF CarefulSpec

-----------------------------------------------------------------------------
\* __tty_read() copies as many characters as the queue of lines answers.
LEMMA AnswerLemma ==
  ASSUME RingInv, NEW n \in 1..MaxCount, Read_len(tty, n) > 0
  PROVE  LQ!Answer(Contents(tty), n) = Read_len(tty, n)
<1> USE SizeAssumption, BoundAssumption
<1> DEFINE k == Read_len(tty, n)
           s == Contents(tty)
           Ok(j) == /\ j = n \/ j = Len(s) \/ s[j] = NL
                    /\ \A i \in 1..(j - 1) : i < Len(s) /\ s[i] # NL
<1>1. tty \in Ring
  BY DEF RingInv, TypeOK, Ring
<1>2. s \in Seq(Chars) /\ Len(s) = Used(tty) /\ Used(tty) \in Nat
  BY <1>1, ContentsLemma
<1>3. /\ k \in 1..Used(tty) /\ k <= n
      /\ k = Used(tty) \/ k = n \/ s[k] = NL
      /\ \A i \in 1..(k - 1) : s[i] # NL
  BY ReadFits
<1>4. LQ!Answer(s, n) = CHOOSE j \in 1..n : Ok(j)
  BY DEF LQ!Answer
<1> HIDE DEF k, s
<1>5. k \in 1..n /\ Ok(k)
  BY <1>2, <1>3
<1>6. ASSUME NEW j \in 1..n, Ok(j)
      PROVE  j = k
  <2>1. CASE j < k
    <3>1. j \in 1..(k - 1)
      BY <1>3, <2>1
    <3> QED BY <1>2, <1>5, <1>6, <3>1
  <2>2. CASE k < j
    <3>1. k \in 1..(j - 1)
      BY <1>3, <2>2
    <3> QED BY <1>2, <1>5, <1>6, <3>1
  <2> QED BY <1>5, <2>1, <2>2
<1>7. LQ!Answer(s, n) = k
  <2> HIDE DEF Ok
  <2> QED BY <1>4, <1>5, <1>6
<1> QED BY <1>7 DEF k, s

\* Each such call is a step of the queue of lines, or leaves it as it is.
LEMMA QueueStep == RingInv /\ [CarefulNext]_vars => [LQ!Next]_(LQ!vars)
<1> SUFFICES ASSUME RingInv, [CarefulNext]_vars PROVE [LQ!Next]_(LQ!vars)
  OBVIOUS
<1> USE SizeAssumption
<1> DEFINE s == Contents(tty)
<1>1. tty \in Ring
  BY DEF RingInv, TypeOK, Ring
<1>2. s \in Seq(Chars) /\ Len(s) = Used(tty) /\ Used(tty) \in Nat
  BY <1>1, ContentsLemma
<1>3. ASSUME NEW c \in Keys, Careful(c), Push(c)
      PROVE  [LQ!Next]_(LQ!vars)
  <2>1. tty' = Push_char(tty, c) /\ got' = got
    BY <1>3 DEF Push
  <2>2. CASE c = BS
    <3>1. CASE tty.head = tty.tail
      <4>1. tty' = tty
        BY <2>1, <2>2, <3>1 DEF Push_char, Handle_backspace
      <4> QED BY <2>1, <4>1 DEF LQ!vars
    <3>2. CASE tty.head # tty.tail
      <4>1. Last(tty) # NL
        BY <1>3, <2>2, <3>2 DEF Careful
      <4>2. /\ Used(tty) > 0 /\ Last(tty) = s[Used(tty)]
            /\ Contents(tty') = SubSeq(s, 1, Used(tty) - 1)
        BY <1>1, <2>1, <2>2, <3>2, EraseContents
      <4>3. s # <<>>
        BY <1>2, <4>2
      <4>4. Contents(tty)' = Contents(tty')
        BY DEF Contents, Nth
      <4> HIDE DEF s
      <4>5. LQ!Erase
        BY <1>2, <2>1, <4>1, <4>2, <4>3, <4>4 DEF LQ!Erase, s
      <4> QED BY <4>5 DEF LQ!Next
    <3> QED BY <3>1, <3>2
  <2>3. CASE c # BS /\ (tty.tail + 1) % TTY_BUF_SIZE = tty.head
    <3>1. Contents(tty') = s
      BY <1>1, <2>1, <2>3, FullContents
    <3>2. Contents(tty)' = Contents(tty')
      BY DEF Contents, Nth
    <3> QED BY <2>1, <3>1, <3>2 DEF LQ!vars
  <2>4. CASE c # BS /\ (tty.tail + 1) % TTY_BUF_SIZE # tty.head
    <3>1. Used(tty) < TTY_BUF_SIZE - 1 /\ Contents(tty') = Append(s, c)
      BY <1>1, <2>1, <2>4, PushContents
    <3>2. Contents(tty)' = Contents(tty')
      BY DEF Contents, Nth
    <3>3. c \in Letters \cup {NL}
      BY <2>4 DEF Keys
    <3>4. LQ!Type(c)
      BY <1>2, <2>1, <3>1, <3>2 DEF LQ!Type
    <3> QED BY <3>3, <3>4 DEF LQ!Next
  <2> QED BY <2>2, <2>3, <2>4
<1>4. ASSUME NEW n \in 1..MaxCount, Read(n)
      PROVE  [LQ!Next]_(LQ!vars)
  <2> DEFINE k == Read_len(tty, n)
  <2>1. k > 0 /\ tty' = After_read(tty, k) /\ got' = [i \in 1..k |-> Nth(tty, i - 1)]
    BY <1>4 DEF Read
  <2>2. tty.canon_lines > 0
    BY <1>1, <2>1, ReadType DEF Has_line
  <2>3. k \in 1..Used(tty) /\ LinesIn(s) # {}
    BY <2>1, ReadFits
  <2>4. LQ!Answer(s, n) = k
    BY <2>1, AnswerLemma
  <2> HIDE DEF k
  <2>5. Contents(tty') = SubSeq(s, k + 1, Used(tty)) /\ got' = SubSeq(s, 1, k)
    BY <1>1, <2>1, <2>2, <2>3, ReadContents
  <2>6. Contents(tty)' = Contents(tty')
    BY DEF Contents, Nth
  <2>7. LQ!Lines(s) # {}
    BY <2>3 DEF LQ!Lines, LinesIn
  <2>8. LQ!Read(n)
    BY <1>2, <2>4, <2>5, <2>6, <2>7 DEF LQ!Read
  <2> QED BY <2>8 DEF LQ!Next
<1>5. CASE UNCHANGED vars
  <2>1. Contents(tty)' = Contents(tty) /\ got' = got
    BY <1>5 DEF vars, Contents, Nth
  <2> QED BY <2>1 DEF LQ!vars
<1> QED BY <1>3, <1>4, <1>5 DEF CarefulNext

\* For a careful typist the ring of kernel/tty.c is a queue of lines, at
\* every size: what is typed is read, once, in order, a line at a time.
THEOREM RingImplements == CarefulSpec => ImplementsLineQueue
<1>1. Init => LQ!Init
  <2> SUFFICES ASSUME Init PROVE LQ!Init
    OBVIOUS
  <2>1. tty \in Ring /\ tty.head = 0 /\ tty.tail = 0 /\ got = <<>>
    BY RingInit DEF TypeOK, Ring, Init, Empty_tty
  <2>2. Contents(tty) \in Seq(Chars) /\ Len(Contents(tty)) = 0
    BY <2>1, ContentsLemma DEF Used
  <2>3. Contents(tty) = <<>>
    BY <2>2
  <2> QED BY <2>1, <2>3 DEF LQ!Init
<1> QED BY <1>1, RingInvInit, RingInvStep, QueueStep, PTL
     DEF CarefulSpec, ImplementsLineQueue, LQ!Spec
=============================================================================
