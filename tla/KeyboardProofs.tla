--------------------------- MODULE KeyboardProofs ---------------------------
(***************************************************************************)
(* For every board, keyboard, screen and size of the ring.  The console:   *)
(* what it does to the ring is what module TtyRing does, so that the       *)
(* terminal is a queue of lines; the cursor stays on the screen, the       *)
(* modifiers follow the keys, and the screen shows the line being typed.   *)
(* The machine around it: the steps that bring the keyboard up keep to the *)
(* console, whose theorems then hold of the whole; the firmware's tables   *)
(* are read right and the keyboard is routed to its handler; interrupts    *)
(* are only let in when they have handlers; and a byte is stuck in the     *)
(* controller only if it came too early.                                   *)
(***************************************************************************)
EXTENDS Keyboard, TtyRingProofs, InductionLemmas

-----------------------------------------------------------------------------
(* The console.                                                            *)

Modifiers == Shifts \cup Ctrls
OtherKeys == CharKeys \cup {CAPSLOCK}

\* What one byte of the keyboard can do to the ring, the screen and the
\* program's answer: nothing, or one character pushed and echoed.
Idle == UNCHANGED <<tty, got, vga, apart, typed>>

\* The character input_handle_event() makes of a key is one tty_push_char() takes.
LEMMA CharLemma ==
  ASSUME NEW key \in CharKeys
  PROVE  Char(key) \in Keys
BY KeyAssumption DEF Char

\* What an interrupt of the keyboard does, by the key.
LEMMA IrqLemma ==
  ASSUME NEW key, NEW release \in BOOLEAN, Ps2_irq(key, release)
  PROVE  \/ Idle
         \/ /\ key \in CharKeys /\ UNCHANGED input
            /\ \E c \in Keys : Tty_push_char(c)
<1>1. CASE input.extended
  BY <1>1 DEF Ps2_irq, Idle
<1>2. CASE ~input.extended /\ key = "E0"
  BY <1>2 DEF Ps2_irq, Idle
<1>3. CASE ~input.extended /\ key # "E0"
  <2>1. Input_handle_event(key, release)
    BY <1>3 DEF Ps2_irq
  <2>2. CASE key \in CharKeys /\ ~release
    BY <2>1, <2>2, CharLemma DEF Input_handle_event
  <2>3. CASE ~(key \in CharKeys /\ ~release)
    BY <2>1, <2>3 DEF Input_handle_event, Idle
  <2> QED BY <2>2, <2>3
<1> QED BY <1>1, <1>2, <1>3

\* A step of the console reads a line, writes a character for a program,
\* pushes a character typed with care, or leaves the ring and the screen be.
LEMMA StepLemma ==
  ASSUME ConsoleNext
  PROVE  \/ Idle
         \/ \E c \in Keys : Tty_push_char(c)
         \/ (\E n \in 1..MaxCount : Read(n)) /\ UNCHANGED <<vga, apart>>
         \/ \E c \in {NL} \cup Letters : Program_writes(c)
<1>1. ASSUME NEW key \in Modifiers \cup OtherKeys, Press(key) \/ Repeat(key) \/ Release(key)
      PROVE  Idle \/ \E c \in Keys : Tty_push_char(c)
  <2>1. \/ Ps2_irq(key, FALSE) \/ Ps2_irq(key, TRUE)
        \/ UNCHANGED <<tty, got, input, vga, apart, typed>>
    BY Zenon, <1>1 DEF Press, Repeat, Release
  <2> QED BY Zenon, <2>1, IrqLemma DEF Idle
<1>2. ASSUME Prefix \/ \E key \in Shifts : Extended(key)
      PROVE  Idle \/ \E c \in Keys : Tty_push_char(c)
  BY Zenon, <1>2, IrqLemma DEF Prefix, Extended
<1>3. Program_reads => (\E n \in 1..MaxCount : Read(n)) /\ UNCHANGED <<vga, apart>>
  BY SMTT(30) DEF Program_reads
<1> QED BY <1>1, <1>2, <1>3 DEF ConsoleNext, Modifiers, OtherKeys

\* To the ring, the console is a careful typist and a reader.
LEMMA CarefulStep == [ConsoleNext]_console_vars => [CarefulNext]_vars
<1> SUFFICES ASSUME [ConsoleNext]_console_vars PROVE [CarefulNext]_vars
  OBVIOUS
<1>1. ASSUME NEW c \in Keys, Tty_push_char(c) PROVE CarefulNext
  BY <1>1 DEF Tty_push_char, CarefulNext
<1>2. ASSUME NEW n \in 1..MaxCount, Read(n) PROVE CarefulNext
  BY <1>2 DEF CarefulNext
<1>3. ASSUME NEW c \in {NL} \cup Letters, Program_writes(c) PROVE UNCHANGED vars
  BY <1>3 DEF Program_writes, vars
<1>4. CASE Idle
  BY <1>4 DEF Idle, vars
<1>5. CASE UNCHANGED console_vars
  BY <1>5 DEF console_vars, vars
<1> QED BY <1>1, <1>2, <1>3, <1>4, <1>5, StepLemma

\* Keys pressed with care come out of read() as the lines they spell, through
\* the decoding of ps2_irq(), the modifiers of input.c and the ring.
THEOREM ConsoleImplements == ConsoleSpec => ImplementsLineQueue
<1>1. ConsoleInit => Init
  BY DEF ConsoleInit
<1>2. ConsoleSpec => CarefulSpec
  BY <1>1, CarefulStep, PTL DEF ConsoleSpec, CarefulSpec
<1> QED BY <1>2, RingImplements

\* The line guarantee under the whole input path.
THEOREM ConsoleLines == ConsoleSpec => []LinesCounted
<1>1. ConsoleInit => Init
  BY DEF ConsoleInit
<1>2. ConsoleSpec => CarefulSpec
  BY <1>1, CarefulStep, PTL DEF ConsoleSpec, CarefulSpec
<1> QED BY <1>2, LinesCorrect

-----------------------------------------------------------------------------
Cells == 0..(VGA_WIDTH * VGA_HEIGHT - 1)
Screen == [x : 0..(VGA_WIDTH - 1), y : 0..VGA_HEIGHT,
           buf : [Cells -> Keys \cup {BLANK}]]

\* The cursor is on the screen, or at the start of the row behind the last.
OnScreen(v) == v \in Screen /\ (v.y = VGA_HEIGHT => v.x = 0)

\* The offset of a position is one of the cells.
LEMMA CellLemma ==
  ASSUME NEW x \in 0..(VGA_WIDTH - 1), NEW y \in 0..(VGA_HEIGHT - 1)
  PROVE  y * VGA_WIDTH + x \in Cells
<1>1. VGA_WIDTH \in Nat /\ VGA_HEIGHT \in Nat /\ x \in Nat /\ y \in Nat /\ y + 1 <= VGA_HEIGHT
  BY ScreenAssumption
<1>2. (y + 1) * VGA_WIDTH <= VGA_HEIGHT * VGA_WIDTH
  <2>1. \A i, j, k \in Nat : i <= j => i * k <= j * k
    OBVIOUS
  <2> QED BY <1>1, <2>1
<1>3. (y + 1) * VGA_WIDTH = y * VGA_WIDTH + VGA_WIDTH
      /\ VGA_HEIGHT * VGA_WIDTH = VGA_WIDTH * VGA_HEIGHT
      /\ y * VGA_WIDTH \in Nat /\ VGA_WIDTH * VGA_HEIGHT \in Nat
  BY <1>1
<1> QED BY <1>1, <1>2, <1>3 DEF Cells

\* vga_write_pos() inside the screen stays inside its memory.
LEMMA WriteLemma ==
  ASSUME NEW v \in Screen, v.y < VGA_HEIGHT, NEW c \in Keys \cup {BLANK}
  PROVE  /\ Vga_write(v, c) \in Screen
         /\ Vga_write(v, c).x = v.x /\ Vga_write(v, c).y = v.y
<1> DEFINE off == v.y * VGA_WIDTH + v.x
           b == [i \in DOMAIN v.buf \cup {off} |-> IF i = off THEN c ELSE v.buf[i]]
<1>1. v.x \in 0..(VGA_WIDTH - 1) /\ v.y \in 0..VGA_HEIGHT
      /\ v.buf \in [Cells -> Keys \cup {BLANK}]
  BY DEF Screen
<1>2. off \in Cells
  <2>1. v.y \in 0..(VGA_HEIGHT - 1)
    BY <1>1, ScreenAssumption
  <2> QED BY <1>1, <2>1, CellLemma
<1> HIDE DEF off
<1>3. b \in [Cells -> Keys \cup {BLANK}]
  BY <1>1, <1>2
<1>4. Vga_write(v, c) = [v EXCEPT !.buf = b]
  BY DEF Vga_write, off
<1> HIDE DEF b
<1> QED BY <1>1, <1>3, <1>4 DEF Screen

\* vga_putchar() leaves the cursor on the screen, or at the first place behind it.
LEMMA PutLemma ==
  ASSUME NEW v, OnScreen(v), NEW c \in Keys
  PROVE  OnScreen(Vga_putchar(v, c))
<1> USE ScreenAssumption
<1>1. v \in Screen /\ v.x \in 0..(VGA_WIDTH - 1) /\ v.y \in 0..VGA_HEIGHT
      /\ (v.y = VGA_HEIGHT => v.x = 0)
  BY DEF OnScreen, Screen
<1>2. CASE Isfull(v)
  BY <1>2 DEF Vga_putchar
<1>3. CASE ~Isfull(v)
  <2>1. v.y < VGA_HEIGHT /\ v.y + 1 \in 0..VGA_HEIGHT /\ 0 \in 0..(VGA_WIDTH - 1)
    BY <1>1, <1>3 DEF Isfull
  <2>2. CASE c = NL
    <3> DEFINE y == v.y + 1
    <3>1. Vga_putchar(v, c) = [v EXCEPT !.x = 0, !.y = y]
      BY <1>3, <2>2 DEF Vga_putchar
    <3> HIDE DEF y
    <3>2. y \in 0..VGA_HEIGHT
      BY <2>1 DEF y
    <3> QED BY Zenon, <1>1, <2>1, <3>1, <3>2 DEF OnScreen, Screen
  <2>3. CASE c # NL
    <3> DEFINE w == Vga_write(v, c)
    <3>1. w \in Screen /\ w.x = v.x /\ w.y = v.y
      BY <1>1, <2>1, WriteLemma
    <3>2. CASE v.x + 1 = VGA_WIDTH
      <4> DEFINE y == w.y + 1
      <4>1. Vga_putchar(v, c) = [w EXCEPT !.x = 0, !.y = y]
        BY <1>3, <2>3, <3>2 DEF Vga_putchar
      <4>2. y \in 0..VGA_HEIGHT
        BY <2>1, <3>1
      <4> HIDE DEF w, y
      <4> QED BY ZenonT(30), <2>1, <3>1, <4>1, <4>2 DEF OnScreen, Screen
    <3>3. CASE v.x + 1 # VGA_WIDTH
      <4> DEFINE x == w.x + 1
      <4>1. Vga_putchar(v, c) = [w EXCEPT !.x = x]
        BY <1>3, <2>3, <3>3 DEF Vga_putchar
      <4>2. x \in 0..(VGA_WIDTH - 1) /\ w.y # VGA_HEIGHT
        BY <1>1, <2>1, <3>1, <3>3
      <4> HIDE DEF w, x
      <4> QED BY <3>1, <4>1, <4>2 DEF OnScreen, Screen
    <3> QED BY <3>2, <3>3
  <2> QED BY <2>2, <2>3
<1> QED BY <1>2, <1>3

\* the screen when vga_del_last() has moved the cursor
Back(v) == IF v.x > 0 THEN [v EXCEPT !.x = v.x - 1]
           ELSE IF v.y = 0 THEN v
           ELSE [v EXCEPT !.x = VGA_WIDTH - 1, !.y = v.y - 1]

\* vga_del_last() moves the cursor back over a row's beginning, into the screen.
LEMMA BackLemma ==
  ASSUME NEW v, OnScreen(v)
  PROVE  Back(v) \in Screen /\ Back(v).y < VGA_HEIGHT /\ Vga_del_last(v) = Vga_write(Back(v), BLANK)
<1> USE ScreenAssumption
<1> DEFINE w == Back(v)
<1>1. v \in Screen /\ v.x \in 0..(VGA_WIDTH - 1) /\ v.y \in 0..VGA_HEIGHT
      /\ (v.y = VGA_HEIGHT => v.x = 0)
  BY DEF OnScreen, Screen
<1>2. w \in Screen /\ w.y < VGA_HEIGHT
  <2>1. CASE v.x > 0
    <3> DEFINE x == v.x - 1
    <3>1. w = [v EXCEPT !.x = x] /\ x \in 0..(VGA_WIDTH - 1) /\ v.y < VGA_HEIGHT
      BY <1>1, <2>1 DEF Back
    <3> HIDE DEF w, x
    <3> QED BY <1>1, <3>1 DEF Screen
  <2>2. CASE ~(v.x > 0) /\ v.y = 0
    BY <1>1, <2>2 DEF Back
  <2>3. CASE ~(v.x > 0) /\ v.y # 0
    <3> DEFINE x == VGA_WIDTH - 1
               y == v.y - 1
    <3>1. w = [v EXCEPT !.x = x, !.y = y]
      BY <2>3 DEF Back
    <3>2. x \in 0..(VGA_WIDTH - 1) /\ y \in 0..VGA_HEIGHT /\ y < VGA_HEIGHT
      BY <1>1, <2>3
    <3> HIDE DEF w, x, y
    <3> QED BY Zenon, <1>1, <3>1, <3>2 DEF Screen
  <2> QED BY <2>1, <2>2, <2>3
<1>3. Vga_del_last(v) = Vga_write(w, BLANK)
  BY DEF Vga_del_last, Back
<1> QED BY Zenon, <1>2, <1>3

\* So does vga_del_last().
LEMMA DelLemma ==
  ASSUME NEW v, OnScreen(v)
  PROVE  OnScreen(Vga_del_last(v))
<1>1. Back(v) \in Screen /\ Back(v).y < VGA_HEIGHT /\ Vga_del_last(v) = Vga_write(Back(v), BLANK)
  BY BackLemma
<1>2. Vga_write(Back(v), BLANK) \in Screen /\ Vga_write(Back(v), BLANK).y < VGA_HEIGHT
  BY <1>1, WriteLemma
<1> QED BY <1>1, <1>2, ScreenAssumption DEF OnScreen

\* vga_init() leaves the cursor on the screen.
LEMMA ScreenInit == ConsoleInit => OnScreen(vga)
BY ScreenAssumption DEF ConsoleInit, Vga_init, OnScreen, Screen, Cells

\* And every echo and every write keep it there.
LEMMA ScreenStep == OnScreen(vga) /\ [ConsoleNext]_console_vars => OnScreen(vga')
<1> SUFFICES ASSUME OnScreen(vga), [ConsoleNext]_console_vars PROVE OnScreen(vga')
  OBVIOUS
<1>1. ASSUME NEW c \in Keys, Tty_push_char(c) PROVE OnScreen(vga')
  BY <1>1, PutLemma, DelLemma DEF Tty_push_char, Echo
<1>2. ASSUME NEW c \in {NL} \cup Letters, Program_writes(c) PROVE OnScreen(vga')
  BY <1>2, PutLemma DEF Program_writes, Keys
<1>3. CASE Idle \/ UNCHANGED vga \/ UNCHANGED console_vars
  BY <1>3 DEF Idle, console_vars
<1> QED BY <1>1, <1>2, <1>3, StepLemma

\* Whatever is typed and written, the cursor stays on the screen or right
\* behind its end, and no write leaves the memory of the screen.
THEOREM CursorCorrect == ConsoleSpec => []CursorOnScreen
<1>1. OnScreen(vga) /\ [ConsoleNext]_console_vars => OnScreen(vga)'
  BY ScreenStep DEF OnScreen
<1>2. OnScreen(vga) => CursorOnScreen
  BY ScreenAssumption DEF OnScreen, Screen, Cells, CursorOnScreen
<1> QED BY <1>1, <1>2, ScreenInit, PTL DEF ConsoleSpec

-----------------------------------------------------------------------------
Inputs == [extended : BOOLEAN, shift_count : 0..2, ctrl_count : 0..2,
           caps_active : BOOLEAN]

ModInv == held \subseteq Modifiers /\ input \in Inputs /\ ModifiersFollowKeys

\* The counters of input_handle_event() go up and down by one, within 0..2.
LEMMA CountLemma ==
  ASSUME NEW n \in 0..2
  PROVE  /\ Count(n, TRUE) = IF n = 0 THEN 0 ELSE n - 1
         /\ Count(n, FALSE) = IF n = 2 THEN 2 ELSE n + 1
         /\ Count(n, TRUE) \in 0..2 /\ Count(n, FALSE) \in 0..2
<1> DEFINE lo == IF n = 0 THEN 0 ELSE n - 1
           hi == IF n = 2 THEN 2 ELSE n + 1
<1>1. lo \in {n - 1, 0} /\ \A y \in {n - 1, 0} : lo >= y
  OBVIOUS
<1>2. \A x \in {n - 1, 0} : (\A y \in {n - 1, 0} : x >= y) => x = lo
  OBVIOUS
<1>3. hi \in {n + 1, 2} /\ \A y \in {n + 1, 2} : hi <= y
  OBVIOUS
<1>4. \A x \in {n + 1, 2} : (\A y \in {n + 1, 2} : x <= y) => x = hi
  OBVIOUS
<1> HIDE DEF lo, hi
<1>5. Max({n - 1, 0}) = lo
  BY <1>1, <1>2 DEF Max
<1>6. Min({n + 1, 2}) = hi
  BY <1>3, <1>4 DEF Min
<1>7. Count(n, TRUE) = lo /\ Count(n, FALSE) = hi
  BY <1>5, <1>6 DEF Count
<1>8. lo \in 0..2 /\ hi \in 0..2
  BY DEF lo, hi
<1>9. Count(n, TRUE) \in 0..2 /\ Count(n, FALSE) \in 0..2
  BY <1>7, <1>8, Zenon
<1> QED BY <1>7, <1>9, Zenon DEF lo, hi

\* One more or one less of a set of two keys is down.
LEMMA HeldLemma ==
  ASSUME NEW S, IsFiniteSet(S), Cardinality(S) <= 2, NEW H, NEW key
  PROVE  /\ Cardinality(H \cap S) \in 0..2
         /\ key \in S /\ key \notin H =>
              /\ Cardinality(H \cap S) + 1 \in 0..2
              /\ Cardinality((H \cup {key}) \cap S) = Cardinality(H \cap S) + 1
         /\ key \in S /\ key \in H =>
              /\ Cardinality(H \cap S) - 1 \in 0..2
              /\ Cardinality((H \ {key}) \cap S) = Cardinality(H \cap S) - 1
<1>1. \A T \in SUBSET S : IsFiniteSet(T) /\ Cardinality(T) \in 0..2
  <2> TAKE T \in SUBSET S
  <2>1. IsFiniteSet(T) /\ Cardinality(T) <= Cardinality(S)
    BY FS_Subset
  <2>2. Cardinality(T) \in Nat /\ Cardinality(S) \in Nat
    BY <2>1, FS_CardinalityType
  <2> QED BY <2>1, <2>2
<1>2. IsFiniteSet(H \cap S) /\ Cardinality(H \cap S) \in 0..2
  BY <1>1
<1>3. ASSUME key \in S, key \notin H
      PROVE  /\ Cardinality(H \cap S) + 1 \in 0..2
             /\ Cardinality((H \cup {key}) \cap S) = Cardinality(H \cap S) + 1
  <2>1. (H \cup {key}) \cap S = (H \cap S) \cup {key} /\ key \notin H \cap S
    BY <1>3
  <2>2. Cardinality((H \cap S) \cup {key}) = Cardinality(H \cap S) + 1
    BY <1>2, <2>1, FS_AddElement
  <2>3. Cardinality((H \cup {key}) \cap S) \in 0..2
    BY <1>1
  <2> QED BY <2>1, <2>2, <2>3
<1>4. ASSUME key \in S, key \in H
      PROVE  /\ Cardinality(H \cap S) - 1 \in 0..2
             /\ Cardinality((H \ {key}) \cap S) = Cardinality(H \cap S) - 1
  <2>1. (H \ {key}) \cap S = (H \cap S) \ {key} /\ key \in H \cap S
    BY <1>4
  <2>2. Cardinality((H \cap S) \ {key}) = Cardinality(H \cap S) - 1
    BY Zenon, <1>2, <2>1, FS_RemoveElement
  <2>3. Cardinality((H \ {key}) \cap S) \in 0..2
    BY <1>1
  <2> QED BY Zenon, <2>1, <2>2, <2>3
<1> QED BY <1>2, <1>3, <1>4

\* What a byte of a modifier key does to the counters.
LEMMA ModifierLemma ==
  ASSUME input \in Inputs, ~input.extended,
         NEW key \in Modifiers \cup {CAPSLOCK}, NEW release \in BOOLEAN, Ps2_irq(key, release)
  PROVE  /\ input' \in Inputs
         /\ input'.shift_count = IF key \in Shifts THEN Count(input.shift_count, release)
                                 ELSE input.shift_count
         /\ input'.ctrl_count = IF key \in Ctrls THEN Count(input.ctrl_count, release)
                                ELSE input.ctrl_count
<1>1. key \notin CharKeys /\ key # "E0"
  BY KeyAssumption DEF Modifiers
<1>2. Input_handle_event(key, release)
  BY <1>1 DEF Ps2_irq
<1>3. input.shift_count \in 0..2 /\ input.ctrl_count \in 0..2
  BY DEF Inputs
<1>4. Count(input.shift_count, release) \in 0..2 /\ Count(input.ctrl_count, release) \in 0..2
  <2>1. \A n \in 0..2 : Count(n, TRUE) \in 0..2 /\ Count(n, FALSE) \in 0..2
    BY CountLemma, Zenon
  <2>2. CASE release = TRUE
    BY <1>3, <2>1, <2>2, Zenon
  <2>3. CASE release = FALSE
    BY <1>3, <2>1, <2>3, Zenon
  <2> QED BY Zenon, <2>2, <2>3
<1> DEFINE s == IF key \in Shifts THEN Count(input.shift_count, release) ELSE input.shift_count
           n == IF key \in Ctrls THEN Count(input.ctrl_count, release) ELSE input.ctrl_count
           u == IF key = CAPSLOCK /\ ~release THEN ~input.caps_active ELSE input.caps_active
<1>5. s \in 0..2 /\ n \in 0..2
  BY <1>3, <1>4
<1>6. u \in BOOLEAN
  <2>1. input.caps_active \in BOOLEAN
    BY DEF Inputs
  <2> QED BY Zenon, <2>1
<1>7. input' = [input EXCEPT !.shift_count = s, !.ctrl_count = n, !.caps_active = u]
  BY <1>1, <1>2, Zenon DEF Input_handle_event
<1> HIDE DEF s, n, u
<1>8. input' \in Inputs /\ input'.shift_count = s /\ input'.ctrl_count = n
  BY Zenon, <1>5, <1>6, <1>7 DEF Inputs
<1> QED BY <1>8 DEF s, n

\* Every step of the console keeps the modifier counts of input.c equal to the
\* keys that are held.
LEMMA ModStep == ModInv /\ [ConsoleNext]_console_vars => ModInv'
<1> SUFFICES ASSUME ModInv, [ConsoleNext]_console_vars PROVE ModInv'
  OBVIOUS
<1> DEFINE shift == Cardinality(held \cap Shifts)
           ctrl == Cardinality(held \cap Ctrls)
<1>1. /\ held \subseteq Modifiers /\ input \in Inputs
      /\ input.shift_count \in 0..2 /\ input.ctrl_count \in 0..2
      /\ ~odd => input.shift_count = shift /\ input.ctrl_count = ctrl
  BY DEF ModInv, ModifiersFollowKeys
<1>2. IsFiniteSet(Shifts) /\ Cardinality(Shifts) <= 2
      /\ IsFiniteSet(Ctrls) /\ Cardinality(Ctrls) <= 2 /\ Shifts \cap Ctrls = {}
  BY KeyAssumption
<1>3. ASSUME input' \in Inputs, input'.shift_count = input.shift_count,
             input'.ctrl_count = input.ctrl_count, held' = held, odd' = odd \/ odd' = TRUE
      PROVE  ModInv'
  BY <1>1, <1>3 DEF ModInv, ModifiersFollowKeys
<1>4. ASSUME input' \in Inputs, held' \subseteq Modifiers, odd' = TRUE
      PROVE  ModInv'
  BY <1>4 DEF ModInv, ModifiersFollowKeys, Inputs
<1>5. ASSUME NEW key \in Modifiers, Press(key) PROVE ModInv'
  <2>1. ~input.extended /\ key \notin held /\ Ps2_irq(key, FALSE)
        /\ held' = held \cup {key} /\ odd' = odd
    BY Zenon, <1>5 DEF Press, Modifiers
  <2>2. /\ input' \in Inputs
        /\ input'.shift_count = IF key \in Shifts THEN Count(input.shift_count, FALSE)
                                ELSE input.shift_count
        /\ input'.ctrl_count = IF key \in Ctrls THEN Count(input.ctrl_count, FALSE)
                               ELSE input.ctrl_count
    BY <1>1, <2>1, ModifierLemma, Zenon
  <2>3. input'.shift_count \in 0..2 /\ input'.ctrl_count \in 0..2
    BY Zenon, <2>2 DEF Inputs
  <2>4. ASSUME ~odd
        PROVE  /\ input'.shift_count = Cardinality(held' \cap Shifts)
               /\ input'.ctrl_count = Cardinality(held' \cap Ctrls)
    <3>1. CASE key \in Shifts
      <4>1. Cardinality(held' \cap Shifts) = shift + 1 /\ shift + 1 \in 0..2 /\ shift \in 0..2
        BY Zenon, <1>2, <2>1, <3>1, HeldLemma
      <4>2. held' \cap Ctrls = held \cap Ctrls /\ key \notin Ctrls
        BY <1>2, <2>1, <3>1
      <4>3. Count(shift, FALSE) = IF shift = 2 THEN 2 ELSE shift + 1
        BY Zenon, <4>1, CountLemma
      <4>4. input'.shift_count = Count(shift, FALSE) /\ input'.ctrl_count = ctrl
        BY <1>1, <2>2, <2>4, <3>1, <4>2, Zenon
      <4> HIDE DEF shift
      <4>5. input'.shift_count = shift + 1
        <5>1. (IF shift = 2 THEN 2 ELSE shift + 1) = shift + 1
          BY <4>1
        <5> QED BY <4>3, <4>4, <5>1, Zenon
      <4> QED BY Zenon, <4>1, <4>2, <4>4, <4>5
    <3>2. CASE key \in Ctrls
      <4>1. Cardinality(held' \cap Ctrls) = ctrl + 1 /\ ctrl + 1 \in 0..2 /\ ctrl \in 0..2
        BY ZenonT(30), <1>2, <2>1, <3>2, HeldLemma
      <4>2. held' \cap Shifts = held \cap Shifts /\ key \notin Shifts
        BY <1>2, <2>1, <3>2
      <4>3. Count(ctrl, FALSE) = IF ctrl = 2 THEN 2 ELSE ctrl + 1
        BY Zenon, <4>1, CountLemma
      <4>4. input'.ctrl_count = Count(ctrl, FALSE) /\ input'.shift_count = shift
        BY <1>1, <2>2, <2>4, <3>2, <4>2, Zenon
      <4> HIDE DEF ctrl
      <4>5. input'.ctrl_count = ctrl + 1
        <5>1. (IF ctrl = 2 THEN 2 ELSE ctrl + 1) = ctrl + 1
          BY <4>1
        <5> QED BY <4>3, <4>4, <5>1, Zenon
      <4> QED BY Zenon, <4>1, <4>2, <4>4, <4>5
    <3> QED BY <3>1, <3>2 DEF Modifiers
  <2> QED BY Zenon, <1>1, <2>1, <2>2, <2>3, <2>4 DEF ModInv, ModifiersFollowKeys
<1>6. ASSUME NEW key \in Modifiers, Repeat(key) PROVE ModInv'
  <2>1. ~input.extended /\ Ps2_irq(key, FALSE) /\ held' = held /\ odd' = TRUE
    BY Zenon, <1>6 DEF Repeat
  <2>2. input' \in Inputs
    BY <1>1, <2>1, ModifierLemma, Zenon
  <2> QED BY <1>1, <1>4, <2>1, <2>2
<1>7. ASSUME NEW key \in Modifiers, Release(key) PROVE ModInv'
  <2>1. ~input.extended /\ key \in held /\ held' = held \ {key}
        /\ \/ Ps2_irq(key, TRUE) /\ odd' = odd
           \/ odd' = TRUE /\ input' = input
    BY Zenon, <1>7 DEF Release
  <2>2. CASE odd' = TRUE /\ input' = input
    BY <1>1, <1>4, <2>1, <2>2
  <2>3. CASE Ps2_irq(key, TRUE) /\ odd' = odd
    <3>1. /\ input' \in Inputs
          /\ input'.shift_count = IF key \in Shifts THEN Count(input.shift_count, TRUE)
                                  ELSE input.shift_count
          /\ input'.ctrl_count = IF key \in Ctrls THEN Count(input.ctrl_count, TRUE)
                                 ELSE input.ctrl_count
      BY <1>1, <2>1, <2>3, ModifierLemma, Zenon
    <3>2. input'.shift_count \in 0..2 /\ input'.ctrl_count \in 0..2
      BY Zenon, <3>1 DEF Inputs
    <3>3. ASSUME ~odd
          PROVE  /\ input'.shift_count = Cardinality(held' \cap Shifts)
                 /\ input'.ctrl_count = Cardinality(held' \cap Ctrls)
      <4>1. CASE key \in Shifts
        <5>1. Cardinality(held' \cap Shifts) = shift - 1 /\ shift - 1 \in 0..2 /\ shift \in 0..2
          BY Zenon, <1>2, <2>1, <4>1, HeldLemma
        <5>2. held' \cap Ctrls = held \cap Ctrls /\ key \notin Ctrls
          BY <1>2, <2>1, <4>1
        <5>3. Count(shift, TRUE) = IF shift = 0 THEN 0 ELSE shift - 1
          BY Zenon, <5>1, CountLemma
        <5>4. input'.shift_count = Count(shift, TRUE) /\ input'.ctrl_count = ctrl
          BY <1>1, <3>1, <3>3, <4>1, <5>2, Zenon
        <5> HIDE DEF shift
        <5>5. input'.shift_count = shift - 1
          <6>1. (IF shift = 0 THEN 0 ELSE shift - 1) = shift - 1
            BY <5>1
          <6> QED BY <5>3, <5>4, <6>1, Zenon
        <5> QED BY Zenon, <5>1, <5>2, <5>4, <5>5
      <4>2. CASE key \in Ctrls
        <5>1. Cardinality(held' \cap Ctrls) = ctrl - 1 /\ ctrl - 1 \in 0..2 /\ ctrl \in 0..2
          BY SMTT(30), <1>2, <2>1, <4>2, HeldLemma
        <5>2. held' \cap Shifts = held \cap Shifts /\ key \notin Shifts
          BY <1>2, <2>1, <4>2
        <5>3. Count(ctrl, TRUE) = IF ctrl = 0 THEN 0 ELSE ctrl - 1
          BY Zenon, <5>1, CountLemma
        <5>4. input'.ctrl_count = Count(ctrl, TRUE) /\ input'.shift_count = shift
          BY <1>1, <3>1, <3>3, <4>2, <5>2, Zenon
        <5> HIDE DEF ctrl
        <5>5. input'.ctrl_count = ctrl - 1
          <6>1. (IF ctrl = 0 THEN 0 ELSE ctrl - 1) = ctrl - 1
            BY <5>1
          <6> QED BY <5>3, <5>4, <6>1, Zenon
        <5> QED BY Zenon, <5>1, <5>2, <5>4, <5>5
      <4> QED BY <4>1, <4>2 DEF Modifiers
    <3> QED BY Zenon, <1>1, <2>1, <2>3, <3>1, <3>2, <3>3 DEF ModInv, ModifiersFollowKeys
  <2> QED BY Zenon, <2>1, <2>2, <2>3
<1>8. ASSUME NEW key \in OtherKeys, Press(key) PROVE ModInv'
  <2>1. key \notin Modifiers /\ key # "E0"
    BY KeyAssumption DEF Modifiers, OtherKeys
  <2>2. ~input.extended /\ Ps2_irq(key, FALSE) /\ held' = held /\ odd' = odd
    BY Zenon, <1>8, <2>1 DEF Press, Modifiers
  <2>3. CASE key \in CharKeys
    <3>1. UNCHANGED input
      BY <2>1, <2>2, <2>3 DEF Ps2_irq, Input_handle_event
    <3> QED BY <1>1, <1>3, <2>2, <3>1
  <2>4. CASE key = CAPSLOCK
    <3>1. /\ input' \in Inputs
          /\ input'.shift_count = IF key \in Shifts THEN Count(input.shift_count, FALSE)
                                  ELSE input.shift_count
          /\ input'.ctrl_count = IF key \in Ctrls THEN Count(input.ctrl_count, FALSE)
                                 ELSE input.ctrl_count
      BY <1>1, <2>2, <2>4, ModifierLemma, Zenon
    <3>2. key \notin Shifts /\ key \notin Ctrls
      BY <2>1 DEF Modifiers
    <3>3. input'.shift_count = input.shift_count /\ input'.ctrl_count = input.ctrl_count
      BY <3>1, <3>2, Zenon
    <3> QED BY Zenon, <1>3, <2>2, <3>1, <3>3
  <2> QED BY <2>3, <2>4 DEF OtherKeys
<1>9. ASSUME Prefix \/ \E key \in Shifts : Extended(key) PROVE ModInv'
  <2>1. PICK b \in BOOLEAN : input' = [input EXCEPT !.extended = b]
    BY Zenon, <1>9 DEF Prefix, Extended, Ps2_irq
  <2>2. input' \in Inputs /\ input'.shift_count = input.shift_count
        /\ input'.ctrl_count = input.ctrl_count
    BY <1>1, <2>1 DEF Inputs
  <2>3. held' = held /\ odd' = odd
    BY Zenon, <1>9 DEF Prefix, Extended
  <2> QED BY <1>3, <2>2, <2>3
<1>10. CASE Program_reads \/ (\E c \in {NL} \cup Letters : Program_writes(c))
            \/ UNCHANGED console_vars
  <2>1. input' = input /\ held' = held /\ odd' = odd
    BY <1>10 DEF Program_reads, Program_writes, console_vars
  <2> QED BY <1>1, <1>3, <2>1
<1> QED BY <1>5, <1>6, <1>7, <1>8, <1>9, <1>10 DEF ConsoleNext, Modifiers, OtherKeys

\* The counters of shift and ctrl follow the keys that are down, for any
\* keyboard that neither repeats nor loses a byte of them, and stay in 0..2
\* for one that does.
THEOREM ModifiersCorrect == ConsoleSpec => []ModifiersFollowKeys
<1>1. ConsoleInit => ModInv
  <2>1. {} \cap Shifts = {} /\ {} \cap Ctrls = {} /\ Cardinality({}) = 0
    BY FS_EmptySet
  <2> QED BY <2>1 DEF ConsoleInit, ModInv, ModifiersFollowKeys, Inputs
<1>2. ModInv => ModifiersFollowKeys
  BY DEF ModInv
<1> QED BY <1>1, <1>2, ModStep, PTL DEF ConsoleSpec
-----------------------------------------------------------------------------
\* the newline behind which the last line of s begins
LineStart(s, b) == (b = 0 \/ s[b] = NL) /\ \A j \in (b + 1)..Len(s) : s[j] # NL

\* the offset of the cursor
Pos(v) == v.y * VGA_WIDTH + v.x

\* in front of the cursor the screen shows the last line of s
ShownFrom(s, v, b) ==
  /\ LineStart(s, b)
  /\ Len(s) - b <= Pos(v)
  /\ \A j \in (b + 1)..Len(s) : v.buf[Pos(v) - Len(s) + j - 1] = s[j]

Shown(s, v) == \E b \in 0..Len(s) : ShownFrom(s, v, b)

\* A place on the screen, or behind its end, is a number.
LEMMA PosLemma ==
  ASSUME NEW v \in Screen
  PROVE  Pos(v) \in Nat /\ v.x \in Nat /\ v.y \in Nat
<1>1. v.x \in Nat /\ v.y \in Nat /\ VGA_WIDTH \in Nat
  BY ScreenAssumption DEF Screen
<1>2. v.y * VGA_WIDTH \in Nat
  BY <1>1
<1> QED BY <1>1, <1>2 DEF Pos

\* vga_putchar() writes a character where the cursor is and moves it one on.
LEMMA PutPos ==
  ASSUME NEW v, OnScreen(v), ~Isfull(v), NEW c \in Keys, c # NL
  PROVE  /\ Pos(Vga_putchar(v, c)) = Pos(v) + 1
         /\ Vga_putchar(v, c).buf[Pos(v)] = c
         /\ \A i \in Cells : i # Pos(v) => Vga_putchar(v, c).buf[i] = v.buf[i]
<1> USE ScreenAssumption
<1> DEFINE w == Vga_write(v, c)
           z == Vga_putchar(v, c)
<1>1. v \in Screen /\ v.x \in 0..(VGA_WIDTH - 1) /\ v.y \in 0..VGA_HEIGHT
      /\ (v.y = VGA_HEIGHT => v.x = 0) /\ v.buf \in [Cells -> Keys \cup {BLANK}]
  BY DEF OnScreen, Screen
<1>2. v.y < VGA_HEIGHT
  BY <1>1 DEF Isfull
<1>3. w \in Screen /\ w.x = v.x /\ w.y = v.y
  BY <1>1, <1>2, WriteLemma
<1>4. w.buf[Pos(v)] = c /\ \A i \in Cells : i # Pos(v) => w.buf[i] = v.buf[i]
  <2> DEFINE off == v.y * VGA_WIDTH + v.x
             b == [i \in DOMAIN v.buf \cup {off} |-> IF i = off THEN c ELSE v.buf[i]]
  <2>1. w = [v EXCEPT !.buf = b]
    BY DEF Vga_write
  <2> HIDE DEF off
  <2>2. b[off] = c /\ \A i \in Cells : i # off => b[i] = v.buf[i]
    BY <1>1
  <2> HIDE DEF b, w
  <2>3. w.buf = b
    BY <1>1, <2>1 DEF Screen
  <2>4. off = Pos(v)
    BY DEF off, Pos
  <2> QED BY Zenon, <2>2, <2>3, <2>4
<1>5. CASE v.x + 1 = VGA_WIDTH
  <2> DEFINE y == w.y + 1
  <2>1. z = [w EXCEPT !.x = 0, !.y = y]
    BY <1>5 DEF Vga_putchar
  <2> HIDE DEF w, z, y
  <2>2. z.buf = w.buf /\ z.x = 0 /\ z.y = y
    BY Zenon, <1>3, <2>1 DEF Screen
  <2>3. y * VGA_WIDTH + 0 = v.y * VGA_WIDTH + v.x + 1
    <3>1. \A n, k \in Nat : (n + 1) * k = n * k + k /\ n * k \in Nat
      OBVIOUS
    <3>2. v.y \in Nat /\ VGA_WIDTH \in Nat
      BY <1>1
    <3>3. (v.y + 1) * VGA_WIDTH = v.y * VGA_WIDTH + VGA_WIDTH /\ v.y * VGA_WIDTH \in Nat
      BY <3>1, <3>2
    <3> QED BY <1>1, <1>3, <1>5, <3>3 DEF y
  <2>4. Pos(z) = Pos(v) + 1
    BY Zenon, <2>2, <2>3 DEF Pos
  <2> HIDE DEF w, z
  <2> QED BY ZenonT(30), <1>4, <2>2, <2>4 DEF z, w
<1>6. CASE v.x + 1 # VGA_WIDTH
  <2> DEFINE x == w.x + 1
  <2>1. z = [w EXCEPT !.x = x]
    BY <1>6 DEF Vga_putchar
  <2> HIDE DEF w, z, x
  <2>2. z.buf = w.buf /\ z.x = x /\ z.y = w.y
    BY Zenon, <1>3, <2>1 DEF Screen
  <2>3. v.x \in Nat /\ v.y * VGA_WIDTH \in Nat
    BY <1>1
  <2>4. Pos(z) = Pos(v) + 1
    BY <1>3, <2>2, <2>3 DEF Pos, x
  <2> QED BY ZenonT(30), <1>4, <2>2, <2>4 DEF z, w
<1> QED BY <1>5, <1>6

\* vga_del_last() moves the cursor one back, also over the border of a row,
\* and clears the cell it comes to.
LEMMA DelPos ==
  ASSUME NEW v, OnScreen(v), Pos(v) > 0
  PROVE  /\ Pos(Vga_del_last(v)) = Pos(v) - 1
         /\ \A i \in Cells : i # Pos(v) - 1 => Vga_del_last(v).buf[i] = v.buf[i]
<1> USE ScreenAssumption
<1> DEFINE w == Back(v)
           z == Vga_del_last(v)
<1>1. v \in Screen /\ v.x \in 0..(VGA_WIDTH - 1) /\ v.y \in 0..VGA_HEIGHT
      /\ v.buf \in [Cells -> Keys \cup {BLANK}]
  BY DEF OnScreen, Screen
<1>2. \A n, k \in Nat : (n + 1) * k = n * k + k /\ n * k \in Nat /\ 0 * k = 0
  OBVIOUS
<1>3. w.buf = v.buf /\ Pos(w) = Pos(v) - 1
  <2>1. CASE v.x > 0
    <3> DEFINE x == v.x - 1
    <3>1. w = [v EXCEPT !.x = x]
      BY <2>1 DEF Back
    <3> HIDE DEF w, x
    <3>2. w.buf = v.buf /\ w.x = x /\ w.y = v.y
      BY Zenon, <1>1, <3>1 DEF Screen
    <3>3. v.y * VGA_WIDTH \in Nat /\ v.x \in Nat
      BY <1>1
    <3> QED BY <3>2, <3>3 DEF Pos, x
  <2>2. CASE ~(v.x > 0) /\ v.y = 0
    <3>1. v.x = 0 /\ 0 * VGA_WIDTH = 0
      BY <1>1, <1>2, <2>2
    <3> QED BY <2>2, <3>1 DEF Pos, Back
  <2>3. CASE ~(v.x > 0) /\ v.y # 0
    <3> DEFINE x == VGA_WIDTH - 1
               y == v.y - 1
    <3>1. w = [v EXCEPT !.x = x, !.y = y]
      BY <2>3 DEF Back
    <3>2. y \in Nat /\ v.y = y + 1 /\ v.x = 0 /\ VGA_WIDTH \in Nat
      BY <1>1, <2>3
    <3> HIDE DEF w, y
    <3>3. w.buf = v.buf /\ w.x = x /\ w.y = y
      BY Zenon, <1>1, <3>1 DEF Screen
    <3>4. (y + 1) * VGA_WIDTH = y * VGA_WIDTH + VGA_WIDTH /\ y * VGA_WIDTH \in Nat
      BY <1>2, <3>2
    <3> QED BY <3>2, <3>3, <3>4 DEF Pos
  <2> QED BY <2>1, <2>2, <2>3
<1>4. z = Vga_write(w, BLANK)
  BY BackLemma
<1> HIDE DEF w
<1> DEFINE off == w.y * VGA_WIDTH + w.x
           b == [i \in DOMAIN w.buf \cup {off} |-> IF i = off THEN BLANK ELSE w.buf[i]]
<1>5. Vga_write(w, BLANK) = [w EXCEPT !.buf = b]
  BY DEF Vga_write
<1> HIDE DEF off
<1>6. \A i \in Cells : i # off => b[i] = v.buf[i]
  BY <1>1, <1>3
<1> HIDE DEF b
<1>7. w \in Screen
  BY BackLemma DEF w
<1>8. z.buf = b /\ z.x = w.x /\ z.y = w.y
  BY Zenon, <1>4, <1>5, <1>7 DEF Screen
<1>9. Pos(z) = Pos(w) /\ off = Pos(w)
  BY <1>8 DEF Pos, off
<1> QED BY Zenon, <1>3, <1>6, <1>8, <1>9

\* A line shown on the screen ends in front of the cursor, inside the screen.
LEMMA ShownCells ==
  ASSUME NEW v, OnScreen(v), NEW n \in Nat, NEW b \in 0..n, n - b <= Pos(v), NEW j \in (b + 1)..n
  PROVE  Pos(v) - n + j - 1 \in Cells /\ Pos(v) - n + j - 1 < Pos(v)
<1>1. v \in Screen /\ v.x \in 0..(VGA_WIDTH - 1) /\ v.y \in 0..VGA_HEIGHT
      /\ (v.y = VGA_HEIGHT => v.x = 0)
  BY DEF OnScreen, Screen
<1>2. Pos(v) <= VGA_WIDTH * VGA_HEIGHT /\ Pos(v) \in Nat /\ VGA_WIDTH * VGA_HEIGHT \in Nat
  <2>1. VGA_WIDTH \in Nat /\ VGA_HEIGHT \in Nat /\ VGA_WIDTH * VGA_HEIGHT \in Nat /\ Pos(v) \in Nat
    BY ScreenAssumption, <1>1, PosLemma
  <2>2. CASE v.y = VGA_HEIGHT
    <3>1. \A x, y \in Nat : x * y = y * x
      OBVIOUS
    <3>2. VGA_HEIGHT * VGA_WIDTH = VGA_WIDTH * VGA_HEIGHT
      BY <2>1, <3>1
    <3> QED BY <1>1, <2>1, <2>2, <3>2 DEF Pos
  <2>3. CASE v.y # VGA_HEIGHT
    <3>1. v.y \in 0..(VGA_HEIGHT - 1)
      BY <1>1, <2>1, <2>3
    <3>2. Pos(v) \in Cells
      BY <1>1, <3>1, CellLemma DEF Pos
    <3> QED BY <2>1, <3>2 DEF Cells
  <2> QED BY <2>1, <2>2, <2>3
<1> QED BY <1>2 DEF Cells

\* A character that the ring and the screen take lengthens the line on both.
LEMMA PutShown ==
  ASSUME NEW s \in Seq(Chars), NEW v, OnScreen(v), ~Isfull(v), Shown(s, v), NEW c \in Letters
  PROVE  Shown(Append(s, c), Vga_putchar(v, c))
<1> DEFINE z == Vga_putchar(v, c)
           u == Append(s, c)
           n == Len(s)
<1>1. PICK b \in 0..n : ShownFrom(s, v, b)
  BY Zenon DEF Shown
<1>2. n \in Nat /\ Len(u) = n + 1 /\ u[n + 1] = c /\ \A j \in 1..n : u[j] = s[j]
  OBVIOUS
<1>3. c \in Keys /\ c # NL
  BY CharAssumption DEF Keys
<1>4. /\ Pos(z) = Pos(v) + 1 /\ z.buf[Pos(v)] = c
      /\ \A i \in Cells : i # Pos(v) => z.buf[i] = v.buf[i]
  BY Zenon, <1>3, PutPos
<1>5. Pos(v) \in Nat
  BY PosLemma DEF OnScreen
<1> HIDE DEF z, u, n
<1>6. /\ b = 0 \/ s[b] = NL
      /\ \A j \in (b + 1)..n : s[j] # NL
      /\ n - b <= Pos(v)
      /\ \A j \in (b + 1)..n : v.buf[Pos(v) - n + j - 1] = s[j]
  BY Zenon, <1>1 DEF ShownFrom, LineStart, n
<1>7. b \in 0..(n + 1) /\ (b = 0 \/ u[b] = NL)
  BY <1>2, <1>6
<1>8. ASSUME NEW j \in (b + 1)..(n + 1) PROVE u[j] # NL /\ z.buf[Pos(z) - (n + 1) + j - 1] = u[j]
  <2>1. CASE j = n + 1
    <3>1. Pos(z) - (n + 1) + j - 1 = Pos(v)
      BY <1>2, <1>4, <1>5, <2>1
    <3> QED BY ZenonT(30), <1>2, <1>3, <1>4, <2>1, <3>1
  <2>2. CASE j # n + 1
    <3> DEFINE q == Pos(v) - n + j - 1
    <3>1. j \in (b + 1)..n /\ j \in 1..n
      BY <1>2, <2>2
    <3>2. q \in Cells /\ q < Pos(v)
      BY ZenonT(30), <1>2, <1>6, <3>1, ShownCells
    <3>3. q # Pos(v) /\ Pos(z) - (n + 1) + j - 1 = q
      BY <1>2, <1>4, <1>5, <3>1, <3>2
    <3>4. v.buf[q] = s[j] /\ s[j] # NL
      BY Zenon, <1>6, <3>1
    <3> HIDE DEF q
    <3> QED BY ZenonT(30), <1>2, <1>4, <3>1, <3>2, <3>3, <3>4
  <2> QED BY <2>1, <2>2
<1>9. n + 1 - b <= Pos(z)
  BY <1>2, <1>4, <1>5, <1>6
<1>10. ShownFrom(u, z, b)
  <2>1. \A j \in (b + 1)..Len(u) : u[j] # NL /\ z.buf[Pos(z) - Len(u) + j - 1] = u[j]
    BY Zenon, <1>2, <1>8
  <2>2. Len(u) - b <= Pos(z)
    BY SMTT(30), <1>2, <1>4, <1>5, <1>9
  <2> QED BY Zenon, <1>7, <2>1, <2>2 DEF ShownFrom, LineStart
<1>11. Shown(u, z)
  BY Zenon, <1>2, <1>7, <1>10 DEF Shown
<1> QED BY Zenon, <1>11 DEF u, z

\* A new line is shown wherever the cursor is.
LEMMA NewlineShown ==
  ASSUME NEW s \in Seq(Chars), NEW v \in Screen
  PROVE  Shown(Append(s, NL), v)
<1> DEFINE u == Append(s, NL)
           b == Len(u)
<1>1. b \in Nat /\ b >= 1 /\ u[b] = NL
  BY DEF Chars
<1>2. Pos(v) \in Nat
  BY PosLemma
<1> HIDE DEF u
<1>3. b \in 0..Len(u) /\ (b + 1)..Len(u) = {} /\ Len(u) - b <= Pos(v)
  BY <1>1, <1>2
<1>4. ShownFrom(u, v, b)
  BY Zenon, <1>1, <1>3 DEF ShownFrom, LineStart
<1>5. Shown(u, v)
  BY Zenon, <1>3, <1>4 DEF Shown
<1> QED BY <1>5 DEF u

\* The characters of a sequence but the last.
LEMMA SubSeqLemma ==
  ASSUME NEW s \in Seq(Chars), Len(s) > 0
  PROVE  /\ Len(s) \in Nat /\ Len(s) >= 1
         /\ Len(SubSeq(s, 1, Len(s) - 1)) = Len(s) - 1
         /\ \A j \in 1..(Len(s) - 1) : SubSeq(s, 1, Len(s) - 1)[j] = s[j]
<1> DEFINE n == Len(s) - 1
<1>1. n \in Nat /\ (\A i \in 1..n : s[i] \in Chars) /\ Len(s) \in Nat /\ Len(s) >= 1
  OBVIOUS
<1> HIDE DEF n
<1>2. Len(SubSeq(s, 1, n)) = IF 1 <= n THEN n - 1 + 1 ELSE 0
  BY <1>1, SubSeqProperties
<1>3. Len(SubSeq(s, 1, n)) = n
  BY <1>1, <1>2
<1>4. \A j \in 1..n : SubSeq(s, 1, n)[j] = s[j]
  BY <1>1 DEF n
<1> QED BY Zenon, <1>1, <1>3, <1>4 DEF n

\* An erased character shortens the line on both.
LEMMA EraseShown ==
  ASSUME NEW s \in Seq(Chars), NEW v, OnScreen(v), Shown(s, v), Len(s) > 0, s[Len(s)] # NL
  PROVE  Shown(SubSeq(s, 1, Len(s) - 1), Vga_del_last(v))
<1> DEFINE z == Vga_del_last(v)
           u == SubSeq(s, 1, Len(s) - 1)
           n == Len(s)
<1>1. PICK b \in 0..n : ShownFrom(s, v, b)
  BY Zenon DEF Shown
<1>2. n \in Nat /\ n >= 1 /\ Len(u) = n - 1 /\ \A j \in 1..(n - 1) : u[j] = s[j]
  BY SubSeqLemma
<1>3. Pos(v) \in Nat
  BY PosLemma DEF OnScreen
<1> HIDE DEF z, u
<1>4. /\ b = 0 \/ s[b] = NL
      /\ \A j \in (b + 1)..n : s[j] # NL
      /\ n - b <= Pos(v)
      /\ \A j \in (b + 1)..n : v.buf[Pos(v) - n + j - 1] = s[j]
  BY Zenon, <1>1 DEF ShownFrom, LineStart
<1>5. b # n
  BY <1>2, <1>4
<1> HIDE DEF n
<1>6. b \in 0..(n - 1) /\ (b = 0 \/ u[b] = NL) /\ Pos(v) > 0
  BY <1>2, <1>3, <1>4, <1>5
<1>7. Pos(z) = Pos(v) - 1 /\ \A i \in Cells : i # Pos(v) - 1 => z.buf[i] = v.buf[i]
  BY Zenon, <1>6, DelPos DEF z
<1>8. ASSUME NEW j \in (b + 1)..(n - 1) PROVE u[j] # NL /\ z.buf[Pos(z) - (n - 1) + j - 1] = u[j]
  <2> DEFINE q == Pos(v) - n + j - 1
  <2>1. j \in (b + 1)..n /\ j \in 1..(n - 1)
    BY <1>2
  <2>2. q \in Cells
    BY ZenonT(30), <1>2, <1>4, <2>1, ShownCells
  <2>3. q # Pos(v) - 1 /\ Pos(z) - (n - 1) + j - 1 = q
    BY SMTT(30), <1>2, <1>3, <1>7, <2>1
  <2>4. v.buf[q] = s[j] /\ s[j] # NL /\ u[j] = s[j]
    BY Zenon, <1>2, <1>4, <2>1
  <2> HIDE DEF q
  <2> QED BY ZenonT(30), <1>7, <2>2, <2>3, <2>4
<1>9. ShownFrom(u, z, b)
  <2>1. \A j \in (b + 1)..Len(u) : u[j] # NL /\ z.buf[Pos(z) - Len(u) + j - 1] = u[j]
    BY Zenon, <1>2, <1>8
  <2>2. Len(u) - b <= Pos(z)
    BY <1>2, <1>3, <1>4, <1>7
  <2> QED BY Zenon, <1>6, <2>1, <2>2 DEF ShownFrom, LineStart
<1>10. Shown(u, z)
  BY Zenon, <1>2, <1>6, <1>9 DEF Shown
<1> QED BY Zenon, <1>10 DEF u, z, n

\* A read takes characters of finished lines and leaves the last one alone.
LEMMA ReadShown ==
  ASSUME NEW s \in Seq(Chars), NEW v \in Screen, Shown(s, v), LinesIn(s) # {},
         NEW k \in 1..Len(s), \A i \in 1..(k - 1) : s[i] # NL
  PROVE  Shown(SubSeq(s, k + 1, Len(s)), v)
<1> DEFINE u == SubSeq(s, k + 1, Len(s))
           n == Len(s)
<1>1. PICK b \in 0..n : ShownFrom(s, v, b)
  BY Zenon DEF Shown
<1>2. n \in Nat /\ Len(u) = n - k /\ \A i \in 1..(n - k) : u[i] = s[i + k]
  OBVIOUS
<1>3. Pos(v) \in Nat
  BY PosLemma
<1> HIDE DEF u, n
<1>4. /\ b = 0 \/ s[b] = NL
      /\ \A j \in (b + 1)..n : s[j] # NL
      /\ n - b <= Pos(v)
      /\ \A j \in (b + 1)..n : v.buf[Pos(v) - n + j - 1] = s[j]
  BY Zenon, <1>1 DEF ShownFrom, LineStart, n
<1>5. k <= b
  <2> SUFFICES ASSUME b < k PROVE FALSE
    BY <1>2 DEF n
  <2>1. PICK i \in 1..n : s[i] = NL
    BY DEF LinesIn, n
  <2>2. i <= b
    BY <1>2, <1>4, <2>1
  <2>3. b \in 1..(k - 1)
    BY <1>2, <2>1, <2>2 DEF n
  <2> QED BY <1>4, <2>3
<1> DEFINE c == b - k
<1>6. c \in 0..(n - k) /\ (c = 0 \/ u[c] = NL)
  <2>1. c \in 0..(n - k) /\ c + k = b
    BY <1>2, <1>5 DEF n
  <2>2. CASE c # 0
    <3>1. c \in 1..(n - k) /\ b # 0
      BY <1>2, <1>5, <2>1, <2>2 DEF n
    <3>2. u[c] = s[c + k]
      BY Zenon, <1>2, <3>1
    <3> QED BY <1>4, <2>1, <3>1, <3>2
  <2> QED BY <2>1, <2>2
<1>7. ASSUME NEW j \in (c + 1)..(n - k) PROVE u[j] # NL /\ v.buf[Pos(v) - (n - k) + j - 1] = u[j]
  <2>1. j \in 1..(n - k) /\ j + k \in (b + 1)..n /\ Pos(v) - (n - k) + j - 1 = Pos(v) - n + (j + k) - 1
    BY SMTT(30), <1>2, <1>3, <1>5 DEF n
  <2>2. u[j] = s[j + k]
    BY Zenon, <1>2, <2>1
  <2> QED BY Zenon, <1>4, <2>1, <2>2
<1> HIDE DEF c
<1>8. ShownFrom(u, v, c)
  <2>1. \A j \in (c + 1)..Len(u) : u[j] # NL /\ v.buf[Pos(v) - Len(u) + j - 1] = u[j]
    BY Zenon, <1>2, <1>7
  <2>2. Len(u) - c <= Pos(v)
    BY <1>2, <1>3, <1>4 DEF c, n
  <2> QED BY Zenon, <1>6, <2>1, <2>2 DEF ShownFrom, LineStart
<1>9. Shown(u, v)
  BY Zenon, <1>2, <1>6, <1>8 DEF Shown
<1> QED BY Zenon, <1>9 DEF u, n

\* What the property says of the line being typed.
LEMMA ShownSays ==
  ASSUME tty \in Ring, OnScreen(vga), ~apart => Shown(Contents(tty), vga)
  PROVE  EchoIsTheLine
<1> DEFINE s == Contents(tty)
           n == Len(s)
           L == {0} \cup {i \in DOMAIN s : s[i] = NL}
           p == vga.y * VGA_WIDTH + vga.x
<1>1. s \in Seq(Chars) /\ n \in Nat /\ DOMAIN s = 1..n
  BY ContentsLemma
<1>2. p = Pos(vga) /\ Pos(vga) \in Nat
  BY PosLemma DEF OnScreen, Pos
<1> HIDE DEF s, p
<1> SUFFICES ASSUME ~apart
             PROVE  /\ Len(Unfinished) <= p
                    /\ \A i \in DOMAIN Unfinished : vga.buf[p - Len(Unfinished) + i - 1] = Unfinished[i]
  BY Zenon DEF EchoIsTheLine, p
<1>3. PICK b \in 0..n : ShownFrom(s, vga, b)
  BY Zenon DEF Shown, s
<1>4. /\ b = 0 \/ s[b] = NL
      /\ \A j \in (b + 1)..n : s[j] # NL
      /\ n - b <= p
      /\ \A j \in (b + 1)..n : vga.buf[p - n + j - 1] = s[j]
  BY Zenon, <1>2, <1>3 DEF ShownFrom, LineStart
<1>5. Max(L) = b
  <2>1. b \in L /\ \A y \in L : b >= y
    BY <1>1, <1>4
  <2>2. \A x \in L : (\A y \in L : x >= y) => x = b
    BY <1>1, <2>1
  <2> HIDE DEF L
  <2> QED BY Zenon, <2>1, <2>2 DEF Max
<1>6. Unfinished = SubSeq(s, b + 1, n)
  BY ZenonT(30), <1>5 DEF Unfinished, s
<1> HIDE DEF L
<1> DEFINE u == SubSeq(s, b + 1, n)
<1>7. Len(u) = n - b /\ DOMAIN u = 1..(n - b) /\ \A i \in 1..(n - b) : u[i] = s[i + b]
  <2>1. Len(u) = n - b
    <3>1. b + 1 \in Int /\ n \in Int /\ (\A i \in (b + 1)..n : s[i] \in Chars)
      BY <1>1
    <3> HIDE DEF n
    <3>2. Len(SubSeq(s, b + 1, n)) = IF b + 1 <= n THEN n - (b + 1) + 1 ELSE 0
      BY ZenonT(30), <3>1, SubSeqProperties
    <3> QED BY <1>1, <3>2
  <2>2. DOMAIN u = 1..(n - b)
    BY <1>1
  <2>3. \A i \in 1..(n - b) : u[i] = s[i + b]
    BY SMTT(30), <1>1
  <2> QED BY ZenonT(30), <2>1, <2>2, <2>3
<1> HIDE DEF u, n
<1>8. ASSUME NEW i \in DOMAIN u PROVE vga.buf[p - Len(u) + i - 1] = u[i]
  <2>1. i \in 1..(n - b) /\ i + b \in (b + 1)..n /\ p - (n - b) + i - 1 = p - n + (i + b) - 1
    BY SMTT(30), <1>1, <1>2, <1>7
  <2>2. u[i] = s[i + b] /\ vga.buf[p - n + (i + b) - 1] = s[i + b]
    BY Zenon, <1>4, <1>7, <2>1
  <2> QED BY Zenon, <1>7, <2>1, <2>2
<1>9. Len(u) <= p
  BY Zenon, <1>4, <1>7
<1> QED BY ZenonT(30), <1>6, <1>8, <1>9 DEF u, n

EchoInv == RingInv /\ OnScreen(vga) /\ (~apart => Shown(Contents(tty), vga))

\* A key keeps the line and its echo together, unless one of them drops it.
LEMMA PushEcho ==
  ASSUME EchoInv, NEW c \in Keys, Tty_push_char(c), ~apart'
  PROVE  Shown(Contents(tty'), vga')
<1> DEFINE s == Contents(tty)
           full == (tty.tail + 1) % TTY_BUF_SIZE = tty.head
<1>1. tty \in Ring /\ OnScreen(vga) /\ (~apart => Shown(s, vga))
  BY Zenon DEF EchoInv, RingInv, TypeOK, Ring
<1>2. s \in Seq(Chars) /\ Len(s) = Used(tty) /\ Used(tty) \in Nat
  BY <1>1, ContentsLemma
<1>3. tty' = Push_char(tty, c) /\ vga' = Echo(c) /\ Careful(c) /\ ~Parts(c)
  BY Zenon DEF Tty_push_char, Push
<1> HIDE DEF s
<1>4. CASE c = BS
  <2>1. c # NL
    BY <1>4, CharAssumption
  <2>2. Shown(s, vga)
    BY Zenon, <1>1, <1>3, <2>1 DEF Parts
  <2>3. CASE tty.head = tty.tail
    <3>1. vga' = vga
      BY Zenon, <1>3, <1>4, <2>3 DEF Echo
    <3>2. Contents(tty') = s
      BY <1>3, <1>4, <2>3 DEF Push_char, Handle_backspace, s
    <3> QED BY Zenon, <2>2, <3>1, <3>2
  <2>4. CASE tty.head # tty.tail
    <3>1. vga' = Vga_del_last(vga)
      BY Zenon, <1>3, <1>4, <2>4 DEF Echo
    <3>2. Used(tty) > 0 /\ Last(tty) = s[Used(tty)]
          /\ Contents(tty') = SubSeq(s, 1, Used(tty) - 1)
      BY ZenonT(30), <1>1, <1>3, <1>4, <2>4, EraseContents DEF s
    <3>3. Last(tty) # NL
      BY Zenon, <1>3, <1>4, <2>4 DEF Careful
    <3>4. Len(s) > 0 /\ s[Len(s)] # NL
      BY Zenon, <1>2, <3>2, <3>3
    <3>5. Shown(SubSeq(s, 1, Len(s) - 1), Vga_del_last(vga))
      BY ZenonT(30), <1>1, <1>2, <2>2, <3>4, EraseShown
    <3> QED BY Zenon, <1>2, <3>1, <3>2, <3>5
  <2> QED BY <2>3, <2>4
<1>5. CASE c = NL
  <2>1. c # BS /\ ~full
    BY Zenon, <1>3, <1>5, CharAssumption DEF Careful
  <2>2. Contents(tty') = Append(s, NL)
    BY ZenonT(30), <1>1, <1>3, <1>5, <2>1, PushContents DEF s
  <2>3. OnScreen(vga')
    BY Zenon, <1>1, <1>3, <2>1, PutLemma DEF Echo
  <2>4. vga' \in Screen
    BY <2>3 DEF OnScreen
  <2> QED BY Zenon, <1>2, <2>2, <2>4, NewlineShown
<1>6. CASE c # BS /\ c # NL
  <2>1. c \in Letters /\ ~full /\ ~Isfull(vga) /\ Shown(s, vga)
    BY Zenon, <1>1, <1>3, <1>6 DEF Parts, Keys
  <2>2. Contents(tty') = Append(s, c)
    BY ZenonT(30), <1>1, <1>3, <1>6, <2>1, PushContents DEF s
  <2>3. vga' = Vga_putchar(vga, c)
    BY Zenon, <1>3, <1>6 DEF Echo
  <2>4. Shown(Append(s, c), Vga_putchar(vga, c))
    BY Zenon, <1>1, <1>2, <2>1, PutShown
  <2> QED BY Zenon, <2>2, <2>3, <2>4
<1> QED BY <1>4, <1>5, <1>6

\* The program's read leaves the line that is being typed.
LEMMA ReadEcho ==
  ASSUME EchoInv, NEW n \in 1..MaxCount, Read(n), UNCHANGED <<vga, apart>>, ~apart'
  PROVE  Shown(Contents(tty'), vga')
<1> DEFINE s == Contents(tty)
           k == Read_len(tty, n)
<1>1. tty \in Ring /\ vga \in Screen /\ Shown(s, vga) /\ RingInv
  BY Zenon DEF EchoInv, RingInv, TypeOK, Ring, OnScreen
<1>2. s \in Seq(Chars) /\ Len(s) = Used(tty)
  BY <1>1, ContentsLemma
<1>3. k > 0 /\ tty' = After_read(tty, k)
  BY DEF Read
<1>4. LinesIn(s) # {} /\ k \in 1..Used(tty) /\ \A i \in 1..(k - 1) : s[i] # NL
  BY Zenon, <1>1, <1>3, ReadFits
<1>5. tty.canon_lines > 0
  BY Zenon, <1>1, <1>3, ReadType DEF Has_line
<1> HIDE DEF s, k
<1>6. Contents(tty') = SubSeq(s, k + 1, Used(tty))
  BY ZenonT(30), <1>1, <1>3, <1>4, <1>5, ReadContents DEF s
<1>7. Shown(SubSeq(s, k + 1, Len(s)), vga)
  BY Zenon, <1>1, <1>2, <1>4, ReadShown
<1> QED BY Zenon, <1>2, <1>6, <1>7

\* Every step of the console keeps what the screen shows and the line alike.
LEMMA EchoStep == EchoInv /\ [ConsoleNext]_console_vars => EchoInv'
<1> SUFFICES ASSUME EchoInv, [ConsoleNext]_console_vars PROVE EchoInv'
  OBVIOUS
<1>1. RingInv'
  BY Zenon, CarefulStep, RingInvStep DEF EchoInv
<1>2. OnScreen(vga')
  BY Zenon, ScreenStep DEF EchoInv
<1>3. ~apart' => Shown(Contents(tty'), vga')
  <2>1. ASSUME NEW c \in {NL} \cup Letters, Program_writes(c) PROVE apart'
    BY Zenon, <2>1 DEF Program_writes
  <2>2. CASE Idle \/ UNCHANGED console_vars
    <3>1. tty' = tty /\ vga' = vga /\ apart' = apart
      BY <2>2 DEF Idle, console_vars
    <3> QED BY Zenon, <3>1 DEF EchoInv
  <2>3. ASSUME NEW n \in 1..MaxCount, Read(n), UNCHANGED <<vga, apart>>, ~apart'
        PROVE  Shown(Contents(tty'), vga')
    BY Zenon, <2>3, ReadEcho
  <2>4. ASSUME NEW c \in Keys, Tty_push_char(c), ~apart'
        PROVE  Shown(Contents(tty'), vga')
    BY ZenonT(30), <2>4, PushEcho
  <2> QED BY ZenonT(30), <2>1, <2>2, <2>3, <2>4, StepLemma
<1> QED BY Zenon, <1>1, <1>2, <1>3 DEF EchoInv, OnScreen, Shown, ShownFrom, LineStart, Pos, Contents

\* Whatever is typed, erased and read, in front of the cursor the user sees the
\* line the program will get, until a program writes into it or the ring or the
\* screen drops a character; and again from the next newline on.
THEOREM EchoCorrect == ConsoleSpec => []EchoIsTheLine
<1>1. ConsoleInit => EchoInv
  <2> SUFFICES ASSUME ConsoleInit PROVE EchoInv
    OBVIOUS
  <2>1. RingInv
    BY Zenon, RingInvInit DEF ConsoleInit
  <2>2. OnScreen(vga)
    BY Zenon, ScreenInit
  <2>3. tty \in Ring /\ vga \in Screen
    BY Zenon, <2>1, <2>2 DEF RingInv, TypeOK, Ring, OnScreen
  <2>4. Contents(tty) \in Seq(Chars) /\ Len(Contents(tty)) = 0
    BY <2>3, ContentsLemma, SizeAssumption DEF ConsoleInit, Init, Empty_tty, Used
  <2>5. Pos(vga) \in Nat
    BY <2>3, PosLemma
  <2>6. ShownFrom(Contents(tty), vga, 0)
    BY <2>4, <2>5 DEF ShownFrom, LineStart
  <2>7. Shown(Contents(tty), vga)
    BY <2>4, <2>6 DEF Shown
  <2> QED BY Zenon, <2>1, <2>2, <2>7 DEF EchoInv
<1>2. EchoInv => EchoIsTheLine
  BY Zenon, ShownSays DEF EchoInv, RingInv, TypeOK, Ring
<1> QED BY <1>1, <1>2, EchoStep, PTL DEF ConsoleSpec

-----------------------------------------------------------------------------
(* The machine around it.                                                  *)

\* A step of kmain() or of the keyboard is a step of the console or leaves the
\* console alone.
LEMMA KeyboardStep == ASSUME [KeyboardNext]_keyboard_vars PROVE [ConsoleNext]_console_vars
<1>1. CASE Keyboard_irq BY SMTT(30), <1>1 DEF Keyboard_irq, ConsoleNext
<1>2. CASE Program BY SMTT(30), <1>2 DEF Program, ConsoleNext
<1>3. CASE Pending_irq BY SMTT(30), <1>3 DEF Pending_irq, ConsoleNext
<1>4. CASE UNCHANGED keyboard_vars BY SMTT(30), <1>4 DEF keyboard_vars
<1>5. CASE Setup_stage2 \/ Ps2_test \/ Enable_first_port \/ Reset_devices
  BY SMTT(30), <1>5 DEF Setup_stage2, Ps2_test, Enable_first_port, Reset_devices
<1>6. CASE Request_keyboard \/ Timer_irq_init \/ Local_irq_enable \/ Key_at_boot \/ Unheard
  BY SMTT(30), <1>6 DEF Request_keyboard, Timer_irq_init, Local_irq_enable, Key_at_boot, Unheard
<1> QED BY SMTT(30), <1>1, <1>2, <1>3, <1>4, <1>5, <1>6 DEF KeyboardNext

\* Bringing the keyboard up and running it is a behaviour of the console.
THEOREM KeyboardIsConsole == KeyboardSpec => ConsoleSpec
<1>1. KeyboardInit => ConsoleInit BY DEF KeyboardInit
<1>2. [KeyboardNext]_keyboard_vars => [ConsoleNext]_console_vars BY SMTT(30), KeyboardStep
<1> QED BY <1>1, <1>2, PTL DEF KeyboardSpec, ConsoleSpec

\* From the first instruction of kmain() on, what the programs get from the
\* terminal is what a queue of lines would give them.
THEOREM KeyboardImplements == KeyboardSpec => ImplementsLineQueue
BY KeyboardIsConsole, ConsoleImplements, PTL

\* And what the user sees in front of the cursor is the line they will get.
THEOREM KeyboardEcho == KeyboardSpec => []EchoIsTheLine
BY KeyboardIsConsole, EchoCorrect, PTL

-----------------------------------------------------------------------------
\* what holds at each place of kmain()
Unrouted == boot \in {"apic", "ps2", "enable", "reset", "request"}

Routes ==
  /\ redir \in [Pins -> Nat] /\ DOMAIN irq_table = 0..(NR_IRQS - 1)
  /\ \A pin \in Pins : redir[pin] \in {0, IRQ_BASE + IRQ_PS2}
  /\ Unrouted => irq_table[IRQ_PS2] = "none" /\ irq_table[IRQ_TIMER] = "none"
  /\ Unrouted => \A pin \in Pins : redir[pin] = 0
  /\ boot \in {"timer", "sti", "on"} => irq_table[IRQ_PS2] = "ps2_irq"
  /\ boot \in {"sti", "on"} => irq_table[IRQ_TIMER] = "timer_irq_handler"

Bytes ==
  /\ ctl \in [port : BOOLEAN, full : BOOLEAN, early : BOOLEAN] /\ irr \in BOOLEAN
  /\ boot \in {"apic", "ps2", "enable"} => ~ctl.port /\ ~ctl.early /\ ~irr
  /\ boot = "enable" => ~ctl.full
  /\ boot \in {"reset", "request"} => ~irr /\ (ctl.early <=> ctl.full)
  /\ boot \in {"timer", "sti", "on"} /\ redir[wire] # 0 =>
       /\ irr <=> ctl.full /\ ~ctl.early
       /\ ctl.early => ctl.full

\* the inductive invariant of kmain()
KInv ==
  /\ boot \in {"apic", "ps2", "enable", "reset", "request", "timer", "sti", "on", "panic"}
  /\ wire \in Pins /\ Routes /\ Bytes

USE IrqAssumption, PinAssumption DEF IRQ_TIMER, IRQ_PS2

\* kmain() starts with every pin masked, no handler and the port off.
LEMMA KInvInit == KeyboardInit => KInv
<1> SUFFICES ASSUME KeyboardInit PROVE KInv OBVIOUS
<1>1. Routes
  <2>1. 0 \in 0..(NR_IRQS - 1) /\ 1 \in 0..(NR_IRQS - 1) OBVIOUS
  <2>2. /\ redir = [pin \in Pins |-> 0] /\ boot = "apic"
        /\ irq_table = [irq \in 0..(NR_IRQS - 1) |-> "none"] BY DEF KeyboardInit
  <2> QED BY SMTT(30), <2>1, <2>2 DEF Routes, Unrouted
<1>2. Bytes
  <2>1. /\ ctl \in [port : {FALSE}, full : BOOLEAN, early : {FALSE}]
        /\ boot = "apic" /\ irr = FALSE BY ZenonT(30) DEF KeyboardInit
  <2> QED BY Zenon, <2>1 DEF Bytes
<1> QED BY SMTT(30), <1>1, <1>2 DEF KeyboardInit, KInv

\* request_irq() keeps the table and the routes in step.
LEMMA RequestStep ==
  ASSUME KInv, Request_keyboard \/ Timer_irq_init PROVE KInv'
<1>1. CASE Request_keyboard
  <2>1. boot = "request" /\ UNCHANGED <<wire, ctl, irr>> BY SMTT(30), <1>1 DEF Request_keyboard
  <2>2. /\ boot' \in {"timer", "panic"}
        /\ irq_table' = [irq_table EXCEPT ![1] = "ps2_irq"]
        /\ redir' = redir \/ redir' = [redir EXCEPT ![Gsi(1)] = IRQ_BASE + 1]
    BY SMTT(30), <1>1, <2>1 DEF Request_keyboard, Request_irq, Apic_route_irq, KInv, Routes, Unrouted
  <2>3. Routes' BY SMTT(30), <2>1, <2>2 DEF KInv, Routes, Unrouted
  <2>4. Bytes' BY SMTT(30), <2>1, <2>2 DEF KInv, Bytes
  <2> QED BY SMTT(30), <2>1, <2>2, <2>3, <2>4 DEF KInv, Pins
<1>2. CASE Timer_irq_init
  <2>1. boot = "timer" /\ UNCHANGED <<wire, ctl, irr>> BY SMTT(30), <1>2 DEF Timer_irq_init
  <2>2. /\ boot' \in {"sti", "panic"} /\ redir' = redir
        /\ irq_table' = irq_table \/ irq_table' = [irq_table EXCEPT ![0] = "timer_irq_handler"]
        /\ boot' = "sti" => irq_table' = [irq_table EXCEPT ![0] = "timer_irq_handler"]
    BY SMTT(30), <1>2 DEF Timer_irq_init, Request_irq
  <2>3. Routes' BY SMTT(30), <2>1, <2>2 DEF KInv, Routes, Unrouted
  <2>4. Bytes' BY SMTT(30), <2>1, <2>2 DEF KInv, Bytes
  <2> QED BY SMTT(30), <2>1, <2>2, <2>3, <2>4 DEF KInv, Pins
<1> QED BY <1>1, <1>2

\* Every step of kmain(), of the keyboard and of the programs keeps the
\* invariant.
LEMMA KInvStep == ASSUME KInv, [KeyboardNext]_keyboard_vars PROVE KInv'
<1>1. CASE Setup_stage2 BY SMTT(30), <1>1 DEF Setup_stage2, KInv, Routes, Bytes, Unrouted, Pins
<1>2. CASE Ps2_test BY Zenon, <1>2 DEF Ps2_test, KInv, Routes, Bytes, Unrouted, Pins
<1>3. CASE Enable_first_port BY Zenon, <1>3 DEF Enable_first_port, KInv, Routes, Bytes, Unrouted, Pins
<1>4. CASE Reset_devices BY Zenon, <1>4 DEF Reset_devices, KInv, Routes, Bytes, Unrouted, Pins
<1>5. CASE Request_keyboard \/ Timer_irq_init BY <1>5, RequestStep
<1>6. CASE Local_irq_enable BY <1>6 DEF Local_irq_enable, KInv, Routes, Bytes, Unrouted, Pins
<1>7. CASE Key_at_boot
  <2> DEFINE routed == redir[wire] # 0
  <2>1. /\ ctl' = [ctl EXCEPT !.full = TRUE, !.early = ~routed] /\ irr' = routed
        /\ ctl.port /\ boot \notin {"on", "panic"}
        /\ UNCHANGED <<boot, wire, irq_table, redir>> BY SMTT(30), <1>7 DEF Key_at_boot
  <2>2. Routes' BY SMTT(30), <2>1 DEF KInv, Routes, Unrouted, Pins
  <2>3. boot \in {"reset", "request"} => ~routed BY DEF KInv, Routes, Unrouted
  <2>4. routed \in BOOLEAN /\ (routed' <=> routed) BY SMTT(30), <2>1
  <2> HIDE DEF routed
  <2>5. ctl \in [port : BOOLEAN, full : BOOLEAN, early : BOOLEAN] BY DEF KInv, Bytes
  <2>6. /\ ctl' \in [port : BOOLEAN, full : BOOLEAN, early : BOOLEAN]
        /\ ctl'.full /\ (ctl'.early <=> ~routed) BY ZenonT(30), <2>1, <2>4, <2>5
  <2>7. boot \in {"reset", "request", "timer", "sti"} BY <2>1 DEF KInv, Bytes
  <2>8. Bytes'
    <3>1. redir'[wire'] # 0 => routed BY SMTT(30), <2>1 DEF routed
    <3> QED BY SMTT(30), <2>1, <2>3, <2>4, <2>6, <2>7, <3>1 DEF Bytes
  <2> QED BY SMTT(30), <2>1, <2>2, <2>8 DEF KInv, Pins
<1>8. CASE Pending_irq BY ZenonT(30), <1>8 DEF Pending_irq, KInv, Routes, Bytes, Unrouted, Pins
<1>9. CASE Unheard
  <2>1. /\ ctl' = [ctl EXCEPT !.full = TRUE] /\ boot = "on" /\ Handler # "ps2_irq"
        /\ UNCHANGED <<boot, wire, irq_table, redir, irr>> BY <1>9 DEF Unheard
  <2>2. redir[wire] = 0
    <3>1. redir[wire] \in {0, IRQ_BASE + 1} /\ DOMAIN irq_table = 0..(NR_IRQS - 1)
          /\ irq_table[1] = "ps2_irq" BY SMTT(30), <2>1 DEF KInv, Routes
    <3>2. ASSUME redir[wire] = IRQ_BASE + 1 PROVE FALSE
      <4>1. redir[wire] - IRQ_BASE = 1 /\ redir[wire] # 0 BY SMTT(30), <3>2
      <4>2. Handler = "ps2_irq" BY SMTT(30), <3>1, <4>1 DEF Handler
      <4> QED BY SMTT(30), <2>1, <4>2
    <3> QED BY SMTT(30), <3>1, <3>2
  <2>3. Routes' BY SMTT(30), <2>1 DEF KInv, Routes, Unrouted, Pins
  <2>4. Bytes' BY ZenonT(30), <2>1, <2>2 DEF KInv, Bytes
  <2> QED BY <2>1, <2>3, <2>4 DEF KInv, Pins
<1>10. CASE Keyboard_irq \/ Program \/ UNCHANGED keyboard_vars
  BY SMTT(30), <1>10 DEF Keyboard_irq, Program, keyboard_vars, boot_vars, KInv, Routes, Bytes, Unrouted, Pins
<1> QED BY SMTT(30), <1>1, <1>2, <1>3, <1>4, <1>5, <1>6, <1>7, <1>8, <1>9, <1>10 DEF KeyboardNext

\* The invariant of kmain() holds throughout.
LEMMA KInvAlways == KeyboardSpec => []KInv
BY KInvInit, KInvStep, PTL DEF KeyboardSpec

\* When local_irq_enable() lets interrupts in, the timer and every routed pin
\* have their handlers, on every board.
THEOREM HandledCorrect == KeyboardSpec => []InterruptsHandled
<1>1. KInv => InterruptsHandled BY SMTT(30) DEF KInv, Routes, InterruptsHandled
<1> QED BY <1>1, KInvAlways, PTL

\* On every board a byte that stays in the controller without an interrupt
\* came before request_irq() had routed it.
THEOREM BytesCorrect == KeyboardSpec => []NoByteStuck
<1>1. KInv => NoByteStuck BY DEF KInv, Routes, Bytes, NoByteStuck, Handler
<1> QED BY <1>1, KInvAlways, PTL

-----------------------------------------------------------------------------
(* The tables of the firmware.                                             *)

\* what the loop over the MADT keeps, with ids and pins out of I and G
Globals(I, G) ==
  [panic : BOOLEAN, count : Nat, cores : Seq([apic_id : I, is_awake : {FALSE}]),
   ioapic : BOOLEAN, overrides : [0..MAX_PIC_IRQ -> G], called : BOOLEAN]

\* A round of madt_parse_recoreds() keeps the types.
LEMMA RecordType ==
  ASSUME NEW I, NEW G, NEW g \in Globals(I, G), NEW r, r.apic_id \in I, r.gsi \in G
  PROVE  Parse_record(g, r) \in Globals(I, G)
<1>1. /\ g.panic \in BOOLEAN /\ g.count \in Nat /\ g.ioapic \in BOOLEAN /\ g.called \in BOOLEAN
      /\ g.cores \in Seq([apic_id : I, is_awake : {FALSE}])
      /\ g.overrides \in [0..MAX_PIC_IRQ -> G]
  BY DEF Globals
<1>2. [g EXCEPT !.panic = TRUE] \in Globals(I, G) /\ [g EXCEPT !.called = TRUE] \in Globals(I, G)
      /\ [g EXCEPT !.ioapic = TRUE] \in Globals(I, G)
  BY Zenon DEF Globals
<1>3. Record_type_0(g, r) \in Globals(I, G)
  <2>1. [apic_id |-> r.apic_id, is_awake |-> FALSE] \in [apic_id : I, is_awake : {FALSE}]
    OBVIOUS
  <2>2. Append(g.cores, [apic_id |-> r.apic_id, is_awake |-> FALSE]) \in Seq([apic_id : I, is_awake : {FALSE}])
    BY <1>1, <2>1, AppendProperties
  <2>3. [g EXCEPT !.cores = Append(g.cores, [apic_id |-> r.apic_id, is_awake |-> FALSE])] \in Globals(I, G)
    BY Zenon, <2>2 DEF Globals
  <2> QED BY Zenon, <1>2, <2>3 DEF Record_type_0
<1>4. Record_type_1(g, r) \in Globals(I, G)
  BY Zenon, <1>2 DEF Record_type_1
<1>5. Record_type_2(g, r) \in Globals(I, G)
  <2>1. [g.overrides EXCEPT ![r.irq_src] = r.gsi] \in [0..MAX_PIC_IRQ -> G]
    BY Zenon, <1>1
  <2>2. [g EXCEPT !.overrides = [g.overrides EXCEPT ![r.irq_src] = r.gsi]] \in Globals(I, G)
    BY ZenonT(30), <2>1 DEF Globals
  <2> QED BY Zenon, <2>2 DEF Record_type_2
<1>6. Record_type_5(g, r) \in Globals(I, G)
  BY Zenon, <1>2 DEF Record_type_5
<1> QED BY ZenonT(30), <1>2, <1>3, <1>4, <1>5, <1>6 DEF Parse_record

\* the state after each record
Parses(rec, count, h) ==
  h = [i \in 0..Len(rec) |->
         IF i = 0 THEN [Apic_globals EXCEPT !.count = count] ELSE Parse_record(h[i - 1], rec[i])]

Ids(rec) == {rec[k].apic_id : k \in DOMAIN rec}
Gsis(rec) == Nat \cup {rec[k].gsi : k \in DOMAIN rec}

\* The loop of madt_parse_recoreds() has a state after each record.
LEMMA ParseLoop ==
  ASSUME NEW rec, IsSeq(rec), NEW count \in Nat
  PROVE  \E h : /\ h \in [0..Len(rec) -> Globals(Ids(rec), Gsis(rec))]
                /\ h[0] = [Apic_globals EXCEPT !.count = count]
                /\ \A i \in 1..Len(rec) : h[i] = Parse_record(h[i - 1], rec[i])
                /\ Parse_records(rec, count) = h[Len(rec)]
<1> DEFINE n == Len(rec)
           a == [Apic_globals EXCEPT !.count = count]
           D == Globals(Ids(rec), Gsis(rec))
           F == [x \in D \X (1..n) |-> Parse_record(x[1], rec[x[2]])]
<1>1. n \in Nat /\ DOMAIN rec = 1..n
  BY DEF IsSeq
<1>2. a \in D
  <2>1. [irq \in 0..MAX_PIC_IRQ |-> irq] \in [0..MAX_PIC_IRQ -> Gsis(rec)]
    BY PicAssumption DEF Gsis
  <2> DEFINE o == [irq \in 0..MAX_PIC_IRQ |-> irq]
             e == <<>>
             C == [apic_id : Ids(rec), is_awake : {FALSE}]
  <2>2. Apic_globals = [panic |-> FALSE, count |-> 0, cores |-> e, ioapic |-> FALSE,
                        overrides |-> o, called |-> FALSE]
    BY Zenon DEF Apic_globals
  <2>3. e \in Seq(C) /\ o \in [0..MAX_PIC_IRQ -> Gsis(rec)]
    BY <2>1
  <2> HIDE DEF o, e
  <2>4. Apic_globals \in Globals(Ids(rec), Gsis(rec))
    BY ZenonT(30), <2>2, <2>3 DEF Globals
  <2> QED BY Zenon, <2>4 DEF Globals
<1>3. ASSUME NEW x \in D, NEW i \in 1..n PROVE Parse_record(x, rec[i]) \in D
  <2>1. rec[i].apic_id \in Ids(rec) /\ rec[i].gsi \in Gsis(rec)
    BY Zenon, <1>1 DEF Ids, Gsis
  <2> QED BY Zenon, <2>1, RecordType
<1> HIDE DEF D, n, a
<1>4. F \in [D \X (1..n) -> D] /\ \A x \in D, i \in 1..n : F[<<x, i>>] = Parse_record(x, rec[i])
  <2>1. \A x \in D \X (1..n) : x[1] \in D /\ x[2] \in 1..n
    BY Zenon
  <2>2. \A x \in D \X (1..n) : Parse_record(x[1], rec[x[2]]) \in D
    BY Zenon, <1>3, <2>1
  <2> QED BY <2>2
<1> HIDE DEF F
<1>5. PICK h : Rounds(D, a, n, F, h)
  BY Zenon, <1>1, <1>2, <1>4, RoundsExist
<1>6. h \in [0..n -> D] /\ h[0] = a /\ \A i \in 1..n : h[i] = F[<<h[i - 1], i>>]
  BY Zenon, <1>5 DEF Rounds
<1>7. ASSUME NEW i \in 1..n PROVE h[i] = Parse_record(h[i - 1], rec[i])
  <2>1. i - 1 \in 0..n
    BY <1>1
  <2>2. h[i - 1] \in D
    BY Zenon, <1>6, <2>1
  <2> QED BY Zenon, <1>4, <1>6, <2>2
<1>8. h = [i \in 0..n |-> IF i = 0 THEN a ELSE Parse_record(h[i - 1], rec[i])]
  <2> DEFINE R(i) == IF i = 0 THEN a ELSE Parse_record(h[i - 1], rec[i])
  <2>1. \A i \in 0..n : i = 0 \/ i \in 1..n
    BY <1>1
  <2>2. \A i \in 0..n : h[i] = R(i)
    BY Zenon, <1>6, <1>7, <2>1
  <2> HIDE DEF R
  <2>3. h = [i \in 0..n |-> R(i)]
    BY Zenon, <1>6, <2>2
  <2> QED BY Zenon, <2>3 DEF R
<1>9. \E k : Parses(rec, count, k)
  BY Zenon, <1>8 DEF Parses, n, a
<1> DEFINE k == CHOOSE k : Parses(rec, count, k)
<1>10. Parse_records(rec, count) = k[n] /\ Parses(rec, count, k)
  BY Zenon, <1>9 DEF Parse_records, Parses, n
<1> HIDE DEF k
<1>11. k = [i \in 0..n |-> IF i = 0 THEN a ELSE Parse_record(k[i - 1], rec[i])]
  BY Zenon, <1>10 DEF Parses, n, a
<1>12. k[0] = a /\ \A i \in 1..n : k[i] = Parse_record(k[i - 1], rec[i])
  <2> DEFINE R(i) == IF i = 0 THEN a ELSE Parse_record(k[i - 1], rec[i])
  <2>1. \A i \in 0..n : k[i] = R(i)
    <3> HIDE DEF R
    <3>1. k = [i \in 0..n |-> R(i)]
      BY Zenon, <1>11 DEF R
    <3> QED BY <3>1
  <2>2. 0 \in 0..n /\ \A i \in 1..n : i \in 0..n /\ i # 0
    BY <1>1
  <2> QED BY Zenon, <2>1, <2>2
<1>13. \A i \in 0..n : i \in {j \in 0..n : k[j] = h[j]}
  <2> DEFINE S == {j \in 0..n : k[j] = h[j]}
  <2>1. 0 \in S
    BY <1>1, <1>6, <1>12
  <2>2. ASSUME NEW i \in S, i \in 0..(n - 1) PROVE i + 1 \in S
    <3>1. i + 1 \in 0..n /\ i + 1 \in 1..n /\ (i + 1) - 1 = i /\ k[i] = h[i]
      BY <1>1, <2>2
    <3>2. k[i + 1] = h[i + 1]
      BY Zenon, <1>7, <1>12, <3>1
    <3> QED BY Zenon, <3>1, <3>2
  <2> HIDE DEF S
  <2>3. \A i \in 0..n : i \in S
    BY ZenonT(30), <1>1, <2>1, <2>2, InductionTo
  <2> QED BY Zenon, <2>3 DEF S
<1>14. n \in 0..n
  BY <1>1
<1>15. k[n] = h[n]
  BY ZenonT(30), <1>13, <1>14
<1> QED BY ZenonT(30), <1>6, <1>7, <1>10, <1>15 DEF D, n, a

\* What a record leaves when it does not end in a panic.
LEMMA RecordStep ==
  ASSUME NEW I, NEW G, NEW g \in Globals(I, G), NEW r, ~Parse_record(g, r).panic
  PROVE  /\ ~g.panic
         /\ Parse_record(g, r).cores =
              IF Enabled(r) THEN Append(g.cores, [apic_id |-> r.apic_id, is_awake |-> FALSE]) ELSE g.cores
         /\ Parse_record(g, r).overrides[IRQ_PS2] =
              IF Moves(r) THEN r.gsi ELSE g.overrides[IRQ_PS2]
<1> DEFINE z == Parse_record(g, r)
           core == [apic_id |-> r.apic_id, is_awake |-> FALSE]
<1>0. ~g.panic
  BY Zenon DEF Parse_record
<1>1. \A b : LET y == [g EXCEPT !.panic = b] IN y.panic = b
  BY SMTT(30) DEF Globals
<1>2. CASE r.type = 0
  <2>1. z = Record_type_0(g, r)
    BY <1>0, <1>2 DEF Parse_record
  <2>2. ~Moves(r)
    BY <1>2 DEF Moves
  <2>3. CASE ~Enabled(r)
    BY Zenon, <1>0, <2>1, <2>2, <2>3 DEF Record_type_0
  <2>4. CASE Enabled(r)
    <3>1. z = [g EXCEPT !.cores = Append(@, core)]
      BY Zenon, <1>1, <2>1, <2>4 DEF Record_type_0
    <3> HIDE DEF core, z
    <3>2. z.cores = Append(g.cores, core) /\ z.overrides = g.overrides
      BY <3>1 DEF Globals
    <3> QED BY Zenon, <1>0, <2>2, <2>4, <3>2 DEF core, z
  <2> QED BY <2>3, <2>4
<1>3. CASE r.type = 1
  <2>1. z = Record_type_1(g, r) /\ ~Moves(r) /\ ~Enabled(r)
    BY <1>0, <1>3 DEF Parse_record, Moves, Enabled
  <2>2. z = g \/ z = [g EXCEPT !.ioapic = TRUE]
    BY Zenon, <2>1 DEF Record_type_1
  <2> HIDE DEF z
  <2>3. z.cores = g.cores /\ z.overrides = g.overrides
    BY SMTT(30), <2>2 DEF Globals
  <2> QED BY Zenon, <1>0, <2>1, <2>3 DEF z
<1>4. CASE r.type = 2
  <2>1. z = Record_type_2(g, r) /\ ~Enabled(r)
    BY <1>0, <1>4 DEF Parse_record, Enabled
  <2>2. CASE r.length # "full" \/ r.irq_src > MAX_PIC_IRQ
    <3>1. z = g
      BY Zenon, <2>1, <2>2 DEF Record_type_2
    <3>2. ~Moves(r)
      BY <2>2, PicAssumption DEF Moves
    <3> QED BY ZenonT(30), <1>0, <2>1, <3>1, <3>2
  <2>3. CASE ~(r.length # "full" \/ r.irq_src > MAX_PIC_IRQ)
    <3>1. z = [g EXCEPT !.overrides = [@ EXCEPT ![r.irq_src] = r.gsi]]
      BY Zenon, <2>1, <2>3 DEF Record_type_2
    <3> HIDE DEF z
    <3> DEFINE o == [g.overrides EXCEPT ![r.irq_src] = r.gsi]
    <3>2. Moves(r) <=> r.irq_src = IRQ_PS2
      BY <1>4, <2>3 DEF Moves
    <3>3. g.overrides \in [0..MAX_PIC_IRQ -> G] /\ IRQ_PS2 \in 0..MAX_PIC_IRQ
      BY PicAssumption DEF Globals
    <3>4. o[IRQ_PS2] = IF Moves(r) THEN r.gsi ELSE g.overrides[IRQ_PS2]
      BY Zenon, <3>2, <3>3
    <3> HIDE DEF o
    <3>5. z.cores = g.cores /\ z.overrides = o
      BY <3>1 DEF Globals, o
    <3> QED BY ZenonT(30), <1>0, <2>1, <3>4, <3>5 DEF z
  <2> QED BY <2>2, <2>3
<1>5. CASE r.type \in {3, 4}
  <2>1. z = g /\ ~Moves(r) /\ ~Enabled(r)
    BY SMTT(30), <1>0, <1>5 DEF Parse_record, Moves, Enabled
  <2> QED BY Zenon, <1>0, <2>1
<1>6. CASE r.type = 5
  <2>1. z = Record_type_5(g, r) /\ ~Moves(r) /\ ~Enabled(r)
    BY <1>0, <1>6 DEF Parse_record, Moves, Enabled
  <2>2. z = g \/ z = [g EXCEPT !.called = TRUE]
    BY Zenon, <1>1, <2>1 DEF Record_type_5
  <2> HIDE DEF z
  <2>3. z.cores = g.cores /\ z.overrides = g.overrides
    BY <2>2 DEF Globals
  <2> QED BY Zenon, <1>0, <2>1, <2>3 DEF z
<1>7. CASE r.type \notin {0, 1, 2, 3, 4, 5}
  <2>1. z = [g EXCEPT !.panic = TRUE]
    BY <1>0, <1>7 DEF Parse_record
  <2> QED BY Zenon, <1>1, <2>1
<1> QED BY SMTT(30), <1>2, <1>3, <1>4, <1>5, <1>6, <1>7

CoreIds(cores) == {cores[k].apic_id : k \in DOMAIN cores}
EnabledIds(rec, n) == {rec[k].apic_id : k \in {l \in 1..n : Enabled(rec[l])}}

\* A core more in the table.
LEMMA CoreAdded ==
  ASSUME NEW I, NEW c \in Seq([apic_id : I, is_awake : {FALSE}]), NEW i \in I
  PROVE  CoreIds(Append(c, [apic_id |-> i, is_awake |-> FALSE])) = CoreIds(c) \cup {i}
<1> DEFINE core == [apic_id |-> i, is_awake |-> FALSE]
           C == [apic_id : I, is_awake : {FALSE}]
           d == Append(c, core)
           n == Len(c)
<1>1. core \in C /\ core.apic_id = i
  OBVIOUS
<1> HIDE DEF core, C
<1>2. c \in Seq(C)
  BY DEF C
<1>3. n \in Nat /\ DOMAIN c = 1..n /\ DOMAIN d = 1..(n + 1) /\ d[n + 1] = core /\ \A k \in 1..n : d[k] = c[k]
  BY <1>1, <1>2
<1> HIDE DEF d, n
<1>4. \A k : k \in 1..(n + 1) <=> k \in 1..n \/ k = n + 1
  BY <1>3
<1>5. CoreIds(d) = CoreIds(c) \cup {i}
  BY Zenon, <1>1, <1>3, <1>4 DEF CoreIds
<1> QED BY Zenon, <1>5 DEF d, core

\* what is known after i records, when an override of the keyboard names pin
ParseInv(rec, pin, i, g) ==
  ~g.panic =>
    /\ CoreIds(g.cores) = EnabledIds(rec, i)
    /\ g.overrides[IRQ_PS2] = pin \/ (g.overrides[IRQ_PS2] = IRQ_PS2 /\ \A k \in 1..i : ~Moves(rec[k]))

\* One more record.
LEMMA ParseStep ==
  ASSUME NEW rec, NEW I, NEW G, NEW g \in Globals(I, G), NEW i \in Nat, NEW pin, ParseInv(rec, pin, i, g),
         rec[i + 1].apic_id \in I, Moves(rec[i + 1]) => rec[i + 1].gsi = pin
  PROVE  ParseInv(rec, pin, i + 1, Parse_record(g, rec[i + 1]))
<1> DEFINE r == rec[i + 1]
           z == Parse_record(g, r)
<1> SUFFICES ASSUME ~z.panic
             PROVE  /\ CoreIds(z.cores) = EnabledIds(rec, i + 1)
                    /\ \/ z.overrides[IRQ_PS2] = pin
                       \/ z.overrides[IRQ_PS2] = IRQ_PS2 /\ \A k \in 1..(i + 1) : ~Moves(rec[k])
  BY Zenon DEF ParseInv
<1>1. /\ ~g.panic
      /\ z.cores = IF Enabled(r) THEN Append(g.cores, [apic_id |-> r.apic_id, is_awake |-> FALSE]) ELSE g.cores
      /\ z.overrides[IRQ_PS2] = IF Moves(r) THEN r.gsi ELSE g.overrides[IRQ_PS2]
  BY Zenon, RecordStep
<1> HIDE DEF z
<1>2. /\ CoreIds(g.cores) = EnabledIds(rec, i)
      /\ g.overrides[IRQ_PS2] = pin \/ (g.overrides[IRQ_PS2] = IRQ_PS2 /\ \A k \in 1..i : ~Moves(rec[k]))
  BY Zenon, <1>1 DEF ParseInv
<1>3. \A k : k \in 1..(i + 1) <=> k \in 1..i \/ k = i + 1
  OBVIOUS
<1>4. EnabledIds(rec, i + 1) = IF Enabled(r) THEN EnabledIds(rec, i) \cup {r.apic_id} ELSE EnabledIds(rec, i)
  <2> DEFINE A == {l \in 1..(i + 1) : Enabled(rec[l])}
             B == {l \in 1..i : Enabled(rec[l])}
  <2>1. EnabledIds(rec, i + 1) = {rec[k].apic_id : k \in A} /\ EnabledIds(rec, i) = {rec[k].apic_id : k \in B}
    BY Zenon DEF EnabledIds
  <2>2. CASE Enabled(r)
    <3>1. A = B \cup {i + 1}
      BY Zenon, <1>3, <2>2
    <3> HIDE DEF A, B
    <3> QED BY Zenon, <2>1, <2>2, <3>1
  <2>3. CASE ~Enabled(r)
    <3>1. A = B
      BY ZenonT(30), <1>3, <2>3
    <3> HIDE DEF A, B
    <3> QED BY Zenon, <2>1, <2>3, <3>1
  <2> QED BY Zenon, <2>2, <2>3
<1>5. g.cores \in Seq([apic_id : I, is_awake : {FALSE}])
  BY Zenon DEF Globals
<1>6. CoreIds(z.cores) = EnabledIds(rec, i + 1)
  <2>1. CASE Enabled(r)
    <3>1. CoreIds(Append(g.cores, [apic_id |-> r.apic_id, is_awake |-> FALSE])) = CoreIds(g.cores) \cup {r.apic_id}
      <4> DEFINE c == g.cores
                 x == r.apic_id
      <4>1. c \in Seq([apic_id : I, is_awake : {FALSE}]) /\ x \in I
        BY Zenon, <1>5
      <4> HIDE DEF c, x
      <4>2. CoreIds(Append(c, [apic_id |-> x, is_awake |-> FALSE])) = CoreIds(c) \cup {x}
        BY ZenonT(30), <4>1, CoreAdded
      <4> QED BY Zenon, <4>2 DEF c, x
    <3> QED BY ZenonT(30), <1>1, <1>2, <1>4, <2>1, <3>1
  <2>2. CASE ~Enabled(r)
    BY Zenon, <1>1, <1>2, <1>4, <2>2
  <2> QED BY <2>1, <2>2
<1> QED BY ZenonT(30), <1>1, <1>2, <1>3, <1>6

\* The cores and the override of the keyboard after all records.
LEMMA ParseLemma ==
  ASSUME NEW rec, IsSeq(rec), NEW count \in Nat, NEW pin, \A k \in DOMAIN rec : Moves(rec[k]) => rec[k].gsi = pin
  PROVE  /\ Parse_records(rec, count) \in Globals(Ids(rec), Gsis(rec))
         /\ ParseInv(rec, pin, Len(rec), Parse_records(rec, count))
<1> DEFINE n == Len(rec)
           I == Ids(rec)
           G == Gsis(rec)
           a == [Apic_globals EXCEPT !.count = count]
<1>1. n \in Nat /\ DOMAIN rec = 1..n
  BY DEF IsSeq
<1>2. PICK h : /\ h \in [0..n -> Globals(I, G)]
               /\ h[0] = a
               /\ \A i \in 1..n : h[i] = Parse_record(h[i - 1], rec[i])
               /\ Parse_records(rec, count) = h[n]
  BY Zenon, ParseLoop
<1> DEFINE S == {i \in 0..n : ParseInv(rec, pin, i, h[i])}
<1>3. 0 \in S
  <2>1. h[0].cores = <<>> /\ h[0].overrides[IRQ_PS2] = IRQ_PS2 /\ 0 \in 0..n
    BY <1>1, <1>2, PicAssumption DEF Apic_globals
  <2>2. CoreIds(<<>>) = {} /\ EnabledIds(rec, 0) = {}
    BY DEF CoreIds, EnabledIds
  <2>3. \A k \in 1..0 : ~Moves(rec[k])
    OBVIOUS
  <2>4. ParseInv(rec, pin, 0, h[0])
    BY Zenon, <2>1, <2>2, <2>3 DEF ParseInv
  <2> QED BY Zenon, <2>1, <2>4
<1>4. ASSUME NEW i \in S, i \in 0..(n - 1) PROVE i + 1 \in S
  <2>1. i \in Nat /\ i \in 0..n /\ i + 1 \in 1..n /\ i + 1 \in 0..n /\ (i + 1) - 1 = i /\ ParseInv(rec, pin, i, h[i])
    BY <1>1, <1>4
  <2>2. h[i] \in Globals(I, G) /\ rec[i + 1].apic_id \in I /\ (Moves(rec[i + 1]) => rec[i + 1].gsi = pin)
    BY Zenon, <1>1, <1>2, <2>1 DEF Ids
  <2> HIDE DEF I, G
  <2>3. ParseInv(rec, pin, i + 1, Parse_record(h[i], rec[i + 1]))
    BY Zenon, <2>1, <2>2, ParseStep
  <2>4. h[i + 1] = Parse_record(h[i], rec[i + 1])
    BY Zenon, <1>2, <2>1
  <2> QED BY ZenonT(30), <2>1, <2>3, <2>4
<1> HIDE DEF S
<1>5. \A i \in 0..n : i \in S
  BY ZenonT(30), <1>1, <1>3, <1>4, InductionTo
<1>6. n \in 0..n
  BY <1>1
<1> HIDE DEF n
<1>7. ParseInv(rec, pin, n, h[n]) /\ h[n] \in Globals(I, G)
  BY Zenon, <1>2, <1>5, <1>6 DEF S
<1> QED BY Zenon, <1>2, <1>7 DEF n

\* the record that ends an MADT does not say where the keyboard is
Unmoved(records) == records[Len(records)].type # 2

\* What Parse_madt() keeps when init_apic() goes on: the enabled processors but
\* for the one that ends the table, the one that runs awake, and the pin.
MadtRead(records, pin, z) ==
  /\ CoreIds(z.cores) = EnabledIds(records, Len(records) - 1)
  /\ {z.cores[i].apic_id : i \in Awake(z.cores)} = {BootId}
  /\ Unmoved(records) => z.overrides[IRQ_PS2] = pin

\* update_awake_cores() wakes the one core whose id the local APIC says.
LEMMA AwakeLemma ==
  ASSUME NEW I, NEW c \in Seq([apic_id : I, is_awake : {FALSE}]), Awake(Update_awake_cores(c)) # {}
  PROVE  /\ CoreIds(Update_awake_cores(c)) = CoreIds(c)
         /\ {Update_awake_cores(c)[i].apic_id : i \in Awake(Update_awake_cores(c))} = {BootId}
<1> DEFINE d == Update_awake_cores(c)
           C == [apic_id : I, is_awake : {FALSE}]
<1>1. \A i \in DOMAIN c : c[i] \in C
  <2>1. c \in Seq(C)
    OBVIOUS
  <2> HIDE DEF C
  <2> QED BY <2>1
<1>2. DOMAIN d = DOMAIN c /\ \A i \in DOMAIN c : d[i] = [c[i] EXCEPT !.is_awake = @ \/ c[i].apic_id = BootId]
  BY Zenon DEF Update_awake_cores
<1> HIDE DEF d
<1>3. ASSUME NEW i \in DOMAIN c PROVE d[i].apic_id = c[i].apic_id /\ (d[i].is_awake <=> c[i].apic_id = BootId)
  <2> DEFINE x == c[i]
             b == x.is_awake \/ x.apic_id = BootId
  <2>1. x \in C /\ d[i] = [x EXCEPT !.is_awake = b]
    BY Zenon, <1>1, <1>2
  <2>2. b <=> x.apic_id = BootId
    BY Zenon, <2>1
  <2> HIDE DEF x, b
  <2>3. d[i].apic_id = x.apic_id /\ d[i].is_awake = b
    BY Zenon, <2>1
  <2> QED BY Zenon, <2>2, <2>3 DEF x
<1>4. DOMAIN d = DOMAIN c /\ \A i \in DOMAIN c : d[i].apic_id = c[i].apic_id /\ (d[i].is_awake <=> c[i].apic_id = BootId)
  BY Zenon, <1>2, <1>3
<1>5. CoreIds(d) = CoreIds(c)
  <2>1. \A x : x \in CoreIds(d) <=> x \in CoreIds(c)
    BY Zenon, <1>4 DEF CoreIds
  <2> QED BY Zenon, <2>1
<1>6. {d[i].apic_id : i \in Awake(d)} = {BootId}
  <2>1. Awake(d) # {}
    BY Zenon DEF d
  <2>2. \A i \in Awake(d) : d[i].apic_id = BootId
    BY <1>4 DEF Awake
  <2> QED BY Zenon, <2>1, <2>2
<1> QED BY Zenon, <1>5, <1>6 DEF d

\* The first part of an MADT whose records all have a length.
LEMMA ReachedLemma ==
  ASSUME NEW records, IsSeq(records), \A i \in DOMAIN records : records[i].length # "none", Len(records) > 0
  PROVE  /\ IsSeq(Reached(records)) /\ Len(Reached(records)) = Len(records) - 1
         /\ \A k \in 1..(Len(records) - 1) : Reached(records)[k] = records[k]
<1> DEFINE n == Len(records)
           T == {records[i] : i \in DOMAIN records}
           u == SubSeq(records, 1, n - 1)
<1>1. records \in Seq(T)
  BY Zenon DEF IsSeq
<1> HIDE DEF T
<1>2. n \in Nat /\ n >= 1 /\ DOMAIN records = 1..n /\ n \in DOMAIN records
  BY <1>1
<1>3. Reached(records) = u
  BY <1>2 DEF Reached
<1>4. u \in Seq(T) /\ Len(u) = n - 1 /\ DOMAIN u = 1..(n - 1) /\ \A k \in 1..(n - 1) : u[k] = records[k]
  <2>1. n - 1 \in Nat /\ \A i \in 1..(n - 1) : records[i] \in T
    BY <1>1, <1>2
  <2>2. u \in Seq(T) /\ Len(u) = (IF 1 <= n - 1 THEN (n - 1) - 1 + 1 ELSE 0)
    BY <1>1, <2>1, SubSeqProperties
  <2> QED BY SMTT(30), <1>1, <1>2, <2>1, <2>2
<1> HIDE DEF u
<1>5. IsSeq(u)
  <2> DEFINE V == {u[i] : i \in DOMAIN u}
  <2>1. \A i \in 1..Len(u) : u[i] \in V
    BY <1>4
  <2> HIDE DEF V
  <2>2. u \in Seq(V)
    BY <1>4, <2>1
  <2> QED BY Zenon, <2>2 DEF IsSeq, V
<1> QED BY Zenon, <1>3, <1>4, <1>5

\* What is kept of an MADT that does not end in a panic.
LEMMA MadtLemma ==
  ASSUME NEW records, IsSeq(records), ~Parse_madt(records).panic, NEW pin,
         Wires(records, pin)
  PROVE  MadtRead(records, pin, Parse_madt(records))
<1> DEFINE rec == Reached(records)
           n == Len(records)
           count == Madt_count_cores(rec)
           g == Parse_records(rec, count)
           cores == Update_awake_cores(g.cores)
           p == g.panic \/ ~g.ioapic \/ Cardinality(Awake(cores)) # 1
           z == Parse_madt(records)
<1>1. /\ \A i \in DOMAIN records : records[i].length # "none"
      /\ count # 0 /\ z = [g EXCEPT !.panic = p, !.cores = cores]
  <2>1. [Apic_globals EXCEPT !.panic = TRUE].panic
    BY DEF Apic_globals
  <2> QED BY ZenonT(30), <2>1 DEF Parse_madt
<1>2. n \in Nat /\ DOMAIN records = 1..n
  BY DEF IsSeq
<1>3. n # 0
  <2> SUFFICES ASSUME n = 0 PROVE FALSE
    OBVIOUS
  <2>1. rec = records
    BY Zenon DEF Reached
  <2>2. {i \in DOMAIN rec : Enabled(rec[i])} = {}
    BY <1>2, <2>1
  <2> QED BY ZenonT(30), <1>1, <2>2, FS_EmptySet DEF Madt_count_cores
<1>4. IsSeq(rec) /\ Len(rec) = n - 1 /\ \A k \in 1..(n - 1) : rec[k] = records[k]
  <2>1. n > 0
    BY <1>2, <1>3
  <2> QED BY Zenon, <1>1, <2>1, ReachedLemma
<1> HIDE DEF rec, n
<1>5. DOMAIN rec = 1..(n - 1) /\ n - 1 \in Nat
  BY <1>2, <1>3, <1>4 DEF IsSeq
<1>6. count \in Nat
  <2>1. IsFiniteSet(DOMAIN rec)
    BY <1>5, FS_Interval
  <2>2. {i \in DOMAIN rec : Enabled(rec[i])} \subseteq DOMAIN rec
    BY Zenon
  <2>3. IsFiniteSet({i \in DOMAIN rec : Enabled(rec[i])})
    BY Zenon, <2>1, <2>2, FS_Subset
  <2> QED BY Zenon, <2>3, FS_CardinalityType DEF Madt_count_cores
<1> HIDE DEF count
<1>7. \A k \in DOMAIN rec : k \in DOMAIN records /\ rec[k] = records[k]
  <2>1. \A k \in 1..(n - 1) : k \in 1..n
    BY <1>2
  <2> QED BY ZenonT(30), <1>2, <1>4, <1>5, <2>1
<1>8. \A k \in DOMAIN rec : Moves(rec[k]) => rec[k].gsi = pin
  BY Zenon, <1>7 DEF Wires
<1>9. g \in Globals(Ids(rec), Gsis(rec)) /\ ParseInv(rec, pin, n - 1, g)
  BY ZenonT(30), <1>4, <1>6, <1>8, ParseLemma
<1> HIDE DEF g, z
<1>10. g.cores \in Seq([apic_id : Ids(rec), is_awake : {FALSE}])
  BY Zenon, <1>9 DEF Globals
<1> HIDE DEF cores, p
<1>11. z.panic = p /\ z.cores = cores /\ z.overrides = g.overrides
  BY <1>1, <1>9 DEF Globals
<1>12. ~p
  BY Zenon, <1>11 DEF z
<1>13. ~g.panic /\ Cardinality(Awake(cores)) = 1
  BY Zenon, <1>12 DEF p
<1>14. Awake(cores) # {}
  <2>1. Cardinality({}) = 0
    BY FS_EmptySet
  <2>2. Cardinality({}) # 1
    BY <2>1
  <2> QED BY Zenon, <1>13, <2>2
<1>15. CoreIds(cores) = CoreIds(g.cores) /\ {cores[i].apic_id : i \in Awake(cores)} = {BootId}
  BY Zenon, <1>10, <1>14, AwakeLemma DEF cores
<1>16. EnabledIds(rec, n - 1) = EnabledIds(records, n - 1)
  <2>1. \A x : x \in EnabledIds(rec, n - 1) <=> x \in EnabledIds(records, n - 1)
    BY Zenon, <1>4 DEF EnabledIds
  <2> QED BY Zenon, <2>1
<1>17. /\ CoreIds(g.cores) = EnabledIds(rec, n - 1)
       /\ g.overrides[IRQ_PS2] = pin \/ (g.overrides[IRQ_PS2] = IRQ_PS2 /\ \A k \in 1..(n - 1) : ~Moves(rec[k]))
  BY Zenon, <1>9, <1>13 DEF ParseInv
<1>18. ASSUME Unmoved(records) PROVE g.overrides[IRQ_PS2] = pin
  <2> SUFFICES ASSUME \A k \in 1..(n - 1) : ~Moves(rec[k]) PROVE pin = IRQ_PS2
    BY Zenon, <1>17
  <2>1. ~Moves(records[n])
    BY Zenon, <1>18 DEF Unmoved, Moves, n
  <2>2. \A k \in DOMAIN records : k \in 1..(n - 1) \/ k = n
    BY <1>2
  <2>3. {k \in DOMAIN records : Moves(records[k])} = {}
    BY Zenon, <1>4, <2>1, <2>2
  <2> QED BY Zenon, <2>3 DEF Wires
<1>19. MadtRead(records, pin, z)
  BY ZenonT(30), <1>11, <1>15, <1>16, <1>17, <1>18 DEF MadtRead, n
<1> QED BY Zenon, <1>19 DEF z

\* a table of f whose checksum, and those on the way to it, are right
Sound(f, i, j) ==
  /\ f[i].sum /\ (f[i].revision = 2 => f[i].xsum)
  /\ f[i].sdt.sum /\ f[i].sdt.tables[j].sum /\ f[i].sdt.tables[j].sig = "APIC"

\* z is what init_apic() makes of f
ApicRead(f, pin, z) ==
  \E i \in DOMAIN f : \E j \in DOMAIN f[i].sdt.tables :
    /\ Sound(f, i, j) /\ Found_madt(f) = f[i].sdt.tables[j]
    /\ MadtRead(f[i].sdt.tables[j].records, pin, z)

\* The least place of a sequence with a property.
LEMMA LeastPlace ==
  ASSUME NEW s, IsSeq(s), NEW S \in SUBSET DOMAIN s, S # {}
  PROVE  Min(S) \in S
<1>1. DOMAIN s \in SUBSET Nat
  BY DEF IsSeq
<1> QED BY <1>1, MinLemma

\* init_apic() uses a sound MADT and reads it right.
LEMMA ApicLemma ==
  ASSUME NEW pin \in 1..MaxEntry, NEW f \in Firmware(pin), ~Init_apic(f).panic
  PROVE  ApicRead(f, pin, Init_apic(f))
<1> DEFINE i == Min(Get_rsdp(f))
           r == f[i]
           t == r.sdt.tables
           j == Min(Sdt_find(r, "APIC"))
           rec == t[j].records
<1>1. Get_rsdp(f) # {} /\ Sdt_find(r, "APIC") # {} /\ Init_apic(f) = Parse_madt(rec) /\ Found_madt(f) = t[j]
  <2>1. [Apic_globals EXCEPT !.panic = TRUE].panic
    BY DEF Apic_globals
  <2> QED BY ZenonT(30), <2>1 DEF Init_apic, Found_madt, Found_rsdp
<1>2. IsSeq(f)
  BY ZenonT(30), FirmwareAssumption
<1>3. i \in Get_rsdp(f)
  <2>1. Get_rsdp(f) \in SUBSET DOMAIN f
    BY Zenon DEF Get_rsdp
  <2> QED BY ZenonT(30), <1>1, <1>2, <2>1, LeastPlace
<1> HIDE DEF i
<1>4. i \in DOMAIN f /\ r.sum /\ (r.revision = 2 => r.xsum)
  BY Zenon, <1>3 DEF Get_rsdp
<1>5. IsSeq(t)
  BY ZenonT(30), <1>4, FirmwareAssumption
<1>6. j \in Sdt_find(r, "APIC")
  <2>1. Sdt_find(r, "APIC") \in SUBSET DOMAIN t
    BY Zenon DEF Sdt_find
  <2> QED BY ZenonT(30), <1>1, <1>5, <2>1, LeastPlace
<1> HIDE DEF j
<1>7. j \in DOMAIN t /\ r.sdt.sum /\ t[j].sum /\ t[j].sig = "APIC"
  BY Zenon, <1>6 DEF Sdt_find, Validate_sdt
<1>8. IsSeq(rec) /\ Wires(rec, pin)
  BY ZenonT(30), <1>4, <1>7, FirmwareAssumption
<1>9. ~Parse_madt(rec).panic
  BY Zenon, <1>1
<1>10. MadtRead(rec, pin, Parse_madt(rec))
  <2> HIDE DEF rec
  <2> QED BY Zenon, <1>8, <1>9, MadtLemma
<1> QED BY ZenonT(30), <1>1, <1>4, <1>7, <1>10 DEF ApicRead, Sound

-----------------------------------------------------------------------------
\* what kmain() knows of the tables, and the route it made of them
Routed == \A pin \in Pins : redir[pin] = IF pin = apic.overrides[IRQ_PS2] THEN IRQ_BASE + IRQ_PS2 ELSE 0

FInv ==
  /\ KInv /\ wire \in 1..MaxEntry
  /\ boot = "apic" \/ Parsed => firmware \in Firmware(wire)
  /\ Parsed => apic = Init_apic(firmware) /\ ~apic.panic
  /\ boot \in {"timer", "sti"} => Routed

\* request_irq() routes the pin that the overrides say.
LEMMA RouteStep ==
  ASSUME FInv, Request_keyboard, boot' = "timer"
  PROVE  Routed'
<1> DEFINE o == apic.overrides[IRQ_PS2]
<1>1. boot = "request" /\ Request_irq(IRQ_PS2, "ps2_irq", "timer") /\ apic' = apic
  BY Zenon DEF Request_keyboard
<1>2. Apic_route_irq(IRQ_PS2, IRQ_BASE + IRQ_PS2, "timer")
  <2>1. IRQ_PS2 # IRQ_TIMER
    OBVIOUS
  <2>2. "timer" # "panic"
    OBVIOUS
  <2> QED BY Zenon, <1>1, <2>1, <2>2 DEF Request_irq
<1>3. Gsi(IRQ_PS2) = o
  BY PicAssumption DEF Gsi
<1>4. redir' = [redir EXCEPT ![o] = IRQ_BASE + IRQ_PS2]
  <2>1. "timer" # "panic"
    OBVIOUS
  <2> QED BY Zenon, <1>2, <1>3, <2>1 DEF Apic_route_irq
<1> HIDE DEF o
<1>5. redir \in [Pins -> Nat] /\ \A pin \in Pins : redir[pin] = 0
  BY Zenon, <1>1 DEF FInv, KInv, Routes, Unrouted
<1>6. \A pin \in Pins : redir'[pin] = IF pin = o THEN IRQ_BASE + IRQ_PS2 ELSE 0
  BY <1>4, <1>5
<1>7. apic'.overrides[IRQ_PS2] = o
  BY Zenon, <1>1 DEF o
<1> QED BY Zenon, <1>6, <1>7 DEF Routed, Pins

\* kmain() from the tables to local_irq_enable().
LEMMA FInvStep == ASSUME FInv, [KeyboardNext]_keyboard_vars PROVE FInv'
<1>1. KInv'
  BY Zenon, KInvStep DEF FInv
<1>2. KInv /\ wire \in 1..MaxEntry
  BY Zenon DEF FInv
<1>3. ASSUME UNCHANGED <<wire, firmware, apic>>, Parsed, boot' # "apic",
             boot' \in {"timer", "sti"} => Routed'
      PROVE  FInv'
  BY ZenonT(30), <1>1, <1>3 DEF FInv
<1>4. CASE Setup_stage2
  <2>1. /\ boot = "apic" /\ apic' = Init_apic(firmware) /\ wire' = wire /\ firmware' = firmware
        /\ boot' = IF apic'.panic THEN "panic" ELSE "ps2"
    BY Zenon, <1>4 DEF Setup_stage2
  <2>2. firmware' \in Firmware(wire')
    BY Zenon, <2>1 DEF FInv
  <2>3. boot' \notin {"timer", "sti"} /\ (Parsed' => ~apic'.panic)
    BY <2>1 DEF Parsed
  <2> QED BY ZenonT(30), <1>1, <1>2, <2>1, <2>2, <2>3 DEF FInv
<1>5. CASE Ps2_test \/ Enable_first_port \/ Reset_devices
  <2>1. /\ UNCHANGED <<wire, firmware, apic>> /\ boot \in {"ps2", "enable", "reset"}
        /\ boot' \in {"enable", "reset", "request", "panic"}
    BY SMTT(30), <1>5 DEF Ps2_test, Enable_first_port, Reset_devices
  <2>2. boot' # "apic" /\ Parsed /\ boot' \notin {"timer", "sti"}
    BY <2>1 DEF Parsed
  <2> QED BY Zenon, <1>3, <2>1, <2>2
<1>6. CASE Request_keyboard
  <2>1. UNCHANGED <<wire, firmware, apic>> /\ boot = "request" /\ boot' \in {"timer", "panic"}
    BY SMTT(30), <1>6 DEF Request_keyboard, Request_irq, Apic_route_irq
  <2>2. boot' # "apic" /\ Parsed /\ (boot' \in {"timer", "sti"} => boot' = "timer")
    BY <2>1 DEF Parsed
  <2>3. boot' \in {"timer", "sti"} => Routed'
    BY Zenon, <1>6, <2>2, RouteStep
  <2> QED BY ZenonT(30), <1>3, <2>1, <2>2, <2>3
<1>7. CASE Timer_irq_init
  <2>1. UNCHANGED <<wire, firmware, apic, redir>> /\ boot = "timer" /\ boot' \in {"sti", "panic"}
    BY SMTT(30), <1>7 DEF Timer_irq_init, Request_irq
  <2>2. boot' # "apic" /\ Parsed /\ boot \in {"timer", "sti"}
    BY <2>1 DEF Parsed
  <2>3. Routed'
    BY ZenonT(30), <2>1, <2>2 DEF FInv, Routed, Pins
  <2> QED BY ZenonT(30), <1>3, <2>1, <2>2, <2>3
<1>8. CASE Local_irq_enable
  <2>1. boot' = "on" /\ wire' = wire
    BY Zenon, <1>8 DEF Local_irq_enable
  <2>2. boot' # "apic" /\ ~Parsed' /\ boot' \notin {"timer", "sti"}
    BY <2>1 DEF Parsed
  <2> QED BY ZenonT(30), <1>1, <1>2, <2>1, <2>2 DEF FInv
<1>9. CASE Key_at_boot \/ Pending_irq \/ Unheard \/ Keyboard_irq \/ Program \/ UNCHANGED keyboard_vars
  <2>1. UNCHANGED <<wire, firmware, apic, redir, boot>>
    BY SMTT(30), <1>9 DEF Key_at_boot, Pending_irq, Unheard, Keyboard_irq, Program, keyboard_vars, boot_vars
  <2>2. Routed' <=> Routed
    BY Zenon, <2>1 DEF Routed, Pins
  <2> QED BY ZenonT(30), <1>1, <2>1, <2>2 DEF FInv, Parsed
<1> QED BY ZenonT(30), <1>4, <1>5, <1>6, <1>7, <1>8, <1>9 DEF KeyboardNext

\* The machine as it is switched on.
LEMMA FInvInit == KeyboardInit => FInv
<1> SUFFICES ASSUME KeyboardInit PROVE FInv
  OBVIOUS
<1>1. KInv
  BY Zenon, KInvInit
<1>2. wire \in 1..MaxEntry /\ boot = "apic" /\ firmware \in Firmware(wire)
  BY DEF KeyboardInit, Pins
<1>3. ~Parsed /\ boot \notin {"timer", "sti"}
  BY <1>2 DEF Parsed
<1> QED BY ZenonT(30), <1>1, <1>2, <1>3 DEF FInv

\* And it stays so.
LEMMA FInvAlways == KeyboardSpec => []FInv
BY FInvInit, FInvStep, PTL DEF KeyboardSpec

\* For tables of any number and length: the cores kmain() knows are the enabled
\* processors of a sound MADT, but for the record that ends it, and the one
\* that runs is awake alone.
THEOREM CoresCorrect == KeyboardSpec => []CoresListed
<1>1. FInv => CoresListed
  <2> SUFFICES ASSUME FInv, Parsed PROVE CoresListed
    BY Zenon DEF CoresListed
  <2>1. ApicRead(firmware, wire, apic)
    BY Zenon, ApicLemma DEF FInv
  <2>2. PICK i \in DOMAIN firmware : \E j \in DOMAIN firmware[i].sdt.tables :
          Sound(firmware, i, j) /\ MadtRead(firmware[i].sdt.tables[j].records, wire, apic)
    BY Zenon, <2>1 DEF ApicRead
  <2>3. PICK j \in DOMAIN firmware[i].sdt.tables :
          Sound(firmware, i, j) /\ MadtRead(firmware[i].sdt.tables[j].records, wire, apic)
    BY Zenon, <2>2
  <2> DEFINE rec == firmware[i].sdt.tables[j].records
  <2>4. /\ {apic.cores[k].apic_id : k \in DOMAIN apic.cores} = EnabledIds(rec, Len(rec) - 1)
        /\ {apic.cores[k].apic_id : k \in Awake(apic.cores)} = {BootId}
    BY ZenonT(30), <2>3 DEF MadtRead, CoreIds
  <2> QED BY ZenonT(30), <2>3, <2>4 DEF CoresListed, Sound, EnabledIds, Enabled
<1> QED BY <1>1, FInvAlways, PTL

\* For every board whose tables say where its keyboard is: request_irq() has
\* routed the pin the keyboard is wired to, and no other, to ps2_irq(), unless
\* an override ends the MADT.
THEOREM WiredCorrect == KeyboardSpec => []KeyboardWired
<1>1. FInv => KeyboardWired
  <2> SUFFICES ASSUME FInv, boot \in {"timer", "sti"}, Unmoved(Records)
               PROVE  Handler = "ps2_irq" /\ \A pin \in Pins \ {wire} : redir[pin] = 0
    BY Zenon DEF KeyboardWired, Unmoved
  <2>1. Parsed
    BY DEF Parsed
  <2>2. ApicRead(firmware, wire, apic)
    BY Zenon, <2>1, ApicLemma DEF FInv
  <2>3. MadtRead(Records, wire, apic)
    BY Zenon, <2>2 DEF ApicRead, Records
  <2>4. apic.overrides[IRQ_PS2] = wire
    BY Zenon, <2>3 DEF MadtRead
  <2>5. \A pin \in Pins : redir[pin] = IF pin = wire THEN IRQ_BASE + IRQ_PS2 ELSE 0
    BY Zenon, <2>4 DEF FInv, Routed
  <2>6. wire \in Pins /\ DOMAIN irq_table = 0..(NR_IRQS - 1) /\ irq_table[IRQ_PS2] = "ps2_irq"
    BY Zenon DEF FInv, KInv, Routes
  <2>7. redir[wire] = IRQ_BASE + IRQ_PS2
    BY Zenon, <2>5, <2>6
  <2>8. redir[wire] # 0 /\ redir[wire] - IRQ_BASE = IRQ_PS2 /\ IRQ_PS2 \in 0..(NR_IRQS - 1)
    BY <2>7
  <2>9. Handler = "ps2_irq"
    BY Zenon, <2>6, <2>8 DEF Handler
  <2> QED BY Zenon, <2>5, <2>9
<1> QED BY <1>1, FInvAlways, PTL
=============================================================================
