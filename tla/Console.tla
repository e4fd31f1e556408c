------------------------------ MODULE Console -------------------------------
(***************************************************************************)
(* From the keyboard to the terminal and the screen: ps2_irq() decodes the *)
(* bytes of the controller (drivers/ps2), input_handle_event() keeps the   *)
(* modifiers and makes characters of keys (kernel/input.c), and            *)
(* tty_push_char() puts them in the ring of module TtyRing and echoes them *)
(* on the screen (drivers/vga).  A byte is one interrupt, and all of it    *)
(* runs with interrupts off.                                               *)
(*                                                                         *)
(* The keyboard is external.  It sends a make code again while a key is    *)
(* held, may lose a byte, and puts E0 in front of the codes of some keys.  *)
(***************************************************************************)
EXTENDS TtyRing, FiniteSetsExt, TLC

CONSTANTS
  Shifts, Ctrls,         \* keys: the two of each modifier
  CAPSLOCK,
  CharKeys,              \* keys that ascii_map knows
  ascii_map, ascii_shift_map,   \* key -> character
  Ranged,                \* the keys from KEY_Q to KEY_M
  VGA_WIDTH, VGA_HEIGHT,
  BLANK,                 \* what vga_init() and vga_del_last() write
  MaxTyped               \* bound on the characters typed and written

ASSUME ScreenAssumption == VGA_WIDTH \in Nat \ {0} /\ VGA_HEIGHT \in Nat \ {0}

ASSUME KeyAssumption ==
  /\ ascii_map \in [CharKeys -> Keys] /\ ascii_shift_map \in [CharKeys -> Keys]
  /\ IsFiniteSet(Shifts) /\ Cardinality(Shifts) <= 2
  /\ IsFiniteSet(Ctrls) /\ Cardinality(Ctrls) <= 2
  /\ Shifts \cap Ctrls = {}
  /\ (Shifts \cup Ctrls) \cap (CharKeys \cup {CAPSLOCK}) = {}
  /\ CAPSLOCK \notin CharKeys
  /\ "E0" \notin Shifts \cup Ctrls \cup CharKeys \cup {CAPSLOCK}

VARIABLES
  input,     \* [extended, shift_count, ctrl_count, caps_active]
  held,      \* the modifiers that are down, as the keyboard knows
  odd,       \* a make code of a modifier was repeated, or a byte was lost
  vga,       \* [x, y, buf]: the cursor and offset -> character
  apart,     \* the line being typed is not what the screen shows
  typed      \* characters typed and written so far

console_vars == <<tty, got, input, held, odd, vga, apart, typed>>

-----------------------------------------------------------------------------
Vga_init == [x |-> 0, y |-> 0, buf |-> [i \in 0..(VGA_WIDTH * VGA_HEIGHT - 1) |-> BLANK]]

Isfull(v) == v.y >= VGA_HEIGHT /\ v.x < VGA_WIDTH

Vga_write(v, c) ==
  LET offset == v.y * VGA_WIDTH + v.x
  IN  [v EXCEPT !.buf = [i \in DOMAIN v.buf \cup {offset} |->
                           IF i = offset THEN c ELSE v.buf[i]]]

\* vga_putchar_color(): nothing scrolls, a full screen takes no more
Vga_putchar(v, c) ==
  IF Isfull(v) THEN v
  ELSE IF c = NL THEN [v EXCEPT !.x = 0, !.y = @ + 1]
  ELSE IF v.x + 1 = VGA_WIDTH THEN [Vga_write(v, c) EXCEPT !.x = 0, !.y = @ + 1]
  ELSE [Vga_write(v, c) EXCEPT !.x = @ + 1]

\* faulty: the cursor does not leave its row
Vga_del_last_row(v) ==
  Vga_write(IF v.x = 0 THEN v ELSE [v EXCEPT !.x = @ - 1], BLANK)

Vga_del_last(v) ==
  Vga_write(IF v.x > 0 THEN [v EXCEPT !.x = @ - 1]
            ELSE IF v.y = 0 THEN v
            ELSE [v EXCEPT !.x = VGA_WIDTH - 1, !.y = @ - 1], BLANK)

-----------------------------------------------------------------------------
\* the echo of tty_push_char(), which does not ask whether the ring was full
Echo(c) ==
  IF c # BS THEN Vga_putchar(vga, c)
  ELSE IF tty.head = tty.tail THEN vga ELSE Vga_del_last(vga)

\* a line and the screen part when either of them drops a character, and are
\* together again on the next line
Parts(c) ==
  IF c = NL THEN Isfull(vga)
  ELSE apart \/ (c # BS /\ (Isfull(vga) \/ (tty.tail + 1) % TTY_BUF_SIZE = tty.head))

\* tty_push_char() from the interrupt of a key
Tty_push_char(c) ==
  /\ typed < MaxTyped
  /\ Careful(c) /\ Push(c)
  /\ vga' = Echo(c)
  /\ apart' = Parts(c)
  /\ typed' = typed + 1

\* the counters of shift and ctrl stay between 0 and 2
Count(n, release) == IF release THEN Max({n - 1, 0}) ELSE Min({n + 1, 2})

\* the character of a key; caps lock works on all keys in the range
Char(key) ==
  LET upper == IF key \in Ranged THEN input.caps_active # (input.shift_count > 0) ELSE input.shift_count > 0
  IN  IF upper THEN ascii_shift_map[key] ELSE ascii_map[key]

\* input_handle_event()
Input_handle_event(key, release) ==
  IF key \in CharKeys /\ ~release
  THEN Tty_push_char(Char(key)) /\ UNCHANGED input
  ELSE /\ input' = [input EXCEPT
            !.shift_count = IF key \in Shifts THEN Count(@, release) ELSE @,
            !.ctrl_count = IF key \in Ctrls THEN Count(@, release) ELSE @,
            !.caps_active = IF key = CAPSLOCK /\ ~release THEN ~@ ELSE @]
       /\ UNCHANGED <<tty, got, vga, apart, typed>>

\* faulty: the byte behind E0 is not skipped
Ps2_irq_plain(key, release) ==
  IF key = "E0"
  THEN input' = [input EXCEPT !.extended = TRUE] /\ UNCHANGED <<tty, got, vga, apart, typed>>
  ELSE Input_handle_event(key, release)

\* ps2_irq(): the byte behind E0 is skipped, whatever it is
Ps2_irq(key, release) ==
  IF input.extended
  THEN input' = [input EXCEPT !.extended = FALSE] /\ UNCHANGED <<tty, got, vga, apart, typed>>
  ELSE IF key = "E0"
  THEN input' = [input EXCEPT !.extended = TRUE] /\ UNCHANGED <<tty, got, vga, apart, typed>>
  ELSE Input_handle_event(key, release)

-----------------------------------------------------------------------------
ConsoleInit ==
  /\ Init
  /\ input = [extended |-> FALSE, shift_count |-> 0, ctrl_count |-> 0, caps_active |-> FALSE]
  /\ held = {}
  /\ odd = FALSE
  /\ vga = Vga_init
  /\ apart = FALSE
  /\ typed = 0

\* a key goes down, is held long enough to be repeated, or goes up
Press(key) ==
  /\ ~input.extended /\ key \notin held
  /\ Ps2_irq(key, FALSE)
  /\ held' = IF key \in Shifts \cup Ctrls THEN held \cup {key} ELSE held
  /\ UNCHANGED odd

Repeat(key) ==
  /\ ~input.extended /\ key \in held
  /\ Ps2_irq(key, FALSE)
  /\ odd' = TRUE
  /\ UNCHANGED held

Release(key) ==
  /\ ~input.extended /\ key \in held
  /\ held' = held \ {key}
  /\ \/ Ps2_irq(key, TRUE) /\ UNCHANGED odd
     \/ odd' = TRUE /\ UNCHANGED <<tty, got, input, vga, apart, typed>>

\* the two bytes of an extended key, such as the shift some of them pretend
Prefix == ~input.extended /\ Ps2_irq("E0", FALSE) /\ UNCHANGED <<held, odd>>

Extended(key) == input.extended /\ Ps2_irq(key, FALSE) /\ UNCHANGED <<held, odd>>

\* __tty_read() by the program, and one character of __tty_write()
Program_reads == \E n \in 1..MaxCount : Read(n) /\ UNCHANGED <<input, held, odd, vga, apart, typed>>

Program_writes(c) ==
  /\ typed < MaxTyped
  /\ vga' = Vga_putchar(vga, c)
  /\ apart' = TRUE
  /\ typed' = typed + 1
  /\ UNCHANGED <<tty, got, input, held, odd>>

ConsoleNext ==
  \/ \E key \in Shifts \cup Ctrls : Press(key) \/ Repeat(key) \/ Release(key)
  \/ \E key \in CharKeys \cup {CAPSLOCK} : Press(key)
  \/ Prefix
  \/ \E key \in Shifts : Extended(key)
  \/ Program_reads
  \/ \E c \in {NL} \cup Letters : Program_writes(c)

ConsoleSpec == ConsoleInit /\ [][ConsoleNext]_console_vars

-----------------------------------------------------------------------------
\* The counters of input_handle_event() are the numbers of shift and ctrl keys
\* that are down, whatever extended keys come between, until the keyboard
\* repeats a modifier or loses a byte; then a shift may stay on with no key
\* down, within the limits the code puts.
ModifiersFollowKeys ==
  /\ input.shift_count \in 0..2 /\ input.ctrl_count \in 0..2
  /\ ~odd => /\ input.shift_count = Cardinality(held \cap Shifts)
             /\ input.ctrl_count = Cardinality(held \cap Ctrls)

\* The cursor is on the screen or right behind its end, and nothing was ever
\* written outside the memory of the screen.
CursorOnScreen ==
  /\ vga.x < VGA_WIDTH /\ vga.y <= VGA_HEIGHT
  /\ vga.y = VGA_HEIGHT => vga.x = 0
  /\ DOMAIN vga.buf = 0..(VGA_WIDTH * VGA_HEIGHT - 1)

\* the characters of the line being typed
Unfinished ==
  LET s == Contents(tty)
      last == Max({0} \cup {i \in DOMAIN s : s[i] = NL})
  IN  SubSeq(s, last + 1, Len(s))

\* What the user sees in front of the cursor is the line they will get:
\* backspaces across rows included, as long as no program writes into the line
\* and neither the ring nor the screen drops a character of it.
EchoIsTheLine ==
  LET p == vga.y * VGA_WIDTH + vga.x
  IN  ~apart => /\ Len(Unfinished) <= p
                /\ \A i \in DOMAIN Unfinished :
                     vga.buf[p - Len(Unfinished) + i - 1] = Unfinished[i]
=============================================================================
