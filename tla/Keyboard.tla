------------------------------ MODULE Keyboard ------------------------------
(***************************************************************************)
(* How the keyboard comes to interrupt the console: kmain() learns of the  *)
(* controllers (module Apic), ps2_kyb_init() tests and resets the devices, *)
(* request_irq() puts a handler in irq_table and routes the interrupt      *)
(* through the I/O APIC, and local_irq_enable() lets it in.  From there on *)
(* the steps are those of module Console.                                  *)
(*                                                                         *)
(* The keyboard is not silent while this happens: from enable_first_port() *)
(* on a key puts a byte into the controller.  The controller holds one     *)
(* byte and asks for its interrupt once, when the byte arrives; a masked   *)
(* pin forgets that it was asked, and no other byte comes before this one  *)
(* is read.                                                                *)
(***************************************************************************)
EXTENDS Console, Apic

CONSTANTS
  NR_IRQS,
  IRQ_BASE,            \* the vector of interrupt 0
  MaxEntry,            \* what the version register says: the last pin
  Firmware(_)          \* the tables a board may have when the keyboard is on a pin

ASSUME IrqAssumption == NR_IRQS \in Nat /\ NR_IRQS >= 2 /\ IRQ_BASE \in Nat \ {0}

ASSUME PinAssumption == MaxEntry \in Nat

IRQ_TIMER == 0
IRQ_PS2 == 1

ASSUME PicAssumption == MAX_PIC_IRQ \in Nat /\ MAX_PIC_IRQ >= IRQ_PS2

IsSeq(s) == s \in Seq({s[i] : i \in DOMAIN s})

\* an override of the keyboard's interrupt
Moves(rec) == rec.type = 2 /\ rec.length = "full" /\ rec.irq_src = IRQ_PS2

\* the records say that the keyboard is on a pin
Wires(records, pin) ==
  LET moves == {k \in DOMAIN records : Moves(records[k])}
  IN  (\A k \in moves : records[k].gsi = pin) /\ (moves = {} => pin = IRQ_PS2)

\* Every MADT whose checksum is right says where the board wired the keyboard.
ASSUME FirmwareAssumption ==
  \A pin \in 1..MaxEntry : \A f \in Firmware(pin) :
    /\ IsSeq(f)
    /\ \A i \in DOMAIN f :
         /\ IsSeq(f[i].sdt.tables)
         /\ \A j \in DOMAIN f[i].sdt.tables :
              LET madt == f[i].sdt.tables[j]
              IN  /\ IsSeq(madt.records)
                  /\ madt.sum /\ madt.sig = "APIC" => Wires(madt.records, pin)

VARIABLES
  boot,        \* where kmain() is, "on" from local_irq_enable() on
  wire,        \* the pin the board connects to the keyboard
  firmware,    \* the tables of the firmware
  apic,        \* what module Apic keeps of them
  irq_table,   \* interrupt -> handler
  redir,       \* pin -> vector, 0 when masked
  ctl,         \* the controller: [port, full, early]; see Key_at_boot
  irr          \* the interrupt of the keyboard is pending in the local APIC

boot_vars == <<boot, wire, firmware, apic, irq_table, redir, ctl, irr>>
keyboard_vars == <<console_vars, boot_vars>>

Pins == 0..MaxEntry

KeyboardInit ==
  /\ ConsoleInit
  /\ boot = "apic"
  /\ wire \in Pins \ {0}
  /\ firmware \in Firmware(wire)
  /\ apic = Apic_globals
  /\ irq_table = [irq \in 0..(NR_IRQS - 1) |-> "none"]
  /\ redir = [pin \in Pins |-> 0]
  /\ ctl \in [port : {FALSE}, full : BOOLEAN, early : {FALSE}]
  /\ irr = FALSE

-----------------------------------------------------------------------------
\* init_apic(), in setup_stage2()
Setup_stage2 ==
  /\ boot = "apic"
  /\ apic' = Init_apic(firmware)
  /\ boot' = IF apic'.panic THEN "panic" ELSE "ps2"
  /\ UNCHANGED <<console_vars, wire, firmware, irq_table, redir, ctl, irr>>

\* ps2_kyb_init() up to the tests: the ports are off and what was left in the
\* controller is read away
Ps2_test ==
  /\ boot = "ps2"
  /\ ctl' = [ctl EXCEPT !.port = FALSE, !.full = FALSE]
  /\ boot' \in {"enable", "panic"}
  /\ UNCHANGED <<console_vars, wire, firmware, apic, irq_table, redir, irr>>

Enable_first_port ==
  /\ boot = "enable"
  /\ ctl' = [ctl EXCEPT !.port = TRUE]
  /\ boot' = "reset"
  /\ UNCHANGED <<console_vars, wire, firmware, apic, irq_table, redir, irr>>

\* faulty: the reset leaves its second answer unread
Reset_devices_short ==
  /\ boot = "reset"
  /\ ctl' = [ctl EXCEPT !.full = TRUE]
  /\ boot' \in {"request", "panic"}
  /\ UNCHANGED <<console_vars, wire, firmware, apic, irq_table, redir, irr>>

\* reset_devices(): a byte that is already there is taken for the answer
Reset_devices ==
  /\ boot = "reset"
  /\ ctl' = [ctl EXCEPT !.full = FALSE]
  /\ boot' \in IF ctl.full THEN {"panic"} ELSE {"request", "panic"}
  /\ UNCHANGED <<console_vars, wire, firmware, apic, irq_table, redir, irr>>

-----------------------------------------------------------------------------
\* apic_route_irq() and ioapic_write_entry(), which refuses the last pin
Gsi(irq) == IF irq <= MAX_PIC_IRQ THEN apic.overrides[irq] ELSE irq

\* faulty: the overrides are not asked
Apic_route_irq_plain(irq, vector, next) ==
  IF irq >= MaxEntry THEN boot' = "panic" /\ UNCHANGED redir
  ELSE boot' = next /\ redir' = [redir EXCEPT ![irq] = vector]

Apic_route_irq(irq, vector, next) ==
  IF Gsi(irq) >= MaxEntry THEN boot' = "panic" /\ UNCHANGED redir
  ELSE boot' = next /\ redir' = [redir EXCEPT ![Gsi(irq)] = vector]

\* request_irq() and arch_irq_enable(); kmain() panics on an error
Request_irq(irq, fn, next) ==
  IF irq >= NR_IRQS \/ irq_table[irq] # "none"
  THEN boot' = "panic" /\ UNCHANGED <<irq_table, redir>>
  ELSE /\ irq_table' = [irq_table EXCEPT ![irq] = fn]
       /\ IF irq = IRQ_TIMER THEN boot' = next /\ UNCHANGED redir
          ELSE Apic_route_irq(irq, IRQ_BASE + irq, next)

Request_keyboard ==
  /\ boot = "request"
  /\ Request_irq(IRQ_PS2, "ps2_irq", "timer")
  /\ UNCHANGED <<console_vars, wire, firmware, apic, ctl, irr>>

Timer_irq_init ==
  /\ boot = "timer"
  /\ Request_irq(IRQ_TIMER, "timer_irq_handler", "sti")
  /\ UNCHANGED <<console_vars, wire, firmware, apic, ctl, irr>>

\* local_irq_enable(); nothing reads the tables again, so they are forgotten
Local_irq_enable ==
  /\ boot = "sti"
  /\ boot' = "on"
  /\ firmware' = <<>> /\ apic' = Apic_globals
  /\ UNCHANGED <<console_vars, wire, irq_table, redir, ctl, irr>>

-----------------------------------------------------------------------------
\* a key is pressed while kmain() is not done: the byte asks for an interrupt,
\* which is pending if the pin has a route and lost if it has none
Key_at_boot ==
  /\ boot \notin {"on", "panic"}
  /\ ctl.port /\ ~ctl.full
  /\ ctl' = [ctl EXCEPT !.full = TRUE, !.early = (redir[wire] = 0)]
  /\ irr' = (redir[wire] # 0)
  /\ UNCHANGED <<console_vars, boot, wire, firmware, apic, irq_table, redir>>

\* the handler that irq_router() calls for the vector of the keyboard's pin
Handler ==
  IF redir[wire] = 0 \/ redir[wire] - IRQ_BASE \notin DOMAIN irq_table THEN "none"
  ELSE irq_table[redir[wire] - IRQ_BASE]

\* the byte of a key pressed at boot, whose interrupt waited for sti
Pending_irq ==
  /\ boot = "on" /\ irr /\ Handler = "ps2_irq"
  /\ \E key \in CharKeys \cup Shifts \cup {CAPSLOCK} : Press(key)
  /\ irr' = FALSE /\ ctl' = [ctl EXCEPT !.full = FALSE]
  /\ UNCHANGED <<boot, wire, firmware, apic, irq_table, redir>>

\* a byte that finds no handler stays in the controller
Unheard ==
  /\ boot = "on" /\ ~ctl.full /\ Handler # "ps2_irq"
  /\ ctl' = [ctl EXCEPT !.full = TRUE]
  /\ UNCHANGED <<console_vars, boot, wire, firmware, apic, irq_table, redir, irr>>

\* the steps of the console: a byte and its interrupt, or the program
Keyboard_irq ==
  /\ boot = "on" /\ ~ctl.full /\ Handler = "ps2_irq"
  /\ \/ \E key \in Shifts \cup Ctrls : Press(key) \/ Repeat(key) \/ Release(key)
     \/ \E key \in CharKeys \cup {CAPSLOCK} : Press(key)
     \/ Prefix
     \/ \E key \in Shifts : Extended(key)
  /\ UNCHANGED boot_vars

Program ==
  /\ boot = "on"
  /\ Program_reads \/ \E c \in {NL} \cup Letters : Program_writes(c)
  /\ UNCHANGED boot_vars

KeyboardNext ==
  \/ Setup_stage2 \/ Ps2_test \/ Enable_first_port \/ Reset_devices
  \/ Request_keyboard \/ Timer_irq_init \/ Local_irq_enable
  \/ Key_at_boot \/ Pending_irq \/ Unheard \/ Keyboard_irq \/ Program

KeyboardSpec == KeyboardInit /\ [][KeyboardNext]_keyboard_vars

-----------------------------------------------------------------------------
\* the records of the MADT that init_apic() used
Records == Found_madt(firmware).records

\* the tables were read, and are not yet forgotten
Parsed == boot \notin {"apic", "panic", "on"}

\* The table of cores lists the enabled processors of an MADT whose checksum,
\* and those of the tables that lead to it, are right, but for the record that
\* ends it; and of these cores the one that runs is awake alone.
CoresListed ==
  Parsed =>
    /\ {apic.cores[i].apic_id : i \in Awake(apic.cores)} = {BootId}
    /\ \E i \in DOMAIN firmware : \E j \in DOMAIN firmware[i].sdt.tables :
         LET madt == firmware[i].sdt.tables[j]
             rec == madt.records
         IN  /\ firmware[i].sum /\ (firmware[i].revision = 2 => firmware[i].xsum)
             /\ firmware[i].sdt.sum /\ madt.sum /\ madt.sig = "APIC"
             /\ {apic.cores[k].apic_id : k \in DOMAIN apic.cores}
                  = {rec[k].apic_id : k \in {l \in 1..(Len(rec) - 1) :
                       rec[l].type = 0 /\ rec[l].length = "full" /\ rec[l].enabled}}

\* Once request_irq() has returned, the pin the board wired to the keyboard is
\* the one pin with a route, and the route ends in ps2_irq(), unless the record
\* that says where the wire is is the one that ends the MADT.
KeyboardWired ==
  boot \in {"timer", "sti"} /\ Records[Len(Records)].type # 2 =>
    /\ Handler = "ps2_irq"
    /\ \A pin \in Pins \ {wire} : redir[pin] = 0

\* With interrupts on, every vector that can be raised has a handler: the one
\* the timer of the local APIC was given, and those of the pins with a route.
InterruptsHandled ==
  boot = "on" =>
    /\ irq_table[IRQ_TIMER] = "timer_irq_handler"
    /\ \A pin \in Pins : redir[pin] # 0 => irq_table[redir[pin] - IRQ_BASE] # "none"

\* A byte waits in the controller only when its interrupt is pending, so that
\* the keyboard goes on, unless the key was pressed between the reset of the
\* devices and request_irq(); and a pending interrupt finds its byte.
NoByteStuck ==
  boot = "on" /\ Handler = "ps2_irq" => (irr <=> ctl.full /\ ~ctl.early)
=============================================================================
