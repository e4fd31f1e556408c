----------------------------- MODULE MCConsole ------------------------------
(***************************************************************************)
(* Keys in the range and outside it, a screen of two rows of two cells and *)
(* a ring of three characters, so that rows, the screen and the ring are   *)
(* all filled.  The boards have one or two cores, I/O APICs that serve the *)
(* first pins or not, the keyboard on its own pin, on another or on the    *)
(* last one, and tables that are damaged in the ways acpi.c looks for.     *)
(***************************************************************************)
EXTENDS Keyboard

CONSTANTS KA, KENTER, KBS, a, A

MCascii_map == (KA :> a) @@ (KENTER :> NL) @@ (KBS :> BS)
MCascii_shift_map == (KA :> A) @@ (KENTER :> NL) @@ (KBS :> BS)

Cpu(id, enabled) == [type |-> 0, length |-> "full", apic_id |-> id, enabled |-> enabled]
Io(base) == [type |-> 1, length |-> "full", gsi_base |-> base]
Override(irq, gsi) == [type |-> 2, length |-> "full", irq_src |-> irq, gsi |-> gsi]
Other(type, length) == [type |-> type, length |-> length]

\* the records that say where the keyboard is
Wiring(pin) == IF pin = 1 THEN {<<>>, <<Override(5, 3)>>} ELSE {<<Override(1, pin)>>}

Madts(pin) ==
  {cpus \o <<Cpu(0, TRUE)>> \o io \o ov \o rest :
     cpus \in {<<>>, <<Cpu(1, TRUE)>>, <<Cpu(1, FALSE)>>, <<Cpu(0, TRUE)>>},
     io \in {<<Io(0)>>, <<Io(24)>>, <<Io(24), Io(0)>>},
     ov \in Wiring(pin),
     rest \in {<<>>, <<Other(4, "full")>>, <<Other(3, "full"), Cpu(1, TRUE)>>,
               <<Other(5, "short"), Other(5, "full"), Other(4, "full")>>,
               <<Other(5, "full"), Other(5, "full"), Other(4, "full")>>,
               <<Other(9, "full"), Other(4, "full")>>, <<Other(0, "none")>>,
               <<Other(0, "short"), Other(1, "short"), Other(2, "short"), Other(4, "full")>>}}
  \cup {<<Cpu(0, FALSE), Io(0), Other(4, "full")>> \o ov : ov \in Wiring(pin)}

Table(records, ok) == [sig |-> "APIC", sum |-> ok, records |-> records]
Sdt(sig, ok, tables) == [sig |-> sig, sum |-> ok, tables |-> tables]
Rsdp(ok, rev, xok, sdt) == [sum |-> ok, revision |-> rev, xsum |-> xok, sdt |-> sdt]

\* the damage that can be done to a table m, with a sound one behind it
Roots(m) ==
  LET good == Sdt("RSDT", TRUE, <<Table(m, TRUE)>>)
      fake == Table(<<Cpu(0, TRUE), Cpu(3, TRUE), Io(0), Other(4, "full")>>, FALSE)
  IN  {<<>>, <<Rsdp(FALSE, 0, TRUE, good)>>, <<Rsdp(TRUE, 0, TRUE, Sdt("RSDT", FALSE, <<fake>>))>>,
       <<Rsdp(TRUE, 2, TRUE, good)>>, <<Rsdp(TRUE, 0, TRUE, Sdt("RSDT", TRUE, <<fake>>))>>,
       <<Rsdp(TRUE, 2, FALSE, Sdt("XSDT", TRUE, <<fake>>)), Rsdp(TRUE, 0, TRUE, good)>>,
       <<Rsdp(TRUE, 2, TRUE, Sdt("XSDT", TRUE, <<fake, [fake EXCEPT !.sig = "FACP"], Table(m, TRUE)>>))>>}

MCFirmware(pin) ==
  {<<Rsdp(TRUE, 0, TRUE, Sdt("RSDT", TRUE, <<Table(m, TRUE)>>))>> : m \in Madts(pin)}
  \cup UNION {Roots(<<Cpu(0, TRUE), Io(0)>> \o ov \o <<Other(4, "full")>>) : ov \in Wiring(pin)}
=============================================================================
