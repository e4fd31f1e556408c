-------------------------------- MODULE Apic --------------------------------
(***************************************************************************)
(* How init_apic() learns of the interrupt controllers: the RSDP and the   *)
(* tables behind it (acpi.c), the records of the MADT (madt.c) and what is *)
(* kept of them (apic.c, cores.c).  The tables are what the firmware left: *)
(*                                                                         *)
(*   firmware   a sequence of candidates for the RSDP, as the scan meets   *)
(*              them: [sum, revision, xsum, sdt], with both checksums      *)
(*   sdt        the table its revision selects: [sig, sum, tables]         *)
(*   tables     a sequence of [sig, sum, records]                          *)
(*   records    a sequence of [type, length, ...]; the length is "none"    *)
(*              (below a header), "short" (below its type) or "full"       *)
(*                                                                         *)
(* What is kept is [panic, count, cores, ioapic, overrides, called].  A    *)
(* core is [apic_id, is_awake].                                            *)
(***************************************************************************)
EXTENDS Naturals, Sequences, FiniteSets, FiniteSetsExt

CONSTANTS
  MAX_PIC_IRQ,     \* the last interrupt that an override can name
  BootId           \* the APIC id of the core that boots

-----------------------------------------------------------------------------
\* get_rsdp() returns the first of these candidates, NULL if there is none
Get_rsdp(firmware) ==
  {i \in DOMAIN firmware : firmware[i].sum /\ (firmware[i].revision = 2 => firmware[i].xsum)}

\* validate_sdt_header()
Validate_sdt(rsdp) == rsdp.sdt.sig = (IF rsdp.revision = 2 THEN "XSDT" ELSE "RSDT") /\ rsdp.sdt.sum

\* faulty: the checksum of the entry is not asked
Sdt_find_unsummed(rsdp, signature) ==
  {i \in DOMAIN rsdp.sdt.tables : Validate_sdt(rsdp) /\ rsdp.sdt.tables[i].sig = signature}

\* sdt_find() returns the first of these tables, NULL if there is none
Sdt_find(rsdp, signature) ==
  {i \in DOMAIN rsdp.sdt.tables :
     Validate_sdt(rsdp) /\ rsdp.sdt.tables[i].sig = signature /\ rsdp.sdt.tables[i].sum}

\* the records the loops over the MADT reach: the condition
\* ptr + header->length < madt_end is false for the one that ends the table
Reached(records) ==
  LET n == Len(records)
  IN  IF n = 0 \/ records[n].length = "none" THEN records ELSE SubSeq(records, 1, n - 1)

\* a processor that counts as a core
Enabled(rec) == rec.type = 0 /\ rec.length = "full" /\ rec.enabled

Madt_count_cores(records) == Cardinality({i \in DOMAIN records : Enabled(records[i])})

-----------------------------------------------------------------------------
Record_type_0(g, rec) ==
  IF ~Enabled(rec) THEN g
  ELSE IF Len(g.cores) >= g.count THEN [g EXCEPT !.panic = TRUE]
  ELSE [g EXCEPT !.cores = Append(@, [apic_id |-> rec.apic_id, is_awake |-> FALSE])]

Record_type_1(g, rec) ==
  IF rec.length # "full" \/ rec.gsi_base # 0 THEN g ELSE [g EXCEPT !.ioapic = TRUE]

Record_type_2(g, rec) ==
  IF rec.length # "full" \/ rec.irq_src > MAX_PIC_IRQ THEN g
  ELSE [g EXCEPT !.overrides[rec.irq_src] = rec.gsi]

Record_type_5(g, rec) ==
  IF rec.length # "full" THEN g
  ELSE IF g.called THEN [g EXCEPT !.panic = TRUE] ELSE [g EXCEPT !.called = TRUE]

\* one round of madt_parse_recoreds(); a panic is the end
Parse_record(g, rec) ==
  IF g.panic THEN g
  ELSE CASE rec.type = 0 -> Record_type_0(g, rec)
         [] rec.type = 1 -> Record_type_1(g, rec)
         [] rec.type = 2 -> Record_type_2(g, rec)
         [] rec.type \in {3, 4} -> g
         [] rec.type = 5 -> Record_type_5(g, rec)
         [] OTHER -> [g EXCEPT !.panic = TRUE]

\* update_awake_cores()
Update_awake_cores(cores) ==
  [i \in DOMAIN cores |-> [cores[i] EXCEPT !.is_awake = @ \/ cores[i].apic_id = BootId]]

Awake(cores) == {i \in DOMAIN cores : cores[i].is_awake}

-----------------------------------------------------------------------------
\* irq_overrides_init(), and the globals as the kernel is loaded
Apic_globals ==
  [panic |-> FALSE, count |-> 0, cores |-> <<>>, ioapic |-> FALSE,
   overrides |-> [irq \in 0..MAX_PIC_IRQ |-> irq], called |-> FALSE]

\* the loop of madt_parse_recoreds()
Parse_records(records, count) ==
  LET g[i \in 0..Len(records)] ==
        IF i = 0 THEN [Apic_globals EXCEPT !.count = count] ELSE Parse_record(g[i - 1], records[i])
  IN  g[Len(records)]

\* from the records of the MADT to the tables of cores and overrides
Parse_madt(records) ==
  LET count == Madt_count_cores(Reached(records))
      g == Parse_records(Reached(records), count)
      cores == Update_awake_cores(g.cores)
  IN  IF (\E i \in DOMAIN records : records[i].length = "none") \/ count = 0
      THEN [Apic_globals EXCEPT !.panic = TRUE]
      ELSE [g EXCEPT !.panic = @ \/ ~g.ioapic \/ Cardinality(Awake(cores)) # 1,
                     !.cores = cores]

\* the tables init_apic() looks at
Found_rsdp(firmware) == firmware[Min(Get_rsdp(firmware))]
Found_madt(firmware) == Found_rsdp(firmware).sdt.tables[Min(Sdt_find(Found_rsdp(firmware), "APIC"))]

\* init_apic()
Init_apic(firmware) ==
  IF Get_rsdp(firmware) = {} \/ Sdt_find(Found_rsdp(firmware), "APIC") = {}
  THEN [Apic_globals EXCEPT !.panic = TRUE]
  ELSE Parse_madt(Found_madt(firmware).records)
=============================================================================
