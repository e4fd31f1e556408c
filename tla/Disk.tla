-------------------------------- MODULE Disk --------------------------------
(***************************************************************************)
(* The path of a read: the AHCI driver (drivers/ahci/ahci.c) with one      *)
(* command slot per port, the registry of block devices (block/block.c)    *)
(* and the partitions found at boot (block/partition.c).                   *)
(*                                                                         *)
(* The controller is external: it runs a command that the driver has put   *)
(* in ci, and either copies the sectors into the regions of the command's  *)
(* table and clears ci, or sets TFES and, as AHCI has it, runs nothing     *)
(* more until the port is restarted, which the driver never does.  A byte  *)
(* of a disk is <<port, number of the byte>>.                              *)
(***************************************************************************)
EXTENDS Integers, Sequences, FiniteSets, FiniteSetsExt

CONSTANTS
  NPorts,          \* ports the controller implements
  Sata,            \* those with an active SATA disk
  Mbr,             \* port -> the entries of its table: [sys_id, lba_start]
  MBR_ENTRY_COUNT,
  SectorSize,
  REGION_MAX,      \* AHCI_PHYSICAL_REGION_MAX_LENGTH
  MAX_ENTRIES,     \* descriptors that fit in a command table
  COUNT_MOD,       \* the count of a command has 16 bits
  BLOCK_DEV_MAX,
  Requests,        \* what a file system asks for: [lba, count, iovec]
  MaxReads         \* bound on the reads after boot

ASSUME DiskAssumption ==
  /\ NPorts \in Nat /\ Sata \subseteq 0..(NPorts - 1)
  /\ SectorSize \in Nat \ {0} /\ REGION_MAX \in Nat \ {0} /\ COUNT_MOD \in Nat \ {0}
  /\ MBR_ENTRY_COUNT \in Nat /\ MAX_ENTRIES \in Nat /\ BLOCK_DEV_MAX \in Nat
  /\ Mbr \in [Sata -> [1..MBR_ENTRY_COUNT -> [sys_id : Nat, lba_start : Nat]]]
  /\ Requests \subseteq [lba : Nat, count : Nat, iovec : Seq([addr : Nat, length : Nat \ {0}])]

VARIABLES
  port,     \* port -> its registers and the command in its slot
  mem,      \* physical memory: address -> byte
  devs,     \* registered_block_devices: [port, lba_start]
  call,     \* the read or identify under way
  phase,    \* [step, n, end]: "probe" port n, "scan" device n of end, "run", "panic"
  reads     \* reads made after boot

vars == <<port, mem, devs, call, phase, reads>>

-----------------------------------------------------------------------------
\* the descriptors of one vector: dbc is one less than the length, which the
\* device adds again
Regions(v) ==
  [i \in 1..((v.length + REGION_MAX - 1) \div REGION_MAX) |->
     [addr |-> v.addr + (i - 1) * REGION_MAX,
      len |-> IF i * REGION_MAX <= v.length THEN REGION_MAX ELSE v.length % REGION_MAX]]

\* sequences one after the other
Flatten(seqs) ==
  LET upto[i \in 0..Len(seqs)] == IF i = 0 THEN <<>> ELSE upto[i - 1] \o seqs[i]
  IN  upto[Len(seqs)]

\* ahci_build_prdt(), unless there are more than MAX_ENTRIES
Build_prdt(iovec) == Flatten([i \in DOMAIN iovec |-> Regions(iovec[i])])

\* the addresses of regions, in the order in which they are filled
Addresses(regions) ==
  Flatten([i \in DOMAIN regions |-> [j \in 1..regions[i].len |-> regions[i].addr + j - 1]])

\* the addresses of a caller's vectors
Buffers(iovec) == Addresses([i \in DOMAIN iovec |-> [addr |-> iovec[i].addr, len |-> iovec[i].length]])

\* no caller asks for two parts of its data at one address
ASSUME BufferAssumption == \A q \in Requests : IsInjective(Buffers(q.iovec))

\* ahci_cmdtbl_build_fis() and the command header
Command(op, lba, count, iovec) ==
  [op |-> op, lba |-> lba, count |-> count % COUNT_MOD, prdt |-> Build_prdt(iovec)]

NoCommand == [op |-> "none", lba |-> 0, count |-> 0, prdt |-> <<>>]
NoCall == [pc |-> "idle", use |-> "none", port |-> 0, start |-> 0, req |-> [lba |-> 0, count |-> 0, iovec |-> <<>>],
           res |-> "none"]

Buffer(n) == <<[addr |-> 0, length |-> n]>>

\* faulty: the address of a partition's sector is that of the disk
Begin_unmoved(ports, p, op, start, q, use) ==
  /\ call' = [pc |-> "issue", use |-> use, port |-> p, start |-> start, req |-> q, res |-> "none"]
  /\ port' = [ports EXCEPT ![p].cmd = Command(op, q.lba, q.count, q.iovec)]

\* __ahci_read() and ahci_identify() up to ahci_issue_cmd(); the command table
\* is a page of its own, made at the first command
Begin(ports, p, op, start, q, use) ==
  IF Len(Build_prdt(q.iovec)) > MAX_ENTRIES
  THEN /\ call' = [pc |-> "returned", use |-> use, port |-> p, start |-> start, req |-> q, res |-> "ENOMEM"]
       /\ port' = ports
  ELSE /\ call' = [pc |-> "issue", use |-> use, port |-> p, start |-> start, req |-> q, res |-> "none"]
       /\ port' = [ports EXCEPT ![p].cmd = Command(op, start + q.lba, q.count, q.iovec)]

Init ==
  /\ port \in [0..(NPorts - 1) ->
                 [st : {FALSE}, ci : {FALSE}, tfes : {FALSE}, bsy : BOOLEAN, wedged : {FALSE},
                  cmd : {NoCommand}]]
  /\ mem = <<>>
  /\ devs = <<>>
  /\ call = NoCall
  /\ phase = [step |-> "probe", n |-> 0, end |-> NPorts]
  /\ reads = 0

Panic == phase' = [step |-> "panic", n |-> 0, end |-> 0]

-----------------------------------------------------------------------------
\* ahci_init() without a controller; ahci_init_port() or a caller out of memory
Boot_fails ==
  /\ phase.step \in {"probe", "scan"} /\ call.pc = "idle"
  /\ Panic
  /\ UNCHANGED <<port, mem, devs, call, reads>>

\* ahci_init_port() stops the port, sets its lists and starts it
Ahci_init_port(p) == [port EXCEPT ![p].st = TRUE]

\* ahci_probe_ports(), one port of it up to ahci_identify()
Probe_port ==
  /\ phase.step = "probe" /\ phase.n < phase.end /\ call.pc = "idle"
  /\ IF phase.n \in Sata
     THEN Begin(Ahci_init_port(phase.n), phase.n, "identify", 0, [lba |-> 0, count |-> 0, iovec |-> Buffer(SectorSize)], "identify")
          /\ UNCHANGED phase
     ELSE phase' = [phase EXCEPT !.n = @ + 1] /\ UNCHANGED <<port, call>>
  /\ UNCHANGED <<mem, devs, reads>>

\* block_dev_register(): a device that does not fit is dropped
Register(list, d) == IF Len(list) >= BLOCK_DEV_MAX THEN list ELSE Append(list, d)

\* the rest of ahci_probe_ports(), after ahci_identify()
Identified ==
  /\ call.pc = "returned" /\ call.use = "identify"
  /\ \E memory \in BOOLEAN : IF call.res = "ok" /\ memory
     THEN devs' = Register(devs, [port |-> call.port, lba_start |-> 0])
          /\ phase' = [phase EXCEPT !.n = @ + 1]
     ELSE Panic /\ UNCHANGED devs
  /\ call' = NoCall
  /\ UNCHANGED <<port, mem, reads>>

\* vfs_scan_partitions(): the devices there are when it begins
Scan_begins ==
  /\ phase.step = "probe" /\ phase.n = phase.end
  /\ phase' = [step |-> "scan", n |-> 1, end |-> Len(devs)]
  /\ UNCHANGED <<port, mem, devs, call, reads>>

\* partition_scan(): the read of the first sector
Scan_disk ==
  /\ phase.step = "scan" /\ phase.n <= phase.end /\ call.pc = "idle"
  /\ Begin(port, devs[phase.n].port, "read", devs[phase.n].lba_start,
           [lba |-> 0, count |-> 1, iovec |-> Buffer(SectorSize)], "mbr")
  /\ UNCHANGED <<mem, devs, phase, reads>>

\* faulty: the table ends at its first unused entry
Register_used_first(p) ==
  LET list[i \in 0..MBR_ENTRY_COUNT] ==
        IF i = 0 THEN devs
        ELSE IF \E j \in 1..i : Mbr[p][j].sys_id = 0 THEN list[i - 1]
        ELSE Register(list[i - 1], [port |-> p, lba_start |-> Mbr[p][i].lba_start])
  IN  list[MBR_ENTRY_COUNT]

\* the used entries of the sector's table, one after the other
Register_used(p) ==
  LET list[i \in 0..MBR_ENTRY_COUNT] ==
        IF i = 0 THEN devs
        ELSE IF Mbr[p][i].sys_id = 0 THEN list[i - 1]
        ELSE Register(list[i - 1], [port |-> p, lba_start |-> Mbr[p][i].lba_start])
  IN  list[MBR_ENTRY_COUNT]

\* the rest of partition_scan(); without memory for one partition none of them
\* is registered
Scanned ==
  /\ call.pc = "returned" /\ call.use = "mbr"
  /\ \E memory \in BOOLEAN : IF call.res = "ok" /\ memory
     THEN devs' = Register_used(call.port)
          /\ phase' = [phase EXCEPT !.n = @ + 1]
     ELSE Panic /\ UNCHANGED devs
  /\ call' = NoCall
  /\ UNCHANGED <<port, mem, reads>>

Booted ==
  /\ phase.step = "scan" /\ phase.n = phase.end + 1
  /\ phase' = [step |-> "run", n |-> 0, end |-> 0]
  /\ UNCHANGED <<port, mem, devs, call, reads>>

\* bdev->read(), which is partition_read() or ahci_read(), from a file system
Read(d, q) ==
  /\ phase.step = "run" /\ call.pc = "idle" /\ reads < MaxReads
  /\ Begin(port, d.port, "read", d.lba_start, q, "read")
  /\ reads' = reads + 1
  /\ UNCHANGED <<mem, devs, phase>>

Read_returns ==
  /\ call.pc = "returned" /\ call.use = "read"
  /\ call' = NoCall
  /\ UNCHANGED <<port, mem, devs, phase, reads>>

-----------------------------------------------------------------------------
Return(res) == call' = [call EXCEPT !.pc = "returned", !.res = res]

\* ahci_issue_cmd(): the device is ready, is is cleared and the command goes out
Issue_cmd ==
  /\ call.pc = "issue" /\ ~port[call.port].bsy
  /\ port' = [port EXCEPT ![call.port].tfes = FALSE, ![call.port].ci = TRUE]
  /\ call' = [call EXCEPT !.pc = "poll"]
  /\ UNCHANGED <<mem, devs, phase, reads>>

\* faulty: the command goes out before the device is waited for
Issue_timeout_late ==
  /\ call.pc = "issue" /\ port[call.port].bsy
  /\ port' = [port EXCEPT ![call.port].ci = TRUE]
  /\ Return("EIO")
  /\ UNCHANGED <<mem, devs, phase, reads>>

\* the device stays busy for a million reads of its status
Issue_timeout ==
  /\ call.pc = "issue" /\ port[call.port].bsy
  /\ Return("EIO")
  /\ UNCHANGED <<port, mem, devs, phase, reads>>

\* faulty: only the end of the command ends the loop
Poll_ci ==
  /\ call.pc = "poll"
  /\ ~port[call.port].ci
  /\ Return(IF port[call.port].tfes THEN "EIO" ELSE "ok")
  /\ UNCHANGED <<port, mem, devs, phase, reads>>

\* the loop of ahci_issue_cmd() ends
Poll ==
  /\ call.pc = "poll"
  /\ ~port[call.port].ci \/ port[call.port].tfes
  /\ Return(IF port[call.port].tfes THEN "EIO" ELSE "ok")
  /\ UNCHANGED <<port, mem, devs, phase, reads>>

\* the loop goes round
Poll_again == call.pc = "poll" /\ UNCHANGED vars

\* the bytes a command reads: a count of zero is COUNT_MOD sectors
Sectors(p, c) ==
  LET n == IF c.op = "identify" THEN 1 ELSE IF c.count = 0 THEN COUNT_MOD ELSE c.count
  IN  [i \in 1..(n * SectorSize) |->
         IF c.op = "identify" THEN <<p, -i>> ELSE <<p, c.lba * SectorSize + i - 1>>]

\* the controller runs a command
Device_runs(p) ==
  LET to == Addresses(port[p].cmd.prdt)
      from == Sectors(p, port[p].cmd)
      n == Min({Len(to), Len(from)})
  IN  /\ port[p].st /\ port[p].ci /\ ~port[p].wedged
      /\ mem' = [a \in DOMAIN mem \cup {to[i] : i \in 1..n} |->
                   IF \E i \in 1..n : to[i] = a
                   THEN from[Max({i \in 1..n : to[i] = a})] ELSE mem[a]]
      /\ port' = [port EXCEPT ![p].ci = FALSE]
      /\ UNCHANGED <<devs, call, phase, reads>>

\* the disk reports an error, and may stay busy
Device_fails(p) ==
  /\ port[p].st /\ port[p].ci /\ ~port[p].wedged
  /\ \E busy \in BOOLEAN :
       port' = [port EXCEPT ![p].tfes = TRUE, ![p].wedged = TRUE, ![p].bsy = busy]
  /\ UNCHANGED <<mem, devs, call, phase, reads>>

Device_ready(p) ==
  /\ port[p].bsy
  /\ port' = [port EXCEPT ![p].bsy = FALSE]
  /\ UNCHANGED <<mem, devs, call, phase, reads>>

Idle == (phase.step = "panic" \/ reads = MaxReads) /\ call.pc = "idle" /\ UNCHANGED vars

Driver ==
  \/ Probe_port \/ Identified \/ Scan_begins \/ Scan_disk \/ Scanned \/ Booted
  \/ Read_returns \/ Issue_cmd \/ Issue_timeout \/ Poll

Device(p) == Device_runs(p) \/ Device_fails(p)

Next ==
  \/ Driver \/ Boot_fails \/ Poll_again \/ Idle
  \/ \E i \in DOMAIN devs, q \in Requests : Read(devs[i], q)
  \/ \E p \in Sata : Device(p) \/ Device_ready(p)

\* the CPU goes on, and a controller that can run a command answers it
Spec ==
  Init /\ [][Next]_vars /\ WF_vars(Driver) /\ \A p \in Sata : WF_vars(Device(p))

-----------------------------------------------------------------------------
\* A call that returns 0 has met no error, so that the MBR of a failed read is
\* never taken for a partition table; and a read that returns 0 has filled the
\* caller's vectors, in order, with the sectors asked for, counted from the
\* start of the partition, as long as the count fits in the command's 16 bits.
ReadDelivers ==
  call.pc = "returned" /\ call.res = "ok" =>
    /\ ~port[call.port].tfes
    /\ call.use = "read" /\ call.req.count <= COUNT_MOD =>
         LET to == Buffers(call.req.iovec)
         IN  \A i \in 1..Min({Len(to), call.req.count * SectorSize}) :
               mem[to[i]] = <<call.port, (call.start + call.req.lba) * SectorSize + i - 1>>

\* The controller writes memory only while a call waits for it, and only in
\* that call's vectors: none of the driver's early returns leaves a command
\* behind that would write into a buffer its caller has freed.
DmaOnlyDuringCall ==
  [][ mem' # mem =>
        /\ call.pc = "poll"
        /\ \A a \in DOMAIN mem' : (a \notin DOMAIN mem \/ mem'[a] # mem[a]) =>
             \E i \in DOMAIN call.req.iovec :
               a \in call.req.iovec[i].addr..(call.req.iovec[i].addr + call.req.iovec[i].length - 1) ]_vars

\* the disks, which are entry 0, and the used entries of their tables
Entries == {d \in Sata \X (0..MBR_ENTRY_COUNT) : d[2] = 0 \/ Mbr[d[1]][d[2]].sys_id # 0}

Device_of(d) == [port |-> d[1], lba_start |-> IF d[2] = 0 THEN 0 ELSE Mbr[d[1]][d[2]].lba_start]

\* the disks come first, then the partitions of one disk after the other
Before(c, d) ==
  \/ c[2] = 0 /\ d[2] # 0
  \/ (c[2] = 0 <=> d[2] = 0) /\ (c[1] < d[1] \/ (c[1] = d[1] /\ c[2] < d[2]))

Rank(d) == Cardinality({c \in Entries : Before(c, d)})

\* When boot is over, the registry lists the disks in the order of their
\* ports and then the partitions, disk by disk in the order of their tables,
\* as many as it can hold.
RegistryInOrder ==
  phase.step = "run" =>
    /\ Len(devs) = Min({Cardinality(Entries), BLOCK_DEV_MAX})
    /\ \A d \in Entries : Rank(d) < BLOCK_DEV_MAX => devs[Rank(d) + 1] = Device_of(d)

\* Every call returns, although ahci_issue_cmd() polls without a limit, if the
\* port has not had an error before: an error wedges the port, and a later
\* command on it, such as the second try of ext2_read_file(), never ends.
CallsReturn ==
  \A p \in Sata :
    (call.pc = "issue" /\ call.port = p /\ ~port[p].wedged) ~> (call.pc \in {"returned", "idle"})
=============================================================================
