# A TLA+ model of SnapOS

SnapOS is a small x86_64 kernel: a boot loader, physical and virtual memory
management, a scheduler with preemption by the local APIC timer, system calls, a
terminal with blocking reads, a keyboard and a screen, an AHCI driver, ext2, and an
ELF loader that starts one user program. This project models these parts, checks
them with TLC on small instances, and proves with TLAPS, for every value of their
constants, that the scheduler, the terminal and its blocking calls, the keyboard's
interrupt and the tables it is found in, the echo on the screen, the path of a disk
read, the kernel heap and the physical allocators are correct.

## The system and its parts

| part | state | operations | modules |
|---|---|---|---|
| scheduler (`kernel/sched.c`, `task.c`) | `run_queue`, `current_task`, task states | `kthread_run`, `schedule`, `timer_irq_handler`, `wake_up_task` | `RunQueue`, `Sched` |
| context switch, interrupts, system call entry (`arch/x86_64/kernel/*`, `syscall.asm`) | interrupt flag, GS base, cr3, TSS rsp0, `cpu0_data`, saved frames, APIC in-service bit | `__arch_switch_to`, `ret_from_fork`, `irq_common`, `irq_router`, `syscall_entry` | `Sched` |
| wait queues (`kernel/wait.c`) | lists of entries on the waiters' stacks | `prepare_to_wait`, `finish_wait`, `__wakeup` | `TtyWait` |
| terminal (`kernel/tty.c`) | ring buffer, `canon_lines`, `fg_pid` | `tty_push_char`, `tty_read`, `tty_write` | `TtyRing`, `LineQueue`, `TtyWait` |
| keyboard and screen (`drivers/ps2`, `kernel/input.c`, `drivers/vga`) | prefix, modifier counters, cursor, cells | `ps2_irq`, `input_handle_event`, `vga_putchar`, `vga_del_last` | `Console` |
| interrupt set-up (`acpi.c`, `madt.c`, `apic.c`, `kernel/irq.c`, `ps2_kyb_init`) | cores, overrides, `irq_table`, redirection entries | `init_apic`, `request_irq`, `apic_route_irq` | `Apic`, `Keyboard` |
| memory map and physical allocators (`setup.c`, `mm/early_pmm.c`, `mm/pmm.c`) | E820 list, sanitised list, bump cursor, bitmap | `early_pmm_*`, `pmm_*` | `MemMap`, `PhysMem` |
| kernel heap (`mm/kmalloc.c`) | free lists of the tiers, list of big blocks | `kmalloc`, `kfree`, `alloc_pages`, `free_pages` | `Kmalloc` |
| paging (`paging.c`, `mm/vmm.c`) | page tables | `mmu_map_range`, `vmm_init`, `ioremap`, `vmm_copy_kpgtbl`, `vmm_alloc_range` | `Paging` |
| address spaces and ELF (`mm/mm.c`, `fs/elf.c`) | `mm_struct`, lists of allocations, user memory | `mm_create`, `mm_add_alloc`, `mm_alloc_main_stack`, `elf_load` | `UserSpace` |
| block layer and AHCI (`block/*`, `drivers/ahci`) | command slots, port registers, registry | probe, partition scan, `read` | `Disk` |
| ext2 and VFS (`fs/ext2/*`, `fs/vfs.c`) | dentries, inodes, indirect tables, files | `ext2_mount`, lookup, `vfs_open`, `vfs_read`, `vfs_seek`, `vfs_close` | `Ext2`, `Vfs` |
| boot loader (`arch/x86_64/boot`, `start.asm`) | memory map, A20 line, CPU mode, kernel image | the stages of `boot.asm`, `stage2.asm`, `loadkernel.c` | `Boot`, `Files` |

There is one CPU and the spinlocks are empty (`include/spinlock.h`), so everything
that runs at the same time rests on the interrupt flag: FMASK clears it on `syscall`,
interrupt gates clear it on entry, and `__schedule()` saves and restores it. A system
call of the terminal sleeps on a wait queue through the scheduler; the keyboard
interrupt fills the ring and wakes the sleepers; the timer interrupt switches tasks.
What is hard to test there is what happens when the flag is not enough: state that a
task leaves in a per-CPU place while it sleeps, the few instructions that run with
interrupts enabled, paths that leave a call without undoing its preparations.

The other parts run in order, most of them once, and are hard to test for another
reason: an allocation or a read may fail at any point, tables and maps come from
outside, and what one part takes for granted is made by another.

## Modules

**RunQueue** is the scheduling policy: the list, `current_task` and the task states,
one action per operation. `Dispatch` is `__schedule()`: `Pick_queue` is the dequeue of
a sleeping caller, `Next_queue` the rotation in `__sched_next()`.

**Sched** is the machine. `cpu` holds the interrupt flag, GS base, cr3, rsp0, the
vector being handled and `cpu0_data`; `at[p]` is where task `p` is; `insched`,
`flags`, `sframe` and `frame` are what is saved on its kernel stack. `Irq_entry` can
happen at any step at which the flag is set. A switch is `Do_schedule` with
`Arch_switch_to` in the context of the old task, and `Sched_return` in that of the
new one. A system call may prepare to wait, sleep and finish any number of times.
`ImplementsRunQueue` is the refinement of `RunQueue`.

**TtyRing** is `struct tty_struct` with head, tail and `canon_lines`; **LineQueue**
is what it promises, a queue of characters read line by line. `Spec` allows any
keys. `CarefulSpec` leaves out a newline that meets a full ring and a backspace that
meets a finished line.

**TtyWait** composes `Sched` and `TtyRing`: `tty_read()` and `tty_write()` step by
step, two wait queues, and `wake_up()` as a walk with a cursor. It implements both
(`ImplementsSched`, `ImplementsRing`). `Spec` assumes that the first byte of a user
buffer is writable; `FaultSpec` does not.

**Console** puts the keyboard and the screen around `TtyRing`: bytes with their
prefixes, modifiers, characters, echo, and a program that writes. The keyboard
repeats keys and may lose a byte. The typist is a careful one, as in `CarefulSpec`.

**Apic** has the firmware's tables as acpi.c and madt.c read them, as operators.
**Keyboard** extends `Console` and `Apic` with the boot that makes the keyboard
interrupt: the tables, the controller's tests and reset, `irq_table`, the route, the
interrupt flag. Keys may be pressed from `enable_first_port()` on.

**MemMap** translates the E820 list into the sanitised map. `boundaries[]`, sorted and
without duplicates, is a set of numbers; `Sanitize` is the loop over the stretches
between neighbours, as a function of the boundary the loop has come to. **PhysMem**
extends it with both allocators and the hand-over between them.

**Kmalloc** is the heap over an allocator that gives the lowest run of pages, which
is what `ContiguousIsFirstFit` says of `PhysMem`. `kfree()` tells a slot from a big
block by the first word of the page; a big block's owner may have written that word,
and the ghost `fooled` records it.

**Paging** has real tables: a table is a frame, entries name frames, three page sizes,
and address spaces share what lies below the copied top level. **UserSpace** runs
`init_task_init()` for several tasks on it, one step per stage or program header.

**Disk** is the AHCI driver against a controller that runs or fails each command, the
registry and the partitions. An error stops the port, and the driver never restarts it.
A byte of a disk is the port and its number, so that what memory holds says where it
came from. The order of the registry is stated by counting: a device stands behind as
many others as come before it (`Before`, `Rank`).

**Ext2** is the driver as operators on a record, in which every allocation and every
read is numbered and those in a given set fail. **Vfs** has one action per call.
**Boot** is the loader, which reads the same disk through the BIOS. **Files** composes
them: one disk, two readers.

**MC\*** modules give maps, tables, disks, programs and requests. Modules also hold
variants of some definitions, marked as faulty and named after the definition with
a suffix. They are not part of any specification; each shows, put in place of the
right one, that a property notices the mistake.

## Runs

| run | result | what it shows |
|---|---|---|
| `rq_starvation` | violated | four tasks: a runnable task can be passed over for ever |
| `sched_tasks` | holds | three tasks, interrupts everywhere: handlers never meet a task between going to sleep and sleeping, a task has its own stack and page tables, init alone keeps its GS base and user stack, `RunQueue` is implemented, every runnable task runs |
| `sched_gs` | violated | two tasks: user mode with the kernel's GS base |
| `ring_any_keys` | violated | `canon_lines` counts a line that is not in the ring |
| `tty_wait` | holds | no lost wake-up, no stale wait entry, a line is delivered; implements `Sched` and `TtyRing` |
| `tty_fault` | violated | after `-EFAULT` the wait entries stay linked |
| `console` | holds | the keyboard's interrupt finds its handler on every board, no byte is stuck, modifiers follow the keys, the echo is the line, the ring implements a queue of lines |
| `phys_mem` | holds | the map gives every address the right type; no frame twice, usable frames only, none lost, first fit |
| `kmalloc` | holds | blocks never overlap, big blocks are found again, no page is lost |
| `user_space` | holds | the tables translate as asked in every address space, frames are private, segments hold what the file says, the list of allocations is sorted |
| `disk` | holds | reads deliver or report, devices are registered in order, nothing is written after a call, calls return |
| `files` | holds | the kernel is loaded whole, opens and reads are right, the dentry cache is faithful, what is live is accounted for, a failure during the mount costs at most one device |

### What the violated properties say

- *Starvation* (`kernel/sched.c:55-72`). When the running task sleeps it is taken off
  the head, and `__sched_next()` then moves the new head, the task next in line, to
  the tail. With four tasks that sleep and wake in step the same one is skipped each
  time. With three tasks it is not: `EveryTaskRuns` holds in `sched_tasks`, and that
  is a result for three tasks only.
- *GS base* (`switch.asm:36`). `swapgs` in `ret_from_fork` runs with interrupts
  enabled; a timer interrupt before `iretq` switches tasks with the user's GS base.
- *Line count* (`kernel/tty.c:83-111`). A backspace over a newline, and a newline
  dropped by a full ring, leave `canon_lines` too high. The next read takes
  head = tail for a full ring.
- *Fault* (`kernel/tty.c:218`). `return -EFAULT` skips both `finish_wait()`.

The one for two tasks and the one for four cannot happen in the system as `kmain()`
starts it, with one task. Nor can a third of the kind: `syscall_entry` keeps the
user's rsp in a per-CPU slot while the call may sleep (`syscall.asm:65,111`), so with
two tasks `UserStackRestored` fails the way `GsMatchesMode` does. `InitContextKept`
says that both hold while init is the only task.

### What the code does that the properties leave out

The models have these cases as the code has them, and the property named says that
it does not speak of them.

- `boundaries[]` (`mm/early_pmm.c:52`) has two slots for each of 128 regions, and the
  kernel's own makes 129: the outcome `overrun` of `Build_map` (`CleanIsExact`).
- `kfree()` of a big block whose data begins with the magic number
  (`mm/kmalloc.c:169`) takes it for a slot: `fooled` (all properties of `Kmalloc`).
- `mm_add_alloc()` never advances `prev` (`mm/mm.c:53-60`): a fourth allocation drops
  those behind the head (`AllocsSorted`). It also takes an error pointer for a node
  (`mm/mm.c:36`).
- A LOAD segment whose virtual or physical address is not aligned is skipped without a
  word (`fs/elf.c:24`), and the test is a mask, so an alignment of 0 skips every address
  but 0; `file_size` is not compared with `mem_size` (`fs/elf.c:42`), and a segment with
  more bytes in the file writes over the segment behind it or meets no page; a table of
  program headers cut off by the end of the file makes `elf_load()` return the number of
  bytes read as the entry point (`fs/elf.c:91`) (`SegmentsLoaded`).
- Usable regions that share a page make `vmm_init()` panic (`mm/vmm.c:23,29`), since
  the direct map does not allow a page to be mapped twice (`KernelMappedEverywhere`).
- A read that failed is tried again (`fs/ext2/file.c:40`) on a port that the error has
  stopped, and the second command never ends (`CallsReturn`).
- The count of a command has 16 bits (`drivers/ahci/ahci.c:237`) (`ReadDelivers`).
- Data past the singly indirect table reads as zeros, and a file without such a table
  is read as if block 0 were it (`fs/ext2/file.c:34-36`) (`ReadsRight`).
- The length of a name is cut to eight bits (`fs/ext2/dir.c:7`) (`OpensRight`,
  `CacheFaithful`).
- The result of `ext2_init_singly()` is not looked at (`fs/ext2/file.c:35`);
  `ext2_get_root()` tests an error pointer for NULL (`super.c:104`, against
  `inode.c:17` "Must check with IS_ERR();"); and a failed mount frees `bgd_table` of an
  `info` that was not cleared (`super.c:176`, against `super.c:64`, "it is garantueed
  that info->bgd_table is NULL"). The kernel is then lost (`crash`); the run `files`
  reaches each of these and no property excuses or forbids them. `MountGoesOn` speaks of
  the failures that a mount survives.
- Without memory for the root's dentry `ext2_get_root()` frees one of the three parts of
  its inode (`super.c:115`). `HeapAccounted` says that the other two are all that is
  ever lost, and at most once for each device with ext2 that was passed over.
- The record that ends the MADT is not read (`madt.c:13`) (`KeyboardWired`,
  `CoresListed`). The last pin of the I/O APIC cannot be routed: the version register
  holds its number and is taken for the number of pins (`apic.c:53`).
- A key pressed between `reset_devices()` and `request_irq()` finds its pin masked;
  its interrupt is lost and its byte blocks the keyboard (`ps2.c:95-97`)
  (`NoByteStuck`).
- The entry that fills the memory map stops the boot loader (`boot.asm:56`), although
  `docs/boot/boot.asm.md:17,34` say that 128 entries are read and stored. The comparison
  is with `ebp`, while only `bp` is cleared and counted (`boot.asm:40,55`): if the BIOS
  left anything in the upper half there is no limit. `Read_entry` has both, and
  `MapLengthKept` speaks of the length only. `stage2.asm` takes the
  first bootable partition and then requires type 0x83, while
  `docs/boot/stage2.asm.md:38` has it look for one.
- The echo of a character does not ask whether the ring or the screen took it
  (`kernel/tty.c:113`) (`EchoIsTheLine`).
- `copy_to_user()` that fails in the middle loses characters (`kernel/tty.c:221`), and
  a background task that sleeps on `fg_wait` is never woken while `tty_set_fg()` is
  commented out (`kernel/tty.c:271`): `TtyWait` has both, and nothing claims otherwise.

`docs/kernel/task-switching.md:17-19` says that the idle task is resumed from a frame
with interrupts enabled: the frame has them disabled, since `__schedule()` clears the
flag first, and `local_irq_restore()` enables them.

### Bounds

- `sched_tasks`: three tasks, the fewest with a running, a waiting and a woken task at
  once. `rq_starvation` needs four. `tty_wait`: two, a foreground and a background
  one, since only pid 1 may read.
- Terminal: a ring of three or four slots; `MaxLines` bounds `canon_lines`, which only
  a careless typist can raise without limit. In `tty_wait` the bounce buffer holds one
  character and a read asks for two, so that a line takes several rounds. `console`
  has a screen of two rows of two cells and `MaxTyped` = 4 characters, which fill the
  ring, a row and the screen; the boards have one or two cores, the keyboard on its
  own pin, another or the last, and damaged tables. It ends when `MaxTyped` is reached
  or a panic stops the kernel, so deadlock is not checked.
- `phys_mem`: lists of up to two BIOS entries, and chosen longer ones that fill the
  arrays, over 24 addresses with pages of two and bitmap bytes of four bits, so that
  regions begin and end off page and byte borders and runs of frames cross a byte.
- `kmalloc`: four pages of six bytes, tiers of two and three, blocks of 2, 3 and 7
  bytes, at most five at a time: a pool page, a big block and no memory left all occur.
- `user_space`: tables of 4, 8, 2 and 2 entries, so that "1 GiB" pages are four pages
  and "2 MiB" pages two; two tasks, one `ioremap()` at any point; maps with and without
  room for huge pages, and with too little memory; programs with segments that are
  skipped for each of the reasons, cut off, or longer in the file than in memory. The
  kernel starts one task and calls `ioremap()` before it: two tasks and a late call are
  more than it does, and show that the tables do not depend on that.
- `disk`: three ports, two with disks of two partitions in tables of three entries, one
  device more than the registry holds; two reads after boot; counts wrap at four.
- `files`: blocks of two bytes or entries, two direct and two indirect pointers; one
  open file; three devices, the first without ext2. One of the first nineteen
  allocations and reads of a call fails, or two in three combinations: nineteen are all
  of a mount up to the root's dentry, and the pairs are a retried read, a failure on
  both devices, and an inode and a dentry that both fail. The boot loader stops at three
  entries of the memory map, unless `ebp` hides the limit, and the BIOS has up to four
  (`BiosEntries`); its heap has ten sectors. A loader that hangs and a kernel that is lost
  have no next step, so deadlock is not checked.

### Fairness

`Sched` and `TtyWait`: weak fairness of kernel steps, since the CPU executes; strong
fairness of the timer interrupt, which is periodic, stays pending while interrupts are
off, and is taken in one of the stretches with interrupts on. User tasks need not make
system calls, and keys need not be pressed. `Disk`: weak fairness of the driver's
steps, and of the controller for each port with a disk: a command that can run is
answered, by data or by an error. A port that an error has stopped answers nothing.
`RunQueue` (`rq_starvation`): ticks do not stop, and a task that has prepared to wait
either sleeps or stops waiting.

## Proofs

Eight modules, all for arbitrary constants. The assumptions are those named in the
modules: the idle task is not one of `Tasks`, and pid 1 is; the ring has at least two
slots, and newline and backspace differ and are neither letters nor NUL; the bounce
buffer holds a byte; the screen has a row and a column; the sets of keys are disjoint,
with at most two keys for each modifier; there are at least two interrupts; an entry of
the memory map does not wrap around the address space, and the kernel is not empty;
pages and bytes of the bitmap have a size, and page 0 is not usable; the tiers of the
heap ascend, divide a page and leave room for a slot beside the header, and the node of
a big block fits in the smallest; overrides can name the keyboard's interrupt, and every
MADT with a right checksum says where the board wired it; sectors, descriptors and the
command's count have a size, a vector is not empty, and the vectors of a request do not
overlap.

`InductionLemmas` holds what the proofs about loops and tables share: least and greatest
numbers, induction over a set of numbers, and that functions defined by recursion exist
(`Recursion`, `RoundsExist`). The library states these facts with an operator as a
parameter, which the provers cannot instantiate; here they are about sets and functions.
A recursive function in a definition is then unfolded by showing that one exists and
that whatever unrolls the same way has the same values.

`SchedProofs`, the policy: `TypeCorrect` and `RunQueueCorrect`. `RunQueueInv` (every runnable
task is linked once, no other is, the running one is the head) is not inductive:
`schedule()` takes its caller off the list when it is not TASK_RUNNING, and the idle
task is on no list. `IInv` adds that the idle task always is TASK_RUNNING. Three lemmas
say what `list_add_tail`, `list_del` and the rotation do to a queue without duplicates;
`EnqueueStep` and `DispatchStep` lift them to steps.

`SchedProofs`, the machine: `SchedImplements` (it implements the policy), and
`HandlersCorrect`, `SyscallsCorrect`, `FlagCorrect`, `CurrentCorrect`,
`OwnContextCorrect`, `ApicCorrect`, `SchedQueueCorrect`, `SchedTypeCorrect`. None of
these is inductive alone. A switch resumes a task from what was saved when it was
switched out, possibly long ago, so `SInv` says of every task that does not run what
its stack holds (`Contexts`), of every task which states go with the place it is at
(`PlacesAndStates`), and of the registers whose they are (`Registers`). The refinement
needs it twice: `wake_up_task()` is a step of the policy only if the woken task is not
the one the handler interrupted, and the timer's switch only if its caller runs.
`InitContextCorrect` has an invariant of its own for a task that is alone: its GS base
and user stack pointer may sit in the registers, in a frame or in `cpu0_data`, by place.

`TtyRingProofs`: `RingTypeCorrect` for any keys; `LinesCorrect` and `RingImplements`
for careful ones. The inductive invariant `RingInv` is `TypeOK` and `LinesCounted`:
the read stops at a newline or at the tail, and that it never runs past the tail rests
on the count. The lemmas say what pushing, erasing and reading do to the contents of
the ring seen as a sequence (`PushContents`, `EraseContents`, `ReadContents`), across
the wrap, and to the number of newlines in it.

`KeyboardProofs`, the console: every step of it is a careful step of the ring or leaves
it alone, so `RingImplements` and `LinesCorrect` carry over (`ConsoleImplements`,
`ConsoleLines`); `CursorCorrect` from lemmas on the offset of a cell;
`ModifiersCorrect`, whose invariant ties the counters to the keys that are down, to the
prefix seen last and to the byte on its way; and `EchoCorrect`. Its invariant `Shown`
says that some newline of the ring, or its beginning, is the last one, and that all that
follows stands before the cursor, in order: a backspace then takes one character from
both, wherever the row ends, and a read, which takes whole lines, nothing from the part
that is shown.

`KeyboardProofs`, the boot: it is stuttering of the console (`KeyboardIsConsole`), so the
terminal implements the queue of lines and shows the line being typed from power-on
(`KeyboardImplements`, `KeyboardEcho`). `HandledCorrect` and `BytesCorrect` rest on
`KInv`: for each place of the boot, which entries of `irq_table` and of the redirection
table are set (`Routes`), and when a byte in the controller has its interrupt pending
(`Bytes`). `CoresCorrect` and `WiredCorrect` are about any tables a firmware may leave:
`ParseInv` says what `madt_parse_recoreds()` knows after each record, the cores listed so
far and where the keyboard is, and `FInv` that the tables of `init_apic()` are what the
later steps of the boot still use.

`TtyWaitProofs`: the system calls use the scheduler and the ring as those allow
(`TtyImplementsSched`, `TtyImplementsRing`), so all that is proved of them holds below
the terminal; `WaitersCorrect` and `NoLostWakeupCorrect`. The invariant `TInv` is that of
`Sched`, the types of the ring, and two parts about what lies between. `WaitInv`: by the
place in its call, in which queues a task may and must be linked. `FgInv`: between
`prepare_to_wait()` and `schedule()` the reader cannot be interrupted, it goes to sleep
only after it saw no line, and asleep it is linked. A lost wake-up would need a newline
in between, and `HandlersSeeRunning`, proved of the scheduler, forbids that.

`KmallocProofs`: `DisjointCorrect`, `KnownCorrect` and `AccountedCorrect`, as long as
`kfree()` is not fooled. `HInv(h, L)` relates a heap to the set of blocks that somebody
holds: every page taken is part of one run of pages held or is a pool; every pool holds
slots of one tier; a slot is a block, a node or free, and only one of them; nodes and big
blocks correspond. `kmalloc_big()` and `kfree_big()` are not one change but two, with a
call of `kmalloc()` or `kfree()` for the node in the middle, where the properties do not
hold. So the lemmas are about operators on heaps, `L` being a parameter: between the two
changes the pages and the node are blocks of their own in `L`.

`PhysMemProofs`: `CleanCorrect`, `NoFrameTwiceCorrect`, `OnlyUsableCorrect`,
`FirstFitCorrect` and the action property `ConservedCorrect`. `PInv` says that every
frame handed out or free lies in a usable region of the sanitised map as a whole and has
one owner, that the bump allocator's cursor is on a page border in or right behind its
region, with all it gave in front of it, and that the bitmap has whole bytes, since the
search skips full ones. That the sanitised map is right is proved stretch by stretch
(`StretchStep`): up to each boundary the list is in order and says of every address what
the raw map allows. The two loops are recursive functions. For the first the lemma
`Recursion` gives that there is one; of the second a solution is known beforehand,
the first fit. What they compute is shown by a least or a last argument at which it
would be wrong.

`DiskProofs`: `RegistryCorrect`, `ReadCorrect` and the action property `DmaCorrect`.
`RegInv` follows the boot: while ports are probed the registry holds the disks up to this
port (`Probing`); while tables are scanned it begins with all the disks it has room for,
in the order of their ports, and goes on with the used entries of those already scanned
(`Scanning`); and a call under way is the one its stage makes (`Linked`). Every stage
says that the registry holds the first of a set of entries closed under `Before`
(`Listed`), so that one more entry, or a full registry, is one lemma. `DmaInv` is about
the controller: a command that it may still run is the one a call waits for, in the slot
of the call's port, since an error is final; and when its bit is clear the data has come.
What a command writes is a matter of `ahci_build_prdt()`: `PrdtAddr` says that the
descriptors, cut into regions of any size, cover the addresses of the vectors in the same
order, from lemmas on sequences put one after the other (`FlatConcat`, `RegionsAddr`).

Several of these properties (`RunQueueInv`, `CurrentAgrees`, `ApicDelivers`,
`InterruptFlagByPlace`, `SyscallsNotPreempted`, `CursorOnScreen`, `InterruptsHandled`)
were model-checked while the proofs were made and are in no run now.

Only model-checked: liveness (`EveryTaskRuns`, `LineDelivered`, `CallsReturn`), which
the prover does not do; and `Paging`, `UserSpace`, `Ext2`, `Vfs` and `Boot`, whose
correctness is about what folds over lists and tables compute. The folds of the library
take an operator as a parameter, and the provers cannot instantiate a theorem about one;
each loop would have to be a recursive function with a proof of its own, as those of
`PhysMem`, `Apic` and `Disk` are.

## Not modelled

- `include/list.h`: lists are sequences in every module. `arch/x86_64/idt`, `gdt.c`:
  constant tables written once; what they decide (the flag on entry, rsp0) is in
  `Sched`. The PIC is masked once. PCI is a search without state.
- Exceptions and `uaccess.asm`: `copy_to_user()` appears by its result.
- `pid_filter_wake_func`, `tty_set_fg()` and `mm_put()` have no caller. `mm_put()` gives
  user addresses to `free_pages()` (`mm/mm.c:92`), so a caller would bring a mistake.
- `kmalloc()` takes no lock and runs with interrupts enabled in a kthread
  (`mm/kmalloc.c:81`). `kmain()` starts one kthread, and no handler allocates, so calls
  do not overlap, and `Kmalloc` has one step per call.
- A system call number outside the table (`syscall.asm:91` does not compare it), the
  polarity and trigger flags of an override (`madt.c:89`), and the cut of a block address
  to 48 bits (`ahci.c:243-248`), which 32-bit block numbers do not reach. When
  `ahci_build_prdt()` has no room left, the command table that it has begun to write is left
  out of `Disk`: no command is issued from it, and the next call writes it anew.
- String functions, formatting, colours, the strings of the identify data, the
  registers of the local APIC beyond the in-service bit. User programs make any call
  at any time.
