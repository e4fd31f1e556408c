------------------------------- MODULE Sched --------------------------------
(***************************************************************************)
(* The scheduler on the processor it runs on: the interrupt flag, the GS   *)
(* base, the page table root and the kernel stack, the saved contexts of   *)
(* the tasks, and the interrupts that preempt and wake them.               *)
(*                                                                         *)
(* There is one CPU.  Code that runs with the interrupt flag clear cannot  *)
(* be interrupted, so a step below is a stretch of code that runs with it  *)
(* clear, or that touches nothing an interrupt handler touches.  What an   *)
(* interrupt may separate is separate here: entering and leaving a         *)
(* handler, the stages of init_task_init(), swapgs and iretq in            *)
(* ret_from_fork, and every wait-queue call of a system call.              *)
(*                                                                         *)
(* A task that runs a system call is abstracted to what the scheduler can  *)
(* see of it: it prepares to wait, sleeps, stops waiting, returns.  Module *)
(* TtyWait replaces that by tty_read() and tty_write().                    *)
(***************************************************************************)
EXTENDS RunQueue

VARIABLES
  cpu,        \* the registers and the per-CPU data, see CpuType
  at,         \* where the code of a task stands when no handler runs on it
  frame,      \* is an interrupt_frame of irq_common on the task's stack?
  insched,    \* has the task been switched out inside __schedule()?
  flags,      \* the interrupt flag in __schedule()'s local variable flags
  sframe,     \* the interrupt flag in the task's switch_frame
  mm,         \* does the task have an address space (task_struct::mm)?
  ursp,       \* whose user stack the task's user code runs on
  panicked    \* has panic() stopped the machine?

ctxVars == <<insched, flags, sframe>>
vars == <<schedVars, cpu, at, frame, ctxVars, mm, ursp, panicked>>

Vectors == {"timer", "ps2", "spurious"}

CpuType ==
  [if : BOOLEAN,                    \* rflags.IF
   gs : {"kernel", "user"},         \* which GS base is active
   cr3 : Procs,                     \* whose page table; Idle: kernel_pgd
   rsp0 : Procs,                    \* whose kernel stack tss.rsp0 points to
   current : Procs,                 \* cpu0_data.current
   kernel_stack : Procs,            \* cpu0_data.kernel_stack; Idle: NULL
   user_rsp : Procs,                \* whose stack cpu0_data.user_rsp is in
   vec : Vectors \cup {"none", "ps2_handler"},  \* the handler being run
   isr : BOOLEAN]                   \* is an interrupt in service at the APIC?

Places == {"none",                          \* not created
           "boot", "sched", "hlt",          \* kmain(), that is, Idle
           "fork", "mm", "load", "iret",    \* a kthread in init_task_init()
           "user", "syscall", "exit"}       \* a user task

-----------------------------------------------------------------------------
\* p executes its own code: neither in a handler nor switched out.
Running(p) ==
  /\ ~panicked
  /\ current_task = p
  /\ cpu.vec = "none"
  /\ ~frame[p]
  /\ ~insched[p]

Swapped(gs) == IF gs = "kernel" THEN "user" ELSE "kernel"

\* An interrupt that comes from, or returns to, user mode swaps GS.
Crossed(p, gs) == IF at[p] = "user" THEN Swapped(gs) ELSE gs

Go(p, from, to) == at[p] = from /\ at' = [at EXCEPT ![p] = to]

Panic ==
  /\ panicked' = TRUE
  /\ UNCHANGED <<schedVars, cpu, at, frame, ctxVars, mm, ursp>>

-----------------------------------------------------------------------------
\* create_idle_task(), after setup_stage2() loaded GS with &cpu0_data
Init ==
  /\ PolicyInit
  /\ cpu = [if |-> FALSE, gs |-> "kernel", cr3 |-> Idle, rsp0 |-> Idle,
            current |-> Idle, kernel_stack |-> Idle, user_rsp |-> Idle,
            vec |-> "none", isr |-> FALSE]
  /\ at = [p \in Procs |-> IF p = Idle THEN "boot" ELSE "none"]
  /\ frame = [p \in Procs |-> FALSE]
  /\ insched = [p \in Procs |-> FALSE]
  /\ flags = [p \in Procs |-> FALSE]
  /\ sframe = [p \in Procs |-> FALSE]
  /\ mm = [p \in Procs |-> FALSE]
  /\ ursp = [p \in Procs |-> p]
  /\ panicked = FALSE

\* faulty: the page tables are left alone
Arch_switch_to_stale_cr3(c, n) ==
  [c EXCEPT !.current = n,
            !.kernel_stack = n,
            !.rsp0 = IF n # Idle THEN n ELSE @,
            !.if = sframe[n]]

\* Registers after arch_switch_to(): rsp0 is only set for a task that has a
\* kernel stack, cr3 only for one that has an address space of its own, and
\* popfq takes the interrupt flag from the next task's switch_frame.
Arch_switch_to(c, n) ==
  [c EXCEPT !.current = n,
            !.kernel_stack = n,
            !.rsp0 = IF n # Idle THEN n ELSE @,
            !.cr3 = IF mm[n] THEN n ELSE @,
            !.if = sframe[n]]

\* __schedule(preempt), entered with the registers c.  The switch_frame of
\* the task that leaves is pushed after local_irq_save() cleared the flag.
Do_schedule(preempt, c) ==
  LET p == current_task
      n == Next_task(Pick_queue(preempt))
  IN  /\ Dispatch(preempt)
      /\ IF n = p
         THEN cpu' = c /\ UNCHANGED ctxVars
         ELSE /\ cpu' = Arch_switch_to(c, n)
              /\ insched' = [insched EXCEPT ![p] = TRUE]
              /\ flags' = [flags EXCEPT ![p] = c.if]
              /\ sframe' = [sframe EXCEPT ![p] = FALSE]

\* The task switched to returns from arch_switch_to() and __schedule()
\* restores the interrupt flag it was called with.
Sched_return(p) ==
  /\ ~panicked
  /\ current_task = p
  /\ cpu.vec = "none"
  /\ insched[p]
  /\ insched' = [insched EXCEPT ![p] = FALSE]
  /\ cpu' = [cpu EXCEPT !.if = flags[p]]
  /\ UNCHANGED <<schedVars, at, frame, flags, sframe, mm, ursp, panicked>>

-----------------------------------------------------------------------------
(* kmain(), which becomes the idle task.                                   *)

Kthread_run(t) ==
  /\ Running(Idle)
  /\ at[Idle] = "boot"
  /\ New_task(t)
  /\ at' = [at EXCEPT ![t] = "fork"]
  /\ sframe' = [sframe EXCEPT ![t] = TRUE]
  /\ UNCHANGED <<cpu, frame, insched, flags, mm, ursp, panicked>>

\* task_alloc() finds no memory and kmain() panics
Kthread_run_fails ==
  /\ Running(Idle)
  /\ at[Idle] = "boot"
  /\ Panic

Local_irq_enable ==
  /\ Running(Idle)
  /\ run_queue # <<>>
  /\ Go(Idle, "boot", "sched")
  /\ cpu' = [cpu EXCEPT !.if = TRUE]
  /\ UNCHANGED <<schedVars, frame, ctxVars, mm, ursp, panicked>>

\* kmain() calls schedule(); when it returns, the hlt loop begins
Kmain_schedule ==
  /\ Running(Idle)
  /\ Go(Idle, "sched", "hlt")
  /\ Do_schedule(FALSE, cpu)
  /\ UNCHANGED <<state, frame, mm, ursp, panicked>>

-----------------------------------------------------------------------------
(* init_task_init(), a kthread that runs with interrupts enabled and ends  *)
(* in user mode.                                                           *)

Mm_create(t) ==
  /\ Running(t)
  /\ Go(t, "fork", "mm")
  /\ mm' = [mm EXCEPT ![t] = TRUE]
  /\ UNCHANGED <<schedVars, cpu, frame, ctxVars, ursp, panicked>>

Activate_mm(t) ==
  /\ Running(t)
  /\ Go(t, "mm", "load")
  /\ cpu' = [cpu EXCEPT !.cr3 = t]
  /\ UNCHANGED <<schedVars, frame, ctxVars, mm, ursp, panicked>>

\* mm_create(), mm_alloc_main_stack() or elf_load() failed
Init_task_fails(t) ==
  /\ Running(t)
  /\ at[t] \in {"fork", "load"}
  /\ Panic

\* the program is loaded and ret_from_fork runs swapgs, interrupts enabled
Ret_from_fork(t) ==
  /\ Running(t)
  /\ Go(t, "load", "iret")
  /\ cpu' = [cpu EXCEPT !.gs = Swapped(@)]
  /\ UNCHANGED <<schedVars, frame, ctxVars, mm, ursp, panicked>>

Iretq(t) ==
  /\ Running(t)
  /\ Go(t, "iret", "user")
  /\ cpu' = [cpu EXCEPT !.if = TRUE]
  /\ UNCHANGED <<schedVars, frame, ctxVars, mm, ursp, panicked>>

-----------------------------------------------------------------------------
(* System calls.  FMASK clears the interrupt flag.  With the wrong GS base *)
(* the first access through it is a page fault in the kernel: a panic.     *)

\* faulty: FMASK does not hold the interrupt flag
Syscall_entry_unmasked(t) ==
  /\ Running(t)
  /\ at[t] = "user"
  /\ IF cpu.gs = "user"
     THEN /\ Go(t, "user", "syscall")
          /\ cpu' = [cpu EXCEPT !.gs = "kernel", !.user_rsp = ursp[t]]
          /\ UNCHANGED <<schedVars, frame, ctxVars, mm, ursp, panicked>>
     ELSE Panic

\* faulty: the user's rsp is not saved
Syscall_entry_unsaved(t) ==
  /\ Running(t)
  /\ at[t] = "user"
  /\ IF cpu.gs = "user"
     THEN /\ Go(t, "user", "syscall")
          /\ cpu' = [cpu EXCEPT !.if = FALSE, !.gs = "kernel"]
          /\ UNCHANGED <<schedVars, frame, ctxVars, mm, ursp, panicked>>
     ELSE Panic

Syscall_entry(t) ==
  /\ Running(t)
  /\ at[t] = "user"
  /\ IF cpu.gs = "user"
     THEN /\ Go(t, "user", "syscall")
          /\ cpu' = [cpu EXCEPT !.if = FALSE, !.gs = "kernel",
                                !.user_rsp = ursp[t]]
          /\ UNCHANGED <<schedVars, frame, ctxVars, mm, ursp, panicked>>
     ELSE Panic

\* prepare_to_wait(.., TASK_INTERRUPTIBLE)
Prepare(t) ==
  /\ Running(t)
  /\ at[t] = "syscall"
  /\ Set_state("INTERRUPTIBLE")
  /\ UNCHANGED <<cpu, at, frame, ctxVars, mm, ursp, panicked>>

\* schedule(), called by a task that prepared to wait
Sleep(t) ==
  /\ Running(t)
  /\ at[t] = "syscall"
  /\ state[t] = "INTERRUPTIBLE"
  /\ Do_schedule(FALSE, cpu)
  /\ UNCHANGED <<state, at, frame, mm, ursp, panicked>>

\* the system call has its answer: finish_wait(), or it never waited
Finish(t) ==
  /\ Running(t)
  /\ Go(t, "syscall", "exit")
  /\ Set_state("RUNNING")
  /\ UNCHANGED <<cpu, frame, ctxVars, mm, ursp, panicked>>

\* the end of syscall_entry: rsp comes from the per-CPU slot
Sysret(t) ==
  /\ Running(t)
  /\ at[t] = "exit"
  /\ IF cpu.gs = "kernel"
     THEN /\ Go(t, "exit", "user")
          /\ cpu' = [cpu EXCEPT !.if = TRUE, !.gs = "user"]
          /\ ursp' = [ursp EXCEPT ![t] = cpu.user_rsp]
          /\ UNCHANGED <<schedVars, frame, ctxVars, mm, panicked>>
     ELSE Panic

-----------------------------------------------------------------------------
(* Interrupts.                                                             *)

\* The CPU takes an interrupt: interrupt gates clear the flag, irq_common
\* swaps GS if the interrupted code was user code.
Irq_entry(v) ==
  /\ ~panicked
  /\ cpu.if
  /\ ~cpu.isr
  /\ cpu.vec = "none"
  /\ frame' = [frame EXCEPT ![current_task] = TRUE]
  /\ cpu' = [cpu EXCEPT !.if = FALSE, !.vec = v, !.isr = (v # "spurious"),
                        !.gs = Crossed(current_task, @)]
  /\ UNCHANGED <<schedVars, at, ctxVars, mm, ursp, panicked>>

\* irq_router(): the end of interrupt precedes the handler
Eoi(next) == [cpu EXCEPT !.isr = FALSE, !.vec = next]

\* faulty: the tick does not preempt
Timer_irq_handler_idle ==
  /\ ~panicked
  /\ cpu.vec = "timer"
  /\ cpu' = Eoi("none")
  /\ UNCHANGED <<schedVars, at, frame, ctxVars, mm, ursp, panicked>>

Timer_irq_handler ==
  /\ ~panicked
  /\ cpu.vec = "timer"
  /\ IF cpu.current = current_task
     THEN /\ Do_schedule(TRUE, Eoi("none"))
          /\ UNCHANGED <<state, at, frame, mm, ursp, panicked>>
     ELSE Panic

Ps2_irq ==
  /\ ~panicked
  /\ cpu.vec = "ps2"
  /\ cpu' = Eoi("ps2_handler")
  /\ UNCHANGED <<schedVars, at, frame, ctxVars, mm, ursp, panicked>>

\* faulty: a task that is TASK_RUNNING is enqueued, too
Wake_up_task_unchecked(t) ==
  /\ ~panicked
  /\ cpu.vec = "ps2_handler"
  /\ state[t] # "NONE"
  /\ state' = [state EXCEPT ![t] = "RUNNING"]
  /\ run_queue' = Enqueue(run_queue, t)
  /\ UNCHANGED <<current_task, cpu, at, frame, ctxVars, mm, ursp, panicked>>

\* wake_up_task(), called from wake_up() in tty_push_char()
Wake_up_task(t) ==
  /\ ~panicked
  /\ cpu.vec = "ps2_handler"
  /\ state[t] = "INTERRUPTIBLE"
  /\ state' = [state EXCEPT ![t] = "RUNNING"]
  /\ run_queue' = Enqueue(run_queue, t)
  /\ UNCHANGED <<current_task, cpu, at, frame, ctxVars, mm, ursp, panicked>>

\* ps2_irq() returns, or irq_router() ignored a spurious vector
Handler_returns ==
  /\ ~panicked
  /\ cpu.vec \in {"ps2_handler", "spurious"}
  /\ cpu' = [cpu EXCEPT !.vec = "none"]
  /\ UNCHANGED <<schedVars, at, frame, ctxVars, mm, ursp, panicked>>

\* the tail of irq_common
Irq_return(p) ==
  /\ ~panicked
  /\ current_task = p
  /\ cpu.vec = "none"
  /\ frame[p]
  /\ ~insched[p]
  /\ frame' = [frame EXCEPT ![p] = FALSE]
  /\ cpu' = [cpu EXCEPT !.if = TRUE, !.gs = Crossed(p, @)]
  /\ UNCHANGED <<schedVars, at, ctxVars, mm, ursp, panicked>>

-----------------------------------------------------------------------------
Halted == panicked /\ UNCHANGED vars

\* What the CPU does on its own accord, interrupts and user code apart.
Kmain ==
  \/ \E t \in Tasks : Kthread_run(t)
  \/ Kthread_run_fails
  \/ Local_irq_enable
  \/ Kmain_schedule

Init_task(t) ==
  \/ Mm_create(t)
  \/ Activate_mm(t)
  \/ Init_task_fails(t)
  \/ Ret_from_fork(t)
  \/ Iretq(t)

In_syscall(t) ==
  \/ Prepare(t)
  \/ Sleep(t)
  \/ Finish(t)
  \/ Sysret(t)

Handlers ==
  \/ Timer_irq_handler
  \/ Ps2_irq
  \/ \E t \in Tasks : Wake_up_task(t)
  \/ Handler_returns

Kernel_step ==
  \/ Kmain
  \/ \E t \in Tasks : Init_task(t)
  \/ \E t \in Tasks : In_syscall(t)
  \/ Handlers
  \/ \E p \in Procs : Sched_return(p)
  \/ \E p \in Procs : Irq_return(p)

Next ==
  \/ Kernel_step
  \/ \E t \in Tasks : Syscall_entry(t)
  \/ \E v \in Vectors : Irq_entry(v)
  \/ Halted

Spec == Init /\ [][Next]_vars

\* The CPU keeps executing kernel code, and the periodic timer interrupt,
\* which stays pending while interrupts are off, is taken again and again.
Fairness == WF_vars(Kernel_step) /\ SF_vars(Irq_entry("timer"))

FairSpec == Spec /\ Fairness

-----------------------------------------------------------------------------
\* Types of the CPU's and the tasks' state, the run queue of sched.c included.
TypeOK ==
  /\ QueueTypeOK
  /\ cpu \in CpuType
  /\ at \in [Procs -> Places]
  /\ frame \in [Procs -> BOOLEAN]
  /\ insched \in [Procs -> BOOLEAN]
  /\ flags \in [Procs -> BOOLEAN]
  /\ sframe \in [Procs -> BOOLEAN]
  /\ mm \in [Procs -> BOOLEAN]
  /\ ursp \in [Procs -> Procs]
  /\ panicked \in BOOLEAN

\* No interrupt handler ever runs on a task that has prepared to wait and has
\* not called schedule() yet, or is about to return with its state set; there
\* wake_up_task() would link a run_node that is linked already.
HandlersSeeRunning ==
  cpu.if \/ cpu.vec # "none" => state[current_task] = "RUNNING"

\* The check of timer_irq_handler() never fails: cpu0_data.current and
\* current_task are changed together wherever an interrupt can look.
CurrentAgrees == cpu.current = current_task

\* Code of a task that can enter the kernel from user mode finds there its
\* own kernel stack, through the TSS and through cpu0_data, and its own page
\* tables, also after idle or another kthread ran on borrowed ones.
OwnStackAndMemory ==
  (at[current_task] \in {"load", "iret", "user", "syscall", "exit"} /\ ~panicked)
    => /\ cpu.kernel_stack = current_task
       /\ cpu.rsp0 = current_task
       /\ cpu.cr3 = current_task

\* Whenever the CPU accepts interrupts the local APIC delivers them: a task
\* switched to by the timer handler never waits for an end of interrupt that
\* the task switched out would send.
ApicDelivers == cpu.if => ~cpu.isr

\* arch/x86_64/kernel/process.c:51-56: the idle task never gets back to its
\* hlt loop, nor a task to user mode, with interrupts off; and a system call
\* never runs with interrupts on.
InterruptFlagByPlace ==
  \A p \in Procs :
    Running(p) => (cpu.if <=> at[p] \notin {"boot", "syscall", "exit"})

\* A system call gives up the processor only to sleep: it is never preempted.
SyscallsNotPreempted ==
  [][ (at[current_task] \in {"syscall", "exit"} /\ current_task' # current_task)
      => state[current_task] = "INTERRUPTIBLE" ]_vars

\* The scheduler on the hardware behaves like the scheduling policy.
ImplementsRunQueue == PolicySpec

\* Every runnable task gets the processor.
EveryTaskRuns ==
  \A t \in Tasks : (state[t] = "RUNNING") ~> (current_task = t \/ panicked)

\* User code runs with the user's GS base, so that the swapgs of
\* syscall_entry and irq_common gives the kernel its own.
GsMatchesMode ==
  \A t \in Tasks : Running(t) /\ at[t] = "user" => cpu.gs = "user"

\* arch/x86_64/syscall.asm:62-63, "save user rsp": a task returns from a
\* system call to the stack it made the call on.
UserStackRestored == \A t \in Tasks : at[t] = "user" => ursp[t] = t

\* kmain() of today creates one task, init.
Alone == \A t, u \in Tasks : at[t] # "none" /\ at[u] # "none" => t = u

\* While init is the only task, whatever interrupts it and the idle task, it
\* runs user code with the user's GS base, although ret_from_fork runs swapgs
\* with interrupts enabled, and on the stack it made its last system call on,
\* although the call may have slept.
InitContextKept == Alone => GsMatchesMode /\ UserStackRestored
=============================================================================
