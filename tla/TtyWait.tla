------------------------------ MODULE TtyWait -------------------------------
(***************************************************************************)
(* The terminal's system calls on top of the scheduler: tty_read() and     *)
(* tty_write() block on the wait queues of struct tty_struct, and the      *)
(* keyboard interrupt fills the ring and wakes the readers.                *)
(*                                                                         *)
(* Every step is a step of module Sched, joined with what it does to the   *)
(* terminal, or a step inside a system call that Sched does not see.  A    *)
(* system call runs with interrupts off, so its calls of prepare_to_wait(),*)
(* __tty_read(), schedule(), copy_to_user() and finish_wait() are steps of *)
(* their own only because a sleeping task gives up the CPU between them.   *)
(*                                                                         *)
(* The echo of a key and the output of tty_write() go to the screen, which *)
(* is not part of this module.                                             *)
(***************************************************************************)
EXTENDS Naturals, Sequences

CONSTANTS
  Tasks, Idle,                          \* as in Sched
  Pid1,                                 \* the task with pid 1
  TTY_BUF_SIZE, Letters, NL, BS, NUL,   \* as in TtyRing
  TTY_BOUNCE_BUF_SIZE,                  \* what one __tty_read() may take
  MaxRead,                              \* bound on the count of a sys_read
  MaxLines                              \* bound on canon_lines

ASSUME TaskAssumption == Idle \notin Tasks
ASSUME Pid1Assumption == Pid1 \in Tasks
ASSUME BufAssumption == TTY_BUF_SIZE \in Nat /\ TTY_BUF_SIZE >= 2 /\ MaxLines \in Nat
ASSUME KeyAssumption == NL \notin Letters /\ BS \notin Letters /\ NL # BS /\ NUL \notin {NL, BS}
ASSUME ReadAssumption == TTY_BOUNCE_BUF_SIZE \in Nat \ {0} /\ MaxRead \in Nat

VARIABLES
  run_queue, current_task, state, cpu, at, frame, insched, flags, sframe,
  mm, ursp, panicked,   \* as in Sched
  tty,                  \* as in TtyRing
  bounce,               \* the bounce buffer of the last read
  read_wait, fg_wait,   \* the wait queues: the tasks linked, head first
  call,                 \* the system call a task is in, see Calls
  cursor                \* position of __wakeup() in read_wait, 0 if it is idle

K == INSTANCE Sched
Ring == INSTANCE TtyRing WITH got <- bounce, MaxCount <- TTY_BOUNCE_BUF_SIZE

schedVars == <<run_queue, current_task, state>>
taskVars == <<frame, insched, flags, sframe, mm, ursp>>
kernelVars == <<schedVars, cpu, at, taskVars, panicked>>
callVars == <<read_wait, fg_wait, call>>
ttyVars == <<tty, bounce, callVars, cursor>>
vars == <<kernelVars, ttyVars>>

\* Where the system call stands (rd: tty_read(), wr: __tty_write()) and the
\* local variables of tty_read(); line: lines_after # lines_before.
NoCall == [pc |-> "none", count |-> 0, total |-> 0, ret |-> 0, line |-> FALSE]

-----------------------------------------------------------------------------
fg_pid == Pid1

Linked(wq, t) == \E i \in 1..Len(wq) : wq[i] = t

\* faulty: an entry that is linked is linked again
Link_unchecked(wq, t) == Append(wq, t)

\* an entry, on the stack of its task, is linked by list_add_tail() unless it
\* is linked already, and unlinked by list_del() if it is
Link(wq, t) == IF Linked(wq, t) THEN wq ELSE Append(wq, t)
Unlink(wq, t) == IF Linked(wq, t) THEN K!Dequeue(wq, t) ELSE wq

In(t, pc) == call[t].pc = pc
Goto(t, pc) == call' = [call EXCEPT ![t].pc = pc]

\* a step of t in the kernel that changes nothing of the scheduler's
Kernel(t) == K!Running(t) /\ UNCHANGED kernelVars

-----------------------------------------------------------------------------
Init ==
  /\ K!Init
  /\ Ring!Init
  /\ read_wait = <<>>
  /\ fg_wait = <<>>
  /\ call = [t \in Tasks |-> NoCall]
  /\ cursor = 0

\* What does not concern the terminal.  get_next_pid() counts from 1.
Kthread_run(t) == (t = Pid1 \/ state[Pid1] # "NONE") /\ K!Kthread_run(t)

Elsewhere ==
  /\ \/ \E t \in Tasks : Kthread_run(t)
     \/ K!Kthread_run_fails
     \/ K!Local_irq_enable
     \/ K!Kmain_schedule
     \/ \E t \in Tasks : K!Init_task(t)
     \/ K!Timer_irq_handler
     \/ \E p \in K!Procs : K!Sched_return(p)
     \/ \E p \in K!Procs : K!Irq_return(p)
  /\ UNCHANGED ttyVars

-----------------------------------------------------------------------------
(* System calls.                                                           *)

\* sys_read(), sys_write(), and the calls that return at once: a bad file
\* descriptor, a number without a system call
Sys_enter(t, pc, count) ==
  /\ K!Syscall_entry(t)
  /\ call' = IF panicked' THEN call
             ELSE [call EXCEPT ![t] = [NoCall EXCEPT !.pc = pc, !.count = count]]
  /\ UNCHANGED <<tty, bounce, read_wait, fg_wait, cursor>>

Sys_read(t) == \E n \in 0..MaxRead : Sys_enter(t, "rd_loop", n)
Sys_write(t) == Sys_enter(t, "wr_loop", 0)
Sys_error(t) == Sys_enter(t, "done", 0)

Sys_error_return(t) ==
  /\ In(t, "done")
  /\ K!Finish(t)
  /\ UNCHANGED ttyVars

Sys_return(t) ==
  /\ In(t, "done")
  /\ K!Sysret(t)
  /\ call' = IF panicked' THEN call ELSE [call EXCEPT ![t] = NoCall]
  /\ UNCHANGED <<tty, bounce, read_wait, fg_wait, cursor>>

-----------------------------------------------------------------------------
(* tty_read().                                                             *)

\* while (total < count): prepare_to_wait(&tty->fg_wait, ..)
Read_prepare_fg(t) ==
  /\ In(t, "rd_loop")
  /\ call[t].total < call[t].count
  /\ K!Prepare(t)
  /\ fg_wait' = Link(fg_wait, t)
  /\ Goto(t, "rd_prepared")
  /\ UNCHANGED <<tty, bounce, read_wait, cursor>>

Read_loop_ends(t) ==
  /\ In(t, "rd_loop")
  /\ call[t].total >= call[t].count
  /\ Kernel(t)
  /\ Goto(t, "rd_fin_fg")
  /\ UNCHANGED <<tty, bounce, read_wait, fg_wait, cursor>>

\* prepare_to_wait(&tty->read_wait, ..)
Read_prepare_read(t) ==
  /\ In(t, "rd_prepared")
  /\ K!Prepare(t)
  /\ read_wait' = Link(read_wait, t)
  /\ Goto(t, "rd_try")
  /\ UNCHANGED <<tty, bounce, fg_wait, cursor>>

\* under the tty lock: __tty_read() if in the foreground, then the branches
Read_try(t) ==
  LET c == call[t]
      req == IF c.count - c.total < TTY_BOUNCE_BUF_SIZE
             THEN c.count - c.total ELSE TTY_BOUNCE_BUF_SIZE
      ret == IF t = fg_pid THEN Ring!Read_len(tty, req) ELSE c.ret
      new == IF t = fg_pid THEN Ring!After_read(tty, ret) ELSE tty
  IN  /\ In(t, "rd_try")
      /\ Kernel(t)
      /\ tty' = new
      /\ bounce' = IF t = fg_pid /\ ret > 0
                   THEN [i \in 1..ret |-> Ring!Nth(tty, i - 1)] ELSE bounce
      /\ call' = [call EXCEPT ![t] =
           [c EXCEPT !.ret = ret,
                     !.line = (new.canon_lines # tty.canon_lines),
                     !.pc = IF ret > 0 THEN "rd_copy"
                            ELSE IF c.total = 0 THEN "rd_sleep"
                            ELSE "rd_fin_fg"]]
      /\ UNCHANGED <<read_wait, fg_wait, cursor>>

\* schedule(); continue
Read_sleep(t) ==
  /\ In(t, "rd_sleep")
  /\ K!Sleep(t)
  /\ Goto(t, "rd_loop")
  /\ UNCHANGED <<tty, bounce, read_wait, fg_wait, cursor>>

\* faulty: what could not be copied is put back into the ring
Read_copy_puts_back(t) ==
  LET c == call[t]
  IN  /\ In(t, "rd_copy")
      /\ Kernel(t)
      /\ \E copied \in 0..c.ret :
           /\ c.total + copied > 0
           /\ call' = [call EXCEPT ![t].total = c.total + copied,
                                   ![t].pc = IF copied < c.ret \/ c.line
                                             THEN "rd_fin_fg" ELSE "rd_loop"]
           /\ tty' = [tty EXCEPT !.head =
                        (@ + TTY_BUF_SIZE - (c.ret - copied)) % TTY_BUF_SIZE]
      /\ UNCHANGED <<bounce, read_wait, fg_wait, cursor>>

\* copy_to_user() copied at least one byte of this call's line
Read_copy(t) ==
  LET c == call[t]
  IN  /\ In(t, "rd_copy")
      /\ Kernel(t)
      /\ \E copied \in 0..c.ret :
           /\ c.total + copied > 0
           /\ call' = [call EXCEPT ![t].total = c.total + copied,
                                   ![t].pc = IF copied < c.ret \/ c.line
                                             THEN "rd_fin_fg" ELSE "rd_loop"]
      /\ UNCHANGED <<tty, bounce, read_wait, fg_wait, cursor>>

\* copy_to_user() copied nothing: return -EFAULT, without finish_wait().
\* The entries stay linked, though the stack frame they are in is gone.
Read_efault(t) ==
  /\ In(t, "rd_copy")
  /\ call[t].total = 0
  /\ K!Running(t)
  /\ K!Go(t, "syscall", "exit")
  /\ Goto(t, "done")
  /\ UNCHANGED <<schedVars, cpu, taskVars, panicked>>
  /\ UNCHANGED <<tty, bounce, read_wait, fg_wait, cursor>>

\* faulty: finish_wait() leaves the state alone
Read_finish_fg_keeps_state(t) ==
  /\ In(t, "rd_fin_fg")
  /\ K!Running(t)
  /\ K!Go(t, "syscall", "exit")
  /\ UNCHANGED <<schedVars, cpu, taskVars, panicked>>
  /\ fg_wait' = Unlink(fg_wait, t)
  /\ Goto(t, "rd_fin_read")
  /\ UNCHANGED <<tty, bounce, read_wait, cursor>>

\* finish_wait(&tty->fg_wait, ..), which already sets TASK_RUNNING
Read_finish_fg(t) ==
  /\ In(t, "rd_fin_fg")
  /\ K!Finish(t)
  /\ fg_wait' = Unlink(fg_wait, t)
  /\ Goto(t, "rd_fin_read")
  /\ UNCHANGED <<tty, bounce, read_wait, cursor>>

\* finish_wait(&tty->read_wait, ..)
Read_finish_read(t) ==
  /\ In(t, "rd_fin_read")
  /\ Kernel(t)
  /\ read_wait' = Unlink(read_wait, t)
  /\ Goto(t, "done")
  /\ UNCHANGED <<tty, bounce, fg_wait, cursor>>

-----------------------------------------------------------------------------
(* __tty_write().                                                          *)

Write_prepare(t) ==
  /\ In(t, "wr_loop")
  /\ K!Prepare(t)
  /\ fg_wait' = Link(fg_wait, t)
  /\ Goto(t, "wr_check")
  /\ UNCHANGED <<tty, bounce, read_wait, cursor>>

Write_check(t) ==
  /\ In(t, "wr_check")
  /\ Kernel(t)
  /\ Goto(t, IF t = fg_pid THEN "wr_fin" ELSE "wr_sleep")
  /\ UNCHANGED <<tty, bounce, read_wait, fg_wait, cursor>>

Write_sleep(t) ==
  /\ In(t, "wr_sleep")
  /\ K!Sleep(t)
  /\ Goto(t, "wr_loop")
  /\ UNCHANGED <<tty, bounce, read_wait, fg_wait, cursor>>

\* finish_wait(); what follows copies to the screen and returns
Write_finish(t) ==
  /\ In(t, "wr_fin")
  /\ K!Finish(t)
  /\ fg_wait' = Unlink(fg_wait, t)
  /\ Goto(t, "done")
  /\ UNCHANGED <<tty, bounce, read_wait, cursor>>

-----------------------------------------------------------------------------
(* The keyboard interrupt.                                                 *)

\* ps2_irq() and tty_push_char(); a newline starts wake_up(&tty->read_wait)
Key_pressed(c) ==
  /\ c = NL => tty.canon_lines < MaxLines
  /\ K!Ps2_irq
  /\ tty' = Ring!Push_char(tty, c)
  /\ cursor' = IF c = NL THEN 1 ELSE 0
  /\ UNCHANGED <<bounce, callVars>>

\* a release, a modifier or a key without a character
Key_ignored ==
  /\ K!Ps2_irq
  /\ UNCHANGED ttyVars

\* faulty: the first task woken ends the walk
Wake_entry_exclusive ==
  /\ cursor \in 1..Len(read_wait)
  /\ \/ /\ K!Wake_up_task(read_wait[cursor])
        /\ cursor' = Len(read_wait) + 1
     \/ /\ state[read_wait[cursor]] = "RUNNING"
        /\ cursor' = cursor + 1
        /\ UNCHANGED kernelVars
  /\ UNCHANGED <<tty, bounce, callVars>>

\* __wakeup(): the next entry's func is default_wake_function(), that is,
\* wake_up_task(), which leaves a task that is TASK_RUNNING alone
Wake_entry ==
  /\ cursor \in 1..Len(read_wait)
  /\ cursor' = cursor + 1
  /\ \/ K!Wake_up_task(read_wait[cursor])
     \/ state[read_wait[cursor]] = "RUNNING" /\ UNCHANGED kernelVars
  /\ UNCHANGED <<tty, bounce, callVars>>

Handler_returns ==
  /\ cursor \notin 1..Len(read_wait)
  /\ K!Handler_returns
  /\ cursor' = 0
  /\ UNCHANGED <<tty, bounce, callVars>>

Keyboard ==
  \/ \E c \in Ring!Keys : Key_pressed(c)
  \/ Key_ignored
  \/ Wake_entry
  \/ Handler_returns

-----------------------------------------------------------------------------
Tty_read(t) ==
  \/ Read_prepare_fg(t)
  \/ Read_loop_ends(t)
  \/ Read_prepare_read(t)
  \/ Read_try(t)
  \/ Read_sleep(t)
  \/ Read_copy(t)
  \/ Read_finish_fg(t)
  \/ Read_finish_read(t)

Tty_write(t) ==
  \/ Write_prepare(t)
  \/ Write_check(t)
  \/ Write_sleep(t)
  \/ Write_finish(t)

Kernel_step ==
  \/ Elsewhere
  \/ \E t \in Tasks : Tty_read(t)
  \/ \E t \in Tasks : Tty_write(t)
  \/ \E t \in Tasks : Sys_error_return(t)
  \/ \E t \in Tasks : Sys_return(t)
  \/ Keyboard

Environment ==
  \/ \E t \in Tasks : Sys_read(t)
  \/ \E t \in Tasks : Sys_write(t)
  \/ \E t \in Tasks : Sys_error(t)
  \/ \E v \in K!Vectors : K!Irq_entry(v) /\ UNCHANGED ttyVars
  \/ K!Halted /\ UNCHANGED ttyVars

Next == Kernel_step \/ Environment

\* User buffers are writable where the first byte goes.
Spec == Init /\ [][Next]_vars

Tick == K!Irq_entry("timer") /\ UNCHANGED ttyVars

\* As in Sched: the CPU executes, and timer interrupts keep coming.
Fairness == WF_vars(Kernel_step) /\ SF_vars(Tick)

FairSpec == Spec /\ Fairness

\* Any user buffer.
FaultSpec == Init /\ [][Next \/ \E t \in Tasks : Read_efault(t)]_vars

-----------------------------------------------------------------------------
\* kernel/tty.c:21-22: a wait queue holds exactly the tasks inside the part of
\* a call that waits there, each once; nothing is left behind on a stack that
\* has been given up, and wake_up() follows no stale entry.
WaitersAreWaiting ==
  \A t \in Tasks :
    /\ Linked(read_wait, t) =>
         call[t].pc \in {"rd_loop", "rd_prepared", "rd_try", "rd_sleep",
                         "rd_copy", "rd_fin_fg", "rd_fin_read"}
    /\ Linked(fg_wait, t) => call[t].pc \notin {"none", "done", "rd_fin_read"}
    /\ call[t].pc \in {"rd_try", "rd_sleep"} => Linked(read_wait, t)
    /\ \A wq \in {read_wait, fg_wait} : \A i, j \in 1..Len(wq) : wq[i] = t /\ wq[j] = t => i = j

\* No lost wake-up: the foreground task is asleep in tty_read() only while
\* there is no line, or while wake_up() is still on its way to its entry.
NoLostWakeup ==
  state[Pid1] = "INTERRUPTIBLE" /\ insched[Pid1] =>
    \/ tty.canon_lines = 0
    \/ \E i \in 1..Len(read_wait) : read_wait[i] = Pid1 /\ cursor \in 1..i

\* A line that is there is handed to the foreground task that waits for it.
LineDelivered ==
  (call[Pid1].pc = "rd_loop" /\ insched[Pid1] /\ tty.canon_lines > 0)
    ~> (In(Pid1, "done") \/ panicked)

\* The system calls use the scheduler as module Sched lets a system call do,
ImplementsSched == K!Spec

\* and the ring as module TtyRing lets its callers do.
ImplementsRing == Ring!Spec
=============================================================================
