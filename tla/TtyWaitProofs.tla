--------------------------- MODULE TtyWaitProofs ----------------------------
(***************************************************************************)
(* The terminal's system calls on top of the scheduler, for any number of  *)
(* tasks and any sizes: they use the scheduler and the ring as the modules *)
(* Sched and TtyRing let their callers do, a wait queue holds exactly the  *)
(* tasks inside the part of a call that waits there, and no wake-up of the *)
(* foreground reader is lost.                                              *)
(***************************************************************************)
EXTENDS TtyWait, TLAPS

\* Every step of the system calls and of the keyboard is a step of Sched, or
\* one inside a system call that the scheduler does not see.  Whoever is on
\* read_wait is a task, so what wake_up() wakes is one.
LEMMA SchedStep ==
  ASSUME read_wait \in Seq(Tasks), [Next]_vars
  PROVE  [K!Next]_(K!vars)
<1> USE DEF K!vars, K!schedVars, K!ctxVars, kernelVars, schedVars, taskVars
<1>1. CASE UNCHANGED vars
  BY <1>1 DEF vars
<1>2. CASE Elsewhere
  BY Zenon, <1>2 DEF Elsewhere, Kthread_run, K!Next, K!Kernel_step, K!Kmain, K!Handlers
<1>3. CASE \E t \in Tasks : Tty_read(t)
  BY Zenon, <1>3 DEF Tty_read, Read_prepare_fg, Read_loop_ends, Read_prepare_read, Read_try, Read_sleep,
     Read_copy, Read_finish_fg, Read_finish_read, Kernel, K!Next, K!Kernel_step, K!In_syscall
<1>4. CASE \E t \in Tasks : Tty_write(t)
  BY Zenon, <1>4 DEF Tty_write, Write_prepare, Write_check, Write_sleep, Write_finish, Kernel,
     K!Next, K!Kernel_step, K!In_syscall
<1>5. CASE \E t \in Tasks : Sys_error_return(t) \/ Sys_return(t)
  BY Zenon, <1>5 DEF Sys_error_return, Sys_return, K!Next, K!Kernel_step, K!In_syscall
<1>6. CASE Keyboard
  <2>1. ASSUME Wake_entry PROVE [K!Next]_(K!vars)
    <3>1. read_wait[cursor] \in Tasks
      BY <2>1 DEF Wake_entry
    <3> QED BY Zenon, <2>1, <3>1 DEF Wake_entry, K!Next, K!Kernel_step, K!Handlers
  <2> QED BY Zenon, <1>6, <2>1 DEF Keyboard, Key_pressed, Key_ignored, Handler_returns,
       K!Next, K!Kernel_step, K!Handlers
<1>7. CASE Environment
  BY Zenon, <1>7 DEF Environment, Sys_read, Sys_write, Sys_error, Sys_enter, K!Next
<1> QED BY Zenon, <1>1, <1>2, <1>3, <1>4, <1>5, <1>6, <1>7 DEF Next, Kernel_step

-----------------------------------------------------------------------------
\* no entry is linked twice
Once(wq) == \A i, j \in 1..Len(wq) : wq[i] = wq[j] => i = j

\* prepare_to_wait() links an entry once, and no other.
LEMMA LinkLemma ==
  ASSUME NEW wq \in Seq(Tasks), NEW t \in Tasks, Once(wq)
  PROVE  /\ Link(wq, t) \in Seq(Tasks)
         /\ Once(Link(wq, t))
         /\ \A u : Linked(Link(wq, t), u) <=> Linked(wq, u) \/ u = t
<1>1. CASE Linked(wq, t)
  BY <1>1 DEF Link
<1>2. CASE ~Linked(wq, t)
  <2> DEFINE e == Append(wq, t)
  <2>1. /\ e \in Seq(Tasks) /\ Len(e) = Len(wq) + 1 /\ Len(wq) \in Nat
        /\ \A i \in 1..Len(wq) : e[i] = wq[i]
        /\ e[Len(wq) + 1] = t
    OBVIOUS
  <2>2. Link(wq, t) = e
    BY <1>2 DEF Link
  <2> HIDE DEF e
  <2>3. Once(e)
    BY <1>2, <2>1 DEF Once, Linked
  <2>4. ASSUME NEW u PROVE Linked(e, u) <=> Linked(wq, u) \/ u = t
    <3>1. ASSUME Linked(e, u) PROVE Linked(wq, u) \/ u = t
      BY <2>1, <3>1 DEF Linked
    <3>2. ASSUME Linked(wq, u) PROVE Linked(e, u)
      BY <2>1, <3>2 DEF Linked
    <3>3. ASSUME u = t PROVE Linked(e, u)
      BY <2>1, <3>3 DEF Linked
    <3> QED BY <3>1, <3>2, <3>3
  <2> QED BY <2>1, <2>2, <2>3, <2>4
<1> QED BY <1>1, <1>2

\* finish_wait() unlinks an entry, and no other.
LEMMA UnlinkLemma ==
  ASSUME NEW wq \in Seq(Tasks), NEW t \in Tasks, Once(wq)
  PROVE  /\ Unlink(wq, t) \in Seq(Tasks)
         /\ Once(Unlink(wq, t))
         /\ \A u : Linked(Unlink(wq, t), u) <=> Linked(wq, u) /\ u # t
<1>1. CASE ~Linked(wq, t)
  BY <1>1 DEF Unlink
<1>2. CASE Linked(wq, t)
  <2> DEFINE k == CHOOSE i \in 1..Len(wq) : wq[i] = t
             d == [i \in 1..(Len(wq) - 1) |-> IF i < k THEN wq[i] ELSE wq[i + 1]]
  <2>1. k \in 1..Len(wq) /\ wq[k] = t /\ Len(wq) \in Nat
    BY <1>2 DEF Linked
  <2>2. Unlink(wq, t) = d
    BY <1>2 DEF Unlink, K!Dequeue
  <2> HIDE DEF k
  <2>3. Len(wq) - 1 \in Nat
        /\ \A i \in 1..(Len(wq) - 1) : (IF i < k THEN wq[i] ELSE wq[i + 1]) \in Tasks
    BY <2>1
  <2>4. d \in Seq(Tasks) /\ Len(d) = Len(wq) - 1
    BY <2>3
  <2>5. \A i \in 1..(Len(wq) - 1) : d[i] = IF i < k THEN wq[i] ELSE wq[i + 1]
    OBVIOUS
  <2> HIDE DEF d
  <2>6. Once(d)
    BY <2>1, <2>4, <2>5 DEF Once
  <2>7. ASSUME NEW u PROVE Linked(d, u) <=> Linked(wq, u) /\ u # t
    <3>1. ASSUME Linked(d, u) PROVE Linked(wq, u) /\ u # t
      <4>1. PICK i \in 1..Len(d) : d[i] = u
        BY <3>1 DEF Linked
      <4>2. CASE i < k
        BY <2>1, <2>4, <2>5, <4>1, <4>2 DEF Linked, Once
      <4>3. CASE ~(i < k)
        <5>1. i + 1 \in 1..Len(wq) /\ wq[i + 1] = u /\ i + 1 # k
          BY <2>1, <2>4, <2>5, <4>1, <4>3
        <5> QED BY <2>1, <5>1 DEF Linked, Once
      <4> QED BY <4>2, <4>3
    <3>2. ASSUME Linked(wq, u), u # t PROVE Linked(d, u)
      <4>1. PICK i \in 1..Len(wq) : wq[i] = u
        BY <3>2 DEF Linked
      <4>2. CASE i < k
        <5>1. i \in 1..Len(d) /\ d[i] = u
          BY <2>1, <2>4, <2>5, <4>1, <4>2
        <5> QED BY <5>1 DEF Linked
      <4>3. CASE i > k
        <5>1. i - 1 \in 1..Len(d) /\ d[i - 1] = u
          BY <2>1, <2>4, <2>5, <4>1, <4>3
        <5> QED BY <5>1 DEF Linked
      <4>4. i # k
        BY <2>1, <3>2, <4>1
      <4> QED BY <2>1, <4>1, <4>2, <4>3, <4>4
    <3> QED BY <3>1, <3>2
  <2> QED BY <2>2, <2>4, <2>6, <2>7
<1> QED BY <1>1, <1>2

\* Neither concerns the entries of other tasks.
LEMMA QueueStep ==
  ASSUME NEW wq \in Seq(Tasks), NEW t \in Tasks, Once(wq),
         NEW new, new \in {wq, Link(wq, t), Unlink(wq, t)}
  PROVE  /\ new \in Seq(Tasks)
         /\ Once(new)
         /\ \A u : u # t => (Linked(new, u) <=> Linked(wq, u))
<1>1. CASE new = wq
  BY <1>1
<1>2. CASE new = Link(wq, t)
  BY <1>2, LinkLemma
<1>3. CASE new = Unlink(wq, t)
  BY <1>3, UnlinkLemma
<1> QED BY <1>1, <1>2, <1>3

-----------------------------------------------------------------------------
(* The invariants.                                                         *)

\* What is used of the scheduler: no handler meets a task that prepared to
\* wait, and a task that neither runs nor was switched out is new.
SchedFacts ==
  /\ at \in [K!Procs -> K!Places]
  /\ state \in [K!Procs -> K!States]
  /\ insched \in [K!Procs -> BOOLEAN]
  /\ cpu \in K!CpuType
  /\ current_task \in K!Procs
  /\ K!HandlersSeeRunning
  /\ \A t \in Tasks : t # current_task /\ ~insched[t] => at[t] \in {"none", "fork"}
  /\ \A t \in Tasks : state[t] = "NONE" => at[t] = "none"

Pcs == {"none", "rd_loop", "rd_prepared", "rd_try", "rd_sleep", "rd_copy", "rd_fin_fg",
        "rd_fin_read", "wr_loop", "wr_check", "wr_sleep", "wr_fin", "done"}

CallType == [pc : Pcs, count : Nat, total : Nat, ret : Nat, line : BOOLEAN]

QueuesOK(rw, fw) == rw \in Seq(Tasks) /\ Once(rw) /\ fw \in Seq(Tasks) /\ Once(fw)

\* a task at place in call c; rd, fg: is it linked in read_wait, in fg_wait?
CallOK(place, c, rd, fg) ==
  /\ place \notin {"syscall", "exit"} => c.pc = "none"
  /\ rd => c.pc \in {"rd_loop", "rd_prepared", "rd_try", "rd_sleep",
                     "rd_copy", "rd_fin_fg", "rd_fin_read"}
  /\ fg => c.pc \notin {"none", "done", "rd_fin_read"}
  /\ c.pc \in {"rd_try", "rd_sleep"} => rd
  /\ c.pc \in {"rd_prepared", "rd_try"} => c.total < c.count

WaitInv ==
  /\ call \in [Tasks -> CallType]
  /\ QueuesOK(read_wait, fg_wait)
  /\ cursor \in Nat
  /\ \A t \in Tasks : CallOK(at[t], call[t], Linked(read_wait, t), Linked(fg_wait, t))

\* The foreground task, in state s, in call c: from prepare_to_wait() on it is
\* not interrupted, it sleeps only without a line, and asleep it is linked.
FgOK(s, switched, c, rd, lines) ==
  /\ c.pc # "wr_sleep"
  /\ c.pc \in {"rd_prepared", "rd_try", "rd_sleep"} => s = "INTERRUPTIBLE" /\ ~switched
  /\ c.pc = "rd_sleep" => lines = 0
  /\ switched /\ s = "INTERRUPTIBLE" => c.pc = "rd_loop" /\ rd

FgInv ==
  /\ FgOK(state[Pid1], insched[Pid1], call[Pid1], Linked(read_wait, Pid1), tty.canon_lines)
  /\ cursor # 0 => cpu.vec = "ps2_handler"
  /\ NoLostWakeup

-----------------------------------------------------------------------------
\* A step of task t, which links and unlinks nobody else, keeps the queues
\* right if t's own entries are.
LEMMA CallStep ==
  ASSUME WaitInv,
         NEW t \in Tasks, NEW c \in CallType, call' = [call EXCEPT ![t] = c],
         read_wait' \in {read_wait, Link(read_wait, t), Unlink(read_wait, t)},
         fg_wait' \in {fg_wait, Link(fg_wait, t), Unlink(fg_wait, t)},
         cursor' = cursor,
         \A u \in Tasks \ {t} : at'[u] = at[u],
         CallOK(at'[t], c, Linked(read_wait', t), Linked(fg_wait', t))
  PROVE  WaitInv'
<1>1. /\ call \in [Tasks -> CallType] /\ read_wait \in Seq(Tasks) /\ Once(read_wait)
      /\ fg_wait \in Seq(Tasks) /\ Once(fg_wait) /\ cursor \in Nat
  BY DEF WaitInv, QueuesOK
<1>2. /\ read_wait' \in Seq(Tasks) /\ Once(read_wait')
      /\ \A u : u # t => (Linked(read_wait', u) <=> Linked(read_wait, u))
  BY ZenonT(30), <1>1, QueueStep
<1>3. /\ fg_wait' \in Seq(Tasks) /\ Once(fg_wait')
      /\ \A u : u # t => (Linked(fg_wait', u) <=> Linked(fg_wait, u))
  BY ZenonT(30), <1>1, QueueStep
<1>4. call' \in [Tasks -> CallType] /\ call'[t] = c /\ \A u \in Tasks \ {t} : call'[u] = call[u]
  BY <1>1
<1>5. ASSUME NEW u \in Tasks
      PROVE  CallOK(at'[u], call'[u], Linked(read_wait', u), Linked(fg_wait', u))
  <2>1. CASE u = t
    BY <1>4, <2>1
  <2>2. CASE u # t
    <3>1. CallOK(at[u], call[u], Linked(read_wait, u), Linked(fg_wait, u))
      BY DEF WaitInv
    <3>2. at'[u] = at[u] /\ call'[u] = call[u]
      BY <1>4, <2>2
    <3>3. (Linked(read_wait', u) <=> Linked(read_wait, u)) /\ (Linked(fg_wait', u) <=> Linked(fg_wait, u))
      BY <1>2, <1>3, <2>2
    <3> QED BY <3>1, <3>2, <3>3 DEF CallOK
  <2> QED BY <2>1, <2>2
<1>6. QueuesOK(read_wait', fg_wait')
  BY <1>2, <1>3 DEF QueuesOK
<1> QED BY Zenon, <1>1, <1>4, <1>5, <1>6 DEF WaitInv

\* The steps of another task do not concern the foreground task,
LEMMA FgOtherStep ==
  ASSUME WaitInv, FgInv,
         NEW t \in Tasks, t # Pid1, K!Running(t), cursor' = cursor,
         call'[Pid1] = call[Pid1], state'[Pid1] = state[Pid1], insched'[Pid1] = insched[Pid1],
         read_wait' \in {read_wait, Link(read_wait, t), Unlink(read_wait, t)},
         tty'.canon_lines = tty.canon_lines
  PROVE  FgInv'
<1>1. cursor = 0
  BY DEF FgInv, K!Running
<1>2. Linked(read_wait', Pid1) <=> Linked(read_wait, Pid1)
  BY QueueStep DEF WaitInv, QueuesOK
<1>3. state[Pid1] = "INTERRUPTIBLE" /\ insched[Pid1] => tty.canon_lines = 0
  BY <1>1 DEF FgInv, NoLostWakeup
<1>4. NoLostWakeup'
  BY <1>3 DEF NoLostWakeup
<1>5. FgOK(state'[Pid1], insched'[Pid1], call'[Pid1], Linked(read_wait', Pid1), tty'.canon_lines)
  BY <1>2 DEF FgInv, FgOK
<1> QED BY <1>1, <1>4, <1>5 DEF FgInv

\* and its own steps keep it right if it gives up the CPU only without a line.
LEMMA FgOwnStep ==
  ASSUME FgInv, K!Running(Pid1), cursor' = cursor,
         FgOK(state'[Pid1], insched'[Pid1], call'[Pid1], Linked(read_wait', Pid1), tty'.canon_lines),
         insched'[Pid1] /\ state'[Pid1] = "INTERRUPTIBLE" => tty'.canon_lines = 0
  PROVE  FgInv'
<1>1. cursor = 0
  BY DEF FgInv, K!Running
<1>2. NoLostWakeup'
  BY DEF NoLostWakeup
<1> QED BY <1>1, <1>2 DEF FgInv

-----------------------------------------------------------------------------
\* What a step outside the terminal's code leaves alone of a task in a call.
Quiet ==
  /\ \A t \in Tasks : at[t] \in {"syscall", "exit"} => at'[t] \in {"syscall", "exit"}
  /\ \A t \in Tasks : state'[t] = "INTERRUPTIBLE" <=> state[t] = "INTERRUPTIBLE"
  /\ \A t \in Tasks : insched'[t] => insched[t] \/ state[t] # "INTERRUPTIBLE"
  /\ cpu.vec = "ps2_handler" => cpu'.vec = "ps2_handler"

\* A tick, like kmain() calling schedule(), switches out a task that is
\* TASK_RUNNING or the idle task.
LEMMA DispatchQuiet ==
  ASSUME NEW preempt, NEW c, K!Do_schedule(preempt, c),
         current_task = Idle \/ state[current_task] = "RUNNING",
         insched \in [K!Procs -> BOOLEAN]
  PROVE  \A t \in Tasks : insched'[t] => insched[t] \/ state[t] # "INTERRUPTIBLE"
<1>1. \/ insched' = insched
      \/ insched' = [insched EXCEPT ![current_task] = TRUE]
  BY Zenon DEF K!Do_schedule, K!ctxVars
<1> QED BY <1>1, TaskAssumption DEF K!Procs

\* Creating and loading tasks, interrupts, and returning from either are quiet.
LEMMA ElsewhereQuiet ==
  ASSUME SchedFacts,
         \/ Elsewhere
         \/ \E v \in K!Vectors : K!Irq_entry(v)
         \/ K!Ps2_irq
         \/ K!Halted
  PROVE  Quiet
<1> USE DEF K!schedVars, K!ctxVars
<1>1. /\ at \in [K!Procs -> K!Places] /\ state \in [K!Procs -> K!States]
      /\ insched \in [K!Procs -> BOOLEAN] /\ cpu \in K!CpuType
      /\ Tasks \subseteq K!Procs /\ Idle \in K!Procs
  BY DEF SchedFacts, K!Procs
<1>2. ASSUME UNCHANGED <<at, state, insched>>, cpu.vec # "ps2_handler" \/ cpu'.vec = cpu.vec
      PROVE  Quiet
  BY <1>2 DEF Quiet
<1>3. ASSUME K!Panic PROVE Quiet
  BY <1>2, <1>3 DEF K!Panic
<1>4. ASSUME NEW t \in Tasks, Kthread_run(t) PROVE Quiet
  <2>1. /\ at' = [at EXCEPT ![t] = "fork"] /\ state' = [state EXCEPT ![t] = "RUNNING"]
        /\ state[t] = "NONE" /\ cpu' = cpu /\ insched' = insched /\ current_task = Idle
        /\ ~insched[Idle]
    BY Zenon, <1>4 DEF Kthread_run, K!Kthread_run, K!New_task, K!Running
  <2>2. at[t] = "none"
    BY <2>1 DEF SchedFacts
  <2> QED BY <1>1, <2>1, <2>2 DEF Quiet
<1>5. ASSUME K!Local_irq_enable PROVE Quiet
  <2>1. /\ at' = [at EXCEPT ![Idle] = "sched"] /\ UNCHANGED <<state, insched>> /\ cpu.vec = "none"
    BY Zenon, <1>5 DEF K!Local_irq_enable, K!Go, K!Running
  <2> QED BY <1>1, <2>1, TaskAssumption DEF Quiet
<1>6. ASSUME K!Kmain_schedule PROVE Quiet
  <2>1. /\ at' = [at EXCEPT ![Idle] = "hlt"] /\ state' = state /\ cpu.vec = "none"
        /\ current_task = Idle /\ K!Do_schedule(FALSE, cpu)
    BY Zenon, <1>6 DEF K!Kmain_schedule, K!Go, K!Running
  <2>2. \A t \in Tasks : insched'[t] => insched[t] \/ state[t] # "INTERRUPTIBLE"
    BY Zenon, <1>1, <2>1, DispatchQuiet
  <2> QED BY <1>1, <2>1, <2>2, TaskAssumption DEF Quiet
<1>7. ASSUME NEW t \in Tasks, K!Init_task(t) PROVE Quiet
  <2>1. CASE K!Init_task_fails(t)
    BY <1>3, <2>1 DEF K!Init_task_fails
  <2>2. CASE ~K!Init_task_fails(t)
    <3>1. /\ at[t] \in {"fork", "mm", "load", "iret"} /\ \E place : at' = [at EXCEPT ![t] = place]
          /\ UNCHANGED <<state, insched>> /\ cpu.vec = "none"
      BY Zenon, <1>7, <2>2 DEF K!Init_task, K!Mm_create, K!Activate_mm, K!Ret_from_fork, K!Iretq,
         K!Go, K!Running
    <3> QED BY <1>1, <3>1 DEF Quiet
  <2> QED BY <2>1, <2>2
<1>8. ASSUME K!Timer_irq_handler PROVE Quiet
  <2>1. CASE cpu.current # current_task
    BY <1>3, <1>8, <2>1 DEF K!Timer_irq_handler
  <2>2. CASE cpu.current = current_task
    <3>1. UNCHANGED <<at, state>> /\ cpu.vec = "timer" /\ K!Do_schedule(TRUE, K!Eoi("none"))
      BY Zenon, <1>8, <2>2 DEF K!Timer_irq_handler
    <3>2. state[current_task] = "RUNNING"
      BY <3>1 DEF SchedFacts, K!HandlersSeeRunning
    <3>3. \A t \in Tasks : insched'[t] => insched[t] \/ state[t] # "INTERRUPTIBLE"
      BY Zenon, <1>1, <3>1, <3>2, DispatchQuiet
    <3> QED BY <3>1, <3>3 DEF Quiet
  <2> QED BY <2>1, <2>2
<1>9. ASSUME NEW p \in K!Procs, K!Sched_return(p) PROVE Quiet
  <2>1. UNCHANGED <<at, state>> /\ cpu.vec = "none" /\ insched' = [insched EXCEPT ![p] = FALSE]
    BY Zenon, <1>9 DEF K!Sched_return
  <2> QED BY <1>1, <2>1 DEF Quiet
<1>10. ASSUME NEW p \in K!Procs, K!Irq_return(p) PROVE Quiet
  BY <1>2, <1>10 DEF K!Irq_return
<1>11. ASSUME NEW v \in K!Vectors, K!Irq_entry(v) PROVE Quiet
  BY Zenon, <1>2, <1>11 DEF K!Irq_entry
<1>12. ASSUME K!Ps2_irq PROVE Quiet
  BY <1>2, <1>12 DEF K!Ps2_irq
<1>13. ASSUME K!Halted PROVE Quiet
  BY <1>2, <1>13 DEF K!Halted, K!vars
<1>14. ASSUME K!Kthread_run_fails PROVE Quiet
  BY <1>3, <1>14 DEF K!Kthread_run_fails
<1> QED BY Zenon, <1>4, <1>5, <1>6, <1>7, <1>8, <1>9, <1>10, <1>11, <1>12, <1>13, <1>14 DEF Elsewhere

\* A quiet step that leaves the terminal alone keeps both invariants.
LEMMA QuietStep ==
  ASSUME WaitInv, FgInv, Quiet, UNCHANGED ttyVars
  PROVE  WaitInv' /\ FgInv'
<1>1. UNCHANGED <<tty, bounce, read_wait, fg_wait, call, cursor>>
  BY DEF ttyVars, callVars
<1>2. WaitInv'
  <2>1. ASSUME NEW t \in Tasks
        PROVE  CallOK(at'[t], call[t], Linked(read_wait, t), Linked(fg_wait, t))
    BY DEF WaitInv, CallOK, Quiet
  <2>2. call \in [Tasks -> CallType] /\ QueuesOK(read_wait, fg_wait) /\ cursor \in Nat
    BY DEF WaitInv
  <2> QED BY Zenon, <1>1, <2>1, <2>2 DEF WaitInv
<1>3. FgInv'
  <2>1. FgOK(state'[Pid1], insched'[Pid1], call[Pid1], Linked(read_wait, Pid1), tty.canon_lines)
    BY Pid1Assumption DEF FgInv, FgOK, Quiet
  <2>2. NoLostWakeup'
    BY <1>1, Pid1Assumption DEF FgInv, NoLostWakeup, Quiet
  <2>3. cursor # 0 => cpu'.vec = "ps2_handler"
    BY DEF FgInv, Quiet
  <2> QED BY Zenon, <1>1, <2>1, <2>2, <2>3 DEF FgInv
<1> QED BY <1>2, <1>3

-----------------------------------------------------------------------------
(* The steps of a system call.                                             *)

\* What the scheduler's part of such a step does to the tasks.
Moves(t, place, s, switched) ==
  /\ K!Running(t)
  /\ at'[t] = place /\ state'[t] = s /\ (insched'[t] <=> switched)
  /\ \A u \in Tasks \ {t} : at'[u] = at[u] /\ state'[u] = state[u] /\ insched'[u] = insched[u]

\* A step of task t into call c keeps both invariants if its own entries are
\* right, and, for the foreground task, what it knows of the lines.
LEMMA TaskStep ==
  ASSUME WaitInv, FgInv, NEW t \in Tasks,
         NEW place, NEW s, NEW switched \in BOOLEAN, Moves(t, place, s, switched),
         NEW c \in CallType, call' = [call EXCEPT ![t] = c],
         read_wait' \in {read_wait, Link(read_wait, t), Unlink(read_wait, t)},
         fg_wait' \in {fg_wait, Link(fg_wait, t), Unlink(fg_wait, t)},
         cursor' = cursor,
         t # Pid1 => tty' = tty,
         CallOK(place, c, Linked(read_wait', t), Linked(fg_wait', t)),
         t = Pid1 => /\ FgOK(s, switched, c, Linked(read_wait', t), tty'.canon_lines)
                     /\ switched /\ s = "INTERRUPTIBLE" => tty'.canon_lines = 0
  PROVE  WaitInv' /\ FgInv'
<1>1. /\ K!Running(t) /\ at'[t] = place /\ state'[t] = s /\ (insched'[t] <=> switched)
      /\ \A u \in Tasks \ {t} : at'[u] = at[u] /\ state'[u] = state[u] /\ insched'[u] = insched[u]
  BY DEF Moves
<1>2. WaitInv'
  <2>1. CallOK(at'[t], c, Linked(read_wait', t), Linked(fg_wait', t))
    BY <1>1
  <2>2. \A u \in Tasks \ {t} : at'[u] = at[u]
    BY <1>1
  <2> QED BY ZenonT(30), <2>1, <2>2, CallStep
<1>3. call'[t] = c /\ \A u \in Tasks \ {t} : call'[u] = call[u]
  BY DEF WaitInv
<1>4. CASE t = Pid1
  <2>1. FgOK(state'[Pid1], insched'[Pid1], call'[Pid1], Linked(read_wait', Pid1), tty'.canon_lines)
    BY <1>1, <1>3, <1>4 DEF FgOK
  <2> QED BY <1>1, <1>2, <1>4, <2>1, FgOwnStep
<1>5. CASE t # Pid1
  <2>1. call'[Pid1] = call[Pid1] /\ state'[Pid1] = state[Pid1] /\ insched'[Pid1] = insched[Pid1]
    BY <1>1, <1>3, <1>5, Pid1Assumption
  <2> QED BY <1>1, <1>2, <1>5, <2>1, FgOtherStep
<1> QED BY <1>4, <1>5

\* prepare_to_wait(), seen from the scheduler
LEMMA PrepareMoves ==
  ASSUME SchedFacts, NEW t \in Tasks, K!Prepare(t)
  PROVE  Moves(t, "syscall", "INTERRUPTIBLE", FALSE)
<1>1. /\ K!Running(t) /\ at[t] = "syscall" /\ state' = [state EXCEPT ![current_task] = "INTERRUPTIBLE"]
      /\ UNCHANGED <<at, insched>>
  BY Zenon DEF K!Prepare, K!Set_state, K!ctxVars
<1> QED BY <1>1 DEF Moves, K!Running, SchedFacts, K!Procs

\* schedule(), which may find nobody else to run
LEMMA SleepMoves ==
  ASSUME SchedFacts, NEW t \in Tasks, K!Sleep(t)
  PROVE  \E switched \in BOOLEAN : Moves(t, "syscall", "INTERRUPTIBLE", switched)
<1>1. /\ K!Running(t) /\ at[t] = "syscall" /\ state[t] = "INTERRUPTIBLE"
      /\ UNCHANGED <<at, state>> /\ K!Do_schedule(FALSE, cpu)
  BY Zenon DEF K!Sleep
<1>2. insched' = insched \/ insched' = [insched EXCEPT ![t] = TRUE]
  BY Zenon, <1>1 DEF K!Do_schedule, K!ctxVars, K!Running
<1> QED BY Zenon, <1>1, <1>2 DEF Moves, K!Running, SchedFacts, K!Procs

\* the end of a call
LEMMA FinishMoves ==
  ASSUME SchedFacts, NEW t \in Tasks, K!Finish(t)
  PROVE  at[t] = "syscall" /\ Moves(t, "exit", "RUNNING", FALSE)
<1>1. /\ K!Running(t) /\ at[t] = "syscall" /\ state' = [state EXCEPT ![current_task] = "RUNNING"]
      /\ at' = [at EXCEPT ![t] = "exit"] /\ insched' = insched
  BY Zenon DEF K!Finish, K!Go, K!Set_state, K!ctxVars
<1> QED BY <1>1 DEF Moves, K!Running, SchedFacts, K!Procs

\* steps the scheduler does not see
LEMMA KernelMoves ==
  ASSUME NEW t \in Tasks, Kernel(t)
  PROVE  Moves(t, at[t], state[t], FALSE)
BY DEF Kernel, Moves, K!Running, kernelVars, schedVars, taskVars

\* What is used of the ring: a read takes something exactly if there is a
\* line, and only newlines are counted.
RingFacts ==
  /\ tty.canon_lines \in Nat
  /\ \A n \in 1..TTY_BOUNCE_BUF_SIZE :
       /\ Ring!Read_len(tty, n) \in Nat
       /\ Ring!Read_len(tty, n) = 0 <=> tty.canon_lines = 0
       /\ Ring!Read_len(tty, n) = 0 => Ring!After_read(tty, Ring!Read_len(tty, n)) = tty
  /\ \A c \in Ring!Keys :
       Ring!Push_char(tty, c).canon_lines = IF c = NL THEN tty.canon_lines + 1 ELSE tty.canon_lines

\* What is known of task t before a step of its own,
LEMMA Own ==
  ASSUME WaitInv, FgInv, NEW t \in Tasks
  PROVE  /\ call[t] \in CallType
         /\ CallOK(at[t], call[t], Linked(read_wait, t), Linked(fg_wait, t))
         /\ t = Pid1 => FgOK(state[t], insched[t], call[t], Linked(read_wait, t), tty.canon_lines)
         /\ read_wait \in Seq(Tasks) /\ Once(read_wait) /\ fg_wait \in Seq(Tasks) /\ Once(fg_wait)
BY DEF WaitInv, FgInv, QueuesOK

\* and where it stands behind one.
LEMMA GotoLemma ==
  ASSUME WaitInv, NEW t \in Tasks, NEW pc \in Pcs, Goto(t, pc)
  PROVE  \E c \in CallType : /\ call' = [call EXCEPT ![t] = c]
                             /\ c.pc = pc /\ c.total = call[t].total /\ c.count = call[t].count
<1>1. call \in [Tasks -> CallType]
  BY DEF WaitInv
<1> DEFINE c == [call[t] EXCEPT !.pc = pc]
<1>2. c \in CallType /\ c.pc = pc /\ c.total = call[t].total /\ c.count = call[t].count
  BY <1>1 DEF CallType
<1>3. call' = [call EXCEPT ![t] = c]
  BY DEF Goto
<1> QED BY Zenon, <1>2, <1>3

\* tty_read() up to the first look at the ring
LEMMA ReadEntersStep ==
  ASSUME SchedFacts, WaitInv, FgInv, NEW t \in Tasks,
         Read_prepare_fg(t) \/ Read_loop_ends(t) \/ Read_prepare_read(t)
  PROVE  WaitInv' /\ FgInv'
<1>1. CASE Read_prepare_fg(t)
  <2>1. Moves(t, "syscall", "INTERRUPTIBLE", FALSE)
    BY Zenon, <1>1, PrepareMoves DEF Read_prepare_fg
  <2>2. /\ call[t].pc = "rd_loop" /\ call[t].total < call[t].count /\ Goto(t, "rd_prepared")
        /\ read_wait' = read_wait /\ fg_wait' = Link(fg_wait, t) /\ cursor' = cursor /\ tty' = tty
    BY Zenon, <1>1 DEF Read_prepare_fg, In
  <2>3. PICK c \in CallType : /\ call' = [call EXCEPT ![t] = c] /\ c.pc = "rd_prepared"
                              /\ c.total = call[t].total /\ c.count = call[t].count
    BY <2>2, GotoLemma DEF Pcs
  <2>4. CallOK("syscall", c, Linked(read_wait', t), Linked(fg_wait', t))
    BY <2>2, <2>3, Own DEF CallOK
  <2>5. t = Pid1 => FgOK("INTERRUPTIBLE", FALSE, c, Linked(read_wait', t), tty'.canon_lines)
    BY <2>2, <2>3 DEF FgOK
  <2> QED BY ZenonT(30), <2>1, <2>2, <2>3, <2>4, <2>5, TaskStep
<1>2. CASE Read_loop_ends(t)
  <2>1. Moves(t, at[t], state[t], FALSE)
    BY Zenon, <1>2, KernelMoves DEF Read_loop_ends
  <2>2. /\ call[t].pc = "rd_loop" /\ Goto(t, "rd_fin_fg")
        /\ read_wait' = read_wait /\ fg_wait' = fg_wait /\ cursor' = cursor /\ tty' = tty
    BY Zenon, <1>2 DEF Read_loop_ends, In
  <2>3. PICK c \in CallType : call' = [call EXCEPT ![t] = c] /\ c.pc = "rd_fin_fg"
    BY <2>2, GotoLemma DEF Pcs
  <2>4. CallOK(at[t], c, Linked(read_wait', t), Linked(fg_wait', t))
    BY <2>2, <2>3, Own DEF CallOK
  <2>5. t = Pid1 => FgOK(state[t], FALSE, c, Linked(read_wait', t), tty'.canon_lines)
    BY <2>2, <2>3 DEF FgOK
  <2> QED BY ZenonT(30), <2>1, <2>2, <2>3, <2>4, <2>5, TaskStep
<1>3. CASE Read_prepare_read(t)
  <2>1. Moves(t, "syscall", "INTERRUPTIBLE", FALSE)
    BY Zenon, <1>3, PrepareMoves DEF Read_prepare_read
  <2>2. /\ call[t].pc = "rd_prepared" /\ Goto(t, "rd_try")
        /\ read_wait' = Link(read_wait, t) /\ fg_wait' = fg_wait /\ cursor' = cursor /\ tty' = tty
    BY Zenon, <1>3 DEF Read_prepare_read, In
  <2>3. PICK c \in CallType : /\ call' = [call EXCEPT ![t] = c] /\ c.pc = "rd_try"
                              /\ c.total = call[t].total /\ c.count = call[t].count
    BY <2>2, GotoLemma DEF Pcs
  <2>4. Linked(read_wait', t)
    BY <2>2, Own, LinkLemma
  <2>5. CallOK("syscall", c, Linked(read_wait', t), Linked(fg_wait', t))
    BY <2>2, <2>3, <2>4, Own DEF CallOK
  <2>6. t = Pid1 => FgOK("INTERRUPTIBLE", FALSE, c, Linked(read_wait', t), tty'.canon_lines)
    BY <2>2, <2>3 DEF FgOK
  <2> QED BY ZenonT(30), <2>1, <2>2, <2>3, <2>5, <2>6, TaskStep
<1> QED BY <1>1, <1>2, <1>3

\* __tty_read(), and what tty_read() makes of its answer
LEMMA ReadTryStep ==
  ASSUME RingFacts, WaitInv, FgInv, NEW t \in Tasks, Read_try(t)
  PROVE  WaitInv' /\ FgInv'
<1> DEFINE d == call[t]
           req == IF d.count - d.total < TTY_BOUNCE_BUF_SIZE
                  THEN d.count - d.total ELSE TTY_BOUNCE_BUF_SIZE
           ret == IF t = fg_pid THEN Ring!Read_len(tty, req) ELSE d.ret
           new == IF t = fg_pid THEN Ring!After_read(tty, ret) ELSE tty
           line == (new.canon_lines # tty.canon_lines)
           pc == IF ret > 0 THEN "rd_copy" ELSE IF d.total = 0 THEN "rd_sleep" ELSE "rd_fin_fg"
           c == [d EXCEPT !.ret = ret, !.line = line, !.pc = pc]
<1>1. /\ d.pc = "rd_try" /\ Kernel(t) /\ tty' = new /\ call' = [call EXCEPT ![t] = c]
      /\ read_wait' = read_wait /\ fg_wait' = fg_wait /\ cursor' = cursor
  BY Zenon DEF Read_try, In
<1>2. d \in CallType /\ d.total < d.count /\ Linked(read_wait, t)
  BY <1>1, Own DEF CallOK
<1>3. req \in 1..TTY_BOUNCE_BUF_SIZE
  BY <1>2, ReadAssumption DEF CallType
<1> HIDE DEF req
<1>4. ret \in Nat
  BY <1>2, <1>3 DEF RingFacts, CallType
<1>5. ret = 0 /\ t = Pid1 => new = tty /\ tty.canon_lines = 0
  BY <1>3 DEF RingFacts, fg_pid
<1>6. t # Pid1 => new = tty
  BY DEF fg_pid
<1> HIDE DEF ret, new
<1>7. c \in CallType /\ c.pc = pc
  BY Zenon, <1>2, <1>4 DEF CallType, Pcs
<1> HIDE DEF c
<1>8. Moves(t, at[t], state[t], FALSE)
  BY Zenon, <1>1, KernelMoves
<1>9. CallOK(at[t], c, Linked(read_wait', t), Linked(fg_wait', t))
  BY <1>1, <1>2, <1>7, Own DEF CallOK
<1>10. t = Pid1 => FgOK(state[t], FALSE, c, Linked(read_wait', t), tty'.canon_lines)
  BY <1>1, <1>4, <1>5, <1>7, Own DEF FgOK
<1> QED BY ZenonT(30), <1>1, <1>6, <1>7, <1>8, <1>9, <1>10, TaskStep

\* tty_read() gives up the CPU
LEMMA ReadSleepStep ==
  ASSUME SchedFacts, WaitInv, FgInv, NEW t \in Tasks, Read_sleep(t)
  PROVE  WaitInv' /\ FgInv'
<1>1. PICK switched \in BOOLEAN : Moves(t, "syscall", "INTERRUPTIBLE", switched)
  BY Zenon, SleepMoves DEF Read_sleep
<1>2. /\ call[t].pc = "rd_sleep" /\ Goto(t, "rd_loop")
      /\ read_wait' = read_wait /\ fg_wait' = fg_wait /\ cursor' = cursor /\ tty' = tty
  BY Zenon DEF Read_sleep, In
<1>3. PICK c \in CallType : call' = [call EXCEPT ![t] = c] /\ c.pc = "rd_loop"
  BY <1>2, GotoLemma DEF Pcs
<1>4. CallOK("syscall", c, Linked(read_wait', t), Linked(fg_wait', t))
  BY <1>2, <1>3, Own DEF CallOK
<1>5. t = Pid1 => /\ FgOK("INTERRUPTIBLE", switched, c, Linked(read_wait', t), tty'.canon_lines)
                  /\ tty'.canon_lines = 0
  BY <1>2, <1>3, Own DEF FgOK, CallOK
<1> QED BY ZenonT(30), <1>1, <1>2, <1>3, <1>4, <1>5, TaskStep

\* copy_to_user() and finish_wait()
LEMMA ReadLeavesStep ==
  ASSUME SchedFacts, WaitInv, FgInv, NEW t \in Tasks,
         Read_copy(t) \/ Read_finish_fg(t) \/ Read_finish_read(t)
  PROVE  WaitInv' /\ FgInv'
<1>1. CASE Read_copy(t)
  <2> DEFINE d == call[t]
  <2>1. PICK copied \in 0..d.ret :
             call' = [call EXCEPT ![t].total = d.total + copied,
                                  ![t].pc = IF copied < d.ret \/ d.line THEN "rd_fin_fg" ELSE "rd_loop"]
    BY Zenon, <1>1 DEF Read_copy
  <2>2. /\ d.pc = "rd_copy" /\ Kernel(t)
        /\ read_wait' = read_wait /\ fg_wait' = fg_wait /\ cursor' = cursor /\ tty' = tty
    BY Zenon, <1>1 DEF Read_copy, In
  <2> DEFINE pc == IF copied < d.ret \/ d.line THEN "rd_fin_fg" ELSE "rd_loop"
             total == d.total + copied
             c == [d EXCEPT !.total = total, !.pc = pc]
  <2>3. d \in CallType /\ call \in [Tasks -> CallType]
    BY DEF WaitInv
  <2>4. pc \in {"rd_fin_fg", "rd_loop"} /\ total \in Nat
    BY <2>3 DEF CallType
  <2>5. call' = [call EXCEPT ![t] = c]
    BY Zenon, <2>1, <2>3
  <2> HIDE DEF pc, total
  <2>6. c \in CallType /\ c.pc \in {"rd_fin_fg", "rd_loop"}
    BY Zenon, <2>3, <2>4 DEF CallType, Pcs
  <2> HIDE DEF c
  <2>7. Moves(t, at[t], state[t], FALSE)
    BY Zenon, <2>2, KernelMoves
  <2>8. CallOK(at[t], c, Linked(read_wait', t), Linked(fg_wait', t))
    BY <2>2, <2>6, Own DEF CallOK
  <2>9. t = Pid1 => FgOK(state[t], FALSE, c, Linked(read_wait', t), tty'.canon_lines)
    BY <2>6 DEF FgOK
  <2> QED BY ZenonT(30), <2>2, <2>6, <2>5, <2>7, <2>8, <2>9, TaskStep
<1>2. CASE Read_finish_fg(t)
  <2>1. at[t] = "syscall" /\ Moves(t, "exit", "RUNNING", FALSE)
    BY Zenon, <1>2, FinishMoves DEF Read_finish_fg
  <2>2. /\ call[t].pc = "rd_fin_fg" /\ Goto(t, "rd_fin_read")
        /\ read_wait' = read_wait /\ fg_wait' = Unlink(fg_wait, t) /\ cursor' = cursor /\ tty' = tty
    BY Zenon, <1>2 DEF Read_finish_fg, In
  <2>3. PICK c \in CallType : call' = [call EXCEPT ![t] = c] /\ c.pc = "rd_fin_read"
    BY <2>2, GotoLemma DEF Pcs
  <2>4. ~Linked(fg_wait', t)
    BY <2>2, Own, UnlinkLemma
  <2>5. CallOK("exit", c, Linked(read_wait', t), Linked(fg_wait', t))
    BY <2>2, <2>3, <2>4, Own DEF CallOK
  <2>6. t = Pid1 => FgOK("RUNNING", FALSE, c, Linked(read_wait', t), tty'.canon_lines)
    BY <2>3 DEF FgOK
  <2> QED BY ZenonT(30), <2>1, <2>2, <2>3, <2>5, <2>6, TaskStep
<1>3. CASE Read_finish_read(t)
  <2>1. Moves(t, at[t], state[t], FALSE)
    BY Zenon, <1>3, KernelMoves DEF Read_finish_read
  <2>2. /\ call[t].pc = "rd_fin_read" /\ Goto(t, "done")
        /\ read_wait' = Unlink(read_wait, t) /\ fg_wait' = fg_wait /\ cursor' = cursor /\ tty' = tty
    BY Zenon, <1>3 DEF Read_finish_read, In
  <2>3. PICK c \in CallType : call' = [call EXCEPT ![t] = c] /\ c.pc = "done"
    BY <2>2, GotoLemma DEF Pcs
  <2>4. ~Linked(read_wait', t)
    BY <2>2, Own, UnlinkLemma
  <2>5. CallOK(at[t], c, Linked(read_wait', t), Linked(fg_wait', t))
    BY <2>2, <2>3, <2>4, Own DEF CallOK
  <2>6. t = Pid1 => FgOK(state[t], FALSE, c, Linked(read_wait', t), tty'.canon_lines)
    BY <2>3 DEF FgOK
  <2> QED BY ZenonT(30), <2>1, <2>2, <2>3, <2>5, <2>6, TaskStep
<1> QED BY <1>1, <1>2, <1>3

\* __tty_write()
LEMMA WriteStep ==
  ASSUME SchedFacts, WaitInv, FgInv, NEW t \in Tasks, Tty_write(t)
  PROVE  WaitInv' /\ FgInv'
<1>1. CASE Write_prepare(t)
  <2>1. Moves(t, "syscall", "INTERRUPTIBLE", FALSE)
    BY Zenon, <1>1, PrepareMoves DEF Write_prepare
  <2>2. /\ call[t].pc = "wr_loop" /\ Goto(t, "wr_check")
        /\ read_wait' = read_wait /\ fg_wait' = Link(fg_wait, t) /\ cursor' = cursor /\ tty' = tty
    BY Zenon, <1>1 DEF Write_prepare, In
  <2>3. PICK c \in CallType : call' = [call EXCEPT ![t] = c] /\ c.pc = "wr_check"
    BY <2>2, GotoLemma DEF Pcs
  <2>4. CallOK("syscall", c, Linked(read_wait', t), Linked(fg_wait', t))
    BY <2>2, <2>3, Own DEF CallOK
  <2>5. t = Pid1 => FgOK("INTERRUPTIBLE", FALSE, c, Linked(read_wait', t), tty'.canon_lines)
    BY <2>3 DEF FgOK
  <2> QED BY ZenonT(30), <2>1, <2>2, <2>3, <2>4, <2>5, TaskStep
<1>2. CASE Write_check(t)
  <2>1. Moves(t, at[t], state[t], FALSE)
    BY Zenon, <1>2, KernelMoves DEF Write_check
  <2> DEFINE pc == IF t = fg_pid THEN "wr_fin" ELSE "wr_sleep"
  <2>2. /\ call[t].pc = "wr_check" /\ Goto(t, pc)
        /\ read_wait' = read_wait /\ fg_wait' = fg_wait /\ cursor' = cursor /\ tty' = tty
    BY Zenon, <1>2 DEF Write_check, In
  <2>3. pc \in {"wr_fin", "wr_sleep"} /\ (t = Pid1 => pc = "wr_fin")
    BY DEF fg_pid
  <2> HIDE DEF pc
  <2>4. PICK c \in CallType : call' = [call EXCEPT ![t] = c] /\ c.pc = pc
    BY <2>2, <2>3, GotoLemma DEF Pcs
  <2>5. CallOK(at[t], c, Linked(read_wait', t), Linked(fg_wait', t))
    BY <2>2, <2>3, <2>4, Own DEF CallOK
  <2>6. t = Pid1 => FgOK(state[t], FALSE, c, Linked(read_wait', t), tty'.canon_lines)
    BY <2>3, <2>4 DEF FgOK
  <2> QED BY ZenonT(30), <2>1, <2>2, <2>4, <2>5, <2>6, TaskStep
<1>3. CASE Write_sleep(t)
  <2>1. PICK switched \in BOOLEAN : Moves(t, "syscall", "INTERRUPTIBLE", switched)
    BY Zenon, <1>3, SleepMoves DEF Write_sleep
  <2>2. /\ call[t].pc = "wr_sleep" /\ Goto(t, "wr_loop")
        /\ read_wait' = read_wait /\ fg_wait' = fg_wait /\ cursor' = cursor /\ tty' = tty
    BY Zenon, <1>3 DEF Write_sleep, In
  <2>3. t # Pid1
    BY <2>2, Own DEF FgOK
  <2>4. PICK c \in CallType : call' = [call EXCEPT ![t] = c] /\ c.pc = "wr_loop"
    BY <2>2, GotoLemma DEF Pcs
  <2>5. CallOK("syscall", c, Linked(read_wait', t), Linked(fg_wait', t))
    BY <2>2, <2>4, Own DEF CallOK
  <2> QED BY ZenonT(30), <2>1, <2>2, <2>3, <2>4, <2>5, TaskStep
<1>4. CASE Write_finish(t)
  <2>1. at[t] = "syscall" /\ Moves(t, "exit", "RUNNING", FALSE)
    BY Zenon, <1>4, FinishMoves DEF Write_finish
  <2>2. /\ call[t].pc = "wr_fin" /\ Goto(t, "done")
        /\ read_wait' = read_wait /\ fg_wait' = Unlink(fg_wait, t) /\ cursor' = cursor /\ tty' = tty
    BY Zenon, <1>4 DEF Write_finish, In
  <2>3. PICK c \in CallType : call' = [call EXCEPT ![t] = c] /\ c.pc = "done"
    BY <2>2, GotoLemma DEF Pcs
  <2>4. ~Linked(fg_wait', t)
    BY <2>2, Own, UnlinkLemma
  <2>5. CallOK("exit", c, Linked(read_wait', t), Linked(fg_wait', t))
    BY <2>2, <2>3, <2>4, Own DEF CallOK
  <2>6. t = Pid1 => FgOK("RUNNING", FALSE, c, Linked(read_wait', t), tty'.canon_lines)
    BY <2>3 DEF FgOK
  <2> QED BY ZenonT(30), <2>1, <2>2, <2>3, <2>5, <2>6, TaskStep
<1> QED BY <1>1, <1>2, <1>3, <1>4 DEF Tty_write

\* A panic changes nothing but itself.
LEMMA PanicMoves ==
  ASSUME NEW t \in Tasks, K!Running(t), K!Panic
  PROVE  Moves(t, at[t], state[t], FALSE)
<1>1. UNCHANGED <<at, state, insched>>
  BY Zenon DEF K!Panic, K!schedVars, K!ctxVars
<1> QED BY <1>1 DEF Moves, K!Running

\* Entering a system call, and returning from one
LEMMA SysStep ==
  ASSUME SchedFacts, WaitInv, FgInv, NEW t \in Tasks,
         Sys_read(t) \/ Sys_write(t) \/ Sys_error(t) \/ Sys_error_return(t) \/ Sys_return(t)
  PROVE  WaitInv' /\ FgInv'
<1>1. ASSUME K!Running(t), K!Panic, call' = call,
             read_wait' = read_wait, fg_wait' = fg_wait, cursor' = cursor, tty' = tty
      PROVE  WaitInv' /\ FgInv'
  <2>1. Moves(t, at[t], state[t], FALSE)
    BY Zenon, <1>1, PanicMoves
  <2>2. call[t] \in CallType /\ call' = [call EXCEPT ![t] = call[t]]
    BY <1>1 DEF WaitInv
  <2>3. CallOK(at[t], call[t], Linked(read_wait', t), Linked(fg_wait', t))
    BY <1>1, Own
  <2>4. t = Pid1 => FgOK(state[t], FALSE, call[t], Linked(read_wait', t), tty'.canon_lines)
    BY <1>1, Own DEF FgOK
  <2> QED BY ZenonT(30), <1>1, <2>1, <2>2, <2>3, <2>4, TaskStep
<1>2. ASSUME NEW pc \in {"rd_loop", "wr_loop", "done"}, NEW n \in Nat, Sys_enter(t, pc, n)
      PROVE  WaitInv' /\ FgInv'
  <2> DEFINE c == [NoCall EXCEPT !.pc = pc, !.count = n]
  <2>1. /\ K!Running(t) /\ at[t] = "user"
        /\ read_wait' = read_wait /\ fg_wait' = fg_wait /\ cursor' = cursor /\ tty' = tty
        /\ call' = IF panicked' THEN call ELSE [call EXCEPT ![t] = c]
        /\ \/ at' = [at EXCEPT ![t] = "syscall"] /\ UNCHANGED <<state, insched, panicked>>
           \/ K!Panic
    BY Zenon, <1>2 DEF Sys_enter, K!Syscall_entry, K!Go, K!schedVars, K!ctxVars
  <2>2. c \in CallType /\ c.pc = pc
    BY Zenon DEF NoCall, CallType, Pcs
  <2> HIDE DEF c
  <2>3. CASE at' = [at EXCEPT ![t] = "syscall"] /\ UNCHANGED <<state, insched, panicked>>
    <3>1. Moves(t, "syscall", state[t], FALSE)
      BY <2>1, <2>3 DEF Moves, SchedFacts, K!Procs, K!Running
    <3>2. call' = [call EXCEPT ![t] = c]
      BY <2>1, <2>3 DEF K!Running
    <3>3. CallOK("syscall", c, Linked(read_wait', t), Linked(fg_wait', t))
      BY <2>1, <2>2, Own DEF CallOK
    <3>4. t = Pid1 => FgOK(state[t], FALSE, c, Linked(read_wait', t), tty'.canon_lines)
      BY <2>2 DEF FgOK
    <3> QED BY ZenonT(30), <2>1, <2>2, <3>1, <3>2, <3>3, <3>4, TaskStep
  <2>4. CASE K!Panic
    BY Zenon, <1>1, <2>1, <2>4 DEF K!Panic
  <2> QED BY <2>1, <2>3, <2>4
<1>3. CASE Sys_read(t) \/ Sys_write(t) \/ Sys_error(t)
  BY <1>2, <1>3, ReadAssumption DEF Sys_read, Sys_write, Sys_error
<1>4. CASE Sys_error_return(t)
  <2>1. at[t] = "syscall" /\ Moves(t, "exit", "RUNNING", FALSE)
    BY Zenon, <1>4, FinishMoves DEF Sys_error_return
  <2>2. /\ call[t].pc = "done" /\ call' = call
        /\ read_wait' = read_wait /\ fg_wait' = fg_wait /\ cursor' = cursor /\ tty' = tty
    BY Zenon, <1>4 DEF Sys_error_return, In, ttyVars, callVars
  <2>3. call[t] \in CallType /\ call' = [call EXCEPT ![t] = call[t]]
    BY <2>2 DEF WaitInv
  <2>4. CallOK("exit", call[t], Linked(read_wait', t), Linked(fg_wait', t))
    BY <2>2, Own DEF CallOK
  <2>5. t = Pid1 => FgOK("RUNNING", FALSE, call[t], Linked(read_wait', t), tty'.canon_lines)
    BY <2>2 DEF FgOK
  <2> QED BY ZenonT(30), <2>1, <2>2, <2>3, <2>4, <2>5, TaskStep
<1>5. CASE Sys_return(t)
  <2>1. /\ K!Running(t) /\ call[t].pc = "done"
        /\ read_wait' = read_wait /\ fg_wait' = fg_wait /\ cursor' = cursor /\ tty' = tty
        /\ call' = IF panicked' THEN call ELSE [call EXCEPT ![t] = NoCall]
        /\ \/ at' = [at EXCEPT ![t] = "user"] /\ UNCHANGED <<state, insched, panicked>>
           \/ K!Panic
    BY Zenon, <1>5 DEF Sys_return, In, K!Sysret, K!Go, K!schedVars, K!ctxVars
  <2>2. NoCall \in CallType /\ NoCall.pc = "none"
    BY DEF NoCall, CallType, Pcs
  <2>3. CASE at' = [at EXCEPT ![t] = "user"] /\ UNCHANGED <<state, insched, panicked>>
    <3>1. Moves(t, "user", state[t], FALSE)
      BY <2>1, <2>3 DEF Moves, SchedFacts, K!Procs, K!Running
    <3>2. call' = [call EXCEPT ![t] = NoCall]
      BY <2>1, <2>3 DEF K!Running
    <3>3. CallOK("user", NoCall, Linked(read_wait', t), Linked(fg_wait', t))
      BY <2>1, <2>2, Own DEF CallOK
    <3>4. t = Pid1 => FgOK(state[t], FALSE, NoCall, Linked(read_wait', t), tty'.canon_lines)
      BY <2>2 DEF FgOK
    <3> QED BY ZenonT(30), <2>1, <2>2, <3>1, <3>2, <3>3, <3>4, TaskStep
  <2>4. CASE K!Panic
    BY Zenon, <1>1, <2>1, <2>4 DEF K!Panic
  <2> QED BY <2>1, <2>3, <2>4
<1> QED BY <1>3, <1>4, <1>5

-----------------------------------------------------------------------------
(* The keyboard interrupt.                                                 *)

\* While a handler runs, the foreground task is not between prepare_to_wait()
\* and schedule(): it would be the running task, and that is TASK_RUNNING.
LEMMA NotPreparing ==
  ASSUME SchedFacts, WaitInv, FgInv, cpu.vec # "none"
  PROVE  call[Pid1].pc \notin {"rd_prepared", "rd_try", "rd_sleep"}
<1>1. SUFFICES ASSUME call[Pid1].pc \in {"rd_prepared", "rd_try", "rd_sleep"} PROVE FALSE
  OBVIOUS
<1>2. state[Pid1] = "INTERRUPTIBLE" /\ ~insched[Pid1]
  BY <1>1 DEF FgInv, FgOK
<1>3. at[Pid1] \in {"syscall", "exit"}
  BY <1>1, Pid1Assumption DEF WaitInv, CallOK
<1>4. Pid1 = current_task
  BY <1>2, <1>3, Pid1Assumption DEF SchedFacts
<1> QED BY <1>2, <1>4 DEF SchedFacts, K!HandlersSeeRunning

\* tty_push_char(): a newline that finds the foreground task asleep finds its
\* entry in front of the cursor of wake_up().
LEMMA KeyStep ==
  ASSUME SchedFacts, RingFacts, WaitInv, FgInv, NEW c \in Ring!Keys, Key_pressed(c)
  PROVE  WaitInv' /\ FgInv'
<1>1. /\ cpu.vec = "ps2" /\ cpu' = K!Eoi("ps2_handler") /\ UNCHANGED <<at, state, insched>>
      /\ tty' = Ring!Push_char(tty, c) /\ cursor' = (IF c = NL THEN 1 ELSE 0)
      /\ UNCHANGED <<call, read_wait, fg_wait>>
  BY Zenon DEF Key_pressed, K!Ps2_irq, K!schedVars, K!ctxVars, callVars
<1>2. cpu'.vec = "ps2_handler"
  BY <1>1 DEF K!Eoi, SchedFacts, K!CpuType
<1>3. call[Pid1].pc \notin {"rd_prepared", "rd_try", "rd_sleep"}
  BY <1>1, NotPreparing
<1>4. cursor = 0
  BY <1>1 DEF FgInv
<1>5. tty'.canon_lines = IF c = NL THEN tty.canon_lines + 1 ELSE tty.canon_lines
  BY <1>1 DEF RingFacts
<1>6. WaitInv'
  BY <1>1 DEF WaitInv
<1>7. FgOK(state'[Pid1], insched'[Pid1], call'[Pid1], Linked(read_wait', Pid1), tty'.canon_lines)
  BY <1>1, <1>3 DEF FgInv, FgOK
<1>8. NoLostWakeup'
  <2>1. SUFFICES ASSUME state[Pid1] = "INTERRUPTIBLE", insched[Pid1]
                 PROVE  \/ tty'.canon_lines = 0
                        \/ \E i \in 1..Len(read_wait) : read_wait[i] = Pid1 /\ cursor' \in 1..i
    BY <1>1 DEF NoLostWakeup
  <2>2. tty.canon_lines = 0 /\ Linked(read_wait, Pid1)
    BY <1>4, <2>1 DEF FgInv, FgOK, NoLostWakeup
  <2>3. PICK i \in 1..Len(read_wait) : read_wait[i] = Pid1
    BY <2>2 DEF Linked
  <2>4. CASE c = NL
    BY <1>1, <2>3, <2>4
  <2>5. CASE c # NL
    BY <1>5, <2>2, <2>5
  <2> QED BY <2>4, <2>5
<1> QED BY <1>2, <1>6, <1>7, <1>8 DEF FgInv

\* wake_up() of one entry
LEMMA WakeStep ==
  ASSUME SchedFacts, WaitInv, FgInv, Wake_entry
  PROVE  WaitInv' /\ FgInv'
<1> DEFINE t == read_wait[cursor]
<1>1. /\ cursor \in 1..Len(read_wait) /\ cursor' = cursor + 1
      /\ UNCHANGED <<at, insched, cpu, tty, call, read_wait, fg_wait>>
      /\ \/ state[t] = "INTERRUPTIBLE" /\ state' = [state EXCEPT ![t] = "RUNNING"]
         \/ state[t] = "RUNNING" /\ state' = state
  BY Zenon DEF Wake_entry, K!Wake_up_task, K!ctxVars, callVars, kernelVars, schedVars, taskVars
<1>2. t \in Tasks /\ read_wait \in Seq(Tasks) /\ cursor \in Nat /\ cursor # 0
  BY <1>1 DEF WaitInv, QueuesOK
<1> HIDE DEF t
<1>3. cpu.vec = "ps2_handler"
  BY <1>2 DEF FgInv
<1>4. call[Pid1].pc \notin {"rd_prepared", "rd_try", "rd_sleep"}
  BY <1>3, NotPreparing
<1>5. state'[Pid1] = "INTERRUPTIBLE" => state[Pid1] = "INTERRUPTIBLE" /\ t # Pid1
  BY <1>1, <1>2, Pid1Assumption DEF SchedFacts, K!Procs
<1>6. WaitInv'
  BY <1>1, <1>2 DEF WaitInv
<1>7. FgOK(state'[Pid1], insched'[Pid1], call'[Pid1], Linked(read_wait', Pid1), tty'.canon_lines)
  BY <1>1, <1>4, <1>5 DEF FgInv, FgOK
<1>8. NoLostWakeup'
  <2>1. SUFFICES ASSUME state'[Pid1] = "INTERRUPTIBLE", insched[Pid1]
                 PROVE  \/ tty.canon_lines = 0
                        \/ \E i \in 1..Len(read_wait) : read_wait[i] = Pid1 /\ cursor + 1 \in 1..i
    BY <1>1 DEF NoLostWakeup
  <2>2. state[Pid1] = "INTERRUPTIBLE" /\ t # Pid1
    BY <1>5, <2>1
  <2>3. CASE \E i \in 1..Len(read_wait) : read_wait[i] = Pid1 /\ cursor \in 1..i
    <3>1. PICK i \in 1..Len(read_wait) : read_wait[i] = Pid1 /\ cursor \in 1..i
      BY <2>3
    <3>2. i # cursor
      BY <2>2, <3>1 DEF t
    <3>3. cursor + 1 \in 1..i
      BY <1>2, <3>1, <3>2
    <3> QED BY <3>1, <3>3
  <2> QED BY <2>1, <2>2, <2>3 DEF FgInv, NoLostWakeup
<1> QED BY <1>1, <1>3, <1>6, <1>7, <1>8 DEF FgInv

\* wake_up() has passed every entry, or there was no line to announce
LEMMA HandlerStep ==
  ASSUME SchedFacts, WaitInv, FgInv, Handler_returns
  PROVE  WaitInv' /\ FgInv'
<1>1. /\ cursor \notin 1..Len(read_wait) /\ cursor' = 0 /\ cpu.vec # "none"
      /\ UNCHANGED <<at, state, insched, tty, call, read_wait, fg_wait>>
  BY Zenon DEF Handler_returns, K!Handler_returns, K!schedVars, K!ctxVars, callVars
<1>2. WaitInv'
  BY <1>1 DEF WaitInv
<1>3. read_wait \in Seq(Tasks) /\ cursor \in Nat
  BY DEF WaitInv, QueuesOK
<1>4. NoLostWakeup'
  BY <1>1, <1>3 DEF FgInv, NoLostWakeup
<1> QED BY <1>1, <1>2, <1>4 DEF FgInv

\* Every step keeps the invariants of the terminal.
LEMMA TtyStep ==
  ASSUME SchedFacts, RingFacts, WaitInv, FgInv, [Next]_vars
  PROVE  WaitInv' /\ FgInv'
<1>1. ASSUME NEW t \in Tasks, Tty_read(t) PROVE WaitInv' /\ FgInv'
  BY <1>1, ReadEntersStep, ReadTryStep, ReadSleepStep, ReadLeavesStep DEF Tty_read
<1>2. CASE Keyboard
  <2>1. CASE Key_ignored
    BY <2>1, ElsewhereQuiet, QuietStep DEF Key_ignored
  <2> QED BY <1>2, <2>1, KeyStep, WakeStep, HandlerStep DEF Keyboard
<1>3. CASE Elsewhere
  BY <1>3, ElsewhereQuiet, QuietStep DEF Elsewhere
<1>4. CASE Kernel_step
  BY <1>1, <1>2, <1>3, <1>4, WriteStep, SysStep DEF Kernel_step
<1>5. CASE Environment
  <2>1. CASE \E v \in K!Vectors : K!Irq_entry(v) /\ UNCHANGED ttyVars
    BY <2>1, ElsewhereQuiet, QuietStep
  <2>2. CASE K!Halted /\ UNCHANGED ttyVars
    BY <2>2, ElsewhereQuiet, QuietStep
  <2> QED BY <1>5, <2>1, <2>2, SysStep DEF Environment
<1>6. CASE UNCHANGED vars
  <2>1. UNCHANGED <<at, state, insched, cpu, tty, call, read_wait, fg_wait, cursor>>
    BY Zenon, <1>6 DEF vars, kernelVars, schedVars, taskVars, ttyVars, callVars
  <2> QED BY <2>1 DEF WaitInv, FgInv, NoLostWakeup
<1> QED BY <1>4, <1>5, <1>6 DEF Next

-----------------------------------------------------------------------------
\* The system calls and the interrupt use the ring as module TtyRing allows:
\* a read of tty_read() asks for at least one character.
LEMMA RingUse ==
  ASSUME RingFacts, WaitInv, [Next]_vars
  PROVE  [Ring!Next]_(Ring!vars)
<1>1. ASSUME tty' = tty, bounce' = bounce PROVE [Ring!Next]_(Ring!vars)
  BY <1>1 DEF Ring!vars
<1>2. ASSUME NEW c \in Ring!Keys, Key_pressed(c) PROVE [Ring!Next]_(Ring!vars)
  <2>1. Ring!Push(c)
    BY Zenon, <1>2 DEF Key_pressed, Ring!Push
  <2> QED BY Zenon, <2>1 DEF Ring!Next
<1>3. ASSUME NEW t \in Tasks, Read_try(t) PROVE [Ring!Next]_(Ring!vars)
  <2>1. CASE t # Pid1
    <3>1. tty' = tty /\ bounce' = bounce
      BY Zenon, <1>3, <2>1 DEF Read_try, fg_pid
    <3> QED BY <1>1, <3>1
  <2>2. CASE t = Pid1
    <3> DEFINE d == call[t]
               req == IF d.count - d.total < TTY_BOUNCE_BUF_SIZE
                      THEN d.count - d.total ELSE TTY_BOUNCE_BUF_SIZE
               k == Ring!Read_len(tty, req)
    <3>1. /\ d.pc = "rd_try" /\ tty' = Ring!After_read(tty, k)
          /\ bounce' = IF k > 0 THEN [i \in 1..k |-> Ring!Nth(tty, i - 1)] ELSE bounce
      BY Zenon, <1>3, <2>2 DEF Read_try, In, fg_pid
    <3>2. d \in CallType /\ d.total < d.count
      BY <3>1 DEF WaitInv, CallOK
    <3>3. req \in 1..TTY_BOUNCE_BUF_SIZE
      BY <3>2, ReadAssumption DEF CallType
    <3> HIDE DEF req
    <3>4. k \in Nat /\ (k = 0 => Ring!After_read(tty, k) = tty)
      BY <3>3 DEF RingFacts
    <3>5. CASE k = 0
      BY <1>1, <3>1, <3>4, <3>5
    <3>6. CASE k > 0
      <4>1. Ring!Read(req)
        BY Zenon, <3>1, <3>6 DEF Ring!Read
      <4> QED BY Zenon, <3>3, <4>1 DEF Ring!Next
    <3> QED BY <3>4, <3>5, <3>6
  <2> QED BY <2>1, <2>2
<1>4. ASSUME NEW t \in Tasks, Tty_read(t) PROVE [Ring!Next]_(Ring!vars)
  BY Zenon, <1>1, <1>3, <1>4
     DEF Tty_read, Read_prepare_fg, Read_loop_ends, Read_prepare_read, Read_sleep, Read_copy,
         Read_finish_fg, Read_finish_read
<1>5. ASSUME NEW t \in Tasks, Tty_write(t) PROVE [Ring!Next]_(Ring!vars)
  BY Zenon, <1>1, <1>5 DEF Tty_write, Write_prepare, Write_check, Write_sleep, Write_finish
<1>6. ASSUME NEW t \in Tasks,
             Sys_read(t) \/ Sys_write(t) \/ Sys_error(t) \/ Sys_error_return(t) \/ Sys_return(t)
      PROVE  [Ring!Next]_(Ring!vars)
  BY Zenon, <1>1, <1>6 DEF Sys_read, Sys_write, Sys_error, Sys_enter, Sys_error_return, Sys_return, ttyVars
<1>7. ASSUME UNCHANGED ttyVars PROVE [Ring!Next]_(Ring!vars)
  BY Zenon, <1>1, <1>7 DEF ttyVars
<1>8. CASE Keyboard
  BY Zenon, <1>1, <1>2, <1>7, <1>8 DEF Keyboard, Key_ignored, Wake_entry, Handler_returns
<1>9. CASE UNCHANGED vars
  BY Zenon, <1>7, <1>9 DEF vars
<1> QED BY Zenon, <1>4, <1>5, <1>6, <1>7, <1>8, <1>9 DEF Next, Kernel_step, Environment, Elsewhere

\* tty_init() and kmain() establish the terminal's invariants.
LEMMA TtyInit == ASSUME Init PROVE WaitInv /\ FgInv
<1>1. /\ read_wait = <<>> /\ fg_wait = <<>> /\ call = [t \in Tasks |-> NoCall] /\ cursor = 0
      /\ insched = [p \in K!Procs |-> FALSE]
  BY Zenon DEF Init, K!Init
<1>2. /\ \A t \in Tasks : call[t] = NoCall
      /\ \A t : ~Linked(read_wait, t) /\ ~Linked(fg_wait, t)
      /\ ~insched[Pid1]
  BY <1>1, Pid1Assumption DEF Linked, K!Procs
<1>3. NoCall \in CallType /\ NoCall.pc = "none"
  BY Zenon DEF NoCall, CallType, Pcs
<1>4. QueuesOK(read_wait, fg_wait)
  BY <1>1 DEF QueuesOK, Once
<1>5. call \in [Tasks -> CallType]
  BY <1>1, <1>3
<1>6. \A t \in Tasks : CallOK(at[t], call[t], Linked(read_wait, t), Linked(fg_wait, t))
  BY Zenon, <1>2, <1>3 DEF CallOK
<1>7. FgOK(state[Pid1], insched[Pid1], call[Pid1], Linked(read_wait, Pid1), tty.canon_lines)
  BY <1>2, <1>3, Pid1Assumption DEF FgOK
<1> QED BY Zenon, <1>1, <1>2, <1>4, <1>5, <1>6, <1>7 DEF WaitInv, FgInv, NoLostWakeup

\* What the invariants say of the wait queues.
LEMMA WaitInvSays == WaitInv => WaitersAreWaiting
BY Zenon DEF WaitInv, QueuesOK, CallOK, Once, WaitersAreWaiting

\* A read that takes nothing leaves the ring alone.
LEMMA ReadNothing ==
  ASSUME NEW Slots \in SUBSET Nat, NEW Chars,
         tty \in [buffer : [Slots -> Chars], head : Slots, tail : Slots, canon_lines : Nat],
         tty.head < TTY_BUF_SIZE
  PROVE  Ring!After_read(tty, 0) = tty
<1>1. tty.head \in Nat
  BY Zenon
<1>2. (tty.head + 0) % TTY_BUF_SIZE = tty.head
  BY <1>1, BufAssumption
<1>3. ~(0 > 0)
  OBVIOUS
<1>4. Ring!After_read(tty, 0) = [tty EXCEPT !.head = tty.head, !.canon_lines = tty.canon_lines]
  BY Zenon, <1>2, <1>3 DEF Ring!After_read
<1> QED BY Zenon, <1>4

-----------------------------------------------------------------------------
(* The proofs about the scheduler and the ring apply to the parts.         *)

SP == INSTANCE SchedProofs
RP == INSTANCE TtyRingProofs WITH got <- bounce, MaxCount <- TTY_BOUNCE_BUF_SIZE

\* The scheduler begins as module Sched says.
LEMMA SchedInit == K!Init => SP!Init
BY ZenonT(30) DEF K!Init, SP!Init, K!PolicyInit, SP!PolicyInit, K!Procs, SP!Procs

\* Its steps, with a task for each reader, are steps of module Sched.
LEMMA SchedNext == [K!Next]_(K!vars) => [SP!Next]_(SP!vars)
BY ZenonT(30) DEF K!vars, SP!vars, K!schedVars, SP!schedVars, K!ctxVars, SP!ctxVars,
  K!Next, SP!Next, K!Kernel_step, SP!Kernel_step, K!Kmain, SP!Kmain,
  K!Kthread_run, SP!Kthread_run, K!Kthread_run_fails, SP!Kthread_run_fails,
  K!Local_irq_enable, SP!Local_irq_enable, K!Kmain_schedule, SP!Kmain_schedule,
  K!Init_task, SP!Init_task, K!Mm_create, SP!Mm_create, K!Activate_mm, SP!Activate_mm,
  K!Init_task_fails, SP!Init_task_fails, K!Ret_from_fork, SP!Ret_from_fork, K!Iretq, SP!Iretq,
  K!In_syscall, SP!In_syscall, K!Prepare, SP!Prepare, K!Sleep, SP!Sleep, K!Finish, SP!Finish,
  K!Sysret, SP!Sysret, K!Handlers, SP!Handlers, K!Timer_irq_handler, SP!Timer_irq_handler,
  K!Ps2_irq, SP!Ps2_irq, K!Wake_up_task, SP!Wake_up_task, K!Handler_returns, SP!Handler_returns,
  K!Sched_return, SP!Sched_return, K!Irq_return, SP!Irq_return, K!Syscall_entry, SP!Syscall_entry,
  K!Irq_entry, SP!Irq_entry, K!Halted, SP!Halted, K!Vectors, SP!Vectors, K!Procs, SP!Procs,
  K!Running, SP!Running, K!Go, SP!Go, K!Panic, SP!Panic, K!New_task, SP!New_task,
  K!Set_state, SP!Set_state, K!Do_schedule, SP!Do_schedule, K!Dispatch, SP!Dispatch,
  K!Pick_queue, SP!Pick_queue, K!Next_queue, SP!Next_queue, K!Next_task, SP!Next_task,
  K!Dequeue, SP!Dequeue, K!Enqueue, SP!Enqueue, K!Rotate, SP!Rotate,
  K!Arch_switch_to, SP!Arch_switch_to, K!Eoi, SP!Eoi, K!Crossed, SP!Crossed, K!Swapped, SP!Swapped

\* What the scheduler's invariant says to a system call.
LEMMA SchedSays == SP!SInv => SchedFacts
<1> SUFFICES ASSUME SP!SInv PROVE SchedFacts
  OBVIOUS
<1>1. /\ at \in [K!Procs -> K!Places] /\ state \in [K!Procs -> K!States]
      /\ insched \in [K!Procs -> BOOLEAN] /\ cpu \in K!CpuType /\ current_task \in K!Procs
      /\ K!HandlersSeeRunning
  BY Zenon DEF SP!SInv, SP!TypeOK, SP!QueueTypeOK, SP!HandlersSeeRunning, K!HandlersSeeRunning,
     SP!Procs, K!Procs, SP!Places, K!Places, SP!States, K!States, SP!CpuType, K!CpuType, SP!Vectors, K!Vectors
<1>2. /\ \A p \in K!Procs : p # current_task /\ ~insched[p] /\ at[p] # "none" => at[p] = "fork"
      /\ \A t \in Tasks : at[t] = "none" <=> state[t] = "NONE"
  BY Zenon DEF SP!SInv, SP!Contexts, SP!NewTasks, SP!PlacesAndStates, SP!Procs, K!Procs
<1> QED BY SMTT(30), <1>1, <1>2 DEF SchedFacts, K!Procs

\* So every step keeps the invariant of the scheduler.
LEMMA SchedInvStep == SP!SInv /\ [K!Next]_(K!vars) => SP!SInv'
BY ZenonT(30), SP!NextSInv, SchedNext, TaskAssumption

\* Which holds at the start.
LEMMA SchedInvInit == K!Init => SP!SInv
BY ZenonT(30), SP!InitSInv, SchedInit, TaskAssumption

\* The ring begins with its type.
LEMMA RingInit == Ring!Init => RP!TypeOK
<1>1. Ring!Init => RP!Init
  BY ZenonT(30) DEF Ring!Init, RP!Init, Ring!Empty_tty, RP!Empty_tty, Ring!Slots, RP!Slots
<1> QED BY ZenonT(30), <1>1, RP!RingInit, BufAssumption, ReadAssumption, KeyAssumption

\* And every step of tty_push_char() and tty_read() keeps it.
LEMMA RingInvStep == RP!TypeOK /\ [Ring!Next]_(Ring!vars) => RP!TypeOK'
<1>1. [Ring!Next]_(Ring!vars) => [RP!Next]_(RP!vars)
  BY ZenonT(30) DEF Ring!Next, RP!Next, Ring!vars, RP!vars, Ring!Keys, RP!Keys, Ring!Push, RP!Push,
     Ring!Read, RP!Read, Ring!Push_char, RP!Push_char, Ring!Push_input, RP!Push_input,
     Ring!Handle_backspace, RP!Handle_backspace, Ring!Read_len, RP!Read_len, Ring!Has_line, RP!Has_line,
     Ring!Available, RP!Available, Ring!Nth, RP!Nth, Ring!After_read, RP!After_read
<1> QED BY ZenonT(30), <1>1, RP!RingStep, BufAssumption, ReadAssumption, KeyAssumption

\* What the ring's type says to a system call.
LEMMA RingSays == RP!TypeOK => RingFacts
<1> SUFFICES ASSUME RP!TypeOK PROVE RingFacts
  OBVIOUS
<1>1. tty \in RP!Ring
  BY ZenonT(30) DEF RP!TypeOK, RP!Ring
<1>2. ASSUME NEW n \in 1..TTY_BOUNCE_BUF_SIZE
      PROVE  Ring!Has_line(tty) => Ring!Read_len(tty, n) \in 1..RP!Tocopy(tty, n)
  <2>1. RP!Has_line(tty) => RP!Read_len(tty, n) \in 1..RP!Tocopy(tty, n)
    BY ZenonT(30), <1>1, RP!ReadLenLemma, BufAssumption, ReadAssumption, KeyAssumption
  <2> QED BY ZenonT(30), <2>1 DEF Ring!Has_line, RP!Has_line, Ring!Read_len, RP!Read_len,
             Ring!Available, RP!Available, Ring!Nth, RP!Nth
<1>3. ASSUME NEW c \in Ring!Keys
      PROVE  Ring!Push_char(tty, c).canon_lines = IF c = NL THEN tty.canon_lines + 1 ELSE tty.canon_lines
  <2>1. c \in RP!Keys
    BY ZenonT(30) DEF Ring!Keys, RP!Keys
  <2>2. RP!Push_char(tty, c).canon_lines = IF c = NL THEN tty.canon_lines + 1 ELSE tty.canon_lines
    BY ZenonT(30), <1>1, <2>1, RP!PushCount, BufAssumption, ReadAssumption, KeyAssumption
  <2> QED BY ZenonT(30), <2>2 DEF Ring!Push_char, RP!Push_char, Ring!Push_input, RP!Push_input,
             Ring!Handle_backspace, RP!Handle_backspace
<1>4. /\ tty \in [buffer : [0..(TTY_BUF_SIZE - 1) -> RP!Chars], head : 0..(TTY_BUF_SIZE - 1),
                  tail : 0..(TTY_BUF_SIZE - 1), canon_lines : Nat]
  BY ZenonT(30), <1>1 DEF RP!Ring, RP!Slots
<1>5. tty.canon_lines \in Nat /\ tty.head \in Nat /\ tty.head < TTY_BUF_SIZE
  BY SMTT(30), <1>4, BufAssumption
<1>6. tty.canon_lines = 0 => ~Ring!Has_line(tty) /\ \A n : Ring!Read_len(tty, n) = 0
  BY SMTT(30) DEF Ring!Has_line, Ring!Read_len
<1>7. tty.canon_lines # 0 => Ring!Has_line(tty)
  BY SMTT(30), <1>5 DEF Ring!Has_line
<1>8. 0..(TTY_BUF_SIZE - 1) \in SUBSET Nat
  BY SMTT(30), BufAssumption
<1>9. Ring!After_read(tty, 0) = tty
  BY ZenonT(30), <1>4, <1>5, <1>8, ReadNothing
<1>10. ASSUME NEW n \in 1..TTY_BOUNCE_BUF_SIZE
      PROVE  /\ Ring!Read_len(tty, n) \in Nat
             /\ Ring!Read_len(tty, n) = 0 <=> tty.canon_lines = 0
             /\ Ring!Read_len(tty, n) = 0 => Ring!After_read(tty, Ring!Read_len(tty, n)) = tty
  <2> DEFINE k == Ring!Read_len(tty, n)
  <2>1. CASE tty.canon_lines = 0
    BY SMTT(30), <1>6, <1>9, <2>1
  <2>2. CASE tty.canon_lines # 0
    BY SMTT(30), <1>2, <1>7, <2>2
  <2> QED BY <2>1, <2>2
<1> QED BY SMTT(30), <1>3, <1>5, <1>10 DEF RingFacts

-----------------------------------------------------------------------------
(* The theorems.                                                           *)

\* The inductive invariant: the scheduler's, the ring's, and what the system
\* calls and the interrupt keep between the two.
TInv == SP!SInv /\ RP!TypeOK /\ WaitInv /\ FgInv

\* The invariant holds at the start.
LEMMA InitTInv == Init => TInv
<1> SUFFICES ASSUME Init PROVE TInv
  OBVIOUS
<1>1. /\ K!Init /\ Ring!Init /\ read_wait = <<>> /\ fg_wait = <<>>
      /\ call = [t \in Tasks |-> NoCall] /\ cursor = 0
  BY ZenonT(30) DEF Init
<1>2. SP!SInv /\ RP!TypeOK
  BY ZenonT(30), <1>1, SchedInvInit, RingInit
<1>3. WaitInv /\ FgInv
  BY ZenonT(30), TtyInit
<1> QED BY ZenonT(30), <1>2, <1>3 DEF TInv

\* Every step keeps it, and is a step of the scheduler and of the ring.
LEMMA NextTInv ==
  ASSUME TInv, [Next]_vars
  PROVE  TInv' /\ [K!Next]_(K!vars) /\ [Ring!Next]_(Ring!vars)
<1>1. SP!SInv /\ RP!TypeOK /\ WaitInv /\ FgInv
  BY ZenonT(30) DEF TInv
<1>2. SchedFacts /\ RingFacts
  BY ZenonT(30), <1>1, SchedSays, RingSays
<1>3. read_wait \in Seq(Tasks)
  BY ZenonT(30), <1>1 DEF WaitInv, QueuesOK
<1>4. [K!Next]_(K!vars)
  BY ZenonT(30), <1>3, SchedStep
<1>5. [Ring!Next]_(Ring!vars)
  BY ZenonT(30), <1>1, <1>2, RingUse
<1>6. WaitInv' /\ FgInv'
  BY ZenonT(30), <1>1, <1>2, TtyStep
<1>7. SP!SInv' /\ RP!TypeOK'
  BY ZenonT(30), <1>1, <1>4, <1>5, SchedInvStep, RingInvStep
<1> QED BY ZenonT(30), <1>4, <1>5, <1>6, <1>7 DEF TInv

\* For any number of tasks and any sizes, the terminal on the scheduler keeps
\* the invariants of its parts.
THEOREM TtyInductive == Spec => []TInv
BY InitTInv, NextTInv, PTL DEF Spec

\* tty_read() and __tty_write() use prepare_to_wait(), schedule() and
\* finish_wait() only as module Sched lets a system call do, so that every
\* theorem about the scheduler holds under the terminal.
THEOREM TtyImplementsSched == Spec => ImplementsSched
<1>1. Init => K!Init
  BY ZenonT(30) DEF Init
<1> QED BY <1>1, TtyInductive, NextTInv, PTL DEF Spec, ImplementsSched, K!Spec

\* The ring is used by its two callers as module TtyRing lets them.
THEOREM TtyImplementsRing == Spec => ImplementsRing
<1>1. Init => Ring!Init
  BY ZenonT(30) DEF Init
<1> QED BY <1>1, TtyInductive, NextTInv, PTL DEF Spec, ImplementsRing, Ring!Spec

\* A wait queue holds exactly the tasks inside the part of a call that waits
\* there, each once: with user buffers that take at least a byte, no entry
\* outlives the stack frame it is in.
THEOREM WaitersCorrect == Spec => []WaitersAreWaiting
<1>1. TInv => WaitersAreWaiting
  BY ZenonT(30), WaitInvSays DEF TInv
<1> QED BY <1>1, TtyInductive, PTL

\* No line is announced to nobody: the foreground task sleeps in tty_read()
\* only while no line is there or wake_up() has its entry still in front.
THEOREM NoLostWakeupCorrect == Spec => []NoLostWakeup
<1>1. TInv => NoLostWakeup
  BY ZenonT(30) DEF TInv, FgInv
<1> QED BY <1>1, TtyInductive, PTL
=============================================================================
