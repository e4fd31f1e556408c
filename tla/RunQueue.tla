------------------------------ MODULE RunQueue ------------------------------
(***************************************************************************)
(* The scheduling policy of kernel/sched.c: which task runs next, seen     *)
(* without interrupts flags, stacks or page tables.  Every operation of    *)
(* sched.c runs between local_irq_save() and local_irq_restore() on the    *)
(* only CPU, so each of them is one step here.                             *)
(*                                                                         *)
(* The intrusive list run_queue is the sequence of its nodes.  A running   *)
(* task stays linked, at the head: __sched_next() moves the head to the    *)
(* tail and hands out the new head.  The idle task is never linked.        *)
(*                                                                         *)
(* Module Sched gives the same operations on the hardware they run on and  *)
(* is shown to implement this specification.                               *)
(***************************************************************************)
EXTENDS Naturals, Sequences

CONSTANTS
  Tasks,    \* the tasks kthread_run() may create
  Idle      \* idle_task, what kmain() turns into

ASSUME IdleAssumption == Idle \notin Tasks

Procs == Tasks \cup {Idle}

VARIABLES
  run_queue,      \* the list run_queue, head first
  current_task,   \* static struct task_struct* current_task
  state           \* task_struct::state; "NONE" before the task is allocated

schedVars == <<run_queue, current_task, state>>

States == {"NONE", "RUNNING", "INTERRUPTIBLE"}

-----------------------------------------------------------------------------
Queued(t) == \E i \in 1..Len(run_queue) : run_queue[i] = t

\* __sched_enqueue: list_add_tail(&t->run_node, &run_queue)
Enqueue(q, t) == Append(q, t)

\* __sched_dequeue: list_del(&t->run_node), t being linked
Dequeue(q, t) ==
  LET k == CHOOSE i \in 1..Len(q) : q[i] = t
  IN  [i \in 1..(Len(q) - 1) |-> IF i < k THEN q[i] ELSE q[i + 1]]

\* __sched_next: the head goes to the tail, the new head is the answer
Rotate(q) == Append(Tail(q), Head(q))
Next_queue(q) == IF q = <<>> THEN q ELSE Rotate(q)
Next_task(q) == IF q = <<>> THEN Idle ELSE Head(Rotate(q))

\* __schedule(preempt): what the run queue is when __sched_next() is called
Pick_queue(preempt) ==
  IF ~preempt /\ state[current_task] # "RUNNING"
  THEN Dequeue(run_queue, current_task)
  ELSE run_queue

\* __schedule(preempt): the choice of the next task
Dispatch(preempt) ==
  /\ run_queue' = Next_queue(Pick_queue(preempt))
  /\ current_task' = Next_task(Pick_queue(preempt))

-----------------------------------------------------------------------------
PolicyInit ==
  /\ run_queue = <<>>
  /\ current_task = Idle
  /\ state = [p \in Procs |-> IF p = Idle THEN "RUNNING" ELSE "NONE"]

\* kthread_run(): task_alloc() leaves state zero, which is TASK_RUNNING
New_task(t) ==
  /\ state[t] = "NONE"
  /\ state' = [state EXCEPT ![t] = "RUNNING"]
  /\ run_queue' = Enqueue(run_queue, t)
  /\ UNCHANGED current_task

\* task_set_state(current, s), from prepare_to_wait() and finish_wait()
Set_state(s) ==
  /\ current_task # Idle
  /\ state' = [state EXCEPT ![current_task] = s]
  /\ UNCHANGED <<run_queue, current_task>>

\* schedule(): kmain() calls it once; tasks call it after prepare_to_wait()
Schedule ==
  /\ current_task = Idle \/ state[current_task] = "INTERRUPTIBLE"
  /\ Dispatch(FALSE)
  /\ UNCHANGED state

\* Interrupts reach the CPU only while the running task is TASK_RUNNING:
\* from prepare_to_wait() to schedule() the interrupt flag is clear.
Interruptible == state[current_task] = "RUNNING"

\* timer_irq_handler(): __schedule(true)
Tick ==
  /\ Interruptible
  /\ Dispatch(TRUE)
  /\ UNCHANGED state

\* wake_up_task(t), from the keyboard interrupt
Wake_up(t) ==
  /\ Interruptible
  /\ state[t] = "INTERRUPTIBLE"
  /\ state' = [state EXCEPT ![t] = "RUNNING"]
  /\ run_queue' = Enqueue(run_queue, t)
  /\ UNCHANGED current_task

PolicyNext ==
  \/ \E t \in Tasks : New_task(t)
  \/ \E s \in {"RUNNING", "INTERRUPTIBLE"} : Set_state(s)
  \/ Schedule
  \/ Tick
  \/ \E t \in Tasks : Wake_up(t)

PolicySpec == PolicyInit /\ [][PolicyNext]_schedVars

\* The local APIC timer is periodic and a tick that finds interrupts off
\* stays pending, so ticks are strongly fair; a task that prepared to wait
\* runs on with interrupts off until it calls schedule() or gives up.
PolicyFairness ==
  /\ SF_schedVars(Tick)
  /\ WF_schedVars(Schedule \/ Set_state("RUNNING"))

FairPolicySpec == PolicySpec /\ PolicyFairness

-----------------------------------------------------------------------------
\* Types of the scheduler's state: run_queue links tasks, never the idle
\* task, and every task is in one of the states of task.h.
QueueTypeOK ==
  /\ run_queue \in Seq(Tasks)
  /\ current_task \in Procs
  /\ state \in [Procs -> States]

\* No run_node is ever linked twice.
NoDuplicates ==
  \A i, j \in 1..Len(run_queue) : run_queue[i] = run_queue[j] => i = j

\* The run queue holds exactly the tasks that can run, and the task that is
\* on its way from prepare_to_wait() to schedule().
QueueIsRunnable ==
  \A t \in Tasks :
    Queued(t) <=> \/ state[t] = "RUNNING"
                  \/ state[t] = "INTERRUPTIBLE" /\ t = current_task

\* A running task is at the head of the list, where the next __sched_next()
\* expects it.
CurrentIsHead ==
  current_task # Idle => run_queue # <<>> /\ Head(run_queue) = current_task

\* sched.c keeps its list sound: every runnable task is linked exactly once,
\* no sleeping task is linked, and the running task is the head.
RunQueueInv == NoDuplicates /\ QueueIsRunnable /\ CurrentIsHead

\* docs/init.md:34, "a Round-Robin scheduler": every runnable task gets the
\* processor, however the others sleep and wake.
RunnableRuns ==
  \A t \in Tasks : (state[t] = "RUNNING") ~> (current_task = t)
=============================================================================
