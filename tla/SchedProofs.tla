---------------------------- MODULE SchedProofs -----------------------------
(***************************************************************************)
(* The scheduler is correct for any number of tasks.  First the policy:    *)
(* the run queue of kernel/sched.c is sound.  RunQueueInv is not inductive *)
(* alone: schedule() dequeues the caller when its state is not             *)
(* TASK_RUNNING, and the idle task is not linked.  That the idle task      *)
(* never leaves TASK_RUNNING is the missing conjunct.                      *)
(*                                                                         *)
(* Then the scheduler on the CPU: it implements the policy of module       *)
(* RunQueue, so that its list is sound, and the interrupt flag, the        *)
(* per-CPU data and the local APIC are what the code relies on wherever it *)
(* can be interrupted.  The inductive invariant says of every task what    *)
(* its saved context is worth.  A task is current, or was switched out in  *)
(* __schedule() with a clear flag in its switch_frame and the right one in *)
(* its variable flags, or is new and will begin with interrupts on.  A     *)
(* task with an interrupt frame on its stack is TASK_RUNNING, and so is    *)
(* every task outside a system call.                                       *)
(***************************************************************************)
EXTENDS Sched, TLAPS

-----------------------------------------------------------------------------
(* The run queue.                                                          *)

Distinct(q) == \A i, j \in 1..Len(q) : q[i] = q[j] => i = j
Occurs(q, t) == \E i \in 1..Len(q) : q[i] = t

Runnable(t) ==
  state[t] = "RUNNING" \/ (state[t] = "INTERRUPTIBLE" /\ t = current_task)

IdleRuns == state[Idle] = "RUNNING"

IInv == QueueTypeOK /\ RunQueueInv /\ IdleRuns

-----------------------------------------------------------------------------
\* list_add_tail() of a node that is not linked keeps the nodes distinct.
LEMMA EnqueueLemma ==
  ASSUME NEW q \in Seq(Tasks), NEW t \in Tasks, Distinct(q), ~Occurs(q, t)
  PROVE  /\ Enqueue(q, t) \in Seq(Tasks)
         /\ Enqueue(q, t) # <<>>
         /\ Distinct(Enqueue(q, t))
         /\ \A u : Occurs(Enqueue(q, t), u) <=> Occurs(q, u) \/ u = t
         /\ q # <<>> => Head(Enqueue(q, t)) = Head(q)
<1> DEFINE e == Append(q, t)
<1>1. /\ e \in Seq(Tasks)
      /\ Len(e) = Len(q) + 1
      /\ Len(q) \in Nat
      /\ \A i \in 1..Len(q) : e[i] = q[i]
      /\ e[Len(q) + 1] = t
  OBVIOUS
<1>2. e # <<>> /\ (q # <<>> => Head(e) = Head(q))
  <2>1. q # <<>> => Len(q) >= 1 /\ Head(q) = q[1]
    OBVIOUS
  <2>2. e # <<>> /\ Head(e) = e[1]
    BY <1>1
  <2> QED BY <1>1, <2>1, <2>2
<1>3. Distinct(e)
  BY <1>1 DEF Distinct, Occurs
<1>4. ASSUME NEW u PROVE Occurs(e, u) <=> Occurs(q, u) \/ u = t
  <2>1. CASE Occurs(e, u)
    BY <1>1, <2>1 DEF Occurs
  <2>2. CASE Occurs(q, u)
    BY <1>1, <2>2 DEF Occurs
  <2>3. CASE u = t
    BY <1>1, <2>3 DEF Occurs
  <2> QED BY <2>1, <2>2, <2>3
<1> QED BY <1>1, <1>2, <1>3, <1>4 DEF Enqueue

\* list_del() of the head, which is what schedule() does to its caller.
LEMMA DequeueLemma ==
  ASSUME NEW q \in Seq(Tasks), q # <<>>, Distinct(q)
  PROVE  /\ Dequeue(q, Head(q)) \in Seq(Tasks)
         /\ Distinct(Dequeue(q, Head(q)))
         /\ \A u : Occurs(Dequeue(q, Head(q)), u)
                     <=> Occurs(q, u) /\ u # Head(q)
<1> DEFINE t == Head(q)
           d == [i \in 1..(Len(q) - 1) |-> q[i + 1]]
<1>1. Len(q) \in Nat \ {0} /\ q[1] = t /\ t \in Tasks
  OBVIOUS
<1>2. Dequeue(q, t) = d
  <2> DEFINE k == CHOOSE i \in 1..Len(q) : q[i] = t
  <2>1. k \in 1..Len(q) /\ q[k] = t
    BY <1>1
  <2>2. k = 1
    BY <1>1, <2>1 DEF Distinct
  <2> HIDE DEF k
  <2>3. \A i \in 1..(Len(q) - 1) : (IF i < k THEN q[i] ELSE q[i + 1]) = q[i + 1]
    BY <1>1, <2>2
  <2>4. [i \in 1..(Len(q) - 1) |-> IF i < k THEN q[i] ELSE q[i + 1]] = d
    BY <2>3
  <2> QED BY <2>4 DEF Dequeue, k
<1>3. d \in Seq(Tasks) /\ Len(d) = Len(q) - 1
  <2>1. Len(q) - 1 \in Nat /\ \A i \in 1..(Len(q) - 1) : q[i + 1] \in Tasks
    BY <1>1
  <2> QED BY <2>1
<1>4. \A i \in 1..Len(d) : d[i] = q[i + 1]
  BY <1>3
<1> HIDE DEF d
<1>5. Distinct(d)
  BY <1>1, <1>3, <1>4 DEF Distinct
<1>6. ASSUME NEW u PROVE Occurs(d, u) <=> Occurs(q, u) /\ u # t
  <2>1. ASSUME Occurs(d, u) PROVE Occurs(q, u) /\ u # t
    BY <1>1, <1>3, <1>4, <2>1 DEF Occurs, Distinct
  <2>2. ASSUME Occurs(q, u), u # t PROVE Occurs(d, u)
    <3>1. PICK i \in 1..Len(q) : q[i] = u
      BY <2>2 DEF Occurs
    <3>2. i - 1 \in 1..Len(d) /\ d[i - 1] = u
      BY <1>1, <1>3, <1>4, <2>2, <3>1
    <3> QED BY <3>2 DEF Occurs
  <2> QED BY <2>1, <2>2
<1> QED BY <1>2, <1>3, <1>5, <1>6

\* __sched_next() permutes the queue and answers with its new head.
LEMMA NextLemma ==
  ASSUME NEW q \in Seq(Tasks), Distinct(q)
  PROVE  /\ Next_queue(q) \in Seq(Tasks)
         /\ Distinct(Next_queue(q))
         /\ \A u : Occurs(Next_queue(q), u) <=> Occurs(q, u)
         /\ Next_task(q) \in Procs
         /\ Next_task(q) # Idle =>
              Next_queue(q) # <<>> /\ Head(Next_queue(q)) = Next_task(q)
<1>1. CASE q = <<>>
  BY <1>1 DEF Next_queue, Next_task, Procs
<1>2. CASE q # <<>>
  <2> DEFINE r == Append(Tail(q), Head(q))
  <2>1. /\ Len(q) \in Nat \ {0}
        /\ Head(q) \in Tasks
        /\ Head(q) = q[1]
        /\ Tail(q) \in Seq(Tasks)
        /\ Len(Tail(q)) = Len(q) - 1
        /\ \A i \in 1..(Len(q) - 1) : Tail(q)[i] = q[i + 1]
    BY <1>2
  <2>2. /\ r \in Seq(Tasks)
        /\ Len(r) = Len(q)
        /\ \A i \in 1..(Len(q) - 1) : r[i] = q[i + 1]
        /\ r[Len(q)] = q[1]
    BY <2>1
  <2> HIDE DEF r
  <2>3. Distinct(r)
    BY <2>1, <2>2 DEF Distinct
  <2>4. ASSUME NEW u PROVE Occurs(r, u) <=> Occurs(q, u)
    <3>1. ASSUME Occurs(r, u) PROVE Occurs(q, u)
      BY <2>1, <2>2, <3>1 DEF Occurs
    <3>2. ASSUME Occurs(q, u) PROVE Occurs(r, u)
      <4>1. PICK i \in 1..Len(q) : q[i] = u
        BY <3>2 DEF Occurs
      <4>2. CASE i = 1
        BY <2>1, <2>2, <4>1, <4>2 DEF Occurs
      <4>3. CASE i # 1
        <5>1. i - 1 \in 1..Len(r) /\ r[i - 1] = u
          BY <2>1, <2>2, <4>1, <4>3
        <5> QED BY <5>1 DEF Occurs
      <4> QED BY <4>2, <4>3
    <3> QED BY <3>1, <3>2
  <2>5. r # <<>> /\ Head(r) \in Tasks
    BY <2>1, <2>2
  <2>6. Next_queue(q) = r /\ Next_task(q) = Head(r)
    BY <1>2 DEF Next_queue, Next_task, Rotate, r
  <2> QED BY <2>2, <2>3, <2>4, <2>5, <2>6 DEF Procs
<1> QED BY <1>1, <1>2

-----------------------------------------------------------------------------
\* create_idle_task() leaves an empty queue and the idle task running.
LEMMA InitIInv == PolicyInit => IInv
<1> SUFFICES ASSUME PolicyInit PROVE IInv
  OBVIOUS
<1>1. QueueTypeOK /\ IdleRuns
  BY DEF PolicyInit, QueueTypeOK, IdleRuns, Procs, States
<1>2. RunQueueInv
  BY IdleAssumption DEF PolicyInit, RunQueueInv, NoDuplicates, QueueIsRunnable,
     CurrentIsHead, Queued, Procs
<1> QED BY <1>1, <1>2 DEF IInv

\* The part of IInv that speaks of the queue, in the lemmas' words.
LEMMA InvFacts ==
  ASSUME IInv
  PROVE  /\ run_queue \in Seq(Tasks)
         /\ Distinct(run_queue)
         /\ \A t \in Tasks :
              Occurs(run_queue, t) <=> Runnable(t)
         /\ current_task # Idle =>
              run_queue # <<>> /\ Head(run_queue) = current_task
BY DEF IInv, QueueTypeOK, RunQueueInv, NoDuplicates, QueueIsRunnable, CurrentIsHead,
   Queued, Distinct, Occurs, Runnable

\* A task enters the queue when it becomes runnable: kthread_run() and
\* wake_up_task() differ only in the state the task comes from.
LEMMA EnqueueStep ==
  ASSUME IInv,
         NEW t \in Tasks,
         ~Occurs(run_queue, t),
         state' = [state EXCEPT ![t] = "RUNNING"],
         run_queue' = Enqueue(run_queue, t),
         UNCHANGED current_task
  PROVE  IInv'
<1> USE IdleAssumption
<1>1. /\ run_queue' \in Seq(Tasks)
      /\ run_queue' # <<>>
      /\ Distinct(run_queue')
      /\ \A u : Occurs(run_queue', u) <=> Occurs(run_queue, u) \/ u = t
      /\ run_queue # <<>> => Head(run_queue') = Head(run_queue)
  BY InvFacts, EnqueueLemma
<1>2. QueueTypeOK' /\ IdleRuns'
  BY <1>1 DEF IInv, QueueTypeOK, IdleRuns, Procs, States
<1>3. \A u \in Tasks : state'[u] = IF u = t THEN "RUNNING" ELSE state[u]
  BY DEF IInv, QueueTypeOK, Procs
<1>4. RunQueueInv'
  <2>1. NoDuplicates'
    BY <1>1 DEF NoDuplicates, Distinct
  <2>2. \A u \in Tasks : Occurs(run_queue', u) <=> Runnable(u)'
    BY <1>1, <1>3, InvFacts DEF Runnable
  <2>3. QueueIsRunnable'
    BY <2>2 DEF QueueIsRunnable, Queued, Occurs, Runnable
  <2>4. CurrentIsHead'
    BY <1>1, InvFacts DEF CurrentIsHead
  <2> QED BY <2>1, <2>3, <2>4 DEF RunQueueInv
<1> QED BY <1>2, <1>4 DEF IInv

\* __schedule(): with preempt the queue is rotated as it is; without, the
\* caller leaves it first unless it is TASK_RUNNING.  The task that gets the
\* processor is TASK_RUNNING.
LEMMA DispatchStep ==
  ASSUME IInv,
         NEW preempt \in BOOLEAN,
         preempt => Interruptible,
         Dispatch(preempt),
         UNCHANGED state
  PROVE  IInv' /\ state[current_task'] = "RUNNING" /\ current_task' \in Procs
<1> USE IdleAssumption
<1> DEFINE q == Pick_queue(preempt)
<1>1. /\ q \in Seq(Tasks)
      /\ Distinct(q)
      /\ \A t \in Tasks : Occurs(q, t) <=> state[t] = "RUNNING"
  <2>1. CASE ~preempt /\ state[current_task] # "RUNNING"
    <3>1. current_task # Idle
      BY <2>1 DEF IInv, IdleRuns
    <3>2. q = Dequeue(run_queue, Head(run_queue)) /\ run_queue # <<>>
           /\ Head(run_queue) = current_task
      BY <2>1, <3>1, InvFacts DEF Pick_queue
    <3> HIDE DEF q
    <3>3. /\ q \in Seq(Tasks)
          /\ Distinct(q)
          /\ \A u : Occurs(q, u) <=> Occurs(run_queue, u) /\ u # current_task
      BY <3>2, InvFacts, DequeueLemma
    <3> QED BY <2>1, <3>3, InvFacts DEF Runnable, IInv, QueueTypeOK, States
  <2>2. CASE ~(~preempt /\ state[current_task] # "RUNNING")
    <3>1. q = run_queue /\ state[current_task] = "RUNNING"
      BY <2>2 DEF Pick_queue, Interruptible
    <3> HIDE DEF q
    <3> QED BY <3>1, InvFacts DEF Runnable
  <2> QED BY <2>1, <2>2
<1>2. run_queue' = Next_queue(q) /\ current_task' = Next_task(q)
  BY DEF Dispatch
<1> HIDE DEF q
<1>3. /\ run_queue' \in Seq(Tasks)
      /\ Distinct(run_queue')
      /\ \A u : Occurs(run_queue', u) <=> Occurs(q, u)
      /\ current_task' \in Procs
      /\ current_task' # Idle =>
           run_queue' # <<>> /\ Head(run_queue') = current_task'
  BY <1>1, <1>2, NextLemma
<1>4. QueueTypeOK' /\ IdleRuns'
  BY <1>3 DEF IInv, QueueTypeOK, IdleRuns
<1>5. current_task' # Idle => state[current_task'] = "RUNNING"
  <2> SUFFICES ASSUME current_task' # Idle PROVE state[current_task'] = "RUNNING"
    OBVIOUS
  <2>1. Len(run_queue') \in Nat \ {0} /\ run_queue'[1] = current_task'
    BY <1>3
  <2>2. Occurs(run_queue', current_task')
    BY <2>1 DEF Occurs
  <2> QED BY <1>1, <1>3, <2>2 DEF Procs
<1>6. RunQueueInv'
  <2>1. NoDuplicates'
    BY <1>3 DEF NoDuplicates, Distinct
  <2>2. \A u \in Tasks : Occurs(run_queue', u) <=> Runnable(u)'
    BY <1>1, <1>3, <1>5 DEF Runnable
  <2>3. QueueIsRunnable'
    BY <2>2 DEF QueueIsRunnable, Queued, Occurs, Runnable
  <2>4. CurrentIsHead'
    BY <1>3 DEF CurrentIsHead
  <2> QED BY <2>1, <2>3, <2>4 DEF RunQueueInv
<1>7. state[current_task'] = "RUNNING"
  BY <1>4, <1>5 DEF IdleRuns
<1> QED BY <1>3, <1>4, <1>6, <1>7 DEF IInv

-----------------------------------------------------------------------------
\* Every operation of sched.c preserves the invariant.
LEMMA NextIInv == IInv /\ [PolicyNext]_schedVars => IInv'
<1> USE IdleAssumption
<1> SUFFICES ASSUME IInv, [PolicyNext]_schedVars PROVE IInv'
  OBVIOUS
<1>1. ASSUME NEW t \in Tasks, New_task(t) PROVE IInv'
  <2>1. ~Occurs(run_queue, t)
    BY <1>1, InvFacts DEF New_task, Runnable
  <2> QED BY Zenon, <1>1, <2>1, EnqueueStep DEF New_task
<1>2. ASSUME NEW s \in {"RUNNING", "INTERRUPTIBLE"}, Set_state(s) PROVE IInv'
  <2>1. current_task # Idle /\ UNCHANGED <<run_queue, current_task>>
    BY <1>2 DEF Set_state
  <2>2. QueueTypeOK' /\ IdleRuns'
    BY <1>2 DEF Set_state, IInv, QueueTypeOK, IdleRuns, Procs, States
  <2>3. \A u \in Tasks : state'[u] = IF u = current_task THEN s ELSE state[u]
    BY <1>2 DEF Set_state, IInv, QueueTypeOK, Procs
  <2>4. Occurs(run_queue, current_task)
    <3>1. run_queue # <<>> /\ Head(run_queue) = current_task /\ run_queue \in Seq(Tasks)
      BY <2>1, InvFacts
    <3>2. Len(run_queue) \in Nat \ {0} /\ run_queue[1] = current_task
      BY <3>1
    <3> QED BY <3>2 DEF Occurs
  <2>5. RunQueueInv'
    BY <2>1, <2>3, <2>4, InvFacts DEF RunQueueInv, NoDuplicates,
     QueueIsRunnable, CurrentIsHead, Queued, Distinct, Occurs, Runnable
  <2> QED BY <2>2, <2>5 DEF IInv
<1>3. ASSUME Schedule PROVE IInv'
  BY Zenon, <1>3, DispatchStep DEF Schedule
<1>4. ASSUME Tick PROVE IInv'
  BY Zenon, <1>4, DispatchStep DEF Tick
<1>5. ASSUME NEW t \in Tasks, Wake_up(t) PROVE IInv'
  <2>1. ~Occurs(run_queue, t)
    BY <1>5, InvFacts DEF Wake_up, Interruptible, Runnable
  <2> QED BY Zenon, <1>5, <2>1, EnqueueStep DEF Wake_up
<1>6. ASSUME UNCHANGED schedVars PROVE IInv'
  BY <1>6 DEF schedVars, IInv, QueueTypeOK, RunQueueInv, NoDuplicates, QueueIsRunnable,
     CurrentIsHead, Queued, IdleRuns
<1> QED BY <1>1, <1>2, <1>3, <1>4, <1>5, <1>6 DEF PolicyNext

\* The inductive invariant holds in every reachable state.
THEOREM Inductive == PolicySpec => []IInv
BY InitIInv, NextIInv, PTL DEF PolicySpec

\* The scheduler's variables keep their types: run_queue links tasks and
\* never the idle task, and every task is in one of the states of task.h.
THEOREM TypeCorrect == PolicySpec => []QueueTypeOK
<1>1. IInv => QueueTypeOK
  BY DEF IInv
<1> QED BY Inductive, <1>1, PTL

\* For any set of tasks, the list of kernel/sched.c is sound: every runnable
\* task is linked exactly once, no sleeping task is linked, and the running
\* task is the head, where __sched_next() expects it.
THEOREM RunQueueCorrect == PolicySpec => []RunQueueInv
<1>1. IInv => RunQueueInv
  BY SMTT(30) DEF IInv
<1> QED BY Inductive, <1>1, PTL

-----------------------------------------------------------------------------
(* The scheduler on the CPU.                                               *)

\* the places where the code of a task runs with interrupts on
Open(place) == place \notin {"boot", "syscall", "exit"}

\* the places where a task has an address space, and those where it uses it
HasMm(place) == place \in {"mm", "load", "iret", "user", "syscall", "exit"}
UsesMm(place) == place \in {"load", "iret", "user", "syscall", "exit"}

OpenIsRunning ==
  cpu.if => cpu.vec = "none" /\ ~frame[current_task] /\ ~insched[current_task]

HandlerHasFrame ==
  /\ cpu.vec # "none" => frame[current_task]
  /\ cpu.isr => cpu.vec \in {"timer", "ps2"}

FramesRun == \A p \in Procs : frame[p] => state[p] = "RUNNING" /\ Open(at[p]) /\ at[p] # "none"

SwitchedOut ==
  \A p \in Procs : insched[p] =>
    /\ at[p] # "none"
    /\ ~sframe[p]
    /\ flags[p] <=> ~frame[p] /\ Open(at[p])

NewTasks ==
  \A p \in Procs : p # current_task /\ ~insched[p] /\ at[p] # "none" =>
    at[p] = "fork" /\ sframe[p] /\ ~frame[p]

PlacesAndStates ==
  /\ at[Idle] \in {"boot", "sched", "hlt"}
  /\ \A t \in Tasks : at[t] = "none" <=> state[t] = "NONE"
  /\ \A p \in Procs : at[p] \notin {"none", "syscall"} => state[p] = "RUNNING"
  /\ insched[current_task] => state[current_task] = "RUNNING"

Registers ==
  /\ cpu.current = current_task
  /\ cpu.kernel_stack = current_task
  /\ current_task # Idle => cpu.rsp0 = current_task
  /\ UsesMm(at[current_task]) => cpu.cr3 = current_task
  /\ \A p \in Procs : HasMm(at[p]) => mm[p]

Contexts == OpenIsRunning /\ HandlerHasFrame /\ FramesRun /\ SwitchedOut /\ NewTasks

SInv ==
  /\ TypeOK
  /\ IInv
  /\ HandlersSeeRunning
  /\ InterruptFlagByPlace
  /\ Contexts
  /\ PlacesAndStates
  /\ Registers

-----------------------------------------------------------------------------
\* create_idle_task() and setup_stage2() establish the invariant.
LEMMA InitSInv == Init => SInv
<1> SUFFICES ASSUME Init PROVE SInv
  OBVIOUS
<1> USE IdleAssumption
<1>1. IInv
  BY InitIInv DEF Init
<1>2. TypeOK
  BY Zenon, <1>1 DEF IInv, Init, TypeOK, CpuType, Vectors, Places, Procs
<1>3. current_task = Idle /\ Idle \in Procs /\ state[Idle] = "RUNNING"
      /\ \A t \in Tasks : state[t] = "NONE"
  BY DEF Init, PolicyInit, Procs
<1>4. /\ at[Idle] = "boot"
      /\ \A t \in Tasks : at[t] = "none"
      /\ \A q \in Procs : ~frame[q] /\ ~insched[q] /\ (q = Idle \/ at[q] = "none")
  BY Zenon, <1>3 DEF Init, Procs
<1>5. /\ ~cpu.if /\ cpu.vec = "none" /\ ~cpu.isr
      /\ cpu.current = Idle /\ cpu.kernel_stack = Idle
  BY DEF Init
<1>6. HandlersSeeRunning /\ Contexts
  BY <1>3, <1>4, <1>5 DEF HandlersSeeRunning, Contexts, OpenIsRunning,
     HandlerHasFrame, FramesRun, SwitchedOut, NewTasks
<1>7. InterruptFlagByPlace
  BY <1>3, <1>4, <1>5 DEF InterruptFlagByPlace, Running
<1>8. PlacesAndStates /\ Registers
  BY <1>3, <1>4, <1>5 DEF PlacesAndStates, Registers, UsesMm, HasMm, Procs
<1> QED BY <1>1, <1>2, <1>6, <1>7, <1>8 DEF SInv

-----------------------------------------------------------------------------
\* what a change of place may not disturb
SamePlaces ==
  /\ at' \in [Procs -> Places]
  /\ at'[Idle] \in {"boot", "sched", "hlt"}
  /\ \A p \in Procs :
       /\ Open(at'[p]) <=> Open(at[p])
       /\ HasMm(at'[p]) <=> HasMm(at[p])
       /\ UsesMm(at'[p]) <=> UsesMm(at[p])
       /\ at'[p] = "none" <=> at[p] = "none"
       /\ at'[p] = "syscall" <=> at[p] = "syscall"
       /\ at[p] = "fork" => at'[p] = "fork"

\* __schedule(), entered with the registers c: the task that leaves keeps in
\* flags what it needs to go on, and the one that comes finds its own stack,
\* page tables and interrupt flag.
LEMMA ScheduleStep ==
  ASSUME SInv, ~panicked,
         NEW preempt \in BOOLEAN, preempt => Interruptible,
         NEW c \in CpuType, c.vec = "none", ~c.isr,
         c.if => ~insched[current_task],
         c.if <=> ~frame[current_task] /\ Open(at[current_task]),
         c.current = cpu.current, c.kernel_stack = cpu.kernel_stack,
         c.rsp0 = cpu.rsp0, c.cr3 = cpu.cr3,
         Do_schedule(preempt, c),
         UNCHANGED <<state, frame, mm, ursp, panicked>>,
         SamePlaces
  PROVE  SInv'
<1> DEFINE p == current_task
           n == current_task'
<1>1. IInv' /\ state[n] = "RUNNING" /\ n \in Procs
  BY DispatchStep DEF Do_schedule, SInv
<1>2. /\ p \in Procs
      /\ Idle \in Procs
      /\ frame \in [Procs -> BOOLEAN] /\ insched \in [Procs -> BOOLEAN]
      /\ flags \in [Procs -> BOOLEAN] /\ sframe \in [Procs -> BOOLEAN]
      /\ mm \in [Procs -> BOOLEAN] /\ state \in [Procs -> States]
  BY DEF SInv, TypeOK, QueueTypeOK, Procs
<1>3. PlacesAndStates'
  <2>1. \A q \in Procs : at'[q] \notin {"none", "syscall"} => state[q] = "RUNNING"
    BY DEF SInv, PlacesAndStates, SamePlaces
  <2>2. \A t \in Tasks : at'[t] = "none" <=> state[t] = "NONE"
    BY DEF SInv, PlacesAndStates, SamePlaces, Procs
  <2> QED BY <1>1, <2>1, <2>2 DEF PlacesAndStates, SamePlaces
<1>4. FramesRun'
  BY DEF SInv, Contexts, FramesRun, SamePlaces
<1>5. HandlersSeeRunning'
  BY <1>1 DEF HandlersSeeRunning
<1>6. \A q \in Procs : HasMm(at'[q]) => mm[q]
  BY DEF SInv, Registers, SamePlaces
<1>7. CASE n = p
  <2>1. cpu' = c /\ UNCHANGED <<insched, flags, sframe>>
    BY <1>7 DEF Do_schedule, Dispatch, ctxVars
  <2>2. TypeOK'
    BY <1>1, <2>1 DEF SInv, TypeOK, SamePlaces, IInv
  <2>3. Contexts'
    <3>1. OpenIsRunning' /\ HandlerHasFrame'
      BY <1>7, <2>1 DEF OpenIsRunning, HandlerHasFrame
    <3>2. SwitchedOut'
      BY <2>1 DEF SInv, Contexts, SwitchedOut, SamePlaces
    <3>3. NewTasks'
      BY <1>7, <2>1 DEF SInv, Contexts, NewTasks, SamePlaces
    <3> QED BY <1>4, <3>1, <3>2, <3>3 DEF Contexts
  <2>4. InterruptFlagByPlace'
    BY <1>2, <1>7, <2>1 DEF InterruptFlagByPlace, Running, SamePlaces, Open
  <2>5. Registers'
    BY <1>2, <1>6, <1>7, <2>1 DEF SInv, Registers, SamePlaces
  <2> QED BY <1>1, <1>3, <1>5, <2>2, <2>3, <2>4, <2>5 DEF SInv
<1>8. CASE n # p
  <2>1. /\ cpu' = Arch_switch_to(c, n)
        /\ insched' = [insched EXCEPT ![p] = TRUE]
        /\ flags' = [flags EXCEPT ![p] = c.if]
        /\ sframe' = [sframe EXCEPT ![p] = FALSE]
    BY <1>8 DEF Do_schedule, Dispatch
  <2>2. /\ cpu' \in CpuType
        /\ cpu'.vec = "none" /\ ~cpu'.isr /\ cpu'.if = sframe[n]
        /\ cpu'.current = n /\ cpu'.kernel_stack = n
        /\ n # Idle => cpu'.rsp0 = n
        /\ mm[n] => cpu'.cr3 = n
    BY ZenonT(30), <1>1, <1>2, <2>1 DEF Arch_switch_to, CpuType
  <2>3. \A q \in Procs :
          /\ insched'[q] <=> q = p \/ insched[q]
          /\ flags'[q] <=> IF q = p THEN c.if ELSE flags[q]
          /\ sframe'[q] <=> q # p /\ sframe[q]
    BY <1>2, <2>1
  <2>4. at[n] # "none"
    BY <1>1 DEF SInv, PlacesAndStates, Procs
  <2>5. TypeOK'
    BY <1>1, <1>2, <2>1, <2>2 DEF SInv, TypeOK, SamePlaces, IInv, CpuType
  <2>6. insched[n] => ~sframe[n]
    BY <1>1 DEF SInv, Contexts, SwitchedOut
  <2>7. ~insched[n] => at[n] = "fork" /\ sframe[n] /\ ~frame[n]
    BY <1>1, <1>8, <2>4 DEF SInv, Contexts, NewTasks
  <2>8. Contexts'
    <3>1. OpenIsRunning' /\ HandlerHasFrame'
      BY <1>1, <1>8, <2>2, <2>3, <2>6, <2>7 DEF OpenIsRunning, HandlerHasFrame
    <3>2. SwitchedOut'
      <4> SUFFICES ASSUME NEW q \in Procs, insched'[q]
                   PROVE  /\ at'[q] # "none" /\ ~sframe'[q]
                          /\ flags'[q] <=> ~frame[q] /\ Open(at'[q])
        BY DEF SwitchedOut
      <4>1. CASE q = p
        <5>1. at[p] # "none"
          BY <1>2 DEF SInv, IInv, RunQueueInv, PlacesAndStates, QueueTypeOK, Procs, CurrentIsHead, QueueIsRunnable, Queued
        <5> QED BY <2>3, <4>1, <5>1 DEF SamePlaces
      <4>2. CASE q # p
        BY <2>3, <4>2 DEF SInv, Contexts, SwitchedOut, SamePlaces
      <4> QED BY <4>1, <4>2
    <3>3. NewTasks'
      BY <2>3 DEF SInv, Contexts, NewTasks, SamePlaces
    <3> QED BY <1>4, <3>1, <3>2, <3>3 DEF Contexts
  <2>9. InterruptFlagByPlace'
    <3>1. ~insched'[n] => cpu'.if /\ at'[n] = "fork"
      BY <1>1, <1>8, <2>2, <2>3, <2>7 DEF SamePlaces
    <3> QED BY <3>1 DEF InterruptFlagByPlace, Running
  <2>10. Registers'
    <3>1. UsesMm(at'[n]) => mm[n]
      BY <1>1, <1>6 DEF UsesMm, HasMm
    <3> QED BY <1>6, <2>2, <3>1 DEF Registers
  <2> QED BY <1>1, <1>3, <1>5, <2>5, <2>8, <2>9, <2>10 DEF SInv
<1> QED BY <1>7, <1>8

-----------------------------------------------------------------------------
\* Steps that move one task along and leave the scheduler and the contexts
\* alone: it must not leave or enter the places where interrupts are off.
LEMMA MoveStep ==
  ASSUME SInv,
         NEW p \in Procs, Running(p),
         NEW place \in Places,
         at' = [at EXCEPT ![p] = place],
         at[p] # "none", place # "none", at[p] # "syscall", place # "fork",
         p = Idle <=> place \in {"boot", "sched", "hlt"},
         NEW c \in CpuType, cpu' = c,
         c.vec = cpu.vec, c.isr = cpu.isr,
         c.current = cpu.current, c.kernel_stack = cpu.kernel_stack, c.rsp0 = cpu.rsp0,
         c.if <=> Open(place),
         c.cr3 = p \/ (c.cr3 = cpu.cr3 /\ (UsesMm(place) => UsesMm(at[p]))),
         NEW m \in [Procs -> BOOLEAN], mm' = m,
         \A q \in Procs : mm[q] => m[q],
         HasMm(place) => m[p],
         ursp' \in [Procs -> Procs],
         UNCHANGED <<schedVars, frame, ctxVars, panicked>>
  PROVE  SInv'
<1>1. UNCHANGED <<run_queue, current_task, state, insched, flags, sframe>>
  BY DEF schedVars, ctxVars
<1>2. current_task = p /\ cpu.vec = "none" /\ ~frame[p] /\ ~insched[p]
  BY DEF Running
<1>3. at \in [Procs -> Places] /\ Idle \in Procs /\ Tasks \subseteq Procs
  BY DEF SInv, TypeOK, Procs
<1>4. \A q \in Procs : at'[q] = IF q = p THEN place ELSE at[q]
  BY <1>3
<1>5. state[p] = "RUNNING"
  BY DEF SInv, PlacesAndStates
<1>6. IInv'
  BY <1>1 DEF SInv, IInv, QueueTypeOK, RunQueueInv, NoDuplicates,
     QueueIsRunnable, CurrentIsHead, Queued, IdleRuns
<1>7. TypeOK'
  BY <1>1, <1>3, <1>6 DEF SInv, TypeOK, IInv
<1>8. HandlersSeeRunning'
  BY <1>1, <1>2, <1>5 DEF HandlersSeeRunning
<1>9. InterruptFlagByPlace'
  BY <1>1, <1>2, <1>4 DEF InterruptFlagByPlace, Running, Open
<1>10. Contexts'
  <2>1. OpenIsRunning' /\ HandlerHasFrame'
    BY <1>1, <1>2 DEF SInv, Contexts, OpenIsRunning, HandlerHasFrame
  <2>2. FramesRun' /\ SwitchedOut'
    BY <1>1, <1>2, <1>4 DEF SInv, Contexts, FramesRun, SwitchedOut
  <2>3. NewTasks'
    BY <1>1, <1>2, <1>4 DEF SInv, Contexts, NewTasks
  <2> QED BY <2>1, <2>2, <2>3 DEF Contexts
<1>11. PlacesAndStates'
  <2>1. at'[Idle] \in {"boot", "sched", "hlt"}
    BY <1>3, <1>4 DEF SInv, PlacesAndStates
  <2>2. \A t \in Tasks : at'[t] = "none" <=> state[t] = "NONE"
    BY <1>3, <1>4, <1>5 DEF SInv, PlacesAndStates
  <2>3. \A q \in Procs : at'[q] \notin {"none", "syscall"} => state[q] = "RUNNING"
    BY <1>4, <1>5 DEF SInv, PlacesAndStates
  <2> QED BY <1>1, <1>2, <2>1, <2>2, <2>3 DEF PlacesAndStates
<1>12. Registers'
  BY <1>1, <1>2, <1>4 DEF SInv, Registers
<1> QED BY <1>6, <1>7, <1>8, <1>9, <1>10, <1>11, <1>12 DEF SInv

\* panic() changes nothing but stops everything.
LEMMA PanicStep == ASSUME SInv, Panic PROVE SInv'
<1>1. /\ UNCHANGED <<run_queue, current_task, state, insched, flags, sframe>>
      /\ UNCHANGED <<cpu, at, frame, mm, ursp>>
      /\ panicked' = TRUE
  BY DEF Panic, schedVars, ctxVars
<1>2. IInv'
  BY <1>1 DEF SInv, IInv, QueueTypeOK, RunQueueInv, NoDuplicates,
     QueueIsRunnable, CurrentIsHead, Queued, IdleRuns
<1> QED BY <1>1, <1>2 DEF SInv, TypeOK, IInv, HandlersSeeRunning,
     InterruptFlagByPlace, Running, Contexts, OpenIsRunning, HandlerHasFrame,
     FramesRun, SwitchedOut, NewTasks, PlacesAndStates, Registers

\* kmain(): kthread_run(), local_irq_enable() and schedule().
LEMMA KmainStep == ASSUME SInv, Kmain PROVE SInv'
<1> USE IdleAssumption
<1>0. Idle \in Procs /\ Tasks \subseteq Procs
  BY DEF Procs
<1>1. ASSUME NEW t \in Tasks, Kthread_run(t) PROVE SInv'
  <2>1. IInv'
    <3>1. New_task(t)
      BY <1>1 DEF Kthread_run
    <3> QED BY <3>1, NextIInv DEF SInv, PolicyNext
  <2>2. /\ UNCHANGED <<current_task, cpu, frame, insched, flags, mm, ursp, panicked>>
        /\ state' = [state EXCEPT ![t] = "RUNNING"]
        /\ at' = [at EXCEPT ![t] = "fork"]
        /\ sframe' = [sframe EXCEPT ![t] = TRUE]
        /\ current_task = Idle /\ state[t] = "NONE"
    BY <1>1 DEF Kthread_run, New_task, Running
  <2>3. /\ state \in [Procs -> States] /\ at \in [Procs -> Places]
        /\ sframe \in [Procs -> BOOLEAN]
    BY DEF SInv, TypeOK, QueueTypeOK
  <2>4. \A q \in Procs :
          /\ state'[q] = IF q = t THEN "RUNNING" ELSE state[q]
          /\ at'[q] = IF q = t THEN "fork" ELSE at[q]
          /\ sframe'[q] <=> q = t \/ sframe[q]
    BY <1>0, <2>2, <2>3
  <2>5. at[t] = "none" /\ t # Idle
    BY <2>2 DEF SInv, PlacesAndStates
  <2>6. ~insched[t] /\ ~frame[t]
    BY <1>0, <2>5 DEF SInv, Contexts, SwitchedOut, FramesRun
  <2>7. TypeOK'
    BY <1>0, <2>1, <2>2, <2>3 DEF SInv, TypeOK, IInv, Places
  <2>8. HandlersSeeRunning' /\ InterruptFlagByPlace'
    BY <1>0, <2>2, <2>4, <2>5 DEF SInv, HandlersSeeRunning, InterruptFlagByPlace, Running
  <2>9. Contexts'
    BY <2>2, <2>4, <2>5, <2>6 DEF SInv, Contexts, OpenIsRunning, HandlerHasFrame,
       FramesRun, SwitchedOut, NewTasks
  <2>10. PlacesAndStates'
    BY <1>0, <2>2, <2>4, <2>5 DEF SInv, PlacesAndStates
  <2>11. Registers'
    BY <1>0, <2>2, <2>4, <2>5 DEF SInv, Registers, HasMm, UsesMm
  <2> QED BY <2>1, <2>7, <2>8, <2>9, <2>10, <2>11 DEF SInv
<1>2. ASSUME Kthread_run_fails PROVE SInv'
  BY SMTT(30), <1>2, PanicStep DEF Kthread_run_fails
<1>3. ASSUME Local_irq_enable PROVE SInv'
  <2> DEFINE c == [cpu EXCEPT !.if = TRUE]
  <2>1. /\ c \in CpuType /\ c.vec = cpu.vec /\ c.isr = cpu.isr /\ c.if
        /\ c.current = cpu.current /\ c.kernel_stack = cpu.kernel_stack
        /\ c.rsp0 = cpu.rsp0 /\ c.cr3 = cpu.cr3
    BY Zenon DEF SInv, TypeOK, CpuType
  <2>2. /\ Running(Idle) /\ at' = [at EXCEPT ![Idle] = "sched"] /\ at[Idle] = "boot"
        /\ cpu' = c /\ UNCHANGED <<schedVars, frame, ctxVars, mm, ursp, panicked>>
    BY <1>3 DEF Local_irq_enable, Go
  <2>3. mm \in [Procs -> BOOLEAN] /\ ursp \in [Procs -> Procs]
    BY DEF SInv, TypeOK
  <2> HIDE DEF c
  <2> QED BY Zenon, <1>0, <2>1, <2>2, <2>3, MoveStep DEF Places, Open, UsesMm, HasMm
<1>4. ASSUME Kmain_schedule PROVE SInv'
  <2>1. /\ Running(Idle) /\ at' = [at EXCEPT ![Idle] = "hlt"] /\ at[Idle] = "sched"
        /\ Do_schedule(FALSE, cpu) /\ UNCHANGED <<state, frame, mm, ursp, panicked>>
    BY Zenon, <1>4 DEF Kmain_schedule, Go
  <2>2. /\ ~panicked /\ current_task = Idle /\ cpu.vec = "none"
        /\ ~frame[Idle] /\ ~insched[Idle] /\ cpu \in CpuType
        /\ at \in [Procs -> Places]
    BY <2>1 DEF Running, SInv, TypeOK
  <2>3. cpu.if /\ ~cpu.isr /\ Open("sched")
    BY <1>0, <2>1, <2>2 DEF SInv, InterruptFlagByPlace, Contexts, HandlerHasFrame, Open
  <2>4. SamePlaces
    BY <1>0, <2>1, <2>2 DEF SamePlaces, Open, HasMm, UsesMm, Places
  <2> QED BY Zenon, <2>1, <2>2, <2>3, <2>4, ScheduleStep
<1> QED BY <1>1, <1>2, <1>3, <1>4 DEF Kmain

\* init_task_init() and ret_from_fork.
LEMMA InitTaskStep == ASSUME SInv, NEW t \in Tasks, Init_task(t) PROVE SInv'
<1> USE IdleAssumption
<1>1. /\ t \in Procs /\ t # Idle /\ cpu \in CpuType
      /\ mm \in [Procs -> BOOLEAN] /\ ursp \in [Procs -> Procs]
  BY DEF SInv, TypeOK, Procs
<1>2. Running(t) /\ at[t] \in {"fork", "mm", "load", "iret"} => cpu.if
  BY <1>1 DEF SInv, InterruptFlagByPlace
<1>3. ASSUME Mm_create(t) PROVE SInv'
  <2> DEFINE m == [mm EXCEPT ![t] = TRUE]
  <2>1. m \in [Procs -> BOOLEAN] /\ m[t] /\ \A q \in Procs : mm[q] => m[q]
    BY <1>1
  <2>2. /\ Running(t) /\ at[t] = "fork" /\ at' = [at EXCEPT ![t] = "mm"] /\ mm' = m
        /\ UNCHANGED <<schedVars, cpu, frame, ctxVars, ursp, panicked>>
    BY SMTT(30), <1>3 DEF Mm_create, Go
  <2> HIDE DEF m
  <2> QED BY Zenon, <1>1, <1>2, <2>1, <2>2, MoveStep DEF Places, Open, UsesMm, HasMm
<1>4. ASSUME Activate_mm(t) PROVE SInv'
  <2> DEFINE c == [cpu EXCEPT !.cr3 = t]
  <2>1. /\ c \in CpuType /\ c.vec = cpu.vec /\ c.isr = cpu.isr /\ c.if = cpu.if
        /\ c.current = cpu.current /\ c.kernel_stack = cpu.kernel_stack
        /\ c.rsp0 = cpu.rsp0 /\ c.cr3 = t
    BY <1>1 DEF CpuType
  <2>2. /\ Running(t) /\ at[t] = "mm" /\ at' = [at EXCEPT ![t] = "load"] /\ cpu' = c
        /\ UNCHANGED <<schedVars, frame, ctxVars, mm, ursp, panicked>>
    BY <1>4 DEF Activate_mm, Go
  <2>3. mm[t]
    BY <1>1, <2>2 DEF SInv, Registers, HasMm
  <2> HIDE DEF c
  <2> QED BY ZenonT(30), <1>1, <1>2, <2>1, <2>2, <2>3, MoveStep DEF Places, Open, UsesMm, HasMm
<1>5. ASSUME Init_task_fails(t) PROVE SInv'
  BY <1>5, PanicStep DEF Init_task_fails
<1>6. ASSUME Ret_from_fork(t) PROVE SInv'
  <2> DEFINE c == [cpu EXCEPT !.gs = Swapped(@)]
  <2>1. /\ c \in CpuType /\ c.vec = cpu.vec /\ c.isr = cpu.isr /\ c.if = cpu.if
        /\ c.current = cpu.current /\ c.kernel_stack = cpu.kernel_stack
        /\ c.rsp0 = cpu.rsp0 /\ c.cr3 = cpu.cr3
    BY <1>1 DEF CpuType, Swapped
  <2>2. /\ Running(t) /\ at[t] = "load" /\ at' = [at EXCEPT ![t] = "iret"] /\ cpu' = c
        /\ UNCHANGED <<schedVars, frame, ctxVars, mm, ursp, panicked>>
    BY <1>6 DEF Ret_from_fork, Go
  <2>3. mm[t]
    BY SMTT(30), <1>1, <2>2 DEF SInv, Registers, HasMm
  <2> HIDE DEF c
  <2> QED BY Zenon, <1>1, <1>2, <2>1, <2>2, <2>3, MoveStep DEF Places, Open, UsesMm, HasMm
<1>7. ASSUME Iretq(t) PROVE SInv'
  <2> DEFINE c == [cpu EXCEPT !.if = TRUE]
  <2>1. /\ c \in CpuType /\ c.vec = cpu.vec /\ c.isr = cpu.isr /\ c.if
        /\ c.current = cpu.current /\ c.kernel_stack = cpu.kernel_stack
        /\ c.rsp0 = cpu.rsp0 /\ c.cr3 = cpu.cr3
    BY Zenon, <1>1 DEF CpuType
  <2>2. /\ Running(t) /\ at[t] = "iret" /\ at' = [at EXCEPT ![t] = "user"] /\ cpu' = c
        /\ UNCHANGED <<schedVars, frame, ctxVars, mm, ursp, panicked>>
    BY <1>7 DEF Iretq, Go
  <2>3. mm[t]
    BY <1>1, <2>2 DEF SInv, Registers, HasMm
  <2> HIDE DEF c
  <2> QED BY Zenon, <1>1, <2>1, <2>2, <2>3, MoveStep DEF Places, Open, UsesMm, HasMm
<1> QED BY <1>3, <1>4, <1>5, <1>6, <1>7 DEF Init_task

\* task_set_state() by a task in a system call, which interrupts cannot reach.
LEMMA SetStateStep ==
  ASSUME SInv,
         NEW t \in Tasks, Running(t), at[t] = "syscall",
         NEW s \in {"RUNNING", "INTERRUPTIBLE"}, Set_state(s),
         NEW place \in {"syscall", "exit"}, at' = [at EXCEPT ![t] = place],
         s = "RUNNING" \/ place = "syscall",
         UNCHANGED <<cpu, frame, ctxVars, mm, ursp, panicked>>
  PROVE  SInv'
<1> USE IdleAssumption
<1>1. IInv'
  BY NextIInv DEF SInv, PolicyNext
<1>2. /\ t \in Procs /\ t # Idle /\ current_task = t /\ ~frame[t] /\ ~insched[t]
      /\ cpu.vec = "none" /\ Tasks \subseteq Procs /\ Idle \in Procs
      /\ UNCHANGED <<current_task, insched, flags, sframe>>
      /\ at \in [Procs -> Places] /\ state \in [Procs -> States]
  BY DEF Running, Procs, Set_state, ctxVars, SInv, TypeOK, QueueTypeOK
<1>3. ~cpu.if
  BY <1>2 DEF SInv, InterruptFlagByPlace
<1>4. \A q \in Procs : /\ at'[q] = IF q = t THEN place ELSE at[q]
                       /\ state'[q] = IF q = t THEN s ELSE state[q]
  BY <1>2 DEF Set_state
<1>5. TypeOK'
  BY <1>1, <1>2 DEF SInv, TypeOK, IInv, Places
<1>6. HandlersSeeRunning' /\ InterruptFlagByPlace'
  BY <1>2, <1>3, <1>4 DEF HandlersSeeRunning, InterruptFlagByPlace, Running
<1>7. Contexts'
  BY <1>2, <1>3, <1>4 DEF SInv, Contexts, OpenIsRunning, HandlerHasFrame,
     FramesRun, SwitchedOut, NewTasks
<1>8. PlacesAndStates'
  BY <1>2, <1>4 DEF SInv, PlacesAndStates
<1>9. Registers'
  BY <1>2, <1>4 DEF SInv, Registers, HasMm, UsesMm
<1> QED BY <1>1, <1>5, <1>6, <1>7, <1>8, <1>9 DEF SInv

\* system calls, from syscall_entry to sysret
LEMMA SyscallStep ==
  ASSUME SInv, NEW t \in Tasks, In_syscall(t) \/ Syscall_entry(t)
  PROVE  SInv'
<1> USE IdleAssumption
<1>1. /\ t \in Procs /\ t # Idle /\ cpu \in CpuType /\ at \in [Procs -> Places]
      /\ mm \in [Procs -> BOOLEAN] /\ ursp \in [Procs -> Procs]
  BY DEF SInv, TypeOK, Procs
<1>2. ASSUME Prepare(t) PROVE SInv'
  <2>1. at' = [at EXCEPT ![t] = "syscall"]
    BY <1>1, <1>2 DEF Prepare
  <2> QED BY Zenon, <1>2, <2>1, SetStateStep DEF Prepare
<1>3. ASSUME Sleep(t) PROVE SInv'
  <2>1. /\ Running(t) /\ at[t] = "syscall" /\ at' = at
        /\ Do_schedule(FALSE, cpu) /\ UNCHANGED <<state, frame, mm, ursp, panicked>>
    BY Zenon, <1>3 DEF Sleep
  <2>2. /\ ~panicked /\ current_task = t /\ cpu.vec = "none"
        /\ ~frame[t] /\ ~insched[t]
    BY <2>1 DEF Running
  <2>3. ~cpu.if /\ ~cpu.isr /\ ~Open("syscall")
    BY <1>1, <2>1, <2>2 DEF SInv, InterruptFlagByPlace, Contexts, HandlerHasFrame, Open
  <2>4. SamePlaces
    BY <1>1, <2>1 DEF SamePlaces, SInv, PlacesAndStates
  <2> QED BY Zenon, <1>1, <2>1, <2>2, <2>3, <2>4, ScheduleStep
<1>4. ASSUME Finish(t) PROVE SInv'
  BY Zenon, <1>4, SetStateStep DEF Finish, Go
<1>5. ASSUME Sysret(t) PROVE SInv'
  <2> DEFINE c == [cpu EXCEPT !.if = TRUE, !.gs = "user"]
  <2>1. /\ c \in CpuType /\ c.vec = cpu.vec /\ c.isr = cpu.isr /\ c.if
        /\ c.current = cpu.current /\ c.kernel_stack = cpu.kernel_stack
        /\ c.rsp0 = cpu.rsp0 /\ c.cr3 = cpu.cr3 /\ cpu.user_rsp \in Procs
    BY Zenon, <1>1 DEF CpuType
  <2>2. CASE cpu.gs = "kernel"
    <3>1. /\ Running(t) /\ at[t] = "exit" /\ at' = [at EXCEPT ![t] = "user"] /\ cpu' = c
          /\ ursp' = [ursp EXCEPT ![t] = cpu.user_rsp]
          /\ UNCHANGED <<schedVars, frame, ctxVars, mm, panicked>>
      BY <1>5, <2>2 DEF Sysret, Go
    <3>2. mm[t]
      BY <1>1, <3>1 DEF SInv, Registers, HasMm
    <3>3. ursp' \in [Procs -> Procs]
      BY <1>1, <2>1, <3>1
    <3> HIDE DEF c
    <3> QED BY Zenon, <1>1, <2>1, <3>1, <3>2, <3>3, MoveStep DEF Places, Open, UsesMm, HasMm
  <2>3. CASE cpu.gs # "kernel"
    BY <1>5, <2>3, PanicStep DEF Sysret
  <2> QED BY <2>2, <2>3
<1>6. ASSUME Syscall_entry(t) PROVE SInv'
  <2> DEFINE c == [cpu EXCEPT !.if = FALSE, !.gs = "kernel", !.user_rsp = ursp[t]]
  <2>1. /\ c \in CpuType /\ c.vec = cpu.vec /\ c.isr = cpu.isr /\ ~c.if
        /\ c.current = cpu.current /\ c.kernel_stack = cpu.kernel_stack
        /\ c.rsp0 = cpu.rsp0 /\ c.cr3 = cpu.cr3
    BY Zenon, <1>1 DEF CpuType
  <2>2. CASE cpu.gs = "user"
    <3>1. /\ Running(t) /\ at[t] = "user" /\ at' = [at EXCEPT ![t] = "syscall"] /\ cpu' = c
          /\ UNCHANGED <<schedVars, frame, ctxVars, mm, ursp, panicked>>
      BY <1>6, <2>2 DEF Syscall_entry, Go
    <3>2. mm[t]
      BY <1>1, <3>1 DEF SInv, Registers, HasMm
    <3> HIDE DEF c
    <3> QED BY Zenon, <1>1, <2>1, <3>1, <3>2, MoveStep DEF Places, Open, UsesMm, HasMm
  <2>3. CASE cpu.gs # "user"
    BY SMTT(30), <1>6, <2>3, PanicStep DEF Syscall_entry
  <2> QED BY <2>2, <2>3
<1> QED BY <1>2, <1>3, <1>4, <1>5, <1>6 DEF In_syscall

\* Steps that change the registers and the frame of the current task only.
LEMMA FrameStep ==
  ASSUME SInv, ~panicked,
         NEW c \in CpuType, cpu' = c,
         c.current = cpu.current, c.kernel_stack = cpu.kernel_stack,
         c.rsp0 = cpu.rsp0, c.cr3 = cpu.cr3,
         NEW on \in BOOLEAN, frame' = [frame EXCEPT ![current_task] = on],
         frame[current_task] \/ cpu.if,
         insched[current_task] => (on <=> frame[current_task]),
         c.vec # "none" => on,
         c.isr => c.vec \in {"timer", "ps2"},
         c.if <=> c.vec = "none" /\ ~on /\ ~insched[current_task],
         UNCHANGED <<schedVars, at, ctxVars, mm, ursp, panicked>>
  PROVE  SInv'
<1> DEFINE p == current_task
<1>1. /\ p \in Procs
      /\ frame \in [Procs -> BOOLEAN] /\ insched \in [Procs -> BOOLEAN]
      /\ UNCHANGED <<run_queue, current_task, state, insched, flags, sframe>>
  BY DEF SInv, TypeOK, QueueTypeOK, schedVars, ctxVars
<1>2. \A q \in Procs : frame'[q] <=> IF q = p THEN on ELSE frame[q]
  BY <1>1
<1>3. state[p] = "RUNNING" /\ Open(at[p]) /\ at[p] # "none"
  <2>1. CASE frame[p]
    BY <1>1, <2>1 DEF SInv, Contexts, FramesRun
  <2>2. CASE cpu.if
    <3>1. cpu.vec = "none" /\ ~frame[p] /\ ~insched[p] /\ state[p] = "RUNNING"
      BY <2>2 DEF SInv, Contexts, OpenIsRunning, HandlersSeeRunning
    <3>2. Running(p) /\ Open(at[p])
      BY <1>1, <2>2, <3>1 DEF Running, SInv, InterruptFlagByPlace, Open
    <3>3. at[p] # "none"
      BY <1>1, <3>1, IdleAssumption DEF SInv, PlacesAndStates, Procs
    <3> QED BY <3>1, <3>2, <3>3
  <2> QED BY <2>1, <2>2
<1>4. IInv'
  BY <1>1 DEF SInv, IInv, QueueTypeOK, RunQueueInv, NoDuplicates,
     QueueIsRunnable, CurrentIsHead, Queued, IdleRuns
<1>5. TypeOK'
  BY <1>1, <1>4 DEF SInv, TypeOK, IInv
<1>6. HandlersSeeRunning'
  BY <1>1, <1>3 DEF HandlersSeeRunning
<1>7. InterruptFlagByPlace'
  BY <1>1, <1>2, <1>3 DEF InterruptFlagByPlace, Running, Open
<1>8. Contexts'
  <2>1. OpenIsRunning' /\ HandlerHasFrame'
    BY <1>1, <1>2 DEF OpenIsRunning, HandlerHasFrame
  <2>2. FramesRun' /\ NewTasks'
    BY <1>1, <1>2, <1>3 DEF SInv, Contexts, FramesRun, NewTasks
  <2>3. SwitchedOut'
    BY <1>1, <1>2 DEF SInv, Contexts, SwitchedOut
  <2> QED BY <2>1, <2>2, <2>3 DEF Contexts
<1>9. PlacesAndStates'
  BY <1>1, <1>2, <1>3 DEF SInv, PlacesAndStates
<1>10. Registers'
  BY <1>1 DEF SInv, Registers
<1> QED BY <1>4, <1>5, <1>6, <1>7, <1>8, <1>9, <1>10 DEF SInv

\* Entering and leaving an interrupt handler.
LEMMA InterruptStep ==
  ASSUME SInv,
         \/ \E v \in Vectors : Irq_entry(v)
         \/ \E p \in Procs : Irq_return(p)
         \/ Ps2_irq
         \/ Handler_returns
  PROVE  SInv'
<1>1. /\ current_task \in Procs /\ cpu \in CpuType
      /\ frame \in [Procs -> BOOLEAN] /\ at \in [Procs -> Places]
  BY DEF SInv, TypeOK, QueueTypeOK
<1>2. ASSUME NEW v \in Vectors, Irq_entry(v) PROVE SInv'
  <2> DEFINE c == [cpu EXCEPT !.if = FALSE, !.vec = v, !.isr = (v # "spurious"),
                              !.gs = Crossed(current_task, @)]
  <2>1. /\ c \in CpuType /\ c.vec = v /\ ~c.if /\ (c.isr <=> v # "spurious")
        /\ c.current = cpu.current /\ c.kernel_stack = cpu.kernel_stack
        /\ c.rsp0 = cpu.rsp0 /\ c.cr3 = cpu.cr3
    BY Zenon, <1>1 DEF CpuType, Vectors, Crossed, Swapped
  <2>2. /\ ~panicked /\ cpu.if /\ cpu' = c
        /\ frame' = [frame EXCEPT ![current_task] = TRUE]
        /\ UNCHANGED <<schedVars, at, ctxVars, mm, ursp, panicked>>
    BY Zenon, <1>2 DEF Irq_entry
  <2>3. ~insched[current_task]
    BY <2>2 DEF SInv, Contexts, OpenIsRunning
  <2> HIDE DEF c
  <2> QED BY Zenon, <2>1, <2>2, <2>3, FrameStep DEF Vectors
<1>3. ASSUME NEW p \in Procs, Irq_return(p) PROVE SInv'
  <2> DEFINE c == [cpu EXCEPT !.if = TRUE, !.gs = Crossed(p, @)]
  <2>1. /\ c \in CpuType /\ c.vec = cpu.vec /\ c.if /\ c.isr = cpu.isr
        /\ c.current = cpu.current /\ c.kernel_stack = cpu.kernel_stack
        /\ c.rsp0 = cpu.rsp0 /\ c.cr3 = cpu.cr3
    BY Zenon, <1>1 DEF CpuType, Crossed, Swapped
  <2>2. /\ ~panicked /\ cpu' = c /\ cpu.vec = "none" /\ frame[p] /\ ~insched[p]
        /\ current_task = p /\ frame' = [frame EXCEPT ![current_task] = FALSE]
        /\ UNCHANGED <<schedVars, at, ctxVars, mm, ursp, panicked>>
    BY Zenon, <1>3 DEF Irq_return
  <2>3. ~cpu.isr
    BY <2>2 DEF SInv, Contexts, HandlerHasFrame
  <2> HIDE DEF c
  <2> QED BY Zenon, <2>1, <2>2, <2>3, FrameStep
<1>4. ASSUME NEW next \in {"none", "ps2_handler"},
             cpu.vec # "none", ~panicked,
             \/ cpu' = Eoi(next)
             \/ cpu' = [cpu EXCEPT !.vec = next] /\ cpu.vec \in {"ps2_handler", "spurious"},
             UNCHANGED <<schedVars, at, frame, ctxVars, mm, ursp, panicked>>
      PROVE  SInv'
  <2>1. /\ cpu' \in CpuType /\ cpu'.vec = next /\ cpu'.if = cpu.if
        /\ cpu'.current = cpu.current /\ cpu'.kernel_stack = cpu.kernel_stack
        /\ cpu'.rsp0 = cpu.rsp0 /\ cpu'.cr3 = cpu.cr3
        /\ cpu'.isr => cpu.isr /\ cpu.vec \in {"ps2_handler", "spurious"}
    BY Zenon, <1>1, <1>4 DEF CpuType, Eoi
  <2>2. frame[current_task] /\ ~cpu.if /\ (cpu.isr => cpu.vec \in {"timer", "ps2"})
    BY <1>4 DEF SInv, Contexts, HandlerHasFrame, OpenIsRunning
  <2>3. frame' = [frame EXCEPT ![current_task] = TRUE]
    BY <1>1, <1>4, <2>2
  <2> QED BY Zenon, <1>4, <2>1, <2>2, <2>3, FrameStep
<1>5. ASSUME Ps2_irq PROVE SInv'
  BY <1>4, <1>5 DEF Ps2_irq
<1>6. ASSUME Handler_returns PROVE SInv'
  BY <1>4, <1>6 DEF Handler_returns
<1> QED BY <1>2, <1>3, <1>5, <1>6

\* The tick: timer_irq_handler() calls __schedule(true).
LEMMA TimerStep == ASSUME SInv, Timer_irq_handler PROVE SInv'
<1>1. CASE cpu.current # current_task
  BY <1>1, PanicStep DEF Timer_irq_handler
<1>2. CASE cpu.current = current_task
  <2> DEFINE c == Eoi("none")
  <2>1. /\ cpu \in CpuType /\ at \in [Procs -> Places] /\ current_task \in Procs
        /\ ~panicked /\ cpu.vec = "timer" /\ Do_schedule(TRUE, c)
        /\ UNCHANGED <<state, at, frame, mm, ursp, panicked>>
    BY Zenon, <1>2 DEF Timer_irq_handler, SInv, TypeOK, QueueTypeOK
  <2>2. /\ c \in CpuType /\ c.vec = "none" /\ ~c.isr /\ c.if = cpu.if
        /\ c.current = cpu.current /\ c.kernel_stack = cpu.kernel_stack
        /\ c.rsp0 = cpu.rsp0 /\ c.cr3 = cpu.cr3
    BY Zenon, <2>1 DEF Eoi, CpuType
  <2>3. frame[current_task] /\ ~cpu.if /\ Interruptible
    BY <2>1 DEF SInv, Contexts, HandlerHasFrame, OpenIsRunning, HandlersSeeRunning, Interruptible
  <2>4. SamePlaces
    BY <2>1 DEF SamePlaces, SInv, PlacesAndStates
  <2> HIDE DEF c
  <2> QED BY Zenon, <2>1, <2>2, <2>3, <2>4, ScheduleStep
<1> QED BY <1>1, <1>2

\* wake_up_task() from the keyboard interrupt.
LEMMA WakeStep == ASSUME SInv, NEW t \in Tasks, Wake_up_task(t) PROVE SInv'
<1> USE IdleAssumption
<1>1. /\ t \in Procs /\ Tasks \subseteq Procs /\ state \in [Procs -> States]
      /\ cpu.vec = "ps2_handler" /\ state[t] = "INTERRUPTIBLE"
      /\ state' = [state EXCEPT ![t] = "RUNNING"]
      /\ run_queue' = Enqueue(run_queue, t)
      /\ UNCHANGED <<current_task, cpu, at, frame, mm, ursp, panicked>>
      /\ UNCHANGED <<insched, flags, sframe>>
  BY DEF Procs, Wake_up_task, ctxVars, SInv, TypeOK, QueueTypeOK
<1>2. Wake_up(t)
  BY <1>1 DEF SInv, HandlersSeeRunning, Wake_up, Interruptible
<1>3. IInv'
  BY <1>2, NextIInv DEF SInv, PolicyNext
<1>4. \A q \in Procs : state'[q] = IF q = t THEN "RUNNING" ELSE state[q]
  BY <1>1
<1>5. TypeOK'
  BY <1>1, <1>3 DEF SInv, TypeOK, IInv
<1>6. current_task \in Procs
  BY DEF SInv, TypeOK, QueueTypeOK
<1>7. HandlersSeeRunning' /\ InterruptFlagByPlace'
  BY SMTT(30), <1>1, <1>4, <1>6 DEF SInv, HandlersSeeRunning, InterruptFlagByPlace, Running
<1>8. Contexts'
  BY <1>1, <1>4 DEF SInv, Contexts, OpenIsRunning, HandlerHasFrame, FramesRun,
     SwitchedOut, NewTasks
<1>9. PlacesAndStates'
  BY <1>1, <1>4, <1>6 DEF SInv, PlacesAndStates
<1>10. Registers'
  BY <1>1 DEF SInv, Registers
<1> QED BY <1>3, <1>5, <1>7, <1>8, <1>9, <1>10 DEF SInv

\* A task that was switched out returns from __schedule().
LEMMA ReturnStep == ASSUME SInv, NEW p \in Procs, Sched_return(p) PROVE SInv'
<1>1. /\ cpu \in CpuType /\ insched \in [Procs -> BOOLEAN] /\ flags \in [Procs -> BOOLEAN]
      /\ current_task = p /\ cpu.vec = "none" /\ insched[p]
      /\ insched' = [insched EXCEPT ![p] = FALSE]
      /\ cpu' = [cpu EXCEPT !.if = flags[p]]
      /\ UNCHANGED <<run_queue, current_task, state>>
      /\ UNCHANGED <<at, frame, flags, sframe, mm, ursp, panicked>>
  BY DEF Sched_return, schedVars, SInv, TypeOK
<1>2. \A q \in Procs : insched'[q] <=> q # p /\ insched[q]
  BY <1>1
<1>3. /\ cpu' \in CpuType /\ cpu'.vec = "none" /\ cpu'.isr = cpu.isr
      /\ cpu'.if <=> ~frame[p] /\ Open(at[p])
      /\ cpu'.current = cpu.current /\ cpu'.kernel_stack = cpu.kernel_stack
      /\ cpu'.rsp0 = cpu.rsp0 /\ cpu'.cr3 = cpu.cr3
  <2>1. flags[p] <=> ~frame[p] /\ Open(at[p])
    BY <1>1 DEF SInv, Contexts, SwitchedOut
  <2>2. /\ cpu' \in CpuType /\ cpu'.vec = "none" /\ cpu'.isr = cpu.isr /\ cpu'.if = flags[p]
        /\ cpu'.current = cpu.current /\ cpu'.kernel_stack = cpu.kernel_stack
        /\ cpu'.rsp0 = cpu.rsp0 /\ cpu'.cr3 = cpu.cr3
    BY <1>1 DEF CpuType
  <2> QED BY <2>1, <2>2
<1>4. state[p] = "RUNNING"
  BY <1>1 DEF SInv, PlacesAndStates
<1>5. IInv'
  BY <1>1 DEF SInv, IInv, QueueTypeOK, RunQueueInv, NoDuplicates,
     QueueIsRunnable, CurrentIsHead, Queued, IdleRuns
<1>6. TypeOK'
  BY <1>1, <1>3, <1>5 DEF SInv, TypeOK, IInv
<1>7. HandlersSeeRunning' /\ InterruptFlagByPlace'
  BY <1>1, <1>3, <1>4 DEF HandlersSeeRunning, InterruptFlagByPlace, Running, Open
<1>8. Contexts'
  BY <1>1, <1>2, <1>3 DEF SInv, Contexts, OpenIsRunning, HandlerHasFrame,
     FramesRun, SwitchedOut, NewTasks
<1>9. PlacesAndStates' /\ Registers'
  BY <1>1, <1>2, <1>3, <1>4 DEF SInv, PlacesAndStates, Registers
<1> QED BY <1>5, <1>6, <1>7, <1>8, <1>9 DEF SInv

-----------------------------------------------------------------------------
\* Every step of the scheduler on the CPU preserves the invariant.
LEMMA NextSInv == SInv /\ [Next]_vars => SInv'
<1> SUFFICES ASSUME SInv, [Next]_vars PROVE SInv'
  OBVIOUS
<1>1. CASE UNCHANGED vars
  <2>1. /\ UNCHANGED <<run_queue, current_task, state, insched, flags, sframe>>
        /\ UNCHANGED <<cpu, at, frame, mm, ursp, panicked>>
    BY <1>1 DEF vars, schedVars, ctxVars
  <2>2. IInv'
    BY <2>1 DEF SInv, IInv, QueueTypeOK, RunQueueInv, NoDuplicates,
       QueueIsRunnable, CurrentIsHead, Queued, IdleRuns
  <2> QED BY <2>1, <2>2 DEF SInv, TypeOK, IInv, HandlersSeeRunning,
     InterruptFlagByPlace, Running, Contexts, OpenIsRunning, HandlerHasFrame,
     FramesRun, SwitchedOut, NewTasks, PlacesAndStates, Registers
<1>2. CASE Next
  <2>1. ASSUME Handlers PROVE SInv'
    BY <2>1, TimerStep, WakeStep, InterruptStep DEF Handlers
  <2>2. ASSUME Kernel_step PROVE SInv'
    BY <2>1, <2>2, KmainStep, InitTaskStep, SyscallStep, ReturnStep, InterruptStep DEF Kernel_step
  <2>3. ASSUME Halted PROVE SInv'
    BY <1>1, <2>3 DEF Halted
  <2> QED BY <1>2, <2>2, <2>3, SyscallStep, InterruptStep DEF Next
<1> QED BY <1>1, <1>2

\* The invariant holds in every reachable state.
THEOREM SchedInductive == Spec => []SInv
BY InitSInv, NextSInv, PTL DEF Spec

\* Every step on the CPU is a step of the policy or leaves its variables alone;
\* that a tick or a wake-up never meets a task on its way to sleep is
\* HandlersSeeRunning.
LEMMA StepRefines == SInv /\ [Next]_vars => [PolicyNext]_schedVars
<1> SUFFICES ASSUME SInv, [Next]_vars PROVE [PolicyNext]_schedVars
  OBVIOUS
<1> USE IdleAssumption
<1>1. CASE UNCHANGED vars
  BY <1>1 DEF vars
<1>2. CASE Kmain
  <2>1. ASSUME Kmain_schedule PROVE Schedule
    BY Zenon, <2>1 DEF Kmain_schedule, Do_schedule, Schedule, Running
  <2> QED BY <1>2, <2>1 DEF Kmain, Kthread_run, Kthread_run_fails, Panic,
       Local_irq_enable, PolicyNext
<1>3. ASSUME NEW t \in Tasks, Init_task(t) PROVE UNCHANGED schedVars
  BY <1>3 DEF Init_task, Mm_create, Activate_mm, Init_task_fails, Panic,
     Ret_from_fork, Iretq
<1>4. ASSUME NEW t \in Tasks, In_syscall(t) PROVE [PolicyNext]_schedVars
  <2>1. ASSUME Sleep(t) PROVE Schedule
    BY Zenon, <2>1 DEF Sleep, Do_schedule, Schedule, Running
  <2>2. ASSUME Sysret(t) PROVE UNCHANGED schedVars
    BY <2>2 DEF Sysret, Panic
  <2> QED BY <1>4, <2>1, <2>2 DEF In_syscall, Prepare, Finish, PolicyNext
<1>5. CASE Handlers
  <2>1. ASSUME Timer_irq_handler PROVE [PolicyNext]_schedVars
    <3>1. Interruptible
      BY <2>1 DEF Timer_irq_handler, SInv, HandlersSeeRunning, Interruptible
    <3> QED BY Zenon, <2>1, <3>1 DEF Timer_irq_handler, Do_schedule, Panic, Tick, PolicyNext
  <2>2. ASSUME NEW t \in Tasks, Wake_up_task(t) PROVE Wake_up(t)
    BY <2>2 DEF Wake_up_task, SInv, HandlersSeeRunning, Wake_up, Interruptible
  <2> QED BY <1>5, <2>1, <2>2 DEF Handlers, Ps2_irq, Handler_returns, PolicyNext
<1>6. CASE \E p \in Procs : Sched_return(p) \/ Irq_return(p)
  BY <1>6 DEF Sched_return, Irq_return
<1>7. CASE (\E t \in Tasks : Syscall_entry(t)) \/ (\E v \in Vectors : Irq_entry(v)) \/ Halted
  BY Zenon, <1>7 DEF Syscall_entry, Panic, Irq_entry, Halted, vars
<1> QED BY <1>1, <1>2, <1>3, <1>4, <1>5, <1>6, <1>7 DEF Next, Kernel_step

\* For any set of tasks, the scheduler on the CPU, with its interrupts, saved
\* contexts and system calls, implements the scheduling policy.
THEOREM SchedImplements == Spec => ImplementsRunQueue
<1>1. Init => PolicyInit
  BY DEF Init
<1> QED BY <1>1, SchedInductive, StepRefines, PTL DEF Spec, ImplementsRunQueue, PolicySpec

\* For any set of tasks, sched.c's list stays sound although it is changed
\* from interrupt handlers and from system calls.
THEOREM SchedQueueCorrect == Spec => []RunQueueInv
BY SchedImplements, RunQueueCorrect, PTL DEF ImplementsRunQueue

\* For any set of tasks, the registers, the per-CPU data and the saved
\* contexts keep their types.
THEOREM SchedTypeCorrect == Spec => []TypeOK
<1>1. SInv => TypeOK
  BY DEF SInv
<1> QED BY SchedInductive, <1>1, PTL

\* For any set of tasks, no handler runs on a task between prepare_to_wait()
\* and schedule(), so wake_up_task() never links a task twice.
THEOREM HandlersCorrect == Spec => []HandlersSeeRunning
<1>1. SInv => HandlersSeeRunning
  BY DEF SInv
<1> QED BY SchedInductive, <1>1, PTL

\* For any set of tasks, each place of the code runs with the interrupt flag
\* it was written for, whoever restored it; the idle task never halts with
\* interrupts off.
THEOREM FlagCorrect == Spec => []InterruptFlagByPlace
<1>1. SInv => InterruptFlagByPlace
  BY DEF SInv
<1> QED BY SchedInductive, <1>1, PTL

\* For any set of tasks, the two copies of the current task agree, so the
\* check of timer_irq_handler() never fails.
THEOREM CurrentCorrect == Spec => []CurrentAgrees
<1>1. SInv => CurrentAgrees
  BY DEF SInv, Registers, CurrentAgrees
<1> QED BY SchedInductive, <1>1, PTL

\* For any set of tasks, a task that can enter the kernel from user mode finds
\* its own kernel stack and its own page tables.
THEOREM OwnContextCorrect == Spec => []OwnStackAndMemory
<1>1. SInv => OwnStackAndMemory
  <2>1. ASSUME SInv, at[current_task] \in {"load", "iret", "user", "syscall", "exit"}
        PROVE  cpu.kernel_stack = current_task /\ cpu.rsp0 = current_task
               /\ cpu.cr3 = current_task
    <3>1. current_task # Idle
      BY <2>1 DEF SInv, PlacesAndStates
    <3> QED BY <2>1, <3>1 DEF SInv, Registers, UsesMm
  <2> QED BY <2>1 DEF OwnStackAndMemory
<1> QED BY SchedInductive, <1>1, PTL

\* Whenever the CPU accepts interrupts, the local APIC delivers them: the end
\* of interrupt of the timer precedes the task switch.
THEOREM ApicCorrect == Spec => []ApicDelivers
<1>1. SInv => ApicDelivers
  BY DEF SInv, Contexts, OpenIsRunning, HandlerHasFrame, ApicDelivers
<1> QED BY SchedInductive, <1>1, PTL

\* For any set of tasks, a system call gives up the processor only to sleep.
THEOREM SyscallsCorrect == Spec => SyscallsNotPreempted
<1> DEFINE Step == (at[current_task] \in {"syscall", "exit"} /\ current_task' # current_task)
                     => state[current_task] = "INTERRUPTIBLE"
<1>1. SInv /\ [Next]_vars => [Step]_vars
  <2> SUFFICES ASSUME SInv, Next, current_task' # current_task,
                      at[current_task] \in {"syscall", "exit"}
               PROVE  state[current_task] = "INTERRUPTIBLE"
    BY DEF vars, schedVars
  <2>1. ASSUME NEW t \in Tasks, Sleep(t) PROVE state[current_task] = "INTERRUPTIBLE"
    BY <2>1 DEF Sleep, Running
  <2>2. ~Kmain_schedule
    BY Zenon DEF Kmain_schedule, Go, Running
  <2>3. ~Timer_irq_handler
    BY Zenon DEF Timer_irq_handler, Panic, schedVars, SInv, TypeOK, QueueTypeOK, Contexts,
       HandlerHasFrame, FramesRun, Open
  <2>4. ~Kmain
    BY <2>2 DEF Kmain, Kthread_run, New_task, Kthread_run_fails, Panic, Local_irq_enable, schedVars
  <2>5. \A t \in Tasks : ~Init_task(t)
    BY DEF Init_task, Mm_create, Activate_mm, Init_task_fails, Panic,
       Ret_from_fork, Iretq, schedVars
  <2>6. \A t \in Tasks : In_syscall(t) => Sleep(t)
    BY DEF In_syscall, Prepare, Finish, Set_state, Sysret, Panic, schedVars
  <2>7. ~Handlers
    BY <2>3 DEF Handlers, Ps2_irq, Handler_returns, Wake_up_task, schedVars
  <2>8. \A p \in Procs : ~Sched_return(p) /\ ~Irq_return(p)
    BY DEF Sched_return, Irq_return, schedVars
  <2>9. /\ \A t \in Tasks : ~Syscall_entry(t)
        /\ \A v \in Vectors : ~Irq_entry(v)
        /\ ~Halted
    BY Zenon DEF Syscall_entry, Panic, Irq_entry, Halted, vars, schedVars
  <2> QED BY <2>1, <2>4, <2>5, <2>6, <2>7, <2>8, <2>9 DEF Next, Kernel_step
<1> QED BY <1>1, SchedInductive, PTL DEF Spec, SyscallsNotPreempted
-----------------------------------------------------------------------------
\* While init is the only task: the GS base is the user's exactly where user
\* code, or the iretq that leads to it, stands without an interrupt frame,
GsByPlace ==
  cpu.gs = "user" <=> \E t \in Tasks : at[t] = "iret" \/ (at[t] = "user" /\ ~frame[t])

\* and the slot cpu0_data.user_rsp is the task's from syscall_entry to sysret.
StackByPlace ==
  \A t \in Tasks : ursp[t] = t /\ (at[t] \in {"syscall", "exit"} => cpu.user_rsp = t)

AloneInv == Alone => GsByPlace /\ StackByPlace

\* Steps that change neither the GS base nor the place, the frame or the user
\* stack of a task that is past ret_from_fork keep the invariant.
LEMMA AloneFrameStep ==
  ASSUME AloneInv, Alone' => Alone,
         cpu'.gs = cpu.gs, cpu'.user_rsp = cpu.user_rsp, ursp' = ursp,
         \A t \in Tasks :
           /\ at'[t] = "iret" <=> at[t] = "iret"
           /\ at'[t] = "user" <=> at[t] = "user"
           /\ at'[t] \in {"syscall", "exit"} => at[t] \in {"syscall", "exit"}
           /\ at[t] = "user" => (frame'[t] <=> frame[t])
  PROVE  AloneInv'
<1> SUFFICES ASSUME Alone' PROVE GsByPlace' /\ StackByPlace'
  BY DEF AloneInv
<1>1. GsByPlace /\ StackByPlace
  BY DEF AloneInv
<1>2. GsByPlace'
  BY <1>1 DEF GsByPlace
<1>3. StackByPlace'
  BY <1>1 DEF StackByPlace
<1> QED BY <1>2, <1>3

\* A step of the only task from one place to another: the GS base and the slot
\* for the user stack follow it.
LEMMA AlonePlaceStep ==
  ASSUME SInv, AloneInv, NEW t \in Tasks, NEW place,
         at[t] # "none", place # "none",
         at' = [at EXCEPT ![t] = place],
         ~frame[t], frame' = frame,
         GsByPlace => (cpu'.gs = "user" <=> place \in {"iret", "user"}),
         StackByPlace => ursp'[t] = t /\ (place \in {"syscall", "exit"} => cpu'.user_rsp = t),
         \A u \in Tasks \ {t} : ursp'[u] = ursp[u]
  PROVE  AloneInv'
<1>1. at \in [Procs -> Places] /\ t \in Procs /\ Tasks \subseteq Procs
  BY DEF SInv, TypeOK, Procs
<1>2. \A u \in Tasks : at'[u] = IF u = t THEN place ELSE at[u]
  BY <1>1
<1> SUFFICES ASSUME Alone' PROVE GsByPlace' /\ StackByPlace'
  BY DEF AloneInv
<1>3. \A u \in Tasks \ {t} : at[u] = "none"
  BY <1>2 DEF Alone
<1>4. Alone
  BY <1>3 DEF Alone
<1>5. GsByPlace /\ StackByPlace
  BY <1>4 DEF AloneInv
<1>6. GsByPlace'
  BY <1>2, <1>3, <1>5 DEF GsByPlace
<1>7. StackByPlace'
  BY <1>2, <1>3, <1>5 DEF StackByPlace
<1> QED BY <1>6, <1>7

\* No task ever goes away, so a task that is alone has always been.
LEMMA AloneBefore == SInv /\ [Next]_vars => (Alone' => Alone)
<1> SUFFICES ASSUME SInv, [Next]_vars, NEW t \in Tasks, at[t] # "none"
             PROVE  at'[t] # "none"
  BY DEF Alone
<1>1. /\ at \in [Procs -> Places] /\ t \in Procs /\ Idle \in Procs /\ Tasks \subseteq Procs
      /\ at[Idle] # "none"
  BY DEF SInv, TypeOK, Procs, PlacesAndStates
<1>2. CASE at' = at
  BY <1>2
<1>3. CASE \E p \in Procs, place \in Places \ {"none"} : at' = [at EXCEPT ![p] = place]
  BY <1>1, <1>3
<1>4. ASSUME NEW p \in Procs, NEW from, NEW place \in Places \ {"none"}, Go(p, from, place)
      PROVE  at'[t] # "none"
  BY <1>1, <1>4 DEF Go
<1>5. CASE UNCHANGED vars
  BY <1>2, <1>5 DEF vars
<1>6. CASE Kmain
  BY Zenon, <1>1, <1>2, <1>3, <1>4, <1>6 DEF Kmain, Kthread_run, Kthread_run_fails, Local_irq_enable,
     Kmain_schedule, Panic, Places
<1>7. CASE \E u \in Tasks : Init_task(u)
  BY <1>1, <1>2, <1>4, <1>7 DEF Init_task, Mm_create, Activate_mm, Init_task_fails,
     Ret_from_fork, Iretq, Panic, Places
<1>8. CASE \E u \in Tasks : In_syscall(u) \/ Syscall_entry(u)
  BY Zenon, <1>1, <1>2, <1>4, <1>8 DEF In_syscall, Prepare, Sleep, Finish, Sysret, Syscall_entry, Panic, Places
<1>9. CASE Handlers
  BY Zenon, <1>2, <1>9 DEF Handlers, Timer_irq_handler, Ps2_irq, Wake_up_task, Handler_returns, Panic
<1>10. CASE \E p \in Procs : Sched_return(p) \/ Irq_return(p)
  BY <1>2, <1>10 DEF Sched_return, Irq_return
<1>11. CASE (\E v \in Vectors : Irq_entry(v)) \/ Halted
  BY Zenon, <1>2, <1>5, <1>11 DEF Irq_entry, Halted
<1> QED BY <1>5, <1>6, <1>7, <1>8, <1>9, <1>10, <1>11 DEF Next, Kernel_step

\* An interrupt that comes from user mode, or returns there, swaps GS and
\* takes or gives back the frame in one step.
LEMMA AloneCrossStep ==
  ASSUME SInv, AloneInv, Alone' => Alone,
         NEW on \in BOOLEAN, frame[current_task] <=> ~on,
         frame' = [frame EXCEPT ![current_task] = on],
         cpu'.gs = Crossed(current_task, cpu.gs), cpu'.user_rsp = cpu.user_rsp,
         UNCHANGED <<at, ursp>>
  PROVE  AloneInv'
<1> DEFINE p == current_task
<1>1. /\ frame \in [Procs -> BOOLEAN] /\ p \in Procs /\ Tasks \subseteq Procs
      /\ cpu.gs \in {"kernel", "user"} /\ at[Idle] # "user"
  BY DEF SInv, TypeOK, QueueTypeOK, CpuType, Procs, PlacesAndStates
<1>2. \A t \in Tasks : frame'[t] <=> IF t = p THEN on ELSE frame[t]
  BY <1>1
<1>3. CASE at[p] # "user"
  <2>1. cpu'.gs = cpu.gs
    BY <1>3 DEF Crossed
  <2>2. \A t \in Tasks : at[t] = "user" => (frame'[t] <=> frame[t])
    BY <1>2, <1>3
  <2> QED BY <2>1, <2>2, AloneFrameStep
<1>4. CASE at[p] = "user"
  <2> SUFFICES ASSUME Alone' PROVE GsByPlace' /\ StackByPlace'
    BY DEF AloneInv
  <2>1. p \in Tasks
    BY <1>1, <1>4 DEF Procs
  <2>2. GsByPlace /\ StackByPlace /\ \A t \in Tasks \ {p} : at[t] = "none"
    BY <1>4, <2>1 DEF AloneInv, Alone
  <2>3. cpu.gs = "user" <=> ~frame[p]
    BY <1>4, <2>1, <2>2 DEF GsByPlace
  <2>4. cpu'.gs = "user" <=> ~on
    BY <1>1, <1>4, <2>3 DEF Crossed, Swapped
  <2>5. GsByPlace'
    BY <1>2, <1>4, <2>1, <2>2, <2>4 DEF GsByPlace
  <2>6. StackByPlace'
    BY <2>2 DEF StackByPlace
  <2> QED BY <2>5, <2>6
<1> QED BY <1>3, <1>4

\* Every step keeps the GS base and the user stack of an only task in place.
LEMMA NextAlone == SInv /\ AloneInv /\ [Next]_vars => AloneInv'
<1> SUFFICES ASSUME SInv, AloneInv, [Next]_vars PROVE AloneInv'
  OBVIOUS
<1>1. Alone' => Alone
  BY AloneBefore
<1>2. /\ at \in [Procs -> Places] /\ frame \in [Procs -> BOOLEAN] /\ cpu \in CpuType
      /\ ursp \in [Procs -> Procs] /\ Tasks \subseteq Procs /\ Idle \in Procs
      /\ current_task \in Procs
  BY DEF SInv, TypeOK, QueueTypeOK, Procs
<1>3. CASE cpu' = cpu /\ UNCHANGED <<at, frame, ursp>>
  BY <1>1, <1>3, AloneFrameStep
<1>4. ASSUME Panic \/ UNCHANGED vars PROVE AloneInv'
  BY <1>3, <1>4 DEF Panic, vars
<1>5. ASSUME NEW preempt, NEW c, c.gs = cpu.gs, c.user_rsp = cpu.user_rsp, c \in CpuType,
             Do_schedule(preempt, c)
      PROVE  cpu'.gs = cpu.gs /\ cpu'.user_rsp = cpu.user_rsp
  <2>1. \A n : Arch_switch_to(c, n).gs = c.gs /\ Arch_switch_to(c, n).user_rsp = c.user_rsp
    BY <1>5 DEF Arch_switch_to, CpuType
  <2> QED BY <1>5, <2>1 DEF Do_schedule
<1>6. CASE Kmain
  <2>1. ASSUME NEW t \in Tasks, Kthread_run(t) PROVE AloneInv'
    <3>1. at[t] = "none" /\ at' = [at EXCEPT ![t] = "fork"] /\ cpu' = cpu /\ UNCHANGED <<frame, ursp>>
      BY <2>1 DEF Kthread_run, New_task, SInv, PlacesAndStates
    <3>2. \A u \in Tasks : at'[u] = IF u = t THEN "fork" ELSE at[u]
      BY <1>2, <3>1
    <3> QED BY <1>1, <3>1, <3>2, AloneFrameStep
  <2>2. ASSUME Local_irq_enable PROVE AloneInv'
    <3>1. /\ at' = [at EXCEPT ![Idle] = "sched"] /\ UNCHANGED <<frame, ursp>>
          /\ cpu'.gs = cpu.gs /\ cpu'.user_rsp = cpu.user_rsp
      BY <1>2, <2>2 DEF Local_irq_enable, Go, CpuType
    <3>2. \A u \in Tasks : at'[u] = at[u]
      BY <1>2, <3>1, IdleAssumption
    <3> QED BY <1>1, <3>1, <3>2, AloneFrameStep
  <2>3. ASSUME Kmain_schedule PROVE AloneInv'
    <3>1. /\ at' = [at EXCEPT ![Idle] = "hlt"] /\ UNCHANGED <<frame, ursp>>
          /\ cpu'.gs = cpu.gs /\ cpu'.user_rsp = cpu.user_rsp
      BY Zenon, <1>2, <1>5, <2>3 DEF Kmain_schedule, Go
    <3>2. \A u \in Tasks : at'[u] = at[u]
      BY <1>2, <3>1, IdleAssumption
    <3> QED BY <1>1, <3>1, <3>2, AloneFrameStep
  <2> QED BY <1>4, <1>6, <2>1, <2>2, <2>3 DEF Kmain, Kthread_run_fails
<1>7. ASSUME NEW t \in Tasks, Init_task(t) PROVE AloneInv'
  <2>1. ASSUME Mm_create(t) \/ Activate_mm(t) PROVE AloneInv'
    <3>1. /\ at[t] \in {"fork", "mm"} /\ UNCHANGED <<frame, ursp>>
          /\ \E place \in {"mm", "load"} : at' = [at EXCEPT ![t] = place]
          /\ cpu'.gs = cpu.gs /\ cpu'.user_rsp = cpu.user_rsp
      BY <1>2, <2>1 DEF Mm_create, Activate_mm, Go, CpuType
    <3>2. \A u \in Tasks : at'[u] = at[u] \/ (u = t /\ at'[u] \in {"mm", "load"})
      BY <1>2, <3>1
    <3> QED BY <1>1, <3>1, <3>2, AloneFrameStep
  <2>2. ASSUME Ret_from_fork(t) PROVE AloneInv'
    <3>1. /\ at[t] = "load" /\ ~frame[t] /\ UNCHANGED <<frame, ursp>>
          /\ at' = [at EXCEPT ![t] = "iret"]
          /\ cpu'.gs = Swapped(cpu.gs) /\ cpu'.user_rsp = cpu.user_rsp
      BY <1>2, <2>2 DEF Ret_from_fork, Go, Running, CpuType
    <3>2. at' = [at EXCEPT ![t] = "iret"] => \A u \in Tasks : at'[u] = IF u = t THEN "iret" ELSE at[u]
      BY <1>2
    <3> SUFFICES ASSUME Alone' PROVE GsByPlace' /\ StackByPlace'
      BY DEF AloneInv
    <3>3. GsByPlace /\ StackByPlace /\ \A u \in Tasks \ {t} : at[u] = "none"
      BY <1>1, <3>1 DEF AloneInv, Alone
    <3>4. cpu.gs # "user"
      BY <3>1, <3>3 DEF GsByPlace
    <3>5. cpu'.gs = "user"
      BY <1>2, <3>1, <3>4 DEF Swapped, CpuType
    <3> QED BY <3>1, <3>2, <3>3, <3>5 DEF GsByPlace, StackByPlace
  <2>3. ASSUME Iretq(t) PROVE AloneInv'
    <3>1. /\ at[t] = "iret" /\ ~frame[t] /\ UNCHANGED <<frame, ursp>>
          /\ at' = [at EXCEPT ![t] = "user"]
          /\ cpu'.gs = cpu.gs /\ cpu'.user_rsp = cpu.user_rsp
      BY <1>2, <2>3 DEF Iretq, Go, Running, CpuType
    <3>2. GsByPlace => cpu'.gs = "user"
      BY <3>1 DEF GsByPlace
    <3>3. StackByPlace => ursp'[t] = t
      BY <3>1 DEF StackByPlace
    <3> QED BY Zenon, <3>1, <3>2, <3>3, AlonePlaceStep
  <2> QED BY <1>4, <1>7, <2>1, <2>2, <2>3 DEF Init_task, Init_task_fails
<1>8. ASSUME NEW t \in Tasks, In_syscall(t) \/ Syscall_entry(t) PROVE AloneInv'
  <2>1. ASSUME Prepare(t) PROVE AloneInv'
    BY <1>3, <2>1 DEF Prepare
  <2>2. ASSUME Sleep(t) PROVE AloneInv'
    <3>1. UNCHANGED <<at, frame, ursp>> /\ cpu'.gs = cpu.gs /\ cpu'.user_rsp = cpu.user_rsp
      BY Zenon, <1>2, <1>5, <2>2 DEF Sleep
    <3> QED BY <1>1, <3>1, AloneFrameStep
  <2>3. ASSUME Finish(t) PROVE AloneInv'
    <3>1. at[t] = "syscall" /\ at' = [at EXCEPT ![t] = "exit"] /\ cpu' = cpu /\ UNCHANGED <<frame, ursp>>
      BY <2>3 DEF Finish, Go
    <3>2. \A u \in Tasks : at'[u] = IF u = t THEN "exit" ELSE at[u]
      BY <1>2, <3>1
    <3> QED BY <1>1, <3>1, <3>2, AloneFrameStep
  <2>4. ASSUME Sysret(t), cpu.gs = "kernel" PROVE AloneInv'
    <3>1. /\ at[t] = "exit" /\ ~frame[t] /\ frame' = frame
          /\ at' = [at EXCEPT ![t] = "user"]
          /\ cpu'.gs = "user" /\ ursp' = [ursp EXCEPT ![t] = cpu.user_rsp]
      BY Zenon, <1>2, <2>4 DEF Sysret, Go, Running, CpuType
    <3>2. StackByPlace => ursp'[t] = t
      BY <1>2, <3>1 DEF StackByPlace
    <3>3. \A u \in Tasks \ {t} : ursp'[u] = ursp[u]
      BY <1>2, <3>1
    <3> QED BY Zenon, <3>1, <3>2, <3>3, AlonePlaceStep
  <2>5. ASSUME Syscall_entry(t), cpu.gs = "user" PROVE AloneInv'
    <3>1. /\ at[t] = "user" /\ ~frame[t] /\ UNCHANGED <<frame, ursp>>
          /\ at' = [at EXCEPT ![t] = "syscall"]
          /\ cpu'.gs = "kernel" /\ cpu'.user_rsp = ursp[t]
      BY Zenon, <1>2, <2>5 DEF Syscall_entry, Go, Running, CpuType
    <3>2. StackByPlace => ursp'[t] = t /\ cpu'.user_rsp = t
      BY <3>1 DEF StackByPlace
    <3> QED BY Zenon, <3>1, <3>2, AlonePlaceStep
  <2>6. ASSUME Sysret(t) PROVE AloneInv'
    BY <1>4, <2>4, <2>6 DEF Sysret
  <2>7. ASSUME Syscall_entry(t) PROVE AloneInv'
    BY <1>4, <2>5, <2>7 DEF Syscall_entry
  <2> QED BY <1>8, <2>1, <2>2, <2>3, <2>6, <2>7 DEF In_syscall
<1>9. CASE Handlers
  <2>1. ASSUME Timer_irq_handler PROVE AloneInv'
    <3>1. Eoi("none").gs = cpu.gs /\ Eoi("none").user_rsp = cpu.user_rsp /\ Eoi("none") \in CpuType
      BY Zenon, <1>2 DEF Eoi, CpuType
    <3>2. CASE cpu.current = current_task
      <4>1. UNCHANGED <<at, frame, ursp>> /\ Do_schedule(TRUE, Eoi("none"))
        BY Zenon, <2>1, <3>2 DEF Timer_irq_handler
      <4>2. cpu'.gs = cpu.gs /\ cpu'.user_rsp = cpu.user_rsp
        BY Zenon, <1>5, <3>1, <4>1
      <4> QED BY <1>1, <4>1, <4>2, AloneFrameStep
    <3>3. CASE cpu.current # current_task
      BY <1>4, <2>1, <3>3 DEF Timer_irq_handler
    <3> QED BY <3>2, <3>3
  <2>2. ASSUME Ps2_irq \/ Handler_returns PROVE AloneInv'
    <3>1. UNCHANGED <<at, frame, ursp>> /\ cpu'.gs = cpu.gs /\ cpu'.user_rsp = cpu.user_rsp
      BY Zenon, <1>2, <2>2 DEF Ps2_irq, Handler_returns, Eoi, CpuType
    <3> QED BY <1>1, <3>1, AloneFrameStep
  <2>3. ASSUME NEW t \in Tasks, Wake_up_task(t) PROVE AloneInv'
    BY <1>3, <2>3 DEF Wake_up_task
  <2> QED BY <1>9, <2>1, <2>2, <2>3 DEF Handlers
<1>10. ASSUME NEW p \in Procs, Sched_return(p) PROVE AloneInv'
  <2>1. UNCHANGED <<at, frame, ursp>> /\ cpu'.gs = cpu.gs /\ cpu'.user_rsp = cpu.user_rsp
    BY <1>2, <1>10 DEF Sched_return, CpuType
  <2> QED BY <1>1, <2>1, AloneFrameStep
<1>11. ASSUME NEW p \in Procs, Irq_return(p) PROVE AloneInv'
  <2>1. /\ current_task = p /\ frame[p] /\ frame' = [frame EXCEPT ![current_task] = FALSE]
        /\ cpu'.gs = Crossed(current_task, cpu.gs) /\ cpu'.user_rsp = cpu.user_rsp
        /\ UNCHANGED <<at, ursp>>
    BY <1>2, <1>11 DEF Irq_return, CpuType
  <2> QED BY Zenon, <1>1, <2>1, AloneCrossStep
<1>12. ASSUME NEW v \in Vectors, Irq_entry(v) PROVE AloneInv'
  <2>1. ~frame[current_task]
    BY <1>12 DEF Irq_entry, SInv, Contexts, OpenIsRunning
  <2>2. /\ frame' = [frame EXCEPT ![current_task] = TRUE]
        /\ cpu'.gs = Crossed(current_task, cpu.gs) /\ cpu'.user_rsp = cpu.user_rsp
        /\ UNCHANGED <<at, ursp>>
    BY <1>2, <1>12 DEF Irq_entry, CpuType
  <2> QED BY Zenon, <1>1, <2>1, <2>2, AloneCrossStep
<1> QED BY <1>4, <1>6, <1>7, <1>8, <1>9, <1>10, <1>11, <1>12 DEF Next, Kernel_step, Halted

\* For any set of tasks that may be created: while there is only one, as in
\* kmain() of today, it runs user code with the user's GS base, on the stack
\* its last system call was made on, whatever interrupts came in between.
THEOREM InitContextCorrect == Spec => []InitContextKept
<1>1. Init => AloneInv
  BY IdleAssumption DEF Init, AloneInv, GsByPlace, StackByPlace, Procs
<1>2. AloneInv => InitContextKept
  BY DEF AloneInv, InitContextKept, GsMatchesMode, UserStackRestored, GsByPlace, StackByPlace, Running
<1> QED BY <1>1, <1>2, SchedInductive, NextAlone, PTL DEF Spec
=============================================================================
