------------------------------ MODULE Scheduler ------------------------------
(***************************************************************************)
(* The SMP task scheduler (src/core/scheduler.cpp).                        *)
(*                                                                         *)
(* Every critical section of g_sched_lock is one action: the lock is held  *)
(* with local interrupts off.  What the code does after it releases the    *)
(* lock is a separate step, because other CPUs run in between.  preempt()  *)
(* is therefore two steps: the section that picks the next task, and the   *)
(* tail (pc = "switch") that still executes on the previous task's stack   *)
(* until interrupt return.                                                 *)
(*                                                                         *)
(* Abstractions.  A task's code is a control state tpc, advanced only by   *)
(* the CPU that executes the task.  wake_tick is kept as the number of     *)
(* ticks left (wake_tick - g_tick_count, 0 once due), so the tick counter  *)
(* itself is not a variable.  last_cpu, run_tick_start and cpu_ticks feed  *)
(* only the task list shown to users and are left out, as are names.       *)
(***************************************************************************)
EXTENDS Integers, FiniteSets

CONSTANTS
    Cpus,       \* the online CPUs, by APIC id
    Bsp,        \* g_bsp_apic_id
    NoCpu,      \* SCHED_CPU_NONE
    MaxTasks,   \* MAX_TASKS
    BootTasks,  \* how many tasks efi_main creates before sched::start
    Ctxs,       \* process contexts a task's user_data may point to
    NoCtx,      \* the null pointer
    MaxId,      \* bound: task ids handed out
    MaxSleep,   \* bound: the longest sleep requested, in ticks
    Ops         \* the scheduler calls the running programs make

ASSUME CpuAssumption == Bsp \in Cpus /\ NoCpu \notin Cpus
ASSUME TaskAssumption == MaxTasks \in Nat /\ BootTasks \in 2..MaxTasks
ASSUME CtxAssumption == NoCtx \notin Ctxs
ASSUME BoundAssumption == MaxId \in Nat /\ MaxSleep \in Nat \ {0}

Slots == 0..(MaxTasks - 1)
NoTask == MaxTasks
Ctx == Ctxs \cup {NoCtx}
MaybeCpu == Cpus \cup {NoCpu}

States == {"ready", "running", "blocked", "terminated"}

(* Where a task's kernel code is: in its own code; in sleep()'s loop; in   *)
(* wait_for_task (about to look, or in its sleep(1)); loading an image for *)
(* run or exec; cleaning up a context (another's, its own before exit, the *)
(* old one in exec, or in the exception handler); about to call exit_task; *)
(* in exit_task's loop.                                                    *)
TaskPcs == {"code", "sleep", "wait", "waitsleep", "load", "loadx",
            "kill", "leave", "exec", "fault", "left", "exit"}

VARIABLES
    active,          \* g_scheduler_active
    taskCount,       \* g_task_count
    nextId,          \* g_next_task_id
    id, state, wake, allowSecondary, affinity, currentCpu, userData, \* g_tasks
    cur,             \* g_per_cpu_task
    yieldFlag,       \* g_yield_in_progress
    pc,              \* "run", or "switch": in preempt() after the unlock
    prev,            \* whose stack a CPU in "switch" still executes on
    reap,            \* terminated_ctx of a CPU in "switch"
    tpc,             \* the control state of each task
    pending,         \* yield() has set the flag and not yet raised int 32
    held,            \* a context a task's kernel code has in a local variable
    waitId,          \* the argument of wait_for_task
    resurrected,     \* history: sleep() was called by a terminated task
    drift            \* history: PIT interrupts taken minus ticks counted
                     \*          (kept only until a task is resurrected)

table == <<active, taskCount, nextId, id, state, wake, allowSecondary,
           affinity, currentCpu, userData>>
cpuState == <<cur, yieldFlag, pc, prev, reap>>
taskCode == <<tpc, pending, held, waitId>>
history == <<resurrected, drift>>
vars == <<table, cpuState, taskCode, history>>

TypeOK ==
    /\ active \in BOOLEAN
    /\ taskCount \in 0..MaxTasks
    /\ nextId \in Nat
    /\ id \in [Slots -> Nat]
    /\ state \in [Slots -> States]
    /\ wake \in [Slots -> 0..MaxSleep]
    /\ allowSecondary \in [Slots -> BOOLEAN]
    /\ affinity \in [Slots -> MaybeCpu]
    /\ currentCpu \in [Slots -> MaybeCpu]
    /\ userData \in [Slots -> Ctx]
    /\ cur \in [Cpus -> Slots \cup {NoTask}]
    /\ yieldFlag \in [Cpus -> BOOLEAN]
    /\ pc \in [Cpus -> {"run", "switch"}]
    /\ prev \in [Cpus -> Slots \cup {NoTask}]
    /\ reap \in [Cpus -> Ctx]
    /\ tpc \in [Slots -> TaskPcs]
    /\ pending \in [Slots -> BOOLEAN]
    /\ held \in [Slots -> Ctx]
    /\ waitId \in [Slots -> Nat]
    /\ resurrected \in [Slots -> BOOLEAN]
    /\ drift \in Int

-----------------------------------------------------------------------------
(* sched::init: an empty table, every CPU without a task.                  *)
Init ==
    /\ active = FALSE
    /\ taskCount = 0
    /\ nextId = 1
    /\ id = [s \in Slots |-> 0]
    /\ state = [s \in Slots |-> "ready"]
    /\ wake = [s \in Slots |-> 0]
    /\ allowSecondary = [s \in Slots |-> FALSE]
    /\ affinity = [s \in Slots |-> NoCpu]
    /\ currentCpu = [s \in Slots |-> NoCpu]
    /\ userData = [s \in Slots |-> NoCtx]
    /\ cur = [c \in Cpus |-> NoTask]
    /\ yieldFlag = [c \in Cpus |-> FALSE]
    /\ pc = [c \in Cpus |-> "run"]
    /\ prev = [c \in Cpus |-> NoTask]
    /\ reap = [c \in Cpus |-> NoCtx]
    /\ tpc = [s \in Slots |-> "code"]
    /\ pending = [s \in Slots |-> FALSE]
    /\ held = [s \in Slots |-> NoCtx]
    /\ waitId = [s \in Slots |-> 0]
    /\ resurrected = [s \in Slots |-> FALSE]
    /\ drift = 0

-----------------------------------------------------------------------------
(* Creating tasks.                                                         *)

(* Mutant of Reusable: forgets that a CPU may still execute the task.      *)
ReusableOnCpu(s) == s < taskCount /\ state[s] = "terminated"

Reusable(s) == s < taskCount /\ state[s] = "terminated" /\ currentCpu[s] = NoCpu

(* find_available_task_slot: the first reusable slot, else a fresh one.    *)
AvailableSlot(s) ==
    \/ Reusable(s) /\ \A r \in Slots : r < s => ~Reusable(r)
    \/ s = taskCount /\ \A r \in Slots : ~Reusable(r)

NoAvailableSlot == taskCount = MaxTasks /\ \A r \in Slots : ~Reusable(r)

(* The critical section of create_task with user_data x.                   *)
CreateIn(s, x) ==
    /\ AvailableSlot(s)
    /\ nextId <= MaxId
    /\ nextId' = nextId + 1
    /\ taskCount' = IF s = taskCount THEN taskCount + 1 ELSE taskCount
    /\ id' = [id EXCEPT ![s] = nextId]
    /\ state' = [state EXCEPT ![s] = "ready"]
    /\ wake' = [wake EXCEPT ![s] = 0]
    /\ allowSecondary' = [allowSecondary EXCEPT ![s] = active]
    /\ affinity' = [affinity EXCEPT ![s] = NoCpu]
    /\ currentCpu' = [currentCpu EXCEPT ![s] = NoCpu]
    /\ userData' = [userData EXCEPT ![s] = x]
    /\ pending' = [pending EXCEPT ![s] = FALSE]
    /\ waitId' = [waitId EXCEPT ![s] = 0]
    /\ UNCHANGED <<active, cpuState, history>>

(* efi_main creates its tasks on the BSP before the scheduler is active.   *)
BootCreate(x) ==
    /\ ~active
    /\ taskCount < BootTasks
    /\ \E s \in Slots : CreateIn(s, x)
    /\ UNCHANGED <<tpc, held>>

(* CPU c executes task s at control state p; task 0 (idle) only halts.     *)
Executes(c, s, p) ==
    /\ pc[c] = "run" /\ cur[c] = s
    /\ s \in Slots \ {0}
    /\ tpc[s] = p
    /\ ~pending[s]

(* create_task called by running task t; x is null for a kernel task.      *)
CreateTask(c, t, p, x) ==
    /\ Executes(c, t, p)
    /\ \E s \in Slots :
        /\ CreateIn(s, x)
        /\ tpc' = [tpc EXCEPT ![s] = "code", ![t] = "code"]
        /\ held' = [held EXCEPT ![s] = NoCtx, ![t] = NoCtx]

-----------------------------------------------------------------------------
(* Choosing a task.                                                        *)

(* task_can_run_on_this_cpu *)
CanRunOn(c, s) ==
    /\ s < taskCount
    /\ affinity[s] \in {NoCpu, c}
    /\ s = 0 => c = Bsp
    /\ c # Bsp /\ s # 0 => allowSecondary[s]

Candidate(c, s, st) == st[s] = "ready" /\ CanRunOn(c, s)

(* Mutant of ScanPosition: every scan starts from the first task.          *)
ScanFromFirst(r, s) == s

(* How far pick_next_task's scan has to go from task r to reach task s: it *)
(* starts after r, wraps over 1..taskCount-1, and ends with r itself.      *)
ScanPosition(r, s) ==
    LET start == IF r \in 1..(taskCount - 1) THEN r ELSE 0
    IN  IF s > start THEN s - start ELSE s - start + (taskCount - 1)

(* Mutant of PicksNext: the scan stops before it comes back to r.          *)
PicksOther(c, r, n, st) ==
    /\ Candidate(c, n, st)
    /\ \A s \in Slots \ {0, r} :
        Candidate(c, s, st) => n # 0 /\ ScanPosition(r, n) <= ScanPosition(r, s)

(* pick_next_task(r) returns n, given the task states st; task 0 comes     *)
(* last.                                                                   *)
PicksNext(c, r, n, st) ==
    /\ Candidate(c, n, st)
    /\ \A s \in Slots \ {0} :
        Candidate(c, s, st) => n # 0 /\ ScanPosition(r, n) <= ScanPosition(r, s)

PicksNone(c, st) == \A s \in Slots : ~Candidate(c, s, st)

(* sched::start, on the BSP, switches to the first task.                   *)
Start ==
    /\ ~active
    /\ taskCount = BootTasks
    /\ \E n \in Slots :
        /\ PicksNext(Bsp, NoTask, n, state)
        /\ cur' = [cur EXCEPT ![Bsp] = n]
        /\ state' = [state EXCEPT ![n] = "running"]
        /\ affinity' = [affinity EXCEPT
                ![n] = IF affinity[n] = NoCpu THEN Bsp ELSE affinity[n]]
        /\ currentCpu' = [currentCpu EXCEPT ![n] = Bsp]
    /\ active' = TRUE
    /\ UNCHANGED <<taskCount, nextId, id, wake, allowSecondary, userData,
                   yieldFlag, pc, prev, reap, taskCode, history>>

-----------------------------------------------------------------------------
(* preempt(), entered on CPU c by a timer interrupt or by yield's int 32.  *)
(* Until the scheduler is active it changes nothing.                       *)

(* Mutant of CountsTick: a yield's int 32 counts as a timer tick.          *)
CountsEveryEntry(c) == c = Bsp

(* Only a BSP entry that is not marked as a yield advances g_tick_count.   *)
CountsTick(c) == c = Bsp /\ ~yieldFlag[c]

Clock(c, timer) ==
    /\ yieldFlag' = [yieldFlag EXCEPT ![c] = FALSE]
    /\ wake' = [s \in Slots |->
            IF CountsTick(c) /\ wake[s] > 0 THEN wake[s] - 1 ELSE wake[s]]
    /\ drift' = IF \E s \in Slots : resurrected[s] THEN 0
                ELSE drift + (IF timer /\ c = Bsp THEN 1 ELSE 0)
                           - (IF CountsTick(c) THEN 1 ELSE 0)

(* wake_sleeping_tasks, at the ticks left in w.                            *)
Woken(w) == [s \in Slots |->
    IF s < taskCount /\ state[s] = "blocked" /\ w[s] = 0 THEN "ready" ELSE state[s]]

(* The states after the current task of c has been saved.                  *)
Saved(c, w) == [s \in Slots |->
    IF s = cur[c] /\ Woken(w)[s] = "running" THEN "ready" ELSE Woken(w)[s]]

(* The terminated context that preempt takes from the task it saves.       *)
TakesCtx(c, s) == s = cur[c] /\ state[s] = "terminated" /\ userData[s] # NoCtx

(* A terminated task is detached from its context, which this CPU will     *)
(* clean up after the unlock.                                              *)
SaveCurrent(c) ==
    /\ userData' = [s \in Slots |-> IF TakesCtx(c, s) THEN NoCtx ELSE userData[s]]
    /\ reap' = [reap EXCEPT ![c] =
            IF cur[c] \in Slots /\ TakesCtx(c, cur[c]) THEN userData[cur[c]] ELSE NoCtx]

OffCpu(c) == [s \in Slots |-> IF s = cur[c] THEN NoCpu ELSE currentCpu[s]]

PreemptTo(c, n, timer) ==
    /\ Clock(c, timer)
    /\ PicksNext(c, cur[c], n, Saved(c, wake'))
    /\ SaveCurrent(c)
    /\ cur' = [cur EXCEPT ![c] = n]
    /\ prev' = [prev EXCEPT ![c] = cur[c]]
    /\ pc' = [pc EXCEPT ![c] = "switch"]
    /\ state' = [Saved(c, wake') EXCEPT ![n] = "running"]
    /\ affinity' = [affinity EXCEPT ![n] = IF affinity[n] = NoCpu THEN c ELSE affinity[n]]
    /\ currentCpu' = [OffCpu(c) EXCEPT ![n] = c]

(* Nothing to run and the current task cannot go on: the CPU idles.        *)
PreemptIdle(c, timer) ==
    /\ Clock(c, timer)
    /\ PicksNone(c, Saved(c, wake'))
    /\ cur[c] \in Slots
    /\ Saved(c, wake')[cur[c]] \notin {"ready", "running"}
    /\ SaveCurrent(c)
    /\ cur' = [cur EXCEPT ![c] = NoTask]
    /\ prev' = [prev EXCEPT ![c] = cur[c]]
    /\ pc' = [pc EXCEPT ![c] = "switch"]
    /\ state' = Saved(c, wake')
    /\ currentCpu' = OffCpu(c)
    /\ UNCHANGED affinity

(* Nothing to run: the interrupted code (the idle loop) goes on.           *)
PreemptKeep(c, timer) ==
    /\ Clock(c, timer)
    /\ PicksNone(c, Saved(c, wake'))
    /\ cur[c] \in Slots => Saved(c, wake')[cur[c]] \in {"ready", "running"}
    /\ state' = Saved(c, wake')
    /\ currentCpu' = OffCpu(c)
    /\ UNCHANGED <<cur, prev, pc, reap, affinity, userData>>

Preempt(c, timer) ==
    /\ active
    /\ pc[c] = "run"
    /\ \/ \E n \in Slots : PreemptTo(c, n, timer)
       \/ PreemptIdle(c, timer)
       \/ PreemptKeep(c, timer)
    /\ UNCHANGED <<active, taskCount, nextId, id, allowSecondary, tpc, held,
                   waitId, resurrected>>

(* A PIT or LAPIC timer interrupt; exception handlers run with IF clear.   *)
Timer(c) ==
    /\ cur[c] \in Slots => tpc[cur[c]] # "fault"
    /\ Preempt(c, TRUE)
    /\ UNCHANGED pending

(* The int 32 that ends yield().                                           *)
Int32(c) ==
    /\ cur[c] \in Slots /\ pending[cur[c]]
    /\ Preempt(c, FALSE)
    /\ pending' = [pending EXCEPT ![cur[c]] = FALSE]

(* The tail of preempt: it cleans up reap[c], loads the next task's        *)
(* address space and leaves the old stack.                                 *)
SwitchDone(c) ==
    /\ pc[c] = "switch"
    /\ pc' = [pc EXCEPT ![c] = "run"]
    /\ prev' = [prev EXCEPT ![c] = NoTask]
    /\ reap' = [reap EXCEPT ![c] = NoCtx]
    /\ UNCHANGED <<table, cur, yieldFlag, taskCode, history>>

(* yield() up to the point where interrupts are enabled again; also the    *)
(* body of the loops in sleep() and exit_task().                           *)
Yield(c, s) ==
    /\ \/ "yield" \in Ops /\ Executes(c, s, "code")
       \/ \E p \in {"sleep", "waitsleep"} : Executes(c, s, p) /\ state[s] = "blocked"
       \/ Executes(c, s, "exit")
    /\ yieldFlag' = [yieldFlag EXCEPT ![c] = TRUE]
    /\ pending' = [pending EXCEPT ![s] = TRUE]
    /\ UNCHANGED <<table, cur, pc, prev, reap, tpc, held, waitId, history>>

-----------------------------------------------------------------------------
(* Calls a running task makes.                                             *)

(* The critical section of sleep(n), n > 0; then its loop at p.            *)
SleepFor(s, n, p) ==
    /\ wake' = [wake EXCEPT ![s] = n]
    /\ state' = [state EXCEPT ![s] = "blocked"]
    /\ tpc' = [tpc EXCEPT ![s] = p]
    /\ resurrected' = [resurrected EXCEPT
            ![s] = resurrected[s] \/ state[s] = "terminated"]
    /\ UNCHANGED <<active, taskCount, nextId, id, allowSecondary, affinity,
                   currentCpu, userData, cpuState, pending, held, waitId, drift>>

Sleep(c, s) ==
    /\ "sleep" \in Ops
    /\ Executes(c, s, "code")
    /\ \E n \in 1..MaxSleep : SleepFor(s, n, "sleep")

(* sleep's loop ends once preempt() has made the task runnable again.      *)
SleepDone(c, s) ==
    /\ state[s] # "blocked"
    /\ \/ Executes(c, s, "sleep") /\ tpc' = [tpc EXCEPT ![s] = "code"]
       \/ Executes(c, s, "waitsleep") /\ tpc' = [tpc EXCEPT ![s] = "wait"]
    /\ UNCHANGED <<table, cpuState, pending, held, waitId, history>>

(* wait_for_task(i), for the id of some task created so far.               *)
WaitForTask(c, s) ==
    /\ "wait" \in Ops
    /\ Executes(c, s, "code")
    /\ \E i \in 1..(nextId - 1) : waitId' = [waitId EXCEPT ![s] = i]
    /\ tpc' = [tpc EXCEPT ![s] = "wait"]
    /\ UNCHANGED <<table, cpuState, pending, held, history>>

Finished(r) == state[r] = "terminated" /\ currentCpu[r] = NoCpu /\ userData[r] = NoCtx

(* Mutant of WaitOver: an id that is no longer in the table is waited for. *)
WaitOverIfFound(i) == \E r \in Slots : r < taskCount /\ id[r] = i /\ Finished(r)

(* wait_for_task's unlocked look at the table.                             *)
WaitOver(i) == \A r \in Slots : r < taskCount /\ id[r] = i => Finished(r)

WaitDone(c, s) ==
    /\ Executes(c, s, "wait")
    /\ WaitOver(waitId[s])
    /\ tpc' = [tpc EXCEPT ![s] = "code"]
    /\ waitId' = [waitId EXCEPT ![s] = 0]
    /\ UNCHANGED <<table, cpuState, pending, held, history>>

WaitAgain(c, s) ==
    /\ Executes(c, s, "wait")
    /\ ~WaitOver(waitId[s])
    /\ SleepFor(s, 1, "waitsleep")

(* terminate_task of the task in slot v: its context is taken only when no *)
(* CPU executes it, and then cleaned up by the caller.                     *)
TerminateTask(c, s, v) ==
    /\ "terminate" \in Ops
    /\ Executes(c, s, "code")
    /\ v \in 1..(taskCount - 1)
    /\ state' = [state EXCEPT ![v] = "terminated"]
    /\ wake' = [wake EXCEPT ![v] = 0]
    /\ affinity' = [affinity EXCEPT ![v] = NoCpu]
    /\ LET taken == currentCpu[v] = NoCpu /\ userData[v] # NoCtx
       IN  IF taken
           THEN /\ userData' = [userData EXCEPT ![v] = NoCtx]
                /\ held' = [held EXCEPT ![s] = userData[v]]
                /\ tpc' = [tpc EXCEPT ![s] = "kill"]
           ELSE UNCHANGED <<userData, held, tpc>>
    /\ UNCHANGED <<active, taskCount, nextId, id, allowSecondary, currentCpu,
                   cpuState, pending, waitId, history>>

(* Mutant of ExitTask: user_data keeps pointing to the freed context.      *)
ExitTaskKeepsData(c, s, p) ==
    /\ Executes(c, s, p)
    /\ state' = [state EXCEPT ![s] = "terminated"]
    /\ affinity' = [affinity EXCEPT ![s] = NoCpu]
    /\ tpc' = [tpc EXCEPT ![s] = "exit"]
    /\ held' = [held EXCEPT ![s] = NoCtx]
    /\ UNCHANGED <<active, taskCount, nextId, id, wake, allowSecondary, userData,
                   currentCpu, cpuState, pending, waitId, history>>

(* The critical section of exit_task, called at control state p.           *)
ExitTask(c, s, p) ==
    /\ Executes(c, s, p)
    /\ state' = [state EXCEPT ![s] = "terminated"]
    /\ affinity' = [affinity EXCEPT ![s] = NoCpu]
    /\ userData' = [userData EXCEPT ![s] = NoCtx]
    /\ tpc' = [tpc EXCEPT ![s] = "exit"]
    /\ held' = [held EXCEPT ![s] = NoCtx]
    /\ UNCHANGED <<active, taskCount, nextId, id, wake, allowSecondary,
                   currentCpu, cpuState, pending, waitId, history>>

(* Mutants of ReplaceContext: the task keeps its old context, which exec   *)
(* then frees; or the old one is not handed back to be freed.              *)
ReplaceKeepsOld(c, s) ==
    /\ Executes(c, s, "loadx")
    /\ state[s] # "terminated"
    /\ held' = [held EXCEPT ![s] = userData[s]]
    /\ tpc' = [tpc EXCEPT ![s] = "exec"]
    /\ UNCHANGED <<table, cpuState, pending, waitId, history>>

(* replace_current_task_context from exec_impl: it refuses a task that was *)
(* terminated while it loaded its new image (held).                        *)
ReplaceContext(c, s) ==
    /\ Executes(c, s, "loadx")
    /\ state[s] # "terminated"
    /\ userData' = [userData EXCEPT ![s] = held[s]]
    /\ held' = [held EXCEPT ![s] = userData[s]]
    /\ tpc' = [tpc EXCEPT ![s] = "exec"]
    /\ UNCHANGED <<active, taskCount, nextId, id, state, wake, allowSecondary,
                   affinity, currentCpu, cpuState, pending, waitId, history>>

(* detach_current_task from the exception handler of a faulting process.   *)
DetachCurrent(c, s) ==
    /\ Executes(c, s, "code")
    /\ state' = [state EXCEPT ![s] = "terminated"]
    /\ affinity' = [affinity EXCEPT ![s] = NoCpu]
    /\ userData' = [userData EXCEPT ![s] = NoCtx]
    /\ held' = [held EXCEPT ![s] = userData[s]]
    /\ tpc' = [tpc EXCEPT ![s] = "fault"]
    /\ UNCHANGED <<active, taskCount, nextId, id, wake, allowSecondary,
                   currentCpu, cpuState, pending, waitId, history>>

-----------------------------------------------------------------------------
(* The scheduler with kernel tasks only; ProcessLifecycle adds processes.  *)

TaskStep(c, s) ==
    \/ Yield(c, s)
    \/ Sleep(c, s)
    \/ SleepDone(c, s)
    \/ WaitForTask(c, s)
    \/ WaitDone(c, s)
    \/ WaitAgain(c, s)
    \/ \E v \in Slots : TerminateTask(c, s, v)

Next ==
    \/ BootCreate(NoCtx)
    \/ Start
    \/ \E c \in Cpus :
        \/ Timer(c)
        \/ Int32(c)
        \/ SwitchDone(c)
        \/ \E s \in Slots :
            \/ TaskStep(c, s)
            \/ "create" \in Ops /\ CreateTask(c, s, "code", NoCtx)
            \/ "exit" \in Ops /\ ExitTask(c, s, "code")

Spec == Init /\ [][Next]_vars

(* The next step of the loops of yield, sleep, wait_for_task and exit_task: *)
(* wherever a task is in them, one of these is what its code does next.    *)
LoopStep(s) == \E c \in Cpus :
    \/ cur[c] = s /\ Int32(c)
    \/ SleepDone(c, s)
    \/ WaitDone(c, s)
    \/ WaitAgain(c, s)
    \/ tpc[s] # "code" /\ Yield(c, s)

(* Timers keep firing on every CPU, interrupt handlers run to their end,   *)
(* and a task that is dispatched again and again gets through its loops.   *)
Fairness ==
    /\ WF_vars(BootCreate(NoCtx)) /\ WF_vars(Start)
    /\ \A c \in Cpus : WF_vars(Timer(c)) /\ WF_vars(SwitchDone(c))
    /\ \A s \in Slots \ {0} : SF_vars(LoopStep(s))

FairSpec == Spec /\ Fairness

-----------------------------------------------------------------------------
(* Properties.                                                             *)

(* The stack a CPU executes on.                                            *)
StackOf(c) == IF pc[c] = "switch" THEN prev[c] ELSE cur[c]

(* No two CPUs have dispatched the same task (scheduler.cpp:662-690), unless *)
(* sleep() overwrote a termination: then the cleared affinity no longer    *)
(* keeps a woken task on the CPU that is still executing it.               *)
OneCpuPerTask ==
    \A c, d \in Cpus : c # d /\ cur[c] = cur[d] /\ cur[c] # NoTask
        => resurrected[cur[c]]

(* A task that a CPU has dispatched is recorded as being on that CPU, and  *)
(* stays bound to it until it terminates: whoever takes its context, reuses *)
(* its slot or picks a woken task relies on it (scheduler.cpp:70-75,       *)
(* 684-687, 966-973).                                                      *)
DispatchIsRecorded ==
    \A c \in Cpus : cur[c] # NoTask /\ ~resurrected[cur[c]] =>
        /\ cur[c] < taskCount
        /\ currentCpu[cur[c]] = c
        /\ state[cur[c]] # "terminated" =>
            affinity[cur[c]] = c /\ CanRunOn(c, cur[c])

(* Counting the yield entries apart keeps g_tick_count honest: it never    *)
(* runs ahead of the PIT, and lags it by at most one tick for each task    *)
(* that was preempted inside yield() (scheduler.cpp:610-625).              *)
ClockHonest ==
    (\A s \in Slots : ~resurrected[s]) => drift \in 0..(nextId - 1)

(* A CPU idles only when no task it may run was left ready: the scan of    *)
(* pick_next_task misses none (scheduler.cpp:399-427).                     *)
IdleOnlyWhenNothingToDo ==
    [][\A c \in Cpus : pc[c] = "run" /\ pc'[c] = "switch" /\ cur'[c] \in {0, NoTask}
        => \A s \in Slots \ {0} : ~Candidate(c, s, state')]_vars

(* Every ready task is dispatched sooner or later, whatever the others do: *)
(* the round-robin scan starves nobody (scheduler.cpp:399-427).            *)
ReadyIsDispatched ==
    \A s \in Slots \ {0} :
        (active /\ s < taskCount /\ state[s] = "ready") ~> state[s] # "ready"

(* wait_for_task returns once the task it waits for has terminated, even   *)
(* when its slot is reused meanwhile: every sleep of its loop ends, and it *)
(* sees that the task is gone (scheduler.cpp:369-375, 910-946).            *)
WaitReturns ==
    \A s \in Slots \ {0} :
        (waitId[s] # 0 /\ \A r \in Slots : id[r] = waitId[s] => state[r] = "terminated")
            ~> (waitId[s] = 0 \/ state[s] = "terminated")

(* "Mark the specified task as terminated so it will not be scheduled      *)
(* again." (scheduler.h:121)                                               *)
TerminatedIsFinal ==
    [][\A s \in Slots : state[s] = "terminated" /\ state'[s] # "terminated"
        => id'[s] # id[s]]_vars

(* "Keep a task on the CPU that still owns its unwinding kernel stack."    *)
(* (scheduler.cpp:295)                                                     *)
StackHasOneOwner ==
    \A c, d \in Cpus : c # d /\ StackOf(c) = StackOf(d) => StackOf(c) = NoTask

(* Dispatching is exclusive and recorded: no two CPUs execute one task,    *)
(* and the table says which CPU does.                                      *)
DispatchSound == TypeOK /\ OneCpuPerTask /\ DispatchIsRecorded
=============================================================================
