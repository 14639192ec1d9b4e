--------------------------- MODULE SchedulerProofs ---------------------------
(***************************************************************************)
(* What TLAPS proves of Scheduler for any number of CPUs, task slots,      *)
(* contexts and sleeps, and whatever calls the programs make.              *)
(***************************************************************************)
EXTENDS Scheduler, FiniteSetTheorems, TLAPS

USE CpuAssumption, TaskAssumption, CtxAssumption, BoundAssumption

(* CreateIn, the critical section shared by every create_task.             *)
LEMMA CreateInType ==
    ASSUME TypeOK, NEW s \in Slots, NEW x \in Ctx, CreateIn(s, x)
    PROVE  /\ active' \in BOOLEAN
           /\ taskCount' \in 0..MaxTasks
           /\ nextId' \in Nat
           /\ id' \in [Slots -> Nat]
           /\ state' \in [Slots -> States]
           /\ wake' \in [Slots -> 0..MaxSleep]
           /\ allowSecondary' \in [Slots -> BOOLEAN]
           /\ affinity' \in [Slots -> MaybeCpu]
           /\ currentCpu' \in [Slots -> MaybeCpu]
           /\ userData' \in [Slots -> Ctx]
           /\ pending' \in [Slots -> BOOLEAN]
           /\ waitId' \in [Slots -> Nat]
           /\ UNCHANGED <<cpuState, history>>
<1>1. taskCount' \in 0..MaxTasks
    BY DEF CreateIn, TypeOK, Slots, AvailableSlot, Reusable
<1>2. nextId' \in Nat /\ id' \in [Slots -> Nat] /\ waitId' \in [Slots -> Nat]
    BY DEF CreateIn, TypeOK, Slots
<1>3. state' \in [Slots -> States]
    BY Zenon DEF CreateIn, TypeOK, States
<1>4. wake' \in [Slots -> 0..MaxSleep]
    BY DEF CreateIn, TypeOK
<1>5. /\ allowSecondary' \in [Slots -> BOOLEAN]
      /\ pending' \in [Slots -> BOOLEAN]
      /\ active' \in BOOLEAN
    BY Zenon DEF CreateIn, TypeOK
<1>6. /\ affinity' \in [Slots -> MaybeCpu]
      /\ currentCpu' \in [Slots -> MaybeCpu]
      /\ userData' \in [Slots -> Ctx]
    BY Zenon DEF CreateIn, TypeOK, MaybeCpu, Ctx
<1> QED
    BY <1>1, <1>2, <1>3, <1>4, <1>5, <1>6, Zenon DEF CreateIn

LEMMA SavedType ==
    ASSUME TypeOK, NEW c \in Cpus, NEW w \in [Slots -> 0..MaxSleep]
    PROVE  Saved(c, w) \in [Slots -> States]
BY Zenon DEF TypeOK, Saved, Woken, States

LEMMA ClockType ==
    ASSUME TypeOK, NEW c \in Cpus, NEW timer \in BOOLEAN, Clock(c, timer)
    PROVE  /\ yieldFlag' \in [Cpus -> BOOLEAN]
           /\ wake' \in [Slots -> 0..MaxSleep]
           /\ drift' \in Int
BY DEF TypeOK, Clock

LEMMA SaveCurrentType ==
    ASSUME TypeOK, NEW c \in Cpus, SaveCurrent(c)
    PROVE  userData' \in [Slots -> Ctx] /\ reap' \in [Cpus -> Ctx]
BY Zenon DEF TypeOK, SaveCurrent, TakesCtx, Ctx

LEMMA PreemptType ==
    ASSUME TypeOK, NEW c \in Cpus, NEW timer \in BOOLEAN, Preempt(c, timer),
           pending' \in [Slots -> BOOLEAN]
    PROVE  TypeOK'
<1>1. CASE \E n \in Slots : PreemptTo(c, n, timer)
    <2> PICK n \in Slots : PreemptTo(c, n, timer)
        BY <1>1, Zenon
    <2>1. Clock(c, timer) /\ SaveCurrent(c)
        BY Zenon DEF PreemptTo
    <2>2. wake' \in [Slots -> 0..MaxSleep]
        BY <2>1, ClockType, Zenon
    <2>3. state' \in [Slots -> States]
        BY <2>2, SavedType, Zenon DEF PreemptTo, States
    <2>4. /\ cur' \in [Cpus -> Slots \cup {NoTask}]
          /\ prev' \in [Cpus -> Slots \cup {NoTask}]
          /\ pc' \in [Cpus -> {"run", "switch"}]
        BY Zenon DEF PreemptTo, TypeOK
    <2>5. affinity' \in [Slots -> MaybeCpu] /\ currentCpu' \in [Slots -> MaybeCpu]
        BY Zenon DEF PreemptTo, TypeOK, OffCpu, MaybeCpu
    <2> QED
        BY <2>1, <2>2, <2>3, <2>4, <2>5, ClockType, SaveCurrentType DEF Preempt, TypeOK
<1>2. CASE PreemptIdle(c, timer)
    <2>1. Clock(c, timer) /\ SaveCurrent(c)
        BY <1>2, Zenon DEF PreemptIdle
    <2>2. wake' \in [Slots -> 0..MaxSleep]
        BY <2>1, ClockType, Zenon
    <2>3. state' \in [Slots -> States]
        BY <1>2, <2>2, SavedType, Zenon DEF PreemptIdle
    <2>4. /\ cur' \in [Cpus -> Slots \cup {NoTask}]
          /\ prev' \in [Cpus -> Slots \cup {NoTask}]
          /\ pc' \in [Cpus -> {"run", "switch"}]
        BY <1>2, Zenon DEF PreemptIdle, TypeOK
    <2>5. affinity' \in [Slots -> MaybeCpu] /\ currentCpu' \in [Slots -> MaybeCpu]
        BY <1>2, Zenon DEF PreemptIdle, TypeOK, OffCpu, MaybeCpu
    <2> QED
        BY <2>1, <2>2, <2>3, <2>4, <2>5, ClockType, SaveCurrentType DEF Preempt, TypeOK
<1>3. CASE PreemptKeep(c, timer)
    <2>1. Clock(c, timer)
        BY <1>3, Zenon DEF PreemptKeep
    <2>2. wake' \in [Slots -> 0..MaxSleep]
        BY <2>1, ClockType, Zenon
    <2>3. state' \in [Slots -> States]
        BY <1>3, <2>2, SavedType, Zenon DEF PreemptKeep
    <2>4. currentCpu' \in [Slots -> MaybeCpu]
        BY <1>3, Zenon DEF PreemptKeep, TypeOK, OffCpu, MaybeCpu
    <2> QED
        BY <1>3, <2>1, <2>2, <2>3, <2>4, ClockType DEF PreemptKeep, Preempt, TypeOK
<1> QED
    BY <1>1, <1>2, <1>3, Zenon DEF Preempt

LEMMA SleepForType ==
    ASSUME TypeOK, NEW s \in Slots, NEW n \in 1..MaxSleep, NEW p \in TaskPcs,
           SleepFor(s, n, p)
    PROVE  TypeOK'
BY DEF SleepFor, TypeOK, cpuState, States

LEMMA TaskStepType ==
    ASSUME TypeOK, NEW c \in Cpus, NEW s \in Slots, TaskStep(c, s)
    PROVE  TypeOK'
<1>1. CASE Yield(c, s)
    BY <1>1, Zenon DEF Yield, TypeOK, table, history
<1>2. CASE Sleep(c, s)
    BY <1>2, SleepForType, Zenon DEF Sleep, TaskPcs
<1>3. CASE SleepDone(c, s)
    BY <1>3, Zenon DEF SleepDone, TypeOK, TaskPcs, table, cpuState, history
<1>4. CASE WaitForTask(c, s)
    BY <1>4 DEF WaitForTask, TypeOK, TaskPcs, table, cpuState, history
<1>5. CASE WaitDone(c, s)
    BY <1>5, Zenon DEF WaitDone, TypeOK, TaskPcs, table, cpuState, history
<1>6. CASE WaitAgain(c, s)
    BY <1>6, SleepForType DEF WaitAgain, TaskPcs
<1>7. ASSUME NEW v \in Slots, TerminateTask(c, s, v)
      PROVE  TypeOK'
    BY <1>7 DEF TerminateTask, TypeOK, TaskPcs, States, Ctx, MaybeCpu, cpuState, history
<1> QED
    BY <1>1, <1>2, <1>3, <1>4, <1>5, <1>6, <1>7, Zenon DEF TaskStep

LEMMA TypeStep == TypeOK /\ [Next]_vars => TypeOK'
<1> SUFFICES ASSUME TypeOK, [Next]_vars PROVE TypeOK'
    OBVIOUS
<1>1. CASE BootCreate(NoCtx)
    BY <1>1, CreateInType, Zenon DEF BootCreate, TypeOK, Ctx, cpuState, history
<1>2. CASE Start
    BY <1>2 DEF Start, TypeOK, States, MaybeCpu, taskCode, history
<1>3. ASSUME NEW c \in Cpus, Timer(c)
      PROVE  TypeOK'
    BY <1>3, PreemptType, Zenon DEF Timer, TypeOK
<1>4. ASSUME NEW c \in Cpus, Int32(c)
      PROVE  TypeOK'
    <2>1. pending' \in [Slots -> BOOLEAN]
        BY <1>4, Zenon DEF Int32, TypeOK
    <2> QED
        BY <1>4, <2>1, PreemptType, Zenon DEF Int32
<1>5. ASSUME NEW c \in Cpus, SwitchDone(c)
      PROVE  TypeOK'
    BY <1>5, Zenon DEF SwitchDone, TypeOK, Ctx, table, taskCode, history
<1>6. ASSUME NEW c \in Cpus, NEW s \in Slots, TaskStep(c, s)
      PROVE  TypeOK'
    BY <1>6, TaskStepType, Zenon
<1>7. ASSUME NEW c \in Cpus, NEW s \in Slots, CreateTask(c, s, "code", NoCtx)
      PROVE  TypeOK'
    <2> PICK r \in Slots :
            /\ CreateIn(r, NoCtx)
            /\ tpc' = [tpc EXCEPT ![r] = "code", ![s] = "code"]
            /\ held' = [held EXCEPT ![r] = NoCtx, ![s] = NoCtx]
        BY <1>7, Zenon DEF CreateTask
    <2>1. tpc' \in [Slots -> TaskPcs] /\ held' \in [Slots -> Ctx]
        BY Zenon DEF TypeOK, TaskPcs, Ctx
    <2> QED
        BY <2>1, CreateInType, Zenon DEF TypeOK, Ctx, cpuState, history
<1>8. ASSUME NEW c \in Cpus, NEW s \in Slots, ExitTask(c, s, "code")
      PROVE  TypeOK'
    BY <1>8, Zenon DEF ExitTask, TypeOK, TaskPcs, States, Ctx, MaybeCpu, cpuState, history
<1>9. CASE UNCHANGED vars
    BY <1>9, Zenon DEF TypeOK, vars, table, cpuState, taskCode, history
<1> QED
    BY <1>1, <1>2, <1>3, <1>4, <1>5, <1>6, <1>7, <1>8, <1>9, Zenon DEF Next

LEMMA TypeInit == ASSUME Init PROVE TypeOK
<1>1. /\ active \in BOOLEAN
      /\ allowSecondary \in [Slots -> BOOLEAN]
      /\ yieldFlag \in [Cpus -> BOOLEAN]
      /\ pending \in [Slots -> BOOLEAN]
      /\ resurrected \in [Slots -> BOOLEAN]
    BY Zenon DEF Init
<1>2. /\ taskCount \in 0..MaxTasks
      /\ nextId \in Nat
      /\ id \in [Slots -> Nat]
      /\ wake \in [Slots -> 0..MaxSleep]
      /\ waitId \in [Slots -> Nat]
      /\ drift \in Int
    BY DEF Init
<1>3. /\ affinity \in [Slots -> MaybeCpu]
      /\ currentCpu \in [Slots -> MaybeCpu]
      /\ userData \in [Slots -> Ctx]
      /\ reap \in [Cpus -> Ctx]
      /\ held \in [Slots -> Ctx]
    BY Zenon DEF Init, MaybeCpu, Ctx
<1>4. /\ state \in [Slots -> States]
      /\ cur \in [Cpus -> Slots \cup {NoTask}]
      /\ pc \in [Cpus -> {"run", "switch"}]
      /\ prev \in [Cpus -> Slots \cup {NoTask}]
      /\ tpc \in [Slots -> TaskPcs]
    BY Zenon DEF Init, States, TaskPcs
<1> QED
    BY <1>1, <1>2, <1>3, <1>4, Zenon DEF TypeOK

(* Every variable keeps its type, for any instance of the scheduler.       *)
THEOREM TypeCorrect == Spec => []TypeOK
<1>1. Init => TypeOK
    BY TypeInit, Zenon
<1> QED
    BY <1>1, TypeStep, PTL DEF Spec

-----------------------------------------------------------------------------
(* The inductive invariant: the table records which CPU executes a task,   *)
(* and a task that may still be woken is bound to that CPU.                *)
DispatchInv == TypeOK /\ DispatchIsRecorded

(* Creating a task touches no slot that a CPU executes.                    *)
LEMMA CreateInDispatch ==
    ASSUME DispatchInv, NEW s \in Slots, NEW x \in Ctx, CreateIn(s, x)
    PROVE  DispatchIsRecorded'
<1> SUFFICES ASSUME NEW c \in Cpus, cur[c] # NoTask, ~resurrected[cur[c]]
             PROVE  /\ cur[c] < taskCount'
                    /\ currentCpu'[cur[c]] = c
                    /\ state'[cur[c]] # "terminated" =>
                        affinity'[cur[c]] = c /\ CanRunOn(c, cur[c])'
    BY Zenon DEF DispatchIsRecorded, CreateIn, cpuState, history
<1> DEFINE t == cur[c]
<1>1. /\ t \in Slots /\ t < taskCount /\ currentCpu[t] = c
      /\ state[t] # "terminated" => affinity[t] = c /\ CanRunOn(c, t)
    BY DEF DispatchInv, DispatchIsRecorded, TypeOK
<1>2. s # t
    BY <1>1 DEF CreateIn, AvailableSlot, Reusable, DispatchInv, TypeOK, Slots
<1>3. taskCount' \in {taskCount, taskCount + 1} /\ taskCount \in Nat /\ cur' = cur
    BY DEF CreateIn, DispatchInv, TypeOK, cpuState
<1>4. /\ currentCpu'[t] = currentCpu[t] /\ state'[t] = state[t]
      /\ affinity'[t] = affinity[t] /\ allowSecondary'[t] = allowSecondary[t]
    BY <1>1, <1>2, Zenon DEF CreateIn, DispatchInv, TypeOK
<1> QED
    BY <1>1, <1>3, <1>4 DEF CanRunOn, Slots

(* A task that keeps its slot's record and was not terminated for a while  *)
(* keeps the invariant.                                                    *)
LEMMA RecordKept ==
    ASSUME DispatchInv, UNCHANGED <<cur, taskCount, currentCpu, allowSecondary>>,
           \A s \in Slots : resurrected[s] => resurrected'[s],
           \A s \in Slots : \/ state'[s] = "terminated"
                            \/ resurrected'[s]
                            \/ state[s] # "terminated" /\ affinity'[s] = affinity[s]
    PROVE  DispatchIsRecorded'
<1> SUFFICES ASSUME NEW c \in Cpus, cur[c] # NoTask, ~resurrected'[cur[c]]
             PROVE  /\ cur[c] < taskCount
                    /\ currentCpu[cur[c]] = c
                    /\ state'[cur[c]] # "terminated" =>
                        affinity'[cur[c]] = c /\ CanRunOn(c, cur[c])'
    BY Zenon DEF DispatchIsRecorded
<1>1. cur[c] \in Slots
    BY Zenon DEF DispatchInv, TypeOK
<1>2. /\ cur[c] < taskCount /\ currentCpu[cur[c]] = c
      /\ state[cur[c]] # "terminated" => affinity[cur[c]] = c /\ CanRunOn(c, cur[c])
    BY <1>1, Zenon DEF DispatchInv, DispatchIsRecorded
<1> QED
    BY <1>1, <1>2, Zenon DEF CanRunOn

(* Waking and saving never bring a terminated task back.                   *)
LEMMA SavedTerminated ==
    ASSUME TypeOK, NEW c \in Cpus, NEW w, NEW s \in Slots
    PROVE  Saved(c, w)[s] = "terminated" <=> state[s] = "terminated"
BY Zenon DEF Saved, Woken, TypeOK

(* preempt() on c leaves the record of every other CPU's task alone.       *)
LEMMA OthersKept ==
    ASSUME DispatchInv, NEW c \in Cpus, NEW d \in Cpus, d # c,
           cur[d] # NoTask, ~resurrected[cur[d]]
    PROVE  /\ cur[d] \in Slots
           /\ cur[d] < taskCount
           /\ cur[d] # cur[c]
           /\ OffCpu(c)[cur[d]] = d
           /\ state[cur[d]] # "terminated" =>
                affinity[cur[d]] = d /\ CanRunOn(d, cur[d])
BY DEF DispatchInv, DispatchIsRecorded, OffCpu, TypeOK

LEMMA PreemptDispatch ==
    ASSUME DispatchInv, NEW c \in Cpus, NEW timer \in BOOLEAN, Preempt(c, timer)
    PROVE  DispatchIsRecorded'
<1> DEFINE Record(d) ==
        /\ cur'[d] < taskCount
        /\ currentCpu'[cur'[d]] = d
        /\ state'[cur'[d]] # "terminated" =>
            /\ affinity'[cur'[d]] = d
            /\ cur'[d] = 0 => d = Bsp
            /\ d # Bsp /\ cur'[d] # 0 => allowSecondary[cur'[d]]
<1> SUFFICES ASSUME NEW d \in Cpus, cur'[d] # NoTask, ~resurrected[cur'[d]]
             PROVE  Record(d)
    BY Zenon DEF DispatchIsRecorded, CanRunOn, Preempt
<1>0. TypeOK /\ DispatchIsRecorded
    BY Zenon DEF DispatchInv
<1>1. ASSUME NEW n \in Slots, PreemptTo(c, n, timer)
      PROVE  Record(d)
    <2>1. Candidate(c, n, Saved(c, wake'))
        BY <1>1, Zenon DEF PreemptTo, PicksNext
    <2>2. state[n] # "terminated"
        BY <1>0, <2>1, SavedTerminated, Zenon DEF Candidate
    <2>3. CASE d = c
        BY <1>0, <1>1, <2>1, <2>3, Zenon
        DEF PreemptTo, Candidate, CanRunOn, OffCpu, TypeOK, Slots
    <2>4. CASE d # c
        <3>1. cur'[d] = cur[d]
            BY <1>0, <1>1, <2>4, Zenon DEF PreemptTo, TypeOK
        <3>2. /\ cur[d] \in Slots
              /\ cur[d] < taskCount
              /\ OffCpu(c)[cur[d]] = d
              /\ state[cur[d]] # "terminated" =>
                    affinity[cur[d]] = d /\ CanRunOn(d, cur[d])
            BY <2>4, <3>1, OthersKept
        <3>3. cur[d] # n
            BY <2>1, <2>2, <2>4, <3>2, Zenon DEF Candidate, CanRunOn
        <3>4. /\ state'[cur[d]] = Saved(c, wake')[cur[d]]
              /\ affinity'[cur[d]] = affinity[cur[d]]
              /\ currentCpu'[cur[d]] = d
            BY <1>0, <1>1, <3>2, <3>3, Zenon DEF PreemptTo, TypeOK, OffCpu, Saved
        <3>5. Saved(c, wake')[cur[d]] = "terminated" <=> state[cur[d]] = "terminated"
            BY <1>0, <3>2, SavedTerminated, Zenon
        <3> QED
            BY <3>1, <3>2, <3>4, <3>5, Zenon DEF CanRunOn
    <2> QED
        BY <2>3, <2>4, Zenon
<1>2. ASSUME PreemptIdle(c, timer) \/ PreemptKeep(c, timer), d # c
      PROVE  Record(d)
    <2>1. /\ cur'[d] = cur[d]
          /\ state' = Saved(c, wake')
          /\ affinity' = affinity
          /\ currentCpu' = OffCpu(c)
        BY <1>0, <1>2, Zenon DEF PreemptIdle, PreemptKeep, TypeOK
    <2>2. /\ cur[d] \in Slots
          /\ cur[d] < taskCount
          /\ OffCpu(c)[cur[d]] = d
          /\ state[cur[d]] # "terminated" =>
                affinity[cur[d]] = d /\ CanRunOn(d, cur[d])
        BY <1>2, <2>1, OthersKept
    <2>3. Saved(c, wake')[cur[d]] = "terminated" <=> state[cur[d]] = "terminated"
        BY <1>0, <2>2, SavedTerminated, Zenon
    <2> QED
        BY <2>1, <2>2, <2>3, Zenon DEF CanRunOn
<1>3. ASSUME PreemptIdle(c, timer), d = c
      PROVE  Record(d)
    BY <1>0, <1>3, Zenon DEF PreemptIdle, TypeOK
<1>4. ASSUME PreemptKeep(c, timer), d = c
      PROVE  Record(d)
    <2>1. cur'[d] = cur[c] /\ cur[c] \in Slots
        BY <1>0, <1>4, Zenon DEF PreemptKeep, TypeOK
    <2>2. Saved(c, wake')[cur[c]] \in {"ready", "running"}
        BY <1>4, <2>1, Zenon DEF PreemptKeep
    <2>3. Saved(c, wake')[cur[c]] = "ready"
        BY <2>1, <2>2, Zenon DEF Saved
    <2>4. CanRunOn(c, cur[c])
        BY <1>0, <1>4, <2>1, <2>3, SavedTerminated, Zenon DEF DispatchIsRecorded
    <2> QED
        BY <1>4, <2>1, <2>3, <2>4, Zenon DEF PreemptKeep, PicksNone, Candidate
<1> QED
    BY <1>1, <1>2, <1>3, <1>4, Zenon DEF Preempt

LEMMA StartDispatch ==
    ASSUME DispatchInv, Start
    PROVE  DispatchIsRecorded'
<1> USE DEF DispatchInv
<1> PICK n \in Slots :
        /\ PicksNext(Bsp, NoTask, n, state)
        /\ cur' = [cur EXCEPT ![Bsp] = n]
        /\ state' = [state EXCEPT ![n] = "running"]
        /\ affinity' = [affinity EXCEPT
                ![n] = IF affinity[n] = NoCpu THEN Bsp ELSE affinity[n]]
        /\ currentCpu' = [currentCpu EXCEPT ![n] = Bsp]
    BY Zenon DEF Start
<1>1. state[n] = "ready" /\ CanRunOn(Bsp, n)
    BY Zenon DEF PicksNext, Candidate
<1> SUFFICES ASSUME NEW d \in Cpus, cur'[d] # NoTask, ~resurrected[cur'[d]]
             PROVE  /\ cur'[d] < taskCount
                    /\ currentCpu'[cur'[d]] = d
                    /\ state'[cur'[d]] # "terminated" =>
                        /\ affinity'[cur'[d]] = d
                        /\ cur'[d] = 0 => d = Bsp
                        /\ d # Bsp /\ cur'[d] # 0 => allowSecondary[cur'[d]]
    BY DEF DispatchIsRecorded, CanRunOn, Start, history
<1>3. CASE d = Bsp
    BY <1>1, <1>3, Zenon DEF CanRunOn, TypeOK
<1>4. CASE d # Bsp
    <2>1. cur'[d] = cur[d] /\ cur[d] \in Slots
        BY <1>4, Zenon DEF TypeOK
    <2>2. /\ cur[d] < taskCount /\ currentCpu[cur[d]] = d
          /\ state[cur[d]] # "terminated" => affinity[cur[d]] = d /\ CanRunOn(d, cur[d])
        BY <2>1, Zenon DEF DispatchIsRecorded
    <2>3. cur[d] # n
        BY <1>1, <1>4, <2>2, Zenon DEF CanRunOn
    <2> QED
        BY <2>1, <2>2, <2>3, Zenon DEF CanRunOn, TypeOK
<1> QED
    BY <1>3, <1>4, Zenon

LEMMA DispatchStep == DispatchInv /\ [Next]_vars => DispatchInv'
<1> SUFFICES ASSUME DispatchInv, [Next]_vars PROVE DispatchIsRecorded'
    BY TypeStep, Zenon DEF DispatchInv
<1> USE DEF DispatchInv
<1>1. CASE BootCreate(NoCtx)
    BY <1>1, CreateInDispatch, Zenon DEF BootCreate, Ctx
<1>2. CASE Start
    BY <1>2, StartDispatch, Zenon
<1>3. ASSUME NEW c \in Cpus, Timer(c) \/ Int32(c)
      PROVE  DispatchIsRecorded'
    BY <1>3, PreemptDispatch, Zenon DEF Timer, Int32
<1>4. ASSUME NEW c \in Cpus, SwitchDone(c)
      PROVE  DispatchIsRecorded'
    BY <1>4, RecordKept, Zenon DEF SwitchDone, table, history
<1>5. ASSUME NEW c \in Cpus, NEW s \in Slots, TaskStep(c, s)
      PROVE  DispatchIsRecorded'
    <2>1. CASE Yield(c, s) \/ SleepDone(c, s) \/ WaitForTask(c, s) \/ WaitDone(c, s)
        BY <2>1, RecordKept, Zenon
        DEF Yield, SleepDone, WaitForTask, WaitDone, table, cpuState, history
    <2>2. ASSUME NEW n, NEW p, SleepFor(s, n, p)
          PROVE  DispatchIsRecorded'
        BY <2>2, RecordKept, Zenon DEF SleepFor, TypeOK, cpuState
    <2>3. CASE Sleep(c, s) \/ WaitAgain(c, s)
        BY <2>2, <2>3, Zenon DEF Sleep, WaitAgain
    <2>4. ASSUME NEW v \in Slots, TerminateTask(c, s, v)
          PROVE  DispatchIsRecorded'
        BY <2>4, RecordKept, Zenon DEF TerminateTask, TypeOK, cpuState, history
    <2> QED
        BY <1>5, <2>1, <2>3, <2>4, Zenon DEF TaskStep
<1>6. ASSUME NEW c \in Cpus, NEW s \in Slots, CreateTask(c, s, "code", NoCtx)
      PROVE  DispatchIsRecorded'
    BY <1>6, CreateInDispatch, Zenon DEF CreateTask, Ctx
<1>7. ASSUME NEW c \in Cpus, NEW s \in Slots, ExitTask(c, s, "code")
      PROVE  DispatchIsRecorded'
    BY <1>7, RecordKept, Zenon DEF ExitTask, TypeOK, cpuState, history
<1>8. CASE UNCHANGED vars
    BY <1>8, RecordKept, Zenon DEF vars, table, cpuState, taskCode, history
<1> QED
    BY <1>1, <1>2, <1>3, <1>4, <1>5, <1>6, <1>7, <1>8, Zenon DEF Next

(* A dispatched task is recorded on its CPU, and bound to it until it      *)
(* terminates (preempt, scheduler.cpp:643-690).                            *)
THEOREM DispatchRecorded == Spec => []DispatchIsRecorded
<1>1. Init => DispatchInv
    <2>1. Init => TypeOK
        BY TypeInit, Zenon
    <2> QED
        BY <2>1 DEF Init, DispatchInv, DispatchIsRecorded
<1> QED
    BY <1>1, DispatchStep, PTL DEF Spec, DispatchInv

(* No task runs on two CPUs, unless sleep() undid its termination: for any *)
(* number of CPUs and tasks and any interleaving of interrupts and calls.  *)
THEOREM Exclusive == Spec => []OneCpuPerTask
<1>1. DispatchIsRecorded => OneCpuPerTask
    BY DEF DispatchIsRecorded, OneCpuPerTask
<1> QED
    BY <1>1, DispatchRecorded, PTL

(* Dispatching is exclusive and recorded, all of it together               *)
(* (scheduler.cpp:616-712).                                                *)
THEOREM DispatchCorrect == Spec => []DispatchSound
BY TypeCorrect, DispatchRecorded, Exclusive, PTL DEF DispatchSound

-----------------------------------------------------------------------------
(* preempt() that idles has scanned the whole table in vain.               *)
LEMMA PreemptIdles ==
    ASSUME TypeOK, NEW d \in Cpus, NEW timer \in BOOLEAN, Preempt(d, timer),
           NEW c \in Cpus, pc[c] = "run", pc'[c] = "switch",
           cur'[c] \in {0, NoTask}, NEW s \in Slots \ {0}
    PROVE  ~Candidate(c, s, state')
<1>1. ASSUME NEW n \in Slots, PreemptTo(d, n, timer)
      PROVE  ~Candidate(c, s, state')
    <2>1. c = d
        BY <1>1, Zenon DEF PreemptTo, TypeOK
    <2>2. n = 0
        BY <1>1, <2>1 DEF PreemptTo, TypeOK, Slots, NoTask
    <2>3. ~Candidate(c, s, Saved(d, wake'))
        BY <1>1, <2>1, <2>2, Zenon DEF PreemptTo, PicksNext
    <2>4. state'[s] = Saved(d, wake')[s]
        BY <1>1, <2>2, Zenon DEF PreemptTo, Saved
    <2> QED
        BY <2>3, <2>4, Zenon DEF Candidate
<1>2. CASE PreemptIdle(d, timer)
    <2>1. c = d
        BY <1>2, Zenon DEF PreemptIdle, TypeOK
    <2> QED
        BY <1>2, <2>1, Zenon DEF PreemptIdle, PicksNone
<1>3. CASE PreemptKeep(d, timer)
    BY <1>3, Zenon DEF PreemptKeep
<1> QED
    BY <1>1, <1>2, <1>3, Zenon DEF Preempt

(* A CPU goes idle only in preempt().                                      *)
LEMMA OnlyPreemptSwitches ==
    ASSUME TypeOK, [Next]_vars, NEW c \in Cpus, pc[c] = "run", pc'[c] = "switch"
    PROVE  \E d \in Cpus : \E timer \in BOOLEAN : Preempt(d, timer)
<1>1. CASE BootCreate(NoCtx) \/ Start
    BY <1>1, Zenon DEF BootCreate, CreateIn, Start, cpuState
<1>2. ASSUME NEW d \in Cpus, Timer(d) \/ Int32(d)
      PROVE  \E timer \in BOOLEAN : Preempt(d, timer)
    BY <1>2, Zenon DEF Timer, Int32
<1>3. ASSUME NEW d \in Cpus, SwitchDone(d)
      PROVE  FALSE
    BY <1>3, Zenon DEF SwitchDone, TypeOK
<1>4. ASSUME NEW d \in Cpus, NEW s \in Slots, TaskStep(d, s)
      PROVE  FALSE
    BY <1>4, Zenon
    DEF TaskStep, Yield, Sleep, SleepDone, WaitForTask, WaitDone, WaitAgain, SleepFor,
       TerminateTask, cpuState
<1>5. ASSUME NEW d \in Cpus, NEW s \in Slots,
             CreateTask(d, s, "code", NoCtx) \/ ExitTask(d, s, "code")
      PROVE  FALSE
    BY <1>5, Zenon DEF CreateTask, CreateIn, ExitTask, cpuState
<1>6. CASE UNCHANGED vars
    BY <1>6, Zenon DEF vars, cpuState
<1> QED
    BY <1>1, <1>2, <1>3, <1>4, <1>5, <1>6, Zenon DEF Next

(* Whatever CPU idles, and however many tasks there are, the scan of       *)
(* pick_next_task has missed none it may run (scheduler.cpp:399-427).      *)
THEOREM IdlesOnlyWhenNothingToDo == Spec => IdleOnlyWhenNothingToDo
<1>1. ASSUME TypeOK, [Next]_vars
      PROVE  [\A c \in Cpus : pc[c] = "run" /\ pc'[c] = "switch" /\ cur'[c] \in {0, NoTask}
                => \A s \in Slots \ {0} : ~Candidate(c, s, state')]_vars
    BY <1>1, OnlyPreemptSwitches, PreemptIdles, Zenon
<1> QED
    BY <1>1, TypeCorrect, PTL DEF Spec, IdleOnlyWhenNothingToDo

-----------------------------------------------------------------------------
(* The clock.  drift counts the timer interrupts that preempt() took for   *)
(* yields.  Each of them found the mark of a task that the interrupt then  *)
(* moved off the BSP between the two halves of yield(): that task is late. *)
(* When it raises its int 32 the tick is counted after all; when it never  *)
(* runs again the tick is lost, and with it the id of that task.           *)

NobodyBack == \A s \in Slots : ~resurrected[s]

(* The slots that create_task cannot reuse.                                *)
InUse == {s \in Slots : s < taskCount /\ (state[s] # "terminated" \/ currentCpu[s] # NoCpu)}

OnBsp(s) == (state[s] # "terminated" /\ affinity[s] = Bsp) \/ currentCpu[s] = Bsp

Late == {s \in InUse : pending[s] /\ OnBsp(s)}
Punctual == InUse \ Late

(* A yield that the BSP has marked and not yet taken.                      *)
Marked == IF yieldFlag[Bsp] THEN 1 ELSE 0

Counts ==
    /\ Cardinality(Late) <= drift + Marked
    /\ drift + Marked + Cardinality(Punctual) <= nextId - 1

Clocked ==
    /\ \A s \in Slots : currentCpu[s] # NoCpu => cur[currentCpu[s]] = s
    /\ \A s \in Slots : pending[s] /\ state[s] # "terminated" => affinity[s] # NoCpu
    /\ yieldFlag[Bsp] => cur[Bsp] \in Late
    /\ ~active => \A s \in Slots : ~pending[s] /\ currentCpu[s] = NoCpu
    /\ Counts

ClockInv == DispatchInv /\ (NobodyBack => Clocked)

LEMMA FiniteSlots ==
    ASSUME NEW S \in SUBSET Slots
    PROVE  IsFiniteSet(S) /\ Cardinality(S) \in Nat
<1>1. IsFiniteSet(Slots)
    BY FS_Interval DEF Slots
<1> QED
    BY <1>1, FS_Subset, FS_CardinalityType, Zenon

LEMMA Fewer ==
    ASSUME NEW S \in SUBSET Slots, NEW T \in SUBSET S
    PROVE  Cardinality(T) <= Cardinality(S)
BY FiniteSlots, FS_Subset, Zenon

LEMMA OneMore ==
    ASSUME NEW S \in SUBSET Slots, NEW T \in SUBSET Slots, NEW t, T \subseteq S \cup {t}
    PROVE  Cardinality(T) <= Cardinality(S) + 1
<1>1. IsFiniteSet(S) /\ Cardinality(S) \in Nat /\ Cardinality(T) \in Nat
    BY FiniteSlots, Zenon
<1>2. /\ IsFiniteSet(S \cup {t})
      /\ Cardinality(S \cup {t}) \in {Cardinality(S), Cardinality(S) + 1}
    BY <1>1, FS_AddElement, Zenon
<1>3. Cardinality(T) <= Cardinality(S \cup {t})
    BY <1>2, FS_Subset, Zenon
<1> QED
    BY <1>1, <1>2, <1>3

LEMMA OneLess ==
    ASSUME NEW S \in SUBSET Slots, NEW t \in S, NEW T \in SUBSET (S \ {t})
    PROVE  Cardinality(T) <= Cardinality(S) - 1
<1>1. IsFiniteSet(S)
    BY FiniteSlots, Zenon
<1>2. IsFiniteSet(S \ {t}) /\ Cardinality(S \ {t}) = Cardinality(S) - 1
    BY <1>1, FS_RemoveElement, Zenon
<1> QED
    BY <1>2, FS_Subset

LEMMA SetsInSlots == Late \in SUBSET Slots /\ Punctual \in SUBSET Slots
BY Zenon DEF Late, Punctual, InUse

(* What each kind of step does to the two counts.                          *)
LEMMA CountsType ==
    ASSUME TypeOK
    PROVE  /\ Cardinality(Late) \in Nat /\ Cardinality(Punctual) \in Nat
           /\ drift \in Int /\ Marked \in {0, 1} /\ nextId \in Nat
BY SetsInSlots, FiniteSlots, Zenon DEF TypeOK, Marked

LEMMA CountsTypeNext ==
    ASSUME TypeOK'
    PROVE  /\ Late' \in SUBSET Slots /\ Punctual' \in SUBSET Slots
           /\ Cardinality(Late') \in Nat /\ Cardinality(Punctual') \in Nat
           /\ drift' \in Int /\ Marked' \in {0, 1} /\ nextId' \in Nat
<1>1. Late' \in SUBSET Slots /\ Punctual' \in SUBSET Slots
    BY Zenon DEF Late, Punctual, InUse
<1> QED
    BY <1>1, FiniteSlots, Zenon DEF TypeOK, Marked

LEMMA CountsKept ==
    ASSUME TypeOK, TypeOK', Counts, Late' \subseteq Late, Punctual' \subseteq Punctual,
           drift' + Marked' = drift + Marked, nextId' >= nextId
    PROVE  Counts'
<1>1. Cardinality(Late') <= Cardinality(Late)
    BY SetsInSlots, CountsTypeNext, Fewer, Zenon
<1>2. Cardinality(Punctual') <= Cardinality(Punctual)
    BY SetsInSlots, CountsTypeNext, Fewer, Zenon
<1> QED
    BY <1>1, <1>2, CountsType, CountsTypeNext DEF Counts

LEMMA CountsCreated ==
    ASSUME TypeOK, TypeOK', Counts, NEW s, Late' \subseteq Late,
           Punctual' \subseteq Punctual \cup {s},
           drift' + Marked' = drift + Marked, nextId' = nextId + 1
    PROVE  Counts'
<1>1. Cardinality(Late') <= Cardinality(Late)
    BY SetsInSlots, CountsTypeNext, Fewer, Zenon
<1>2. Cardinality(Punctual') <= Cardinality(Punctual) + 1
    BY SetsInSlots, CountsTypeNext, OneMore, Zenon
<1> QED
    BY <1>1, <1>2, CountsType, CountsTypeNext DEF Counts

LEMMA CountsYielding ==
    ASSUME TypeOK, TypeOK', Counts, NEW s \in Punctual, Late' \subseteq Late \cup {s},
           Punctual' \subseteq Punctual \ {s},
           drift' + Marked' = drift + Marked + 1, nextId' = nextId
    PROVE  Counts'
<1>1. Cardinality(Late') <= Cardinality(Late) + 1
    BY SetsInSlots, CountsTypeNext, OneMore, Zenon
<1>2. Cardinality(Punctual') <= Cardinality(Punctual) - 1
    BY SetsInSlots, CountsTypeNext, OneLess, Zenon
<1> QED
    BY <1>1, <1>2, CountsType, CountsTypeNext DEF Counts

LEMMA CountsYielded ==
    ASSUME TypeOK, TypeOK', Counts, NEW s \in Late, Late' \subseteq Late \ {s},
           Punctual' \subseteq Punctual \cup {s},
           drift' + Marked' = drift + Marked - 1, nextId' = nextId
    PROVE  Counts'
<1>1. Cardinality(Late') <= Cardinality(Late) - 1
    BY SetsInSlots, CountsTypeNext, OneLess, Zenon
<1>2. Cardinality(Punctual') <= Cardinality(Punctual) + 1
    BY SetsInSlots, CountsTypeNext, OneMore, Zenon
<1> QED
    BY <1>1, <1>2, CountsType, CountsTypeNext DEF Counts

(* A task that a CPU executes is in use, and on the BSP if the CPU is.     *)
LEMMA CurrentInUse ==
    ASSUME DispatchInv, NobodyBack, NEW c \in Cpus, cur[c] # NoTask
    PROVE  /\ cur[c] \in InUse
           /\ currentCpu[cur[c]] = c
           /\ OnBsp(cur[c]) <=> c = Bsp
<1>1. cur[c] \in Slots /\ ~resurrected[cur[c]]
    BY Zenon DEF DispatchInv, TypeOK, NobodyBack
<1>2. /\ cur[c] < taskCount /\ currentCpu[cur[c]] = c
      /\ state[cur[c]] # "terminated" => affinity[cur[c]] = c
    BY <1>1, Zenon DEF DispatchInv, DispatchIsRecorded
<1> QED
    BY <1>1, <1>2, Zenon DEF InUse, OnBsp

(* Steps that touch no pending yield and bring no task back.               *)
LEMMA ClockKept ==
    ASSUME DispatchInv, TypeOK', NobodyBack, Clocked,
           UNCHANGED <<active, taskCount, nextId, currentCpu, cur, yieldFlag, pending,
                       drift>>,
           \A s \in Slots : \/ state'[s] = "terminated"
                            \/ state[s] # "terminated" /\ affinity'[s] = affinity[s]
    PROVE  Clocked'
<1>1. InUse' \subseteq InUse
    BY Zenon DEF InUse
<1>2. Late' \subseteq Late
    BY <1>1, Zenon DEF Late, InUse, OnBsp
<1>3. ASSUME NEW s \in Late, s \in InUse'
      PROVE  s \in Late'
    <2>1. s \in Slots /\ OnBsp(s) /\ pending[s]
        BY Zenon DEF Late, InUse
    <2>2. CASE state'[s] # "terminated" \/ currentCpu[s] = Bsp
        BY <1>3, <2>1, <2>2, Zenon DEF Late, OnBsp
    <2>3. CASE state'[s] = "terminated" /\ currentCpu[s] # Bsp
        <3>1. currentCpu[s] \in Cpus /\ cur[currentCpu[s]] = s
            BY <1>3, <2>1, <2>3, SMTT(30) DEF InUse, Clocked, DispatchInv, TypeOK, MaybeCpu
        <3>2. s # NoTask
            BY <2>1 DEF Slots, NoTask
        <3> QED
            BY <2>1, <2>3, <3>1, <3>2, CurrentInUse
    <2> QED
        BY <2>2, <2>3, Zenon
<1>4. Punctual' \subseteq Punctual
    BY <1>1, <1>3, Zenon DEF Punctual
<1>5. Counts'
    <2>1. TypeOK /\ Counts /\ nextId' >= nextId /\ drift' + Marked' = drift + Marked
        BY DEF DispatchInv, TypeOK, Clocked, Marked
    <2> QED
        BY <1>2, <1>4, <2>1, CountsKept, Zenon
<1>6. yieldFlag'[Bsp] => cur'[Bsp] \in Late'
    <2> HAVE yieldFlag'[Bsp]
    <2>1. cur[Bsp] \in Late /\ cur[Bsp] # NoTask
        BY DEF Clocked, Late, InUse, Slots, NoTask
    <2>2. cur[Bsp] \in Slots /\ currentCpu[cur[Bsp]] = Bsp /\ cur[Bsp] < taskCount
        BY <2>1, CurrentInUse, Zenon DEF Late, InUse
    <2> QED
        BY <1>3, <2>1, <2>2, Zenon DEF InUse
<1> QED
    BY <1>5, <1>6, Zenon DEF Clocked

LEMMA ClockCreated ==
    ASSUME DispatchInv, TypeOK', NobodyBack, Clocked,
           NEW s \in Slots, NEW x, CreateIn(s, x)
    PROVE  Clocked'
<1>0. TypeOK
    BY Zenon DEF DispatchInv
<1>1. s \notin InUse /\ s < taskCount'
    BY <1>0 DEF CreateIn, AvailableSlot, Reusable, InUse, TypeOK, Slots
<1>2. ASSUME NEW r \in Slots, r # s
      PROVE  /\ r < taskCount' <=> r < taskCount
             /\ state'[r] = state[r] /\ affinity'[r] = affinity[r]
             /\ currentCpu'[r] = currentCpu[r] /\ pending'[r] = pending[r]
    <2>1. r < taskCount' <=> r < taskCount
        BY <1>0, <1>2, SMTT(30) DEF CreateIn, TypeOK, Slots
    <2> QED
        BY <1>0, <1>2, <2>1 DEF CreateIn, TypeOK
<1>3. /\ currentCpu'[s] = NoCpu /\ ~pending'[s]
      /\ cur' = cur /\ yieldFlag' = yieldFlag /\ drift' = drift
      /\ nextId' = nextId + 1 /\ active' = active
    BY <1>0 DEF CreateIn, TypeOK, cpuState, history
<1>4. Late' = Late
    BY <1>1, <1>2, <1>3, Zenon DEF Late, InUse, OnBsp
<1>5. Punctual' \subseteq Punctual \cup {s}
    BY <1>2, <1>4, Zenon DEF Punctual, InUse
<1>6. Counts'
    <2>1. Counts /\ drift' + Marked' = drift + Marked
        BY <1>3, Zenon DEF Clocked, Marked
    <2> QED
        BY <1>0, <1>3, <1>4, <1>5, <2>1, CountsCreated, Zenon
<1> QED
    BY <1>2, <1>3, <1>4, <1>6 DEF Clocked

LEMMA ClockYielding ==
    ASSUME DispatchInv, TypeOK', NobodyBack, Clocked,
           NEW c \in Cpus, NEW s \in Slots, Yield(c, s)
    PROVE  Clocked'
<1>0. TypeOK
    BY Zenon DEF DispatchInv
<1>1. cur[c] = s /\ ~pending[s] /\ s # NoTask
    BY DEF Yield, Executes, Slots, NoTask
<1>2. s \in InUse /\ currentCpu[s] = c /\ (OnBsp(s) <=> c = Bsp)
    BY <1>1, CurrentInUse, Zenon
<1>3. /\ pending' = [pending EXCEPT ![s] = TRUE]
      /\ yieldFlag' = [yieldFlag EXCEPT ![c] = TRUE]
      /\ UNCHANGED <<active, taskCount, nextId, state, affinity, currentCpu, cur, drift>>
    BY Zenon DEF Yield, table, history
<1>4. InUse' = InUse /\ \A r : OnBsp(r)' <=> OnBsp(r)
    BY <1>3, Zenon DEF InUse, OnBsp
<1>5. active /\ (state[s] # "terminated" => affinity[s] # NoCpu)
    BY <1>1, <1>2, Zenon DEF Clocked, DispatchInv, DispatchIsRecorded, NobodyBack
<1>6. CASE c = Bsp
    <2>1. ~yieldFlag[Bsp]
        BY <1>1, <1>6, Zenon DEF Clocked, Late
    <2>2. Late' = Late \cup {s}
        BY <1>0, <1>2, <1>3, <1>4, <1>6, SMTT(30) DEF Late, InUse, TypeOK
    <2>3. s \in Punctual /\ Punctual' \subseteq Punctual \ {s}
        BY <1>1, <1>2, <1>4, <2>2, Zenon DEF Punctual, Late
    <2>4. drift' + Marked' = drift + Marked + 1 /\ nextId' = nextId /\ Counts
        BY <1>0, <1>3, <1>6, <2>1, SMTT(30) DEF Marked, TypeOK, Clocked
    <2>5. Counts'
        BY <1>0, <2>2, <2>3, <2>4, CountsYielding, Zenon
    <2> QED
        BY <1>0, <1>1, <1>3, <1>5, <1>6, <2>2, <2>5, Zenon DEF Clocked, TypeOK
<1>7. CASE c # Bsp
    <2>1. Late' = Late
        BY <1>0, <1>2, <1>3, <1>4, <1>7, SMTT(30) DEF Late, InUse, TypeOK
    <2>2. Punctual' \subseteq Punctual
        BY <1>4, <2>1, Zenon DEF Punctual
    <2>3. yieldFlag'[Bsp] = yieldFlag[Bsp]
        BY <1>0, <1>3, <1>7, Zenon DEF TypeOK
    <2>4. Marked' = Marked
        BY <2>3, Zenon DEF Marked
    <2>5. drift' + Marked' = drift + Marked /\ nextId' >= nextId /\ Counts
        BY <1>0, <1>3, <2>4, SMTT(30) DEF TypeOK, Clocked
    <2>6. Counts'
        BY <1>0, <2>1, <2>2, <2>5, CountsKept, Zenon
    <2> QED
        BY <1>0, <1>1, <1>3, <1>5, <1>7, <2>1, <2>3, <2>6, SMTT(30) DEF Clocked, TypeOK
<1> QED
    BY <1>6, <1>7, Zenon

LEMMA ClockStart ==
    ASSUME DispatchInv, TypeOK', NobodyBack, Clocked, Start
    PROVE  Clocked'
<1>0. TypeOK
    BY Zenon DEF DispatchInv
<1> PICK n \in Slots :
        /\ PicksNext(Bsp, NoTask, n, state)
        /\ cur' = [cur EXCEPT ![Bsp] = n]
        /\ state' = [state EXCEPT ![n] = "running"]
        /\ affinity' = [affinity EXCEPT
                ![n] = IF affinity[n] = NoCpu THEN Bsp ELSE affinity[n]]
        /\ currentCpu' = [currentCpu EXCEPT ![n] = Bsp]
    BY Zenon DEF Start
<1>1. state[n] = "ready"
    BY Zenon DEF PicksNext, Candidate
<1>2. /\ \A s \in Slots : ~pending[s] /\ currentCpu[s] = NoCpu
      /\ active' = TRUE
      /\ UNCHANGED <<taskCount, nextId, yieldFlag, pending, drift>>
    BY Zenon DEF Start, Clocked, taskCode, history
<1>3. Late = {} /\ Late' = {}
    BY <1>2, Zenon DEF Late, InUse
<1>4. InUse' \subseteq InUse
    BY <1>0, <1>1, <1>2 DEF InUse, TypeOK
<1>5. Counts'
    <2>1. Counts /\ nextId' >= nextId /\ drift' + Marked' = drift + Marked
        BY <1>0, <1>2, SMTT(30) DEF TypeOK, Clocked, Marked
    <2> QED
        BY <1>0, <1>3, <1>4, <2>1, CountsKept, Zenon DEF Punctual
<1>6. ~yieldFlag'[Bsp]
    BY <1>2, <1>3, Zenon DEF Clocked
<1> QED
    BY <1>0, <1>2, <1>5, <1>6, Zenon DEF Clocked, TypeOK

(* A task that preempt() keeps has been picked: what it keeps is the idle  *)
(* loop of a CPU without a task.                                           *)
LEMMA KeepsNoTask ==
    ASSUME DispatchInv, NobodyBack, NEW c \in Cpus, NEW timer, PreemptKeep(c, timer)
    PROVE  cur[c] = NoTask
<1> SUFFICES ASSUME cur[c] # NoTask PROVE FALSE
    OBVIOUS
<1>0. TypeOK /\ DispatchIsRecorded
    BY Zenon DEF DispatchInv
<1>1. cur[c] \in Slots /\ ~resurrected[cur[c]]
    BY <1>0, Zenon DEF TypeOK, NobodyBack
<1>2. Saved(c, wake')[cur[c]] = "ready"
    BY <1>1, Zenon DEF PreemptKeep, Saved
<1>3. CanRunOn(c, cur[c])
    BY <1>0, <1>1, <1>2, SavedTerminated, Zenon DEF DispatchIsRecorded
<1> QED
    BY <1>1, <1>2, <1>3, Zenon DEF PreemptKeep, PicksNone, Candidate

(* What preempt() on c does to the record of a task: nobody is terminated  *)
(* or brought back, the current task leaves c unless it is picked again,   *)
(* and a picked task that was bound to no CPU is bound to c.               *)
LEMMA PreemptRecord ==
    ASSUME DispatchInv, NEW c \in Cpus, NEW timer \in BOOLEAN,
           Preempt(c, timer), NEW s \in Slots
    PROVE  /\ state'[s] = "terminated" <=> state[s] = "terminated"
           /\ \/ affinity'[s] = affinity[s]
              \/ affinity[s] = NoCpu /\ affinity'[s] = c /\ state[s] # "terminated"
           /\ \/ /\ currentCpu'[s] = c /\ cur'[c] = s
                 /\ state[s] # "terminated" /\ affinity'[s] = c
              \/ s = cur[c] /\ currentCpu'[s] = NoCpu
              \/ s # cur[c] /\ currentCpu'[s] = currentCpu[s]
           /\ \A d \in Cpus \ {c} : cur'[d] = cur[d]
<1>0. TypeOK
    BY Zenon DEF DispatchInv
<1>1. Saved(c, wake')[s] = "terminated" <=> state[s] = "terminated"
    BY <1>0, SavedTerminated, Zenon
<1>2. ASSUME NEW n \in Slots, PreemptTo(c, n, timer)
      PROVE  /\ state'[s] = "terminated" <=> state[s] = "terminated"
             /\ \/ affinity'[s] = affinity[s]
                \/ affinity[s] = NoCpu /\ affinity'[s] = c /\ state[s] # "terminated"
             /\ \/ /\ currentCpu'[s] = c /\ cur'[c] = s
                   /\ state[s] # "terminated" /\ affinity'[s] = c
                \/ s = cur[c] /\ currentCpu'[s] = NoCpu
                \/ s # cur[c] /\ currentCpu'[s] = currentCpu[s]
             /\ \A d \in Cpus \ {c} : cur'[d] = cur[d]
    <2>1. Saved(c, wake')[n] = "ready" /\ affinity[n] \in {NoCpu, c}
        BY <1>2, Zenon DEF PreemptTo, PicksNext, Candidate, CanRunOn
    <2>2. state[n] # "terminated"
        BY <1>0, <2>1, SavedTerminated, Zenon
    <2>3. /\ state' = [Saved(c, wake') EXCEPT ![n] = "running"]
          /\ Saved(c, wake') = [r \in Slots |-> Saved(c, wake')[r]]
          /\ affinity' = [affinity EXCEPT ![n] = c]
          /\ currentCpu' = [OffCpu(c) EXCEPT ![n] = c]
          /\ cur' = [cur EXCEPT ![c] = n]
        BY <1>0, <1>2, <2>1, Zenon DEF PreemptTo, Saved, TypeOK
    <2>4. CASE s = n
        BY <1>0, <2>1, <2>2, <2>3, <2>4 DEF OffCpu, TypeOK
    <2>5. CASE s # n
        BY <1>0, <1>1, <2>3, <2>5 DEF OffCpu, TypeOK
    <2> QED
        BY <2>4, <2>5, Zenon
<1>3. CASE PreemptIdle(c, timer)
    BY <1>0, <1>1, <1>3, Zenon DEF PreemptIdle, OffCpu, TypeOK
<1>4. CASE PreemptKeep(c, timer)
    BY <1>0, <1>1, <1>4, Zenon DEF PreemptKeep, OffCpu, TypeOK
<1> QED
    BY <1>2, <1>3, <1>4, Zenon DEF Preempt

LEMMA OtherCpus ==
    ASSUME DispatchInv, NobodyBack, NEW c \in Cpus, NEW timer \in BOOLEAN,
           Preempt(c, timer), NEW d \in Cpus, d # c, cur[d] # NoTask
    PROVE  cur'[d] = cur[d] /\ currentCpu'[cur[d]] # NoCpu
<1>1. cur[d] \in Slots
    BY Zenon DEF DispatchInv, TypeOK
<1>2. currentCpu[cur[d]] = d /\ (cur[c] # NoTask => currentCpu[cur[c]] = c)
    BY CurrentInUse, Zenon
<1>3. cur[d] # cur[c]
    BY <1>2, Zenon
<1>4. /\ \/ currentCpu'[cur[d]] = c
         \/ cur[d] = cur[c]
         \/ currentCpu'[cur[d]] = currentCpu[cur[d]]
      /\ \A e \in Cpus \ {c} : cur'[e] = cur[e]
    BY <1>1, PreemptRecord
<1> QED
    BY <1>2, <1>3, <1>4, Zenon

(* preempt() makes nobody late: it can only end the yield of the current   *)
(* task, or strand a late task that has been terminated.                   *)
LEMMA PreemptSets ==
    ASSUME DispatchInv, NobodyBack, Clocked, NEW c \in Cpus, NEW timer \in BOOLEAN,
           Preempt(c, timer),
           \A s \in Slots : pending'[s] => pending[s]
    PROVE  /\ InUse' \subseteq InUse
           /\ Late' \subseteq Late
           /\ \A s \in Late : s \in InUse' /\ pending'[s] => s \in Late'
           /\ \A s \in Slots : currentCpu'[s] # NoCpu => cur'[currentCpu'[s]] = s
           /\ \A s \in Slots : pending'[s] /\ state'[s] # "terminated"
                => affinity'[s] # NoCpu
<1>0. TypeOK /\ taskCount' = taskCount
    BY Zenon DEF DispatchInv, Preempt
<1>1. InUse' \subseteq InUse
    BY <1>0, PreemptRecord, Zenon DEF InUse
<1>2. ASSUME NEW s \in Slots, pending[s], OnBsp(s)'
      PROVE  OnBsp(s)
    <2>1. state[s] # "terminated" => affinity[s] # NoCpu
        BY <1>2, Zenon DEF Clocked
    <2> QED
        BY <1>2, <2>1, PreemptRecord DEF OnBsp
<1>3. ASSUME NEW s \in Slots, OnBsp(s), s \in InUse'
      PROVE  OnBsp(s)'
    <2>1. CASE state[s] # "terminated" /\ affinity[s] = Bsp
        BY <2>1, PreemptRecord, Zenon DEF OnBsp
    <2>2. CASE currentCpu[s] = Bsp
        <3>1. cur[Bsp] = s /\ cur[Bsp] # NoTask
            BY <2>2 DEF Clocked, Slots, NoTask
        <3>2. state[s] # "terminated" => affinity[s] = Bsp
            BY <3>1, Zenon DEF DispatchInv, DispatchIsRecorded, NobodyBack
        <3>3. CASE state[s] = "terminated"
            BY <1>3, <2>2, <3>1, <3>3, PreemptRecord, Zenon DEF OnBsp, InUse
        <3> QED
            BY <2>1, <3>2, <3>3, Zenon
    <2> QED
        BY <1>3, <2>1, <2>2, Zenon DEF OnBsp
<1>4. Late' \subseteq Late
    BY <1>1, <1>2, Zenon DEF Late, InUse
<1>5. \A s \in Late : s \in InUse' /\ pending'[s] => s \in Late'
    BY <1>3, Zenon DEF Late, InUse
<1>6. ASSUME NEW s \in Slots, currentCpu'[s] # NoCpu
      PROVE  cur'[currentCpu'[s]] = s
    <2>1. \/ currentCpu'[s] = c /\ cur'[c] = s
          \/ s # cur[c] /\ currentCpu'[s] = currentCpu[s]
        BY <1>6, PreemptRecord
    <2>2. CASE s # cur[c] /\ currentCpu'[s] = currentCpu[s]
        <3>1. cur[currentCpu[s]] = s /\ currentCpu[s] \in Cpus
            BY <1>0, <1>6, <2>2 DEF Clocked, TypeOK, MaybeCpu
        <3> QED
            BY <2>2, <3>1, PreemptRecord
    <2> QED
        BY <2>1, <2>2, Zenon
<1>7. ASSUME NEW s \in Slots, pending'[s], state'[s] # "terminated"
      PROVE  affinity'[s] # NoCpu
    BY <1>7, PreemptRecord DEF Clocked
<1> QED
    BY <1>1, <1>4, <1>5, <1>6, <1>7, Zenon

(* The mark that preempt() on c clears, and the ticks it counts.           *)
LEMMA PreemptClock ==
    ASSUME TypeOK, NobodyBack, NEW c \in Cpus, NEW timer \in BOOLEAN, Preempt(c, timer)
    PROVE  /\ c = Bsp => ~yieldFlag'[Bsp]
           /\ c # Bsp => yieldFlag'[Bsp] = yieldFlag[Bsp]
           /\ drift' + Marked' = drift + Marked -
                (IF c = Bsp /\ ~timer THEN 1 ELSE 0)
<1>1. Clock(c, timer)
    BY Zenon DEF Preempt, PreemptTo, PreemptIdle, PreemptKeep
<1>2. yieldFlag' = [yieldFlag EXCEPT ![c] = FALSE]
    BY <1>1, Zenon DEF Clock
<1>3. /\ c = Bsp => ~yieldFlag'[Bsp]
      /\ c # Bsp => yieldFlag'[Bsp] = yieldFlag[Bsp]
    BY <1>2, Zenon DEF TypeOK
<1>4. drift' = drift + (IF timer /\ c = Bsp THEN 1 ELSE 0)
                     - (IF c = Bsp /\ ~yieldFlag[c] THEN 1 ELSE 0)
    BY <1>1, Zenon DEF Clock, NobodyBack, CountsTick
<1>5. drift \in Int
    BY Zenon DEF TypeOK
<1>6. CASE c = Bsp
    BY <1>3, <1>4, <1>5, <1>6 DEF Marked
<1>7. CASE c # Bsp
    BY <1>3, <1>4, <1>5, <1>7 DEF Marked
<1> QED
    BY <1>3, <1>6, <1>7, Zenon

LEMMA ClockTimer ==
    ASSUME DispatchInv, TypeOK', NobodyBack, Clocked, NEW c \in Cpus, Timer(c)
    PROVE  Clocked'
<1>1. Preempt(c, TRUE) /\ pending' = pending /\ active /\ active' = active /\ nextId' = nextId
    BY Zenon DEF Timer, Preempt
<1>2. /\ InUse' \subseteq InUse
      /\ Late' \subseteq Late
      /\ \A s \in Late : s \in InUse' /\ pending'[s] => s \in Late'
      /\ \A s \in Slots : currentCpu'[s] # NoCpu => cur'[currentCpu'[s]] = s
      /\ \A s \in Slots : pending'[s] /\ state'[s] # "terminated" => affinity'[s] # NoCpu
    BY <1>1, PreemptSets, Zenon
<1>3. Punctual' \subseteq Punctual
    BY <1>1, <1>2, Zenon DEF Punctual, Late
<1>4. TypeOK /\ Counts /\ nextId' >= nextId
    BY <1>1 DEF DispatchInv, TypeOK, Clocked
<1>5. /\ c = Bsp => ~yieldFlag'[Bsp]
      /\ c # Bsp => yieldFlag'[Bsp] = yieldFlag[Bsp]
      /\ drift' + Marked' = drift + Marked - (IF c = Bsp /\ ~TRUE THEN 1 ELSE 0)
    BY <1>1, <1>4, PreemptClock, Zenon
<1>6. drift' + Marked' = drift + Marked
    BY <1>4, <1>5, CountsType
<1>7. Counts'
    BY <1>2, <1>3, <1>4, <1>6, CountsKept, Zenon
<1>8. yieldFlag'[Bsp] => cur'[Bsp] \in Late'
    <2> HAVE yieldFlag'[Bsp]
    <2>0. c # Bsp /\ cur[Bsp] \in Late
        BY <1>5, Zenon DEF Clocked
    <2>1. cur[Bsp] \in Slots /\ cur[Bsp] # NoTask
        BY <2>0 DEF Late, InUse, Slots, NoTask
    <2>2. currentCpu[cur[Bsp]] = Bsp /\ cur[Bsp] < taskCount
        BY <2>1, CurrentInUse, Zenon DEF InUse
    <2>3. cur'[Bsp] = cur[Bsp] /\ currentCpu'[cur[Bsp]] # NoCpu
        BY <1>1, <2>0, <2>1, OtherCpus, Zenon
    <2>4. cur[Bsp] \in InUse'
        BY <1>1, <2>1, <2>2, <2>3, Zenon DEF InUse, Preempt
    <2> QED
        BY <1>1, <1>2, <2>0, <2>3, <2>4, Zenon DEF Late
<1> QED
    BY <1>1, <1>2, <1>7, <1>8, Zenon DEF Clocked

LEMMA ClockInt32 ==
    ASSUME DispatchInv, TypeOK', NobodyBack, Clocked, NEW c \in Cpus, Int32(c)
    PROVE  Clocked'
<1>0. TypeOK
    BY Zenon DEF DispatchInv
<1>1. /\ Preempt(c, FALSE) /\ active /\ active' = active /\ nextId' = nextId
      /\ cur[c] \in Slots /\ cur[c] # NoTask /\ pending[cur[c]]
    <2>1. NoTask \notin Slots
        BY DEF Slots, NoTask
    <2> QED
        BY <2>1, Zenon DEF Int32, Preempt
<1>2. \A s \in Slots : pending'[s] <=> (pending[s] /\ s # cur[c])
    BY <1>0 DEF Int32, TypeOK
<1>3. /\ InUse' \subseteq InUse
      /\ Late' \subseteq Late
      /\ \A s \in Late : s \in InUse' /\ pending'[s] => s \in Late'
      /\ \A s \in Slots : currentCpu'[s] # NoCpu => cur'[currentCpu'[s]] = s
      /\ \A s \in Slots : pending'[s] /\ state'[s] # "terminated" => affinity'[s] # NoCpu
    BY <1>1, <1>2, PreemptSets, Zenon
<1>4. Counts /\ nextId' >= nextId
    BY <1>0, <1>1 DEF TypeOK, Clocked
<1>5. /\ c = Bsp => ~yieldFlag'[Bsp]
      /\ c # Bsp => yieldFlag'[Bsp] = yieldFlag[Bsp]
      /\ drift' + Marked' = drift + Marked - (IF c = Bsp /\ ~FALSE THEN 1 ELSE 0)
    BY <1>0, <1>1, PreemptClock, Zenon
<1>6. cur[c] \in InUse /\ currentCpu[cur[c]] = c /\ (OnBsp(cur[c]) <=> c = Bsp)
    BY <1>1, CurrentInUse, Zenon
<1>7. ASSUME NEW s \in Slots, s \in Punctual', s # cur[c]
      PROVE  s \in Punctual
    BY <1>2, <1>3, <1>7, Zenon DEF Punctual, Late
<1>8. CASE c = Bsp
    <2>1. cur[c] \in Late
        BY <1>1, <1>6, <1>8, Zenon DEF Late
    <2>2. Late' \subseteq Late \ {cur[c]}
        BY <1>1, <1>2, <1>3, Zenon DEF Late
    <2>3. Punctual' \subseteq Punctual \cup {cur[c]}
        BY <1>7, Zenon DEF Punctual, InUse
    <2>4. drift' + Marked' = drift + Marked - 1
        BY <1>5, <1>8, Zenon
    <2>5. Counts'
        BY <1>0, <1>1, <1>4, <2>1, <2>2, <2>3, <2>4, CountsYielded, Zenon
    <2> QED
        BY <1>1, <1>3, <1>5, <1>8, <2>5, Zenon DEF Clocked
<1>9. CASE c # Bsp
    <2>1. cur[c] \notin Late
        BY <1>6, <1>9, Zenon DEF Late
    <2>2. Punctual' \subseteq Punctual
        BY <1>3, <1>6, <1>7, <2>1, Zenon DEF Punctual, InUse
    <2>3. drift' + Marked' = drift + Marked
        BY <1>0, <1>5, <1>9, CountsType
    <2>4. Counts'
        BY <1>0, <1>3, <1>4, <2>2, <2>3, CountsKept, Zenon
    <2>5. yieldFlag'[Bsp] => cur'[Bsp] \in Late'
        <3> HAVE yieldFlag'[Bsp]
        <3>1. cur[Bsp] \in Late
            BY <1>5, <1>9, Zenon DEF Clocked
        <3>2. cur[Bsp] \in Slots /\ cur[Bsp] # NoTask /\ cur[Bsp] # cur[c]
            BY <2>1, <3>1 DEF Late, InUse, Slots, NoTask
        <3>3. currentCpu[cur[Bsp]] = Bsp /\ cur[Bsp] < taskCount
            BY <3>2, CurrentInUse, Zenon DEF InUse
        <3>4. cur'[Bsp] = cur[Bsp] /\ currentCpu'[cur[Bsp]] # NoCpu
            BY <1>1, <1>9, <3>2, OtherCpus, Zenon
        <3>5. cur[Bsp] \in InUse'
            BY <1>1, <3>2, <3>3, <3>4, Zenon DEF InUse, Preempt
        <3>6. pending'[cur[Bsp]]
            BY <1>2, <3>1, <3>2, Zenon DEF Late
        <3> QED
            BY <1>3, <3>1, <3>4, <3>5, <3>6, Zenon
    <2> QED
        BY <1>1, <1>3, <2>4, <2>5, Zenon DEF Clocked
<1> QED
    BY <1>8, <1>9, Zenon

LEMMA ClockStep == ClockInv /\ [Next]_vars => ClockInv'
<1> SUFFICES ASSUME ClockInv, [Next]_vars, NobodyBack' PROVE Clocked'
    BY DispatchStep, Zenon DEF ClockInv
<1>0. DispatchInv /\ TypeOK /\ TypeOK'
    BY TypeStep, Zenon DEF ClockInv, DispatchInv
<1>1. CASE BootCreate(NoCtx)
    <2>1. NobodyBack
        BY <1>1 DEF BootCreate, CreateIn, history, NobodyBack
    <2> QED
        BY <1>0, <1>1, <2>1, ClockCreated, Zenon DEF BootCreate, ClockInv
<1>2. CASE Start
    BY <1>0, <1>2, ClockStart, Zenon DEF Start, history, NobodyBack, ClockInv
<1>3. ASSUME NEW c \in Cpus, Timer(c)
      PROVE  Clocked'
    BY <1>0, <1>3, ClockTimer, Zenon DEF Timer, Preempt, NobodyBack, ClockInv
<1>4. ASSUME NEW c \in Cpus, Int32(c)
      PROVE  Clocked'
    BY <1>0, <1>4, ClockInt32, Zenon DEF Int32, Preempt, NobodyBack, ClockInv
<1>5. ASSUME NEW c \in Cpus, SwitchDone(c)
      PROVE  Clocked'
    <2>1. NobodyBack /\ Clocked
        BY <1>5, Zenon DEF SwitchDone, history, NobodyBack, ClockInv
    <2> QED
        BY <1>0, <1>5, <2>1, ClockKept, Zenon DEF SwitchDone, table, taskCode, history
<1>6. ASSUME NEW c \in Cpus, NEW s \in Slots, TaskStep(c, s)
      PROVE  Clocked'
    <2>1. CASE Yield(c, s)
        BY <1>0, <2>1, ClockYielding, Zenon DEF Yield, history, NobodyBack, ClockInv
    <2>2. CASE SleepDone(c, s) \/ WaitForTask(c, s) \/ WaitDone(c, s)
        <3>1. NobodyBack /\ Clocked
            BY <2>2, Zenon DEF SleepDone, WaitForTask, WaitDone, history, NobodyBack, ClockInv
        <3>2. UNCHANGED <<table, cpuState, pending, history>>
            BY <2>2, Zenon DEF SleepDone, WaitForTask, WaitDone
        <3> QED
            BY <1>0, <3>1, <3>2, ClockKept, Zenon DEF table, cpuState, history
    <2>3. ASSUME NEW n, NEW p, SleepFor(s, n, p)
          PROVE  Clocked'
        <3>1. /\ resurrected \in [Slots -> BOOLEAN]
              /\ resurrected' = [resurrected EXCEPT
                    ![s] = resurrected[s] \/ state[s] = "terminated"]
            BY <1>0, <2>3, Zenon DEF SleepFor, TypeOK
        <3>2. state[s] # "terminated" /\ ~resurrected[s]
            BY <3>1, Zenon DEF NobodyBack
        <3>3. NobodyBack
            BY <3>1, <3>2, Zenon DEF NobodyBack
        <3> QED
            BY <1>0, <2>3, <3>2, <3>3, ClockKept, Zenon DEF SleepFor, cpuState, ClockInv, TypeOK
    <2>4. CASE Sleep(c, s) \/ WaitAgain(c, s)
        BY <2>3, <2>4, Zenon DEF Sleep, WaitAgain
    <2>5. ASSUME NEW v \in Slots, TerminateTask(c, s, v)
          PROVE  Clocked'
        <3>1. NobodyBack /\ Clocked
            BY <2>5, Zenon DEF TerminateTask, history, NobodyBack, ClockInv
        <3> QED
            BY <1>0, <2>5, <3>1, ClockKept, Zenon DEF TerminateTask, cpuState, history, TypeOK
    <2> QED
        BY <1>6, <2>1, <2>2, <2>4, <2>5, Zenon DEF TaskStep
<1>7. ASSUME NEW c \in Cpus, NEW s \in Slots, CreateTask(c, s, "code", NoCtx)
      PROVE  Clocked'
    <2>1. PICK r \in Slots : CreateIn(r, NoCtx)
        BY <1>7, Zenon DEF CreateTask
    <2>2. NobodyBack
        BY <2>1, Zenon DEF CreateIn, history, NobodyBack
    <2> QED
        BY <1>0, <2>1, <2>2, ClockCreated, Zenon DEF ClockInv
<1>8. ASSUME NEW c \in Cpus, NEW s \in Slots, ExitTask(c, s, "code")
      PROVE  Clocked'
    <2>1. NobodyBack /\ Clocked
        BY <1>8, Zenon DEF ExitTask, history, NobodyBack, ClockInv
    <2> QED
        BY <1>0, <1>8, <2>1, ClockKept, Zenon DEF ExitTask, cpuState, history, TypeOK
<1>9. CASE UNCHANGED vars
    <2>1. NobodyBack /\ Clocked
        BY <1>9, Zenon DEF vars, history, NobodyBack, ClockInv
    <2> QED
        BY <1>0, <1>9, <2>1, ClockKept, Zenon DEF vars, table, cpuState, taskCode, history
<1> QED
    BY <1>1, <1>2, <1>3, <1>4, <1>5, <1>6, <1>7, <1>8, <1>9 DEF Next

(* Until sleep() brings a task back, g_tick_count never runs ahead of the  *)
(* PIT and lags it by at most one tick per task ever created, for any      *)
(* number of CPUs and tasks (preempt and yield, scheduler.cpp:610-625).    *)
THEOREM ClockCorrect == Spec => []ClockHonest
<1>1. Init => ClockInv
    <2> SUFFICES ASSUME Init PROVE ClockInv
        OBVIOUS
    <2>1. DispatchInv
        BY TypeInit, Zenon DEF Init, DispatchInv, DispatchIsRecorded
    <2>2. Late = {} /\ Punctual = {}
        BY DEF Init, Late, Punctual, InUse, Slots
    <2>3. Counts
        BY <2>2, FS_EmptySet DEF Init, Counts, Marked
    <2> QED
        BY <2>1, <2>3, Zenon DEF Init, ClockInv, Clocked
<1>2. ClockInv => ClockHonest
    <2> SUFFICES ASSUME ClockInv, NobodyBack PROVE drift \in 0..(nextId - 1)
        BY Zenon DEF ClockHonest, NobodyBack
    <2>1. TypeOK /\ Clocked /\ Counts
        BY Zenon DEF ClockInv, DispatchInv, Clocked
    <2>2. yieldFlag[Bsp] => Cardinality(Late) >= 1
        <3> HAVE yieldFlag[Bsp]
        <3>1. cur[Bsp] \in Late
            BY <2>1, Zenon DEF Clocked
        <3>2. Cardinality({}) <= Cardinality(Late) - 1
            BY <3>1, SetsInSlots, OneLess, Zenon
        <3> QED
            BY <2>1, <3>2, FS_EmptySet, CountsType
    <2> QED
        BY <2>1, <2>2, CountsType DEF Counts, Marked
<1> QED
    BY <1>1, <1>2, ClockStep, PTL DEF Spec

=============================================================================
