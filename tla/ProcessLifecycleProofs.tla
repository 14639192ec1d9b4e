----------------------- MODULE ProcessLifecycleProofs -----------------------
(***************************************************************************)
(* What TLAPS proves of ProcessLifecycle for any number of CPUs, task      *)
(* slots and contexts, and whatever calls the programs make.  The argument *)
(* is about references: which of a task's user_data, a local variable of   *)
(* its kernel code and preempt's terminated_ctx may name one context at    *)
(* the same time.                                                          *)
(***************************************************************************)
EXTENDS ProcessLifecycle, SchedulerProofs

(* The scheduler's part of a step that changes no dispatching.             *)
LEMMA DispatchKept ==
    ASSUME DispatchInv, TypeOK',
           UNCHANGED <<cur, taskCount, currentCpu, allowSecondary, resurrected>>,
           \A s \in Slots : \/ state'[s] = "terminated"
                            \/ state'[s] = state[s] /\ affinity'[s] = affinity[s]
    PROVE  DispatchInv'
<1>1. \A s \in Slots : resurrected[s] => resurrected'[s]
    BY Zenon
<1>2. \A s \in Slots : \/ state'[s] = "terminated"
                       \/ resurrected'[s]
                       \/ state[s] # "terminated" /\ affinity'[s] = affinity[s]
    BY Zenon
<1>3. DispatchIsRecorded'
    BY <1>1, <1>2, RecordKept, Zenon
<1> QED
    BY <1>3, Zenon DEF DispatchInv

(* Every step of processes is one of the scheduler's, or keeps dispatching. *)
LEMMA ProcessDispatch ==
    ASSUME ProcessTypeOK, DispatchInv, [ProcessNext]_allVars
    PROVE  DispatchInv'
<1>0. TypeOK
    BY Zenon DEF DispatchInv
<1>1. ASSUME NEW x \in Ctx, BootCreate(x)
      PROVE  DispatchInv'
    <2>1. PICK s \in Slots : CreateIn(s, x)
        BY <1>1, Zenon DEF BootCreate
    <2>2. DispatchIsRecorded'
        BY <2>1, CreateInDispatch, Zenon
    <2>3. TypeOK'
        BY <1>0, <1>1, <2>1, CreateInType, SMTT(30) DEF BootCreate, TypeOK, cpuState, history
    <2> QED
        BY <2>2, <2>3, Zenon DEF DispatchInv
<1>2. CASE Start
    <2>1. Next
        BY <1>2, Zenon DEF Next
    <2> QED
        BY <2>1, DispatchStep, Zenon
<1>3. ASSUME NEW c \in Cpus, Timer(c) \/ Int32(c)
      PROVE  DispatchInv'
    <2>1. pending' \in [Slots -> BOOLEAN]
        BY <1>0, <1>3, Zenon DEF Timer, Int32, TypeOK
    <2>2. \E timer \in BOOLEAN : Preempt(c, timer)
        BY <1>3, Zenon DEF Timer, Int32
    <2> QED
        BY <1>0, <2>1, <2>2, PreemptType, PreemptDispatch, Zenon DEF DispatchInv
<1>4. ASSUME NEW c \in Cpus, SwitchDone(c)
      PROVE  DispatchInv'
    <2>1. TypeOK'
        BY <1>0, <1>4, SMTT(30) DEF SwitchDone, TypeOK, Ctx, table, taskCode, history
    <2> QED
        BY <1>4, <2>1, DispatchKept, Zenon DEF SwitchDone, table, history
<1>5. ASSUME NEW c \in Cpus, NEW s \in Slots, TaskStep(c, s)
      PROVE  DispatchInv'
    <2>1. Next
        BY <1>5, Zenon DEF Next
    <2> QED
        BY <2>1, DispatchStep, Zenon
<1>6. ASSUME NEW c \in Cpus, NEW s \in Slots, RunCreate(c, s)
      PROVE  DispatchInv'
    <2>1. held[s] \in Ctx /\ CreateTask(c, s, "load", held[s])
        BY <1>0, <1>6, Zenon DEF RunCreate, TypeOK
    <2>2. PICK r \in Slots :
            /\ CreateIn(r, held[s])
            /\ tpc' = [tpc EXCEPT ![r] = "code", ![s] = "code"]
            /\ held' = [held EXCEPT ![r] = NoCtx, ![s] = NoCtx]
        BY <2>1, Zenon DEF CreateTask
    <2>3. tpc' \in [Slots -> TaskPcs] /\ held' \in [Slots -> Ctx]
        BY <1>0, <2>2, Zenon DEF TypeOK, TaskPcs, Ctx
    <2>4. TypeOK'
        BY <1>0, <2>1, <2>2, <2>3, CreateInType, Zenon DEF TypeOK, cpuState, history
    <2> QED
        BY <2>1, <2>2, <2>4, CreateInDispatch, Zenon DEF DispatchInv
<1>7. ASSUME NEW s \in Slots,
             tpc' \in [Slots -> TaskPcs] /\ held' \in [Slots -> Ctx],
             UNCHANGED <<table, cpuState, pending, waitId, history>>
      PROVE  DispatchInv'
    <2>1. TypeOK'
        BY <1>0, <1>7, Zenon DEF TypeOK, table, cpuState, history
    <2> QED
        BY <1>7, <2>1, DispatchKept, Zenon DEF table, cpuState, history
<1>8. ASSUME NEW c \in Cpus, NEW s \in Slots, NEW x \in Ctxs, NEW op, NEW p \in TaskPcs,
             Load(c, s, x, op, p)
      PROVE  DispatchInv'
    <2>1. tpc' \in [Slots -> TaskPcs] /\ held' \in [Slots -> Ctx]
        BY <1>0, <1>8, Zenon DEF Load, TypeOK, Ctx
    <2> QED
        BY <1>7, <1>8, <2>1, Zenon DEF Load
<1>9. ASSUME NEW c \in Cpus, NEW s \in Slots,
             RunFails(c, s) \/ ExecFails(c, s) \/ Leave(c, s) \/ CleanEnd(c, s)
      PROVE  DispatchInv'
    <2>1. tpc' \in [Slots -> TaskPcs] /\ held' \in [Slots -> Ctx]
        BY <1>0, <1>9, SMTT(30)
        DEF RunFails, ExecFails, Discard, Leave, CleanEnd, TypeOK, TaskPcs, Ctx
    <2> QED
        BY <1>7, <1>9, <2>1, Zenon DEF RunFails, ExecFails, Discard, Leave, CleanEnd
<1>10. ASSUME NEW c \in Cpus, NEW s \in Slots, CleanBegin(c, s)
       PROVE  DispatchInv'
    BY <1>0, <1>7, <1>10, Zenon DEF CleanBegin, vars, taskCode, TypeOK
<1>11. ASSUME NEW c \in Cpus, NEW s \in Slots, ExecReplace(c, s)
       PROVE  DispatchInv'
    <2>1. TypeOK'
        BY <1>0, <1>11, Zenon
        DEF ExecReplace, ReplaceContext, TypeOK, TaskPcs, cpuState, history
    <2> QED
        BY <1>11, <2>1, DispatchKept, Zenon DEF ExecReplace, ReplaceContext, cpuState, history
<1>12. ASSUME NEW c \in Cpus, NEW s \in Slots, NEW p, ExitTask(c, s, p)
       PROVE  DispatchInv'
    <2>1. TypeOK'
        BY <1>0, <1>12, Zenon
        DEF ExitTask, TypeOK, TaskPcs, States, Ctx, MaybeCpu, cpuState, history
    <2> QED
        BY <1>0, <1>12, <2>1, DispatchKept, Zenon DEF ExitTask, TypeOK, cpuState, history
<1>13. ASSUME NEW c \in Cpus, NEW s \in Slots, DetachCurrent(c, s)
       PROVE  DispatchInv'
    <2>1. TypeOK'
        BY <1>0, <1>13, Zenon
        DEF DetachCurrent, TypeOK, TaskPcs, States, Ctx, MaybeCpu, cpuState, history
    <2> QED
        BY <1>0, <1>13, <2>1, DispatchKept, Zenon DEF DetachCurrent, TypeOK, cpuState, history
<1>14. CASE UNCHANGED allVars
    <2>1. [Next]_vars
        BY <1>14, Zenon DEF allVars
    <2> QED
        BY <2>1, DispatchStep, Zenon
<1>15. ASSUME NEW c \in Cpus, NEW s \in Slots,
              \/ Call(c, s)
              \/ \E x \in Ctxs :
                  Load(c, s, x, "run", "load") \/ Load(c, s, x, "exec", "loadx")
              \/ RunCreate(c, s) \/ RunFails(c, s)
              \/ ExecReplace(c, s) \/ ExecFails(c, s)
              \/ Leave(c, s) \/ CleanBegin(c, s) \/ CleanEnd(c, s) \/ Exit(c, s)
              \/ Fault(c, s) \/ FaultEnd(c, s)
       PROVE  DispatchInv'
    <2>1. "load" \in TaskPcs /\ "loadx" \in TaskPcs
        BY Zenon DEF TaskPcs
    <2> QED
        BY <1>5, <1>6, <1>8, <1>9, <1>10, <1>11, <1>12, <1>13, <1>15, <2>1, Zenon
        DEF Call, Exit, Fault, FaultEnd
<1>16. ASSUME NEW c \in Cpus,
              \/ Timer(c) /\ UNCHANGED memory
              \/ Int32(c) /\ UNCHANGED memory
              \/ Switch(c)
       PROVE  DispatchInv'
    BY <1>3, <1>4, <1>16, Zenon DEF Switch
<1>17. ASSUME BootTask \/ (\E x \in Ctxs : BootProcess(x)) \/ StartScheduler
       PROVE  DispatchInv'
    BY <1>1, <1>2, <1>17, Zenon DEF BootTask, BootProcess, StartScheduler, Ctx
<1> QED
    BY <1>14, <1>15, <1>16, <1>17, Zenon DEF ProcessNext

(* What a step leaves of the process variables, in their types.            *)
MemoryOK ==
    /\ ctx \in [Ctxs -> {"none", "live", "freed", "double"}]
    /\ cr3 \in [Cpus -> Ctx]
    /\ began \in [Slots -> BOOLEAN]
    /\ savedCr3 \in [Slots -> Ctx]
    /\ killed \in BOOLEAN

LEMMA FreedType ==
    ASSUME ctx \in [Ctxs -> {"none", "live", "freed", "double"}], NEW x
    PROVE  Freed(x) \in [Ctxs -> {"none", "live", "freed", "double"}]
BY Zenon DEF Freed

LEMMA MemoryType ==
    ASSUME ProcessTypeOK, [ProcessNext]_allVars
    PROVE  MemoryOK'
<1>0. TypeOK /\ MemoryOK /\ NoCtx \in Ctx
    BY Zenon DEF ProcessTypeOK, MemoryOK, Ctx
<1>1. CASE UNCHANGED memory
    BY <1>0, <1>1, Zenon DEF memory, MemoryOK
<1>2. ASSUME NEW x \in Ctxs, ctx' = [ctx EXCEPT ![x] = "live"],
             UNCHANGED <<cr3, began, savedCr3, killed>>
      PROVE  MemoryOK'
    BY <1>0, <1>2, Zenon DEF MemoryOK
<1>3. ASSUME NEW x, ctx' = Freed(x), UNCHANGED <<cr3, began, savedCr3, killed>>
      PROVE  MemoryOK'
    BY <1>0, <1>3, FreedType, Zenon DEF MemoryOK
<1>4. ASSUME NEW x, ctx' = Freed(x) \/ ctx' = ctx, NEW c \in Cpus, NEW y \in Ctx,
             cr3' = [cr3 EXCEPT ![c] = y], UNCHANGED <<began, savedCr3, killed>>
      PROVE  MemoryOK'
    BY <1>0, <1>4, FreedType, Zenon DEF MemoryOK
<1>5. CASE StartScheduler
    <2>0. PICK n \in Slots : cur' = [cur EXCEPT ![Bsp] = n]
        BY <1>5, Zenon DEF StartScheduler, Start
    <2>1. cur'[Bsp] \in Slots
        BY <1>0, <2>0, CpuAssumption, Zenon DEF TypeOK
    <2>2. userData[cur'[Bsp]] \in Ctx
        BY <1>0, <2>1, Zenon DEF TypeOK
    <2> QED
        BY <1>0, <1>5, <2>2, Zenon DEF StartScheduler, MemoryOK
<1>6. ASSUME NEW c \in Cpus, Switch(c)
      PROVE  MemoryOK'
    <2>1. (IF cur[c] = NoTask THEN NoCtx ELSE userData[cur[c]]) \in Ctx
        BY <1>0, Zenon DEF TypeOK
    <2> QED
        BY <1>4, <1>6, <2>1, Zenon DEF Switch
<1>7. ASSUME NEW c \in Cpus, NEW s \in Slots, Call(c, s)
      PROVE  MemoryOK'
    BY <1>0, <1>7, Zenon DEF Call, MemoryOK
<1>8. ASSUME NEW c \in Cpus, NEW s \in Slots, RunCreate(c, s)
      PROVE  MemoryOK'
    BY <1>0, <1>8, Zenon DEF RunCreate, MemoryOK
<1>9. ASSUME NEW c \in Cpus, NEW s \in Slots, CleanBegin(c, s)
      PROVE  MemoryOK'
    BY <1>0, <1>9, Zenon DEF CleanBegin, MemoryOK, Ctx
<1>10. ASSUME NEW c \in Cpus, NEW s \in Slots, CleanEnd(c, s)
       PROVE  MemoryOK'
    <2>1. PICK y \in Ctx : cr3' = [cr3 EXCEPT ![c] = y]
        BY <1>0, <1>10, Zenon DEF CleanEnd, TypeOK, MemoryOK
    <2> QED
        BY <1>0, <1>10, <2>1, FreedType, Zenon DEF CleanEnd, MemoryOK
<1>11. ASSUME NEW c \in Cpus, NEW s \in Slots, FaultEnd(c, s)
       PROVE  MemoryOK'
    BY <1>0, <1>4, <1>11, Zenon DEF FaultEnd
<1>12. ASSUME NEW c \in Cpus, NEW s \in Slots,
              RunFails(c, s) \/ ExecFails(c, s)
       PROVE  MemoryOK'
    BY <1>3, <1>12, Zenon DEF RunFails, ExecFails, Discard
<1>13. ASSUME NEW c \in Cpus, NEW s \in Slots,
              ExecReplace(c, s) \/ Leave(c, s) \/ Exit(c, s) \/ Fault(c, s)
       PROVE  MemoryOK'
    BY <1>1, <1>13, Zenon DEF ExecReplace, Leave, Exit, Fault
<1>14. ASSUME NEW c \in Cpus, NEW s \in Slots, NEW x \in Ctxs,
              Load(c, s, x, "run", "load") \/ Load(c, s, x, "exec", "loadx")
       PROVE  MemoryOK'
    BY <1>2, <1>14, Zenon DEF Load
<1>15. CASE BootTask \/ \E x \in Ctxs : BootProcess(x)
    BY <1>1, <1>2, <1>15, Zenon DEF BootTask, BootProcess
<1> QED
    BY <1>1, <1>5, <1>6, <1>7, <1>8, <1>9, <1>10, <1>11, <1>12, <1>13, <1>14, <1>15, Zenon
    DEF ProcessNext, allVars

LEMMA ProcessTypeStep ==
    ASSUME ProcessTypeOK, DispatchInv, [ProcessNext]_allVars
    PROVE  ProcessTypeOK' /\ DispatchInv'
<1>1. DispatchInv' /\ TypeOK'
    BY ProcessDispatch, Zenon DEF DispatchInv
<1> QED
    BY <1>1, MemoryType, Zenon DEF ProcessTypeOK, MemoryOK

-----------------------------------------------------------------------------
(* References to contexts.                                                 *)

(* Where a task's kernel code has a context in a local variable, and where *)
(* that is one it has just loaded, which nothing else refers to yet.       *)
HandPcs == {"load", "loadx", "kill", "leave", "exec", "fault"}
Loading(s) == tpc[s] \in {"load", "loadx"}

InHand == \A s \in Slots : held[s] # NoCtx <=> tpc[s] \in HandPcs

(* No two tasks have one context, and none that kernel code holds belongs  *)
(* to a task, except in a process that is cleaning up its own to exit.     *)
OneTask == \A s, r \in Slots : userData[s] # NoCtx /\ userData[s] = userData[r] => s = r
HandApart ==
    \A s, r \in Slots : held[s] # NoCtx /\ held[s] = userData[r] => s = r /\ tpc[s] = "leave"
LoadApart == \A s, r \in Slots : Loading(s) /\ held[s] = held[r] => s = r

(* A context preempt is about to free belongs to no task and to no loader. *)
ReapApart ==
    \A c \in Cpus : reap[c] # NoCtx =>
        \A s \in Slots : reap[c] # userData[s] /\ (Loading(s) => reap[c] # held[s])

(* A task's context is live until the task has cleaned it up to exit; a    *)
(* context being loaded is live; no reference is to memory never loaded.   *)
TaskLive ==
    \A s \in Slots : userData[s] # NoCtx =>
        ctx[userData[s]] # "none" /\ (tpc[s] # "left" => ctx[userData[s]] = "live")
HandLive ==
    \A s \in Slots : held[s] # NoCtx =>
        ctx[held[s]] # "none" /\ (Loading(s) => ctx[held[s]] = "live")
ReapLoaded == \A c \in Cpus : reap[c] # NoCtx => ctx[reap[c]] # "none"

(* exec's task has a context to replace unless it has been terminated.     *)
ExecHasOld ==
    \A s \in Slots : tpc[s] = "loadx" /\ state[s] # "terminated" => userData[s] # NoCtx

Owned ==
    /\ InHand /\ OneTask /\ HandApart /\ LoadApart /\ ReapApart
    /\ TaskLive /\ HandLive /\ ReapLoaded /\ ExecHasOld

(* Before the scheduler starts nothing has run.                            *)
Booting ==
    ~active => /\ \A c \in Cpus : cur[c] = NoTask /\ reap[c] = NoCtx
               /\ \A s \in Slots : state[s] = "ready" /\ tpc[s] = "code" /\ ~resurrected[s]
               /\ ~killed

(* A step that moves no reference and frees nothing.                       *)
LEMMA OwnedKept ==
    ASSUME Owned, UNCHANGED <<userData, held, reap, ctx>>,
           \A s \in Slots : \/ tpc'[s] = tpc[s]
                            \/ /\ tpc[s] \in {"code", "sleep", "wait", "waitsleep"}
                               /\ tpc'[s] \in {"code", "sleep", "wait", "waitsleep"},
           \A s \in Slots : state[s] = "terminated" /\ tpc[s] = "loadx"
                                => state'[s] = "terminated"
    PROVE  Owned'
<1>1. InHand'
    BY Zenon DEF Owned, InHand, HandPcs
<1>2. OneTask' /\ HandApart' /\ LoadApart' /\ ReapApart'
    BY DEF Owned, OneTask, HandApart, LoadApart, ReapApart, Loading
<1>3. TaskLive' /\ HandLive' /\ ReapLoaded' /\ ExecHasOld'
    BY Zenon DEF Owned, TaskLive, HandLive, ReapLoaded, ExecHasOld, Loading
<1> QED
    BY <1>1, <1>2, <1>3, Zenon DEF Owned

(* preempt takes the context of a terminated task.                         *)
LEMMA OwnedSaved ==
    ASSUME TypeOK, Owned, NEW c \in Cpus, SaveCurrent(c), UNCHANGED <<held, tpc, ctx>>,
           \A s \in Slots : state[s] = "terminated" => state'[s] = "terminated"
    PROVE  Owned'
<1>0. /\ userData \in [Slots -> Ctx] /\ reap \in [Cpus -> Ctx]
      /\ \A s \in Slots : userData'[s] = IF TakesCtx(c, s) THEN NoCtx ELSE userData[s]
      /\ \A d \in Cpus : d # c => reap'[d] = reap[d]
      /\ reap'[c] # NoCtx => /\ cur[c] \in Slots
                             /\ TakesCtx(c, cur[c])
                             /\ reap'[c] = userData[cur[c]]
    BY Zenon DEF TypeOK, SaveCurrent
<1>1. InHand' /\ OneTask' /\ HandApart' /\ LoadApart'
    BY <1>0 DEF Owned, InHand, OneTask, HandApart, LoadApart, Loading
<1>2. ReapApart' /\ ReapLoaded'
    BY <1>0 DEF Owned, ReapApart, ReapLoaded, TaskLive, HandApart, OneTask, Loading, TakesCtx
<1>3. TaskLive' /\ HandLive' /\ ExecHasOld'
    BY <1>0 DEF Owned, TaskLive, HandLive, ExecHasOld, Loading, TakesCtx
<1> QED
    BY <1>1, <1>2, <1>3, Zenon DEF Owned

(* preempt's tail frees what it took.                                      *)
LEMMA OwnedSwitched ==
    ASSUME ProcessTypeOK, Owned, NEW c \in Cpus, Switch(c)
    PROVE  Owned'
<1>0. /\ reap' = [reap EXCEPT ![c] = NoCtx]
      /\ reap \in [Cpus -> Ctx]
      /\ UNCHANGED <<userData, held, tpc, state>>
      /\ ctx \in [Ctxs -> {"none", "live", "freed", "double"}]
    BY Zenon DEF Switch, SwitchDone, ProcessTypeOK, TypeOK, table, taskCode
<1>1. InHand' /\ OneTask' /\ HandApart' /\ LoadApart' /\ ReapApart' /\ ExecHasOld'
    BY <1>0 DEF Owned, InHand, OneTask, HandApart, LoadApart, ReapApart, ExecHasOld, Loading
<1>2. TaskLive' /\ HandLive' /\ ReapLoaded'
    BY <1>0 DEF Owned, TaskLive, HandLive, ReapLoaded, ReapApart, Loading, Switch, Freed
<1> QED
    BY <1>1, <1>2, Zenon DEF Owned

(* A new task gets a context nothing else refers to, or none.              *)
LEMMA OwnedCreated ==
    ASSUME Owned, NEW r \in Slots, NEW s \in Slots, NEW x, tpc[s] # "left",
           \A q \in Slots : userData'[q] = IF q = r THEN x ELSE userData[q],
           \A q \in Slots : held'[q] = IF q = r \/ q = s THEN NoCtx ELSE held[q],
           \A q \in Slots : tpc'[q] = IF q = r \/ q = s THEN "code" ELSE tpc[q],
           \A q \in Slots : q # r => state'[q] = state[q],
           UNCHANGED reap,
           \A y \in Ctxs : y # x => ctx'[y] = ctx[y],
           userData \in [Slots -> Ctx], held \in [Slots -> Ctx], reap \in [Cpus -> Ctx],
           x # NoCtx => /\ ctx'[x] = "live"
                        /\ \A q \in Slots : userData[q] # x
                        /\ \A q \in Slots : held[q] = x => q = s
                        /\ \A d \in Cpus : reap[d] # x
    PROVE  Owned'
<1>1. InHand'
    BY Zenon DEF Owned, InHand, HandPcs
<1>2. OneTask'
    BY DEF Owned, OneTask
<1>8. ASSUME NEW q \in Slots, NEW p \in Slots, held'[q] # NoCtx, held'[q] = userData'[p]
      PROVE  q = p /\ tpc'[q] = "leave"
    <2>1. q # r /\ q # s /\ held[q] # NoCtx /\ held'[q] = held[q] /\ tpc'[q] = tpc[q]
        BY <1>8, Zenon
    <2>2. p # r
        BY <1>8, <2>1, Zenon
    <2>3. held[q] = userData[p]
        BY <1>8, <2>1, <2>2, Zenon
    <2> QED
        BY <2>1, <2>3, Zenon DEF Owned, HandApart
<1>9. HandApart'
    BY <1>8, Zenon DEF HandApart
<1>3. LoadApart'
    BY DEF Owned, InHand, HandPcs, LoadApart, Loading
<1>4. ReapApart'
    BY DEF Owned, ReapApart, Loading
<1>5. TaskLive'
    BY DEF Owned, TaskLive, Ctx
<1>6. HandLive' /\ ReapLoaded'
    BY DEF Owned, HandLive, ReapLoaded, Ctx, Loading
<1>7. ExecHasOld'
    BY Zenon DEF Owned, ExecHasOld
<1> QED
    BY <1>1, <1>2, <1>3, <1>4, <1>5, <1>6, <1>7, <1>9, Zenon DEF Owned

(* load_process_context: a fresh context in the caller's hand.             *)
LEMMA OwnedLoaded ==
    ASSUME ProcessTypeOK, Owned, NEW c \in Cpus, NEW s \in Slots, NEW x \in Ctxs, NEW op,
           NEW p \in {"load", "loadx"}, Load(c, s, x, op, p)
    PROVE  Owned'
<1>0. /\ \A q \in Slots : held'[q] = IF q = s THEN x ELSE held[q]
      /\ \A q \in Slots : tpc'[q] = IF q = s THEN p ELSE tpc[q]
      /\ \A y \in Ctxs : ctx'[y] = IF y = x THEN "live" ELSE ctx[y]
    BY Zenon DEF Load, ProcessTypeOK, TypeOK
<1>1. /\ UNCHANGED <<userData, reap, state>>
      /\ ctx[x] = "none" /\ tpc[s] = "code" /\ userData[s] # NoCtx
      /\ x # NoCtx
    BY CtxAssumption, Zenon DEF Load, Executes, table, cpuState
<1>2. /\ \A q \in Slots : userData[q] # x /\ held[q] # x
      /\ \A d \in Cpus : reap[d] # x
    BY <1>1, Zenon DEF Owned, TaskLive, HandLive, ReapLoaded
<1>3. /\ \A q \in Slots : userData[q] # NoCtx => ctx'[userData[q]] = ctx[userData[q]]
      /\ \A q \in Slots : held[q] # NoCtx => ctx'[held[q]] = ctx[held[q]]
      /\ \A d \in Cpus : reap[d] # NoCtx => ctx'[reap[d]] = ctx[reap[d]]
    BY <1>0, <1>2, SMTT(30) DEF ProcessTypeOK, TypeOK, Ctx
<1>4. InHand' /\ OneTask'
    BY <1>0, <1>1, Zenon DEF Owned, InHand, HandPcs, OneTask
<1>5. HandApart'
    BY <1>0, <1>1, <1>2 DEF Owned, HandApart
<1>6. LoadApart' /\ ReapApart'
    BY <1>0, <1>1, <1>2 DEF Owned, LoadApart, ReapApart, Loading
<1>7. TaskLive'
    BY <1>0, <1>1, <1>3 DEF Owned, TaskLive
<1>8. HandLive' /\ ReapLoaded'
    BY <1>0, <1>1, <1>3 DEF Owned, HandLive, ReapLoaded, Loading
<1>9. ExecHasOld'
    BY <1>0, <1>1, Zenon DEF Owned, ExecHasOld
<1> QED
    BY <1>4, <1>5, <1>6, <1>7, <1>8, <1>9, Zenon DEF Owned

(* Freeing the context in a task's hand: the end of a cleanup, an exit, or *)
(* a load given up.  No task has it, except its own which is leaving.      *)
LEMMA OwnedFreed ==
    ASSUME ProcessTypeOK, Owned, NEW s \in Slots, tpc[s] \in HandPcs, NEW p,
           ctx' = Freed(held[s]),
           held' = [held EXCEPT ![s] = NoCtx],
           tpc' = [tpc EXCEPT ![s] = p],
           p \in {"code", "left", "exit"}, tpc[s] = "leave" => p = "left",
           UNCHANGED reap,
           \/ UNCHANGED <<userData, state>>
           \/ /\ userData' = [userData EXCEPT ![s] = NoCtx]
              /\ state' = [state EXCEPT ![s] = "terminated"]
    PROVE  Owned'
<1>0. /\ \A q \in Slots : held'[q] = IF q = s THEN NoCtx ELSE held[q]
      /\ \A q \in Slots : tpc'[q] = IF q = s THEN p ELSE tpc[q]
      /\ \A q \in Slots : userData'[q] = userData[q] \/ userData'[q] = NoCtx
      /\ \A q \in Slots : q # s => userData'[q] = userData[q] /\ state'[q] = state[q]
    BY DEF ProcessTypeOK, TypeOK
<1>1. held[s] # NoCtx /\ held[s] \in Ctxs
    BY Zenon DEF Owned, InHand, ProcessTypeOK, TypeOK, Ctx
<1>2. /\ \A y \in Ctxs : y # held[s] => ctx'[y] = ctx[y]
      /\ ctx'[held[s]] # "none"
    BY <1>1, Zenon DEF Freed, ProcessTypeOK
<1>3. /\ \A q \in Slots : userData[q] = held[s] => q = s /\ tpc[s] = "leave"
      /\ \A q \in Slots : Loading(q) /\ q # s => held[q] # held[s]
    BY <1>1, Zenon DEF Owned, HandApart, LoadApart
<1>4. \A y \in Ctxs : ctx[y] # "none" => ctx'[y] # "none"
    BY <1>2, Zenon
<1>5. InHand'
    BY <1>0 DEF Owned, InHand, HandPcs
<1>6. OneTask' /\ HandApart'
    BY <1>0 DEF Owned, OneTask, HandApart
<1>7. LoadApart'
    BY <1>0 DEF Owned, LoadApart, Loading, InHand, HandPcs
<1>8. ReapApart' /\ ExecHasOld'
    BY <1>0 DEF Owned, ReapApart, ExecHasOld, Loading
<1>9. TaskLive'
    <2> SUFFICES ASSUME NEW q \in Slots, userData'[q] # NoCtx
                 PROVE  /\ ctx'[userData'[q]] # "none"
                        /\ tpc'[q] # "left" => ctx'[userData'[q]] = "live"
        BY Zenon DEF TaskLive
    <2>1. userData'[q] = userData[q] /\ userData[q] \in Ctxs
        BY <1>0 DEF ProcessTypeOK, TypeOK, Ctx
    <2>2. ctx[userData[q]] # "none" /\ (tpc[q] # "left" => ctx[userData[q]] = "live")
        BY <2>1, Zenon DEF Owned, TaskLive
    <2>3. q = s => tpc[q] # "left"
        BY Zenon DEF HandPcs
    <2> QED
        BY <1>0, <1>2, <1>3, <1>4, <2>1, <2>2, <2>3, SMTT(30)
<1>10. HandLive'
    <2> SUFFICES ASSUME NEW q \in Slots, held'[q] # NoCtx
                 PROVE  /\ ctx'[held'[q]] # "none"
                        /\ Loading(q)' => ctx'[held'[q]] = "live"
        BY Zenon DEF HandLive
    <2>1. q # s /\ held'[q] = held[q] /\ tpc'[q] = tpc[q] /\ held[q] \in Ctxs
        BY <1>0 DEF ProcessTypeOK, TypeOK, Ctx
    <2>2. ctx[held[q]] # "none" /\ (Loading(q) => ctx[held[q]] = "live")
        BY <2>1, Zenon DEF Owned, HandLive
    <2>3. Loading(q) => ctx'[held[q]] = ctx[held[q]]
        BY <1>2, <1>3, <2>1, Zenon
    <2> QED
        BY <1>4, <2>1, <2>2, <2>3, Zenon DEF Loading
<1>11. ReapLoaded'
    BY <1>4, Zenon DEF Owned, ReapLoaded, ProcessTypeOK, TypeOK, Ctx
<1> QED
    BY <1>5, <1>6, <1>7, <1>8, <1>9, <1>10, <1>11, Zenon DEF Owned

(* exec replaces the task's context by the one it has loaded.              *)
LEMMA OwnedReplaced ==
    ASSUME ProcessTypeOK, Owned, NEW c \in Cpus, NEW s \in Slots, ExecReplace(c, s)
    PROVE  Owned'
<1>0. /\ \A q \in Slots : userData'[q] = IF q = s THEN held[s] ELSE userData[q]
      /\ \A q \in Slots : held'[q] = IF q = s THEN userData[s] ELSE held[q]
      /\ \A q \in Slots : tpc'[q] = IF q = s THEN "exec" ELSE tpc[q]
    BY Zenon DEF ExecReplace, ReplaceContext, ProcessTypeOK, TypeOK
<1>1. /\ UNCHANGED <<reap, state, ctx>>
      /\ tpc[s] = "loadx" /\ state[s] # "terminated"
    BY Zenon DEF ExecReplace, ReplaceContext, Executes, cpuState, memory
<1>2. userData[s] # NoCtx /\ held[s] # NoCtx /\ Loading(s)
    BY <1>1, Zenon DEF Owned, ExecHasOld, InHand, HandPcs, Loading
<1>3. /\ \A q \in Slots : userData[q] # held[s]
      /\ \A q \in Slots : q # s => held[q] # held[s]
      /\ \A q \in Slots : q # s => userData[q] # userData[s]
      /\ \A q \in Slots : Loading(q) => held[q] # userData[s]
      /\ \A d \in Cpus : reap[d] # held[s]
    BY <1>1, <1>2, Zenon DEF Owned, HandApart, LoadApart, OneTask, ReapApart, Loading
<1>4. InHand'
    BY <1>0, <1>2, Zenon DEF Owned, InHand, HandPcs
<1>5. OneTask'
    BY <1>0, <1>3 DEF Owned, OneTask
<1>6. HandApart'
    BY <1>0, <1>3 DEF Owned, HandApart
<1>7. LoadApart' /\ ReapApart'
    BY <1>0, <1>1, <1>3 DEF Owned, LoadApart, ReapApart, Loading
<1>8. TaskLive' /\ HandLive'
    BY <1>0, <1>1, <1>2 DEF Owned, TaskLive, HandLive, Loading
<1>9. ReapLoaded' /\ ExecHasOld'
    BY <1>0, <1>1, Zenon DEF Owned, ReapLoaded, ExecHasOld
<1> QED
    BY <1>4, <1>5, <1>6, <1>7, <1>8, <1>9, Zenon DEF Owned

(* Kernel code of s takes the context of task v in hand to free it: its    *)
(* own when it leaves or faults, and that of a task it terminates.         *)
LEMMA OwnedTaken ==
    ASSUME ProcessTypeOK, Owned, NEW s \in Slots, NEW v \in Slots,
           NEW p \in {"kill", "leave", "fault"},
           tpc[s] = "code", userData[v] # NoCtx,
           held' = [held EXCEPT ![s] = userData[v]],
           tpc' = [tpc EXCEPT ![s] = p],
           \/ userData' = [userData EXCEPT ![v] = NoCtx]
           \/ UNCHANGED userData /\ p = "leave" /\ v = s,
           UNCHANGED <<reap, ctx>>,
           \A q \in Slots : state'[q] = state[q] \/ state'[q] = "terminated",
           userData'[v] = NoCtx => state'[v] = "terminated"
    PROVE  Owned'
<1>0. /\ \A q \in Slots : held'[q] = IF q = s THEN userData[v] ELSE held[q]
      /\ \A q \in Slots : tpc'[q] = IF q = s THEN p ELSE tpc[q]
      /\ \A q \in Slots : q # v => userData'[q] = userData[q]
      /\ userData'[v] = NoCtx \/ (userData'[v] = userData[v] /\ p = "leave" /\ v = s)
    BY Zenon DEF ProcessTypeOK, TypeOK
<1>1. /\ \A q \in Slots : q # v => userData[q] # userData[v]
      /\ \A q \in Slots : Loading(q) => held[q] # userData[v]
    BY Zenon DEF Owned, OneTask, HandApart, Loading, InHand, HandPcs
<1>2. InHand'
    BY <1>0 DEF Owned, InHand, HandPcs
<1>3. OneTask'
    BY <1>0 DEF Owned, OneTask
<1>4. HandApart'
    BY <1>0, <1>1, SMTT(30) DEF Owned, HandApart
<1>5. LoadApart' /\ ReapApart'
    BY <1>0, <1>1, SMTT(30) DEF Owned, LoadApart, ReapApart, Loading
<1>6. TaskLive'
    BY <1>0 DEF Owned, TaskLive
<1>7. HandLive' /\ ReapLoaded'
    BY <1>0 DEF Owned, HandLive, ReapLoaded, TaskLive, Loading
<1>8. ExecHasOld'
    BY <1>0 DEF Owned, ExecHasOld
<1> QED
    BY <1>2, <1>3, <1>4, <1>5, <1>6, <1>7, <1>8, Zenon DEF Owned

(* exit_task with nothing in hand.                                         *)
LEMMA OwnedExited ==
    ASSUME ProcessTypeOK, Owned, NEW c \in Cpus, NEW s \in Slots, Exit(c, s)
    PROVE  Owned'
<1>0. /\ \A q \in Slots : userData'[q] = IF q = s THEN NoCtx ELSE userData[q]
      /\ \A q \in Slots : held'[q] = IF q = s THEN NoCtx ELSE held[q]
      /\ \A q \in Slots : tpc'[q] = IF q = s THEN "exit" ELSE tpc[q]
      /\ \A q \in Slots : q # s => state'[q] = state[q]
      /\ UNCHANGED <<reap, ctx>>
    BY SMTT(30) DEF Exit, ExitTask, ProcessTypeOK, TypeOK, cpuState, memory
<1>1. InHand' /\ OneTask'
    BY <1>0 DEF Owned, InHand, HandPcs, OneTask
<1>2. HandApart'
    BY <1>0 DEF Owned, HandApart
<1>3. LoadApart' /\ ReapApart'
    BY <1>0 DEF Owned, LoadApart, ReapApart, Loading, InHand, HandPcs
<1>4. TaskLive' /\ HandLive'
    BY <1>0 DEF Owned, TaskLive, HandLive, Loading
<1>5. ReapLoaded' /\ ExecHasOld'
    BY <1>0, Zenon DEF Owned, ReapLoaded, ExecHasOld
<1> QED
    BY <1>1, <1>2, <1>3, <1>4, <1>5, Zenon DEF Owned

(* Creating a task, by the scheduler's own critical section.               *)
LEMMA OwnedBoot ==
    ASSUME ProcessTypeOK, Owned, Booting, NEW x \in Ctx, BootCreate(x),
           \/ x = NoCtx /\ UNCHANGED ctx
           \/ x # NoCtx /\ ctx[x] = "none" /\ ctx' = [ctx EXCEPT ![x] = "live"]
    PROVE  Owned'
<1>1. PICK r \in Slots : CreateIn(r, x)
    BY Zenon DEF BootCreate
<1>2. /\ userData \in [Slots -> Ctx] /\ held \in [Slots -> Ctx] /\ reap \in [Cpus -> Ctx]
      /\ state \in [Slots -> States]
    BY Zenon DEF ProcessTypeOK, TypeOK
<1>3. /\ \A q \in Slots : userData'[q] = IF q = r THEN x ELSE userData[q]
      /\ \A q \in Slots : q # r => state'[q] = state[q]
      /\ UNCHANGED <<reap, tpc, held>>
    BY <1>1, <1>2, Zenon DEF CreateIn, cpuState, BootCreate
<1>4. \A q \in Slots : tpc[q] = "code" /\ held[q] = NoCtx
    BY Zenon DEF Booting, BootCreate, Owned, InHand, HandPcs
<1>5. \A y \in Ctxs : y # x => ctx'[y] = ctx[y]
    BY Zenon DEF ProcessTypeOK
<1>6. x # NoCtx => /\ ctx'[x] = "live"
                   /\ \A q \in Slots : userData[q] # x
                   /\ \A q \in Slots : held[q] = x => q = r
                   /\ \A d \in Cpus : reap[d] # x
    BY <1>4 DEF Owned, TaskLive, ReapLoaded, ProcessTypeOK, Ctx
<1>7. /\ \A q \in Slots : held'[q] = IF q = r \/ q = r THEN NoCtx ELSE held[q]
      /\ \A q \in Slots : tpc'[q] = IF q = r \/ q = r THEN "code" ELSE tpc[q]
      /\ tpc[r] # "left" /\ UNCHANGED reap
    BY <1>3, <1>4, Zenon
<1> QED
    BY <1>2, <1>3, <1>5, <1>6, <1>7, OwnedCreated, SMTT(30)

LEMMA OwnedRun ==
    ASSUME ProcessTypeOK, Owned, NEW c \in Cpus, NEW s \in Slots, RunCreate(c, s)
    PROVE  Owned'
<1>1. PICK r \in Slots : /\ CreateIn(r, held[s])
                         /\ tpc' = [tpc EXCEPT ![r] = "code", ![s] = "code"]
                         /\ held' = [held EXCEPT ![r] = NoCtx, ![s] = NoCtx]
    BY Zenon DEF RunCreate, CreateTask
<1>2. /\ userData \in [Slots -> Ctx] /\ held \in [Slots -> Ctx] /\ reap \in [Cpus -> Ctx]
      /\ state \in [Slots -> States] /\ tpc \in [Slots -> TaskPcs]
    BY Zenon DEF ProcessTypeOK, TypeOK
<1>3. /\ \A q \in Slots : userData'[q] = IF q = r THEN held[s] ELSE userData[q]
      /\ \A q \in Slots : q # r => state'[q] = state[q]
      /\ UNCHANGED <<reap, ctx>>
    BY <1>1, <1>2, Zenon DEF CreateIn, cpuState, RunCreate
<1>4. /\ \A q \in Slots : held'[q] = IF q = r \/ q = s THEN NoCtx ELSE held[q]
      /\ \A q \in Slots : tpc'[q] = IF q = r \/ q = s THEN "code" ELSE tpc[q]
    BY <1>1, <1>2, Zenon
<1>5. tpc[s] = "load" /\ Loading(s) /\ held[s] # NoCtx
    BY Zenon DEF RunCreate, CreateTask, Executes, Loading, Owned, InHand, HandPcs
<1>6. /\ ctx'[held[s]] = "live"
      /\ \A q \in Slots : userData[q] # held[s]
      /\ \A q \in Slots : held[q] = held[s] => q = s
      /\ \A d \in Cpus : reap[d] # held[s]
    BY <1>3, <1>5 DEF Owned, HandLive, HandApart, LoadApart, ReapApart
<1>7. /\ \A y \in Ctxs : y # held[s] => ctx'[y] = ctx[y]
      /\ tpc[s] # "left" /\ UNCHANGED reap
      /\ \A q \in Slots : userData'[q] = IF q = r THEN held[s] ELSE userData[q]
      /\ \A q \in Slots : q # r => state'[q] = state[q]
      /\ userData \in [Slots -> Ctx] /\ held \in [Slots -> Ctx] /\ reap \in [Cpus -> Ctx]
    BY <1>2, <1>3, <1>5, Zenon
<1> QED
    BY <1>4, <1>6, <1>7, OwnedCreated, SMTT(30)

(* preempt never changes the state of a terminated task.                   *)
LEMMA PreemptTerminated ==
    ASSUME TypeOK, NEW c \in Cpus, NEW timer, Preempt(c, timer),
           NEW s \in Slots, state[s] = "terminated"
    PROVE  state'[s] = "terminated"
<1>1. Saved(c, wake')[s] = "terminated"
    BY Zenon DEF Saved, Woken
<1>2. ASSUME NEW n \in Slots, PreemptTo(c, n, timer)
      PROVE  state'[s] = "terminated"
    <2>1. n # s
        BY <1>1, <1>2, Zenon DEF PreemptTo, PicksNext, Candidate
    <2> QED
        BY <1>1, <1>2, <2>1, Zenon DEF PreemptTo, Saved
<1> QED
    BY <1>1, <1>2, Zenon DEF Preempt, PreemptIdle, PreemptKeep

(* Every step keeps the references as Owned says.                          *)
LEMMA OwnedStep ==
    ASSUME ProcessTypeOK, Owned, Booting, [ProcessNext]_allVars
    PROVE  Owned'
<1>0. TypeOK
    BY Zenon DEF ProcessTypeOK
<1>1. CASE BootTask
    BY <1>1, OwnedBoot, Zenon DEF BootTask, memory, Ctx
<1>2. ASSUME NEW x \in Ctxs, BootProcess(x)
      PROVE  Owned'
    <2>1. x \in Ctx /\ x # NoCtx
        BY CtxAssumption, Zenon DEF Ctx
    <2> QED
        BY <1>2, <2>1, OwnedBoot, Zenon DEF BootProcess
<1>3. CASE StartScheduler
    <2>1. PICK n \in Slots : /\ state[n] = "ready"
                             /\ state' = [state EXCEPT ![n] = "running"]
        BY <1>3, Zenon DEF StartScheduler, Start, PicksNext, Candidate
    <2>2. \A s \in Slots : state[s] = "terminated" => state'[s] = "terminated"
        BY <1>0, <2>1, Zenon DEF TypeOK
    <2> QED
        BY <1>3, <2>2, OwnedKept, Zenon DEF StartScheduler, Start, taskCode
<1>4. ASSUME NEW c \in Cpus, Timer(c) \/ Int32(c), UNCHANGED memory
      PROVE  Owned'
    <2>1. PICK timer \in BOOLEAN : Preempt(c, timer)
        BY <1>4, Zenon DEF Timer, Int32
    <2>2. \A s \in Slots : state[s] = "terminated" => state'[s] = "terminated"
        BY <1>0, <2>1, PreemptTerminated, Zenon
    <2>3. UNCHANGED <<held, tpc, ctx>>
        BY <1>4, <2>1, Zenon DEF Preempt, memory
    <2>4. SaveCurrent(c) \/ UNCHANGED <<userData, reap>>
        BY <2>1, Zenon DEF Preempt, PreemptTo, PreemptIdle, PreemptKeep
    <2> QED
        BY <1>0, <2>2, <2>3, <2>4, OwnedSaved, OwnedKept, Zenon
<1>5. ASSUME NEW c \in Cpus, NEW s \in Slots, Call(c, s)
      PROVE  Owned'
    <2>1. ASSUME NEW n, NEW p, SleepFor(s, n, p), p \in {"sleep", "waitsleep"},
                 tpc[s] \in {"code", "wait"}
          PROVE  Owned'
        <3>1. /\ UNCHANGED <<userData, held, reap, ctx>>
              /\ \A q \in Slots : tpc'[q] = IF q = s THEN p ELSE tpc[q]
              /\ \A q \in Slots : q # s => state'[q] = state[q]
            BY <1>0, <1>5, <2>1, SMTT(30) DEF Call, SleepFor, TypeOK, cpuState
        <3> QED
            BY <2>1, <3>1, OwnedKept, Zenon
    <2>2. CASE Sleep(c, s) \/ WaitAgain(c, s)
        BY <2>1, <2>2, Zenon DEF Sleep, WaitAgain, Executes
    <2>3. CASE Yield(c, s)
        BY <1>5, <2>3, OwnedKept, Zenon DEF Yield, Call, table
    <2>4. CASE SleepDone(c, s) \/ WaitForTask(c, s) \/ WaitDone(c, s)
        <3>1. UNCHANGED <<userData, held, reap, ctx, state>>
            BY <1>5, <2>4, Zenon DEF Call, SleepDone, WaitForTask, WaitDone, table, cpuState
        <3>2. PICK p \in {"code", "wait"} : tpc' = [tpc EXCEPT ![s] = p]
            BY <2>4, Zenon DEF SleepDone, WaitForTask, WaitDone
        <3>3. tpc[s] \in {"code", "sleep", "wait", "waitsleep"}
            BY <2>4, Zenon DEF SleepDone, WaitForTask, WaitDone, Executes
        <3>4. \A q \in Slots : tpc'[q] = IF q = s THEN p ELSE tpc[q]
            BY <1>0, <3>2, Zenon DEF TypeOK
        <3> QED
            BY <3>1, <3>2, <3>3, <3>4, OwnedKept, Zenon
    <2>5. ASSUME NEW v \in Slots, TerminateTask(c, s, v)
          PROVE  Owned'
        <3>1. \A q \in Slots : state'[q] = IF q = v THEN "terminated" ELSE state[q]
            BY <1>0, <2>5, Zenon DEF TerminateTask, TypeOK
        <3>2. UNCHANGED <<reap, ctx>> /\ tpc[s] = "code"
            BY <1>5, <2>5, Zenon DEF TerminateTask, Call, cpuState, Executes
        <3>3. CASE currentCpu[v] = NoCpu /\ userData[v] # NoCtx
            BY <2>5, <3>1, <3>2, <3>3, OwnedTaken, Zenon DEF TerminateTask
        <3>4. CASE ~(currentCpu[v] = NoCpu /\ userData[v] # NoCtx)
            <4>1. UNCHANGED <<userData, held, tpc>>
                BY <2>5, <3>4, Zenon DEF TerminateTask
            <4> QED
                BY <3>1, <3>2, <4>1, OwnedKept, Zenon
        <3> QED
            BY <3>3, <3>4, Zenon
    <2> QED
        BY <1>5, <2>2, <2>3, <2>4, <2>5, Zenon DEF Call, TaskStep
<1>6. ASSUME NEW c \in Cpus, NEW s \in Slots, NEW p \in {"code", "left"}, tpc[s] \in HandPcs,
             ctx' = Freed(held[s]), tpc' = [tpc EXCEPT ![s] = p],
             tpc[s] = "leave" => p = "left",
             held' = [held EXCEPT ![s] = NoCtx],
             UNCHANGED <<table, cpuState>>
      PROVE  Owned'
    BY <1>6, OwnedFreed, Zenon DEF table, cpuState
<1>7. ASSUME NEW c \in Cpus, NEW s \in Slots, RunFails(c, s) \/ ExecFails(c, s)
      PROVE  Owned'
    <2>1. tpc[s] \in HandPcs /\ tpc[s] # "leave"
        BY <1>7, Zenon DEF RunFails, ExecFails, Executes, HandPcs
    <2> QED
        BY <1>6, <1>7, <2>1, Zenon DEF RunFails, ExecFails, Discard
<1>8. ASSUME NEW c \in Cpus, NEW s \in Slots, CleanEnd(c, s)
      PROVE  Owned'
    <2>1. tpc[s] \in HandPcs
        BY <1>8, Zenon DEF CleanEnd, Executes, HandPcs
    <2> QED
        BY <1>6, <1>8, <2>1, Zenon DEF CleanEnd
<1>9. ASSUME NEW c \in Cpus, NEW s \in Slots, FaultEnd(c, s)
      PROVE  Owned'
    <2>1. tpc[s] = "fault" /\ tpc[s] \in HandPcs
        BY <1>9, Zenon DEF FaultEnd, ExitTask, Executes, HandPcs
    <2>2. "exit" \in {"code", "left", "exit"} /\ tpc[s] # "leave"
        BY <2>1, Zenon
    <2> QED
        BY <1>9, <2>1, <2>2, OwnedFreed, Zenon DEF FaultEnd, ExitTask, cpuState
<1>10. ASSUME NEW c \in Cpus, NEW s \in Slots, Leave(c, s)
       PROVE  Owned'
    BY <1>10, OwnedTaken, Zenon DEF Leave, Executes, table, cpuState, memory
<1>11. ASSUME NEW c \in Cpus, NEW s \in Slots, Fault(c, s)
       PROVE  Owned'
    <2>1. \A q \in Slots : state'[q] = IF q = s THEN "terminated" ELSE state[q]
        BY <1>0, <1>11, Zenon DEF Fault, DetachCurrent, TypeOK
    <2>2. /\ tpc[s] = "code" /\ userData[s] # NoCtx
          /\ held' = [held EXCEPT ![s] = userData[s]]
          /\ tpc' = [tpc EXCEPT ![s] = "fault"]
          /\ userData' = [userData EXCEPT ![s] = NoCtx]
          /\ UNCHANGED <<reap, ctx>>
        BY <1>11, Zenon DEF Fault, DetachCurrent, Executes, cpuState, memory
    <2>3. /\ \A q \in Slots : state'[q] = state[q] \/ state'[q] = "terminated"
          /\ state'[s] = "terminated"
        BY <2>1, Zenon
    <2> QED
        BY <2>2, <2>3, OwnedTaken, Zenon
<1>12. ASSUME NEW c \in Cpus, NEW s \in Slots, CleanBegin(c, s)
       PROVE  Owned'
    BY <1>12, OwnedKept, Zenon DEF CleanBegin, vars, table, cpuState, taskCode
<1>13. CASE UNCHANGED allVars
    BY <1>13, OwnedKept, Zenon DEF allVars, memory, vars, table, cpuState, taskCode
<1>14. ASSUME NEW c \in Cpus, NEW s \in Slots,
              \E x \in Ctxs : Load(c, s, x, "run", "load") \/ Load(c, s, x, "exec", "loadx")
       PROVE  Owned'
    BY <1>14, OwnedLoaded, Zenon
<1> QED
    BY <1>1, <1>2, <1>3, <1>4, <1>5, <1>7, <1>8, <1>9, <1>10, <1>11, <1>12, <1>13, <1>14,
       OwnedSwitched, OwnedRun, OwnedReplaced, OwnedExited, Zenon
    DEF ProcessNext

(* Until the scheduler starts, only boot creates tasks.                    *)
LEMMA BootingStep ==
    ASSUME ProcessTypeOK, Booting, [ProcessNext]_allVars
    PROVE  Booting'
<1>0. TypeOK
    BY Zenon DEF ProcessTypeOK
<1>1. ASSUME NEW x, BootCreate(x), UNCHANGED killed
      PROVE  Booting'
    <2>1. PICK r \in Slots : CreateIn(r, x)
        BY <1>1, Zenon DEF BootCreate
    <2>2. /\ UNCHANGED <<active, cur, reap, tpc, resurrected, killed>>
          /\ state' = [state EXCEPT ![r] = "ready"]
        BY <1>1, <2>1, Zenon DEF BootCreate, CreateIn, cpuState, history
    <2>3. \A q \in Slots : state[q] = "ready" => state'[q] = "ready"
        BY <1>0, <2>2, Zenon DEF TypeOK
    <2> QED
        BY <2>2, <2>3, Zenon DEF Booting
<1>2. CASE StartScheduler
    <2>1. active'
        BY <1>2, Zenon DEF StartScheduler, Start
    <2> QED
        BY <2>1, Zenon DEF Booting
<1>3. ASSUME NEW c \in Cpus, Timer(c) \/ Int32(c)
      PROVE  Booting'
    <2>0. PICK timer \in BOOLEAN : Preempt(c, timer)
        BY <1>3, Zenon DEF Timer, Int32
    <2>1. active /\ active' = active
        BY <2>0, Zenon DEF Preempt
    <2> QED
        BY <2>1, Zenon DEF Booting
<1>4. ASSUME NEW c \in Cpus, Switch(c)
      PROVE  Booting'
    <2>1. /\ UNCHANGED <<active, cur, state, tpc, resurrected, killed>>
          /\ reap' = [reap EXCEPT ![c] = NoCtx]
        BY <1>4, Zenon DEF Switch, SwitchDone, table, taskCode, history
    <2>2. \A d \in Cpus : reap[d] = NoCtx => reap'[d] = NoCtx
        BY <1>0, <2>1, Zenon DEF TypeOK
    <2> QED
        BY <2>1, <2>2, Zenon DEF Booting
<1>5. CASE UNCHANGED allVars
    BY <1>5, Zenon DEF allVars, vars, table, cpuState, taskCode, history, memory, Booting
<1>6. ASSUME NEW c \in Cpus, NEW s \in Slots, NEW p, Executes(c, s, p), UNCHANGED active
      PROVE  Booting'
    <2>1. cur[c] # NoTask
        BY <1>6 DEF Executes, Slots, NoTask
    <2> QED
        BY <1>6, <2>1, Zenon DEF Booting
<1>7. ASSUME NEW c \in Cpus, NEW s \in Slots, Call(c, s)
      PROVE  Booting'
    <2>1. UNCHANGED active
        BY <1>7, Zenon
        DEF Call, TaskStep, Yield, Sleep, SleepDone, WaitForTask, WaitDone, WaitAgain,
           SleepFor, TerminateTask, table
    <2>2. \E p \in TaskPcs : Executes(c, s, p)
        BY <1>7, Zenon
        DEF Call, TaskStep, Yield, Sleep, SleepDone, WaitForTask, WaitDone, WaitAgain,
           TerminateTask, TaskPcs
    <2> QED
        BY <1>6, <2>1, <2>2, Zenon
<1>8. ASSUME NEW c \in Cpus, NEW s \in Slots, NEW x \in Ctxs, NEW op, NEW p, Load(c, s, x, op, p)
      PROVE  Booting'
    BY <1>6, <1>8, Zenon DEF Load, table
<1>9. ASSUME NEW c \in Cpus, NEW s \in Slots, RunCreate(c, s)
      PROVE  Booting'
    BY <1>6, <1>9, Zenon DEF RunCreate, CreateTask, CreateIn
<1>10. ASSUME NEW c \in Cpus, NEW s \in Slots,
              \/ RunFails(c, s) \/ ExecFails(c, s) \/ Leave(c, s)
              \/ CleanBegin(c, s) \/ CleanEnd(c, s)
      PROVE  Booting'
    BY <1>6, <1>10, Zenon
    DEF RunFails, ExecFails, Discard, Leave, CleanBegin, CleanEnd, vars, table
<1>11. ASSUME NEW c \in Cpus, NEW s \in Slots,
              ExecReplace(c, s) \/ Exit(c, s) \/ Fault(c, s) \/ FaultEnd(c, s)
       PROVE  Booting'
    BY <1>6, <1>11, Zenon
    DEF ExecReplace, ReplaceContext, Exit, ExitTask, Fault, DetachCurrent, FaultEnd
<1>12. CASE BootTask \/ \E x \in Ctxs : BootProcess(x)
    BY <1>1, <1>12, Zenon DEF BootTask, BootProcess, memory
<1> QED
    BY <1>2, <1>3, <1>4, <1>5, <1>7, <1>8, <1>9, <1>10, <1>11, <1>12, Zenon DEF ProcessNext

OwnInv == ProcessTypeOK /\ DispatchInv /\ Booting /\ Owned

LEMMA OwnInit == ProcessInit => OwnInv
<1> SUFFICES ASSUME ProcessInit PROVE OwnInv
    OBVIOUS
<1>1. Init
    BY Zenon DEF ProcessInit
<1>2. TypeOK /\ DispatchInv
    BY <1>1, TypeInit, Zenon DEF Init, DispatchInv, DispatchIsRecorded
<1>3. ProcessTypeOK
    BY <1>2, Zenon DEF ProcessInit, ProcessTypeOK, Ctx
<1>4. Booting
    <2>1. \A c \in Cpus : cur[c] = NoTask /\ reap[c] = NoCtx
        BY <1>1, Zenon DEF Init
    <2>2. \A s \in Slots : state[s] = "ready" /\ tpc[s] = "code" /\ ~resurrected[s]
        BY <1>1, Zenon DEF Init
    <2>3. ~killed
        BY Zenon DEF ProcessInit
    <2> QED
        BY <2>1, <2>2, <2>3, Zenon DEF Booting
<1>5. \A s \in Slots : userData[s] = NoCtx /\ held[s] = NoCtx /\ tpc[s] = "code"
    BY <1>1, Zenon DEF Init
<1>6. \A c \in Cpus : reap[c] = NoCtx
    BY <1>1, Zenon DEF Init
<1>7. Owned
    <2>1. InHand /\ LoadApart /\ ExecHasOld
        BY <1>5, Zenon DEF InHand, HandPcs, LoadApart, Loading, ExecHasOld
    <2>2. OneTask /\ HandApart /\ TaskLive /\ HandLive
        BY <1>5, Zenon DEF OneTask, HandApart, TaskLive, HandLive
    <2>3. ReapApart /\ ReapLoaded
        BY <1>6, Zenon DEF ReapApart, ReapLoaded
    <2> QED
        BY <2>1, <2>2, <2>3, Zenon DEF Owned
<1> QED
    BY <1>2, <1>3, <1>4, <1>7, Zenon DEF OwnInv

LEMMA OwnStep == OwnInv /\ [ProcessNext]_allVars => OwnInv'
    BY ProcessTypeStep, BootingStep, OwnedStep, Zenon DEF OwnInv

(* However run, exec, exit, terminate_task, exceptions and preempt's        *)
(* cleanup interleave, a task that can still be scheduled has its context  *)
(* in memory, for any number of CPUs, slots and contexts (process.cpp:      *)
(* 390-470, 576-645; scheduler.cpp:664-705).                                *)
THEOREM SchedulableLive == ProcessSpec => []SchedulableIsLive
<1>1. OwnInv => SchedulableIsLive
    BY Zenon DEF OwnInv, Owned, TaskLive, SchedulableIsLive
<1> QED
    BY <1>1, OwnInit, OwnStep, PTL DEF ProcessSpec
=============================================================================
