--------------------------- MODULE ProcessLifecycle ---------------------------
(***************************************************************************)
(* Processes on top of the scheduler: run_impl, exec_impl, process exit,   *)
(* cleanup_process_context (src/core/process.cpp), the exception handler   *)
(* (src/arch/x86_64/arch_init.cpp) and the address space each CPU has      *)
(* loaded.                                                                 *)
(*                                                                         *)
(* A context stands for its process_task_context, image, allocations and   *)
(* page tables, which load_process_context creates and                     *)
(* cleanup_process_context frees together.  cleanup_process_context called *)
(* from a task can be preempted, so it is two steps there: up to the       *)
(* switch to the kernel page tables, and the rest.                         *)
(***************************************************************************)
EXTENDS Scheduler

VARIABLES
    ctx,        \* "none", "live", "freed", or "double" once freed twice
    cr3,        \* the context whose page tables a CPU has loaded, or NoCtx
    began,      \* a task in cleanup_process_context has left its page tables
    savedCr3,   \* what that call will restore (NoCtx: nothing)
    killed      \* history: some task called terminate_task

memory == <<ctx, cr3, began, savedCr3, killed>>
allVars == <<vars, memory>>

ProcessTypeOK ==
    /\ TypeOK
    /\ ctx \in [Ctxs -> {"none", "live", "freed", "double"}]
    /\ cr3 \in [Cpus -> Ctx]
    /\ began \in [Slots -> BOOLEAN]
    /\ savedCr3 \in [Slots -> Ctx]
    /\ killed \in BOOLEAN

ProcessInit ==
    /\ Init
    /\ ctx = [x \in Ctxs |-> "none"]
    /\ cr3 = [c \in Cpus |-> NoCtx]
    /\ began = [s \in Slots |-> FALSE]
    /\ savedCr3 = [s \in Slots |-> NoCtx]
    /\ killed = FALSE

(* The end of cleanup_process_context: everything of x is freed.           *)
Freed(x) == [ctx EXCEPT ![x] = IF ctx[x] = "live" THEN "freed" ELSE "double"]

-----------------------------------------------------------------------------
(* Starting processes.                                                     *)

(* efi_main: the idle and worker tasks, and processes started by run().    *)
BootTask ==
    /\ BootCreate(NoCtx)
    /\ UNCHANGED memory

BootProcess(x) ==
    /\ taskCount > 0
    /\ ctx[x] = "none"
    /\ BootCreate(x)
    /\ ctx' = [ctx EXCEPT ![x] = "live"]
    /\ UNCHANGED <<cr3, began, savedCr3, killed>>

StartScheduler ==
    /\ Start
    /\ cr3' = [cr3 EXCEPT ![Bsp] = userData[cur'[Bsp]]]
    /\ UNCHANGED <<ctx, began, savedCr3, killed>>

(* load_process_context, for run (p = "load") or exec (p = "loadx").       *)
Load(c, s, x, op, p) ==
    /\ op \in Ops
    /\ Executes(c, s, "code")
    /\ userData[s] # NoCtx
    /\ ctx[x] = "none"
    /\ ctx' = [ctx EXCEPT ![x] = "live"]
    /\ tpc' = [tpc EXCEPT ![s] = p]
    /\ held' = [held EXCEPT ![s] = x]
    /\ UNCHANGED <<table, cpuState, pending, waitId, history, cr3, began, savedCr3, killed>>

(* discard_loaded_process *)
Discard(s) ==
    /\ ctx' = Freed(held[s])
    /\ tpc' = [tpc EXCEPT ![s] = "code"]
    /\ held' = [held EXCEPT ![s] = NoCtx]
    /\ UNCHANGED <<table, cpuState, pending, waitId, history, cr3, began, savedCr3, killed>>

RunCreate(c, s) ==
    /\ CreateTask(c, s, "load", held[s])
    /\ \E r \in Slots :
        /\ id'[r] # id[r]
        /\ began' = [began EXCEPT ![r] = FALSE]
        /\ savedCr3' = [savedCr3 EXCEPT ![r] = NoCtx]
    /\ UNCHANGED <<ctx, cr3, killed>>

RunFails(c, s) ==
    /\ Executes(c, s, "load")
    /\ NoAvailableSlot
    /\ Discard(s)

ExecReplace(c, s) ==
    /\ ReplaceContext(c, s)
    /\ UNCHANGED memory

ExecFails(c, s) ==
    /\ Executes(c, s, "loadx")
    /\ state[s] = "terminated"
    /\ Discard(s)

-----------------------------------------------------------------------------
(* Ending processes.                                                       *)

(* stub_exit, or the return of the entry point to process_task_main or     *)
(* exec_impl: the process cleans up its own context and then calls         *)
(* exit_task.                                                              *)
Leave(c, s) ==
    /\ "exit" \in Ops
    /\ Executes(c, s, "code")
    /\ userData[s] # NoCtx
    /\ tpc' = [tpc EXCEPT ![s] = "leave"]
    /\ held' = [held EXCEPT ![s] = userData[s]]
    /\ UNCHANGED <<table, cpuState, pending, waitId, history, memory>>

(* Mutant of CleanBegin: the caller's page tables are not remembered.      *)
CleanBeginForgets(c, s) ==
    /\ \E p \in {"kill", "leave", "exec"} : Executes(c, s, p)
    /\ ~began[s]
    /\ began' = [began EXCEPT ![s] = TRUE]
    /\ cr3' = [cr3 EXCEPT ![c] = NoCtx]
    /\ UNCHANGED <<vars, ctx, savedCr3, killed>>

(* cleanup_process_context up to activate_kernel().                        *)
CleanBegin(c, s) ==
    /\ \E p \in {"kill", "leave", "exec"} : Executes(c, s, p)
    /\ ~began[s]
    /\ began' = [began EXCEPT ![s] = TRUE]
    /\ savedCr3' = [savedCr3 EXCEPT ![s] =
            IF tpc[s] = "kill" /\ cr3[c] # held[s] THEN cr3[c] ELSE NoCtx]
    /\ cr3' = [cr3 EXCEPT ![c] = NoCtx]
    /\ UNCHANGED <<vars, ctx, killed>>

(* The rest of cleanup_process_context, and what its caller does next:     *)
(* terminate_task returns, exec_impl loads the new page tables and enters  *)
(* the new image, an exiting process goes on to exit_task.                 *)
CleanEnd(c, s) ==
    /\ \E p \in {"kill", "leave", "exec"} : Executes(c, s, p)
    /\ began[s]
    /\ ctx' = Freed(held[s])
    /\ cr3' = [cr3 EXCEPT ![c] =
            CASE tpc[s] = "exec" -> userData[s]
              [] tpc[s] = "kill" /\ savedCr3[s] # NoCtx -> savedCr3[s]
              [] OTHER -> cr3[c]]
    /\ tpc' = [tpc EXCEPT ![s] = IF tpc[s] = "leave" THEN "left" ELSE "code"]
    /\ held' = [held EXCEPT ![s] = NoCtx]
    /\ began' = [began EXCEPT ![s] = FALSE]
    /\ savedCr3' = [savedCr3 EXCEPT ![s] = NoCtx]
    /\ UNCHANGED <<table, cpuState, pending, waitId, history, killed>>

Exit(c, s) ==
    /\ \/ ExitTask(c, s, "left")
       \/ "exit" \in Ops /\ userData[s] = NoCtx /\ ExitTask(c, s, "code")
    /\ UNCHANGED memory

(* A CPU exception in a process, up to detach_current_task; the exception  *)
(* lock admits one CPU at a time.                                          *)
Fault(c, s) ==
    /\ "fault" \in Ops
    /\ userData[s] # NoCtx
    /\ \A r \in Slots : tpc[r] # "fault"
    /\ DetachCurrent(c, s)
    /\ UNCHANGED memory

(* The rest of the handler: cleanup and exit_task, with interrupts off.    *)
FaultEnd(c, s) ==
    /\ ExitTask(c, s, "fault")
    /\ ctx' = Freed(held[s])
    /\ cr3' = [cr3 EXCEPT ![c] = NoCtx]
    /\ UNCHANGED <<began, savedCr3, killed>>

(* preempt's tail frees the context it took and loads the page tables of   *)
(* the next task's context, read from the table without the lock.          *)
Switch(c) ==
    /\ SwitchDone(c)
    /\ ctx' = IF reap[c] = NoCtx THEN ctx ELSE Freed(reap[c])
    /\ cr3' = [cr3 EXCEPT ![c] = IF cur[c] = NoTask THEN NoCtx ELSE userData[cur[c]]]
    /\ UNCHANGED <<began, savedCr3, killed>>

(* The calls of the scheduler that do not touch a context themselves.      *)
Call(c, s) ==
    /\ TaskStep(c, s)
    /\ killed' = (killed \/ \E v \in Slots : state[v] # "terminated" /\ state'[v] = "terminated")
    /\ UNCHANGED <<ctx, cr3, began, savedCr3>>

ProcessNext ==
    \/ BootTask
    \/ \E x \in Ctxs : BootProcess(x)
    \/ StartScheduler
    \/ \E c \in Cpus :
        \/ Timer(c) /\ UNCHANGED memory
        \/ Int32(c) /\ UNCHANGED memory
        \/ Switch(c)
        \/ \E s \in Slots :
            \/ Call(c, s)
            \/ \E x \in Ctxs :
                Load(c, s, x, "run", "load") \/ Load(c, s, x, "exec", "loadx")
            \/ RunCreate(c, s) \/ RunFails(c, s)
            \/ ExecReplace(c, s) \/ ExecFails(c, s)
            \/ Leave(c, s) \/ CleanBegin(c, s) \/ CleanEnd(c, s) \/ Exit(c, s)
            \/ Fault(c, s) \/ FaultEnd(c, s)

ProcessSpec == ProcessInit /\ [][ProcessNext]_allVars

-----------------------------------------------------------------------------
(* Properties.                                                             *)

(* Process code executes on its own, live page tables, whatever switches,  *)
(* cleanups of other processes and execs came before (scheduler.cpp:699-705, *)
(* process.cpp:394-406, 458-460, 630-641).                                 *)
CodeRunsInOwnSpace ==
    \A c \in Cpus : \A s \in Slots :
        Executes(c, s, "code") /\ ~resurrected[s]
            => /\ cr3[c] = userData[s]
               /\ userData[s] # NoCtx => ctx[userData[s]] = "live"

(* The context of a task that can still be scheduled has not been freed,   *)
(* unless the task itself just freed it and is about to call exit_task     *)
(* (kernel_api.cpp:770-779).                                               *)
SchedulableIsLive ==
    \A s \in Slots :
        s < taskCount /\ state[s] # "terminated" /\ tpc[s] # "left" /\ userData[s] # NoCtx
            => ctx[userData[s]] = "live"

(* No context is freed twice by exits, faults, execs and preempt's         *)
(* cleanup (process.cpp:390-461, scheduler.cpp:664-705), as long as nobody *)
(* called terminate_task.                                                  *)
CleanedOnce == \A x \in Ctxs : ~killed => ctx[x] # "double"

(* Every context in memory has an owner who will free it: the task it      *)
(* belongs to, a task loading or cleaning it, or the CPU that took it, as  *)
(* long as nobody called terminate_task (process.cpp:463-470, 576-645).    *)
NoOrphan ==
    \A x \in Ctxs : ~killed /\ ctx[x] = "live" =>
        \/ \E s \in Slots : s < taskCount /\ userData[s] = x
        \/ \E s \in Slots : held[s] = x /\ (state[s] # "terminated" \/ tpc[s] = "fault")
        \/ \E c \in Cpus : reap[c] = x

(* "Switch back to the kernel template before unmapping the address space  *)
(* that contains the just-returned process image." (process.cpp:402-405):  *)
(* when a context is freed no CPU has its page tables loaded.              *)
UnmappedAfterSwitch ==
    [][\A x \in Ctxs : ctx[x] = "live" /\ ctx'[x] = "freed"
        => \A c \in Cpus : cr3'[c] # x]_allVars

(* A context has one owner at a time, who frees it, and is freed once.     *)
ContextsOwned == ProcessTypeOK /\ CleanedOnce /\ NoOrphan
=============================================================================
