----------------------------- MODULE Exceptions -----------------------------
(***************************************************************************)
(* What happens when a CPU faults: interrupt_dispatch of                   *)
(* src/arch/x86_64/arch_init.cpp, the spinlock (include/vkernel/spinlock.h)*)
(* around it, the lines it logs (src/core/log.cpp) and the panic that ends *)
(* it (src/core/panic.cpp), while other CPUs log, fault and panic.         *)
(*                                                                         *)
(* A CPU runs at one of four levels: a task, an interrupt on top of it, an *)
(* exception, an exception within it.  Each level has a place of its own.  *)
(* The lines of a report are two here: those before the instruction bytes  *)
(* are read and those after.  A task that is preempted between two lines,  *)
(* or before it has masked interrupts, is as if another one ran.           *)
(*                                                                         *)
(* A task may fault in its own code or while it writes a line (a string it *)
(* was given); the lines of interrupts, exceptions and panics are made of  *)
(* constants and numbers.  Faults under other locks are left out.          *)
(***************************************************************************)
EXTENDS Integers, FiniteSets

CONSTANTS
    Processors,  \* the CPUs
    Free,        \* a lock nobody holds
    MaxTries,    \* attempts of a crash line to get the lock (1000)
    MaxTraps,    \* bound: faults
    MaxDirect,   \* bound: calls of vk_panic from tasks
    MaxLines     \* bound: lines of tasks and of interrupts

ASSUME ExceptionsAssumption ==
    Free \notin Processors /\ MaxTries \in Nat \ {0} /\ MaxTraps \in Nat /\ MaxDirect \in Nat
    /\ MaxLines \in Nat

Levels == {"task", "irq", "exc", "nested"}

VARIABLES
    level,       \* the level each CPU is at
    place,       \* of each level
    then,        \* where the level goes on after the line it writes
    intr,        \* RFLAGS.IF
    flags,       \* the local `flags` of acquire, try_acquire and release
    locked,      \* locked_ of the line
    tries,       \* attempts so far
    logLock, logSaved, \* s_log_lock and its saved_flags
    excLock, excSaved, \* s_exception_lock
    inException, \* s_in_exception
    user,        \* the task that faulted is a process
    blind,       \* the bytes at its RIP cannot be read
    maps,        \* the kernel's symbols: "ready", or "elsewhere" than in ramfs
    nmi, halted, \* CPUs with an NMI pending; CPUs that have halted
    panicked, spoken, \* history: CPUs in vk_panic, and those whose message is out
    midLine,     \* history: a process faulted while it wrote a line
    traps, directs, lines \* so far

excVars == <<level, place, then, intr, flags, locked, tries, logLock, logSaved, excLock,
             excSaved, inException, user, blind, maps, nmi, halted, panicked, spoken, midLine,
             traps, directs, lines>>
lockVars == <<intr, flags, logLock, logSaved, excLock, excSaved>>
causeVars == <<user, blind, maps, midLine, traps, directs, lines>>
endVars == <<nmi, halted, panicked, spoken>>

At(c) == place[c][level[c]]
Runs(c, p) == c \notin halted /\ At(c) = p
Goes(c, p) == place' = [place EXCEPT ![c][level[c]] = p]

(* A line of level crash begins at "test", the others at "cli".            *)
BeginLine(c, first, next) ==
    /\ Goes(c, first)
    /\ then' = [then EXCEPT ![c][level[c]] = next]

(* Locals that are no longer used have one value.                          *)
EndLine(c) ==
    /\ Goes(c, then[c][level[c]])
    /\ then' = [then EXCEPT ![c][level[c]] = "run"]

-----------------------------------------------------------------------------
(* A line: lock, write, unlock.  spinlock::acquire masks interrupts before *)
(* it spins, release gives back what acquire found.                        *)

Mask(c) ==
    /\ Runs(c, "cli")
    /\ flags' = [flags EXCEPT ![c][level[c]] = intr[c]]
    /\ intr' = [intr EXCEPT ![c] = FALSE]
    /\ Goes(c, "spin")
    /\ UNCHANGED <<level, then, locked, tries, logLock, logSaved, excLock, excSaved,
                   inException, causeVars, endVars>>

(* Mutant of Spin: the lock is not looked at.                              *)
SpinNot(c) ==
    /\ Runs(c, "spin")
    /\ logLock' = c /\ logSaved' = flags[c][level[c]]
    /\ flags' = [flags EXCEPT ![c][level[c]] = FALSE]
    /\ locked' = [locked EXCEPT ![c][level[c]] = TRUE]
    /\ Goes(c, "write")
    /\ UNCHANGED <<level, then, intr, tries, excLock, excSaved, inException, causeVars, endVars>>

Spin(c) ==
    /\ Runs(c, "spin") /\ logLock = Free
    /\ logLock' = c /\ logSaved' = flags[c][level[c]]
    /\ flags' = [flags EXCEPT ![c][level[c]] = FALSE]
    /\ locked' = [locked EXCEPT ![c][level[c]] = TRUE]
    /\ Goes(c, "write")
    /\ UNCHANGED <<level, then, intr, tries, excLock, excSaved, inException, causeVars, endVars>>

(* line::lock of a crash line: held_by_self *)
HeldBySelf(c) ==
    /\ Runs(c, "test")
    /\ Goes(c, IF logLock = c THEN "write" ELSE "try")
    /\ UNCHANGED <<level, then, lockVars, locked, tries, inException, causeVars, endVars>>

(* Mutant of TryAcquire: no end of attempts.                               *)
TryAcquireOn(c) ==
    /\ Runs(c, "try") /\ logLock = Free
    /\ logLock' = c /\ logSaved' = intr[c]
    /\ intr' = [intr EXCEPT ![c] = FALSE]
    /\ locked' = [locked EXCEPT ![c][level[c]] = TRUE]
    /\ Goes(c, "write")
    /\ UNCHANGED <<level, then, flags, tries, excLock, excSaved, inException, causeVars, endVars>>

(* try_acquire, up to MaxTries times; then the line goes out without it.   *)
TryAcquire(c) ==
    /\ Runs(c, "try")
    /\ IF logLock = Free
       THEN /\ logLock' = c /\ logSaved' = intr[c]
            /\ intr' = [intr EXCEPT ![c] = FALSE]
            /\ locked' = [locked EXCEPT ![c][level[c]] = TRUE]
            /\ tries' = [tries EXCEPT ![c] = 0]
            /\ Goes(c, "write")
       ELSE /\ tries' = [tries EXCEPT ![c] = (@ + 1) % MaxTries]
            /\ Goes(c, IF tries[c] + 1 = MaxTries THEN "write" ELSE "try")
            /\ UNCHANGED <<intr, logLock, logSaved, locked>>
    /\ UNCHANGED <<level, then, flags, excLock, excSaved, inException, causeVars, endVars>>

(* The first line of a backtrace asks for the kernel's symbols; when they  *)
(* are not in ramfs, fs::load_file logs, and its line waits for the lock.  *)
EnsureSymbols(next) ==
    IF next = "detach" /\ maps = "elsewhere"
    THEN logLock = Free /\ maps' \in {"ready", "elsewhere"}
    ELSE UNCHANGED maps

(* The text of the line.                                                   *)
Wrote(c) ==
    LET next == then[c][level[c]] IN
    /\ Runs(c, "write")
    /\ EnsureSymbols(next)
    /\ IF locked[c][level[c]] THEN Goes(c, "store") /\ UNCHANGED then ELSE EndLine(c)
    /\ spoken' = IF next = "halt" /\ c \in panicked THEN spoken \cup {c} ELSE spoken
    /\ UNCHANGED <<level, lockVars, locked, tries, inException, user, blind, midLine, traps, directs,
                   lines, nmi, halted, panicked>>

(* release *)
Unlock(c) ==
    /\ Runs(c, "store")
    /\ flags' = [flags EXCEPT ![c][level[c]] = logSaved]
    /\ logLock' = Free /\ logSaved' = FALSE
    /\ locked' = [locked EXCEPT ![c][level[c]] = FALSE]
    /\ Goes(c, "restore")
    /\ UNCHANGED <<level, then, intr, tries, excLock, excSaved, inException, causeVars, endVars>>

Restore(c) ==
    /\ Runs(c, "restore")
    /\ intr' = [intr EXCEPT ![c] = @ \/ flags[c][level[c]]]
    /\ flags' = [flags EXCEPT ![c][level[c]] = FALSE]
    /\ EndLine(c)
    /\ UNCHANGED <<level, locked, tries, logLock, logSaved, excLock, excSaved,
                   inException, causeVars, endVars>>

-----------------------------------------------------------------------------
(* Tasks and interrupts.                                                   *)

TaskLogs(c) ==
    /\ Runs(c, "run") /\ lines < MaxLines
    /\ lines' = lines + 1
    /\ BeginLine(c, "cli", "run")
    /\ UNCHANGED <<level, lockVars, locked, tries, inException, user, blind, maps, midLine, traps,
                   directs, endVars>>

(* A vector that is not wired is logged.                                   *)
Interrupt(c) ==
    /\ c \notin halted /\ level[c] = "task" /\ intr[c] /\ lines < MaxLines
    /\ lines' = lines + 1
    /\ level' = [level EXCEPT ![c] = "irq"]
    /\ intr' = [intr EXCEPT ![c] = FALSE]
    /\ place' = [place EXCEPT ![c]["irq"] = "cli"]
    /\ then' = [then EXCEPT ![c]["irq"] = "iret"]
    /\ UNCHANGED <<flags, locked, tries, logLock, logSaved, excLock, excSaved, inException,
                   user, blind, maps, midLine, traps, directs, endVars>>

Iret(c) ==
    /\ Runs(c, "iret")
    /\ level' = [level EXCEPT ![c] = "task"]
    /\ intr' = [intr EXCEPT ![c] = TRUE]
    /\ Goes(c, "run")
    /\ UNCHANGED <<then, flags, locked, tries, logLock, logSaved, excLock, excSaved,
                   inException, causeVars, endVars>>

-----------------------------------------------------------------------------
(* interrupt_dispatch, vectors below 32.                                   *)

(* The gate masks interrupts.                                              *)
Fault(c, isUser, isBlind) ==
    /\ c \notin halted /\ level[c] = "task" /\ traps < MaxTraps
    /\ At(c) = "run" \/ (At(c) = "write" /\ then[c]["task"] = "run" /\ ~isBlind)
    /\ level' = [level EXCEPT ![c] = "exc"]
    /\ place' = [place EXCEPT ![c]["exc"] = "entry"]
    /\ intr' = [intr EXCEPT ![c] = FALSE]
    /\ user' = [user EXCEPT ![c] = isUser]
    /\ blind' = [blind EXCEPT ![c] = isBlind]
    /\ midLine' = (midLine \/ (isUser /\ At(c) = "write"))
    /\ traps' = traps + 1
    /\ UNCHANGED <<then, flags, locked, tries, logLock, logSaved, excLock, excSaved,
                   inException, maps, directs, lines, endVars>>

(* Mutant of TakeException: a second exception keeps s_exception_lock.     *)
TakeExceptionKeeps(c) ==
    /\ Runs(c, "entry")
    /\ IF inException[c]
       THEN BeginLine(c, "test", "halt") /\ UNCHANGED <<excLock, flags, inException>>
       ELSE /\ inException' = [inException EXCEPT ![c] = TRUE]
            /\ flags' = [flags EXCEPT ![c][level[c]] = intr[c]]
            /\ Goes(c, "wait") /\ UNCHANGED <<then, excLock>>
    /\ UNCHANGED <<level, intr, locked, tries, logLock, logSaved, excSaved, causeVars, endVars>>

(* A second exception on a CPU gives up s_exception_lock and halts; its    *)
(* release finds interrupts masked by the first one.                       *)
TakeException(c) ==
    /\ Runs(c, "entry")
    /\ IF inException[c]
       THEN /\ BeginLine(c, "test", "halt")
            /\ excLock' = IF excLock = c THEN Free ELSE excLock
            /\ intr' = [intr EXCEPT ![c] = @ \/ (excLock = c /\ excSaved)]
            /\ UNCHANGED <<flags, inException>>
       ELSE /\ inException' = [inException EXCEPT ![c] = TRUE]
            /\ flags' = [flags EXCEPT ![c][level[c]] = intr[c]]
            /\ Goes(c, "wait") /\ UNCHANGED <<then, excLock, intr>>
    /\ UNCHANGED <<level, locked, tries, logLock, logSaved, excSaved, causeVars, endVars>>

(* s_exception_lock.acquire, and the first lines.                          *)
Report(c) ==
    /\ Runs(c, "wait") /\ excLock = Free
    /\ excLock' = c /\ excSaved' = flags[c][level[c]]
    /\ BeginLine(c, "test", "bytes")
    /\ UNCHANGED <<level, intr, flags, locked, tries, logLock, logSaved, inException, causeVars, endVars>>

(* The bytes at RIP are read, which may fault again; then the backtrace.   *)
ReadBytes(c) ==
    /\ Runs(c, "bytes")
    /\ IF blind[c]
       THEN /\ level' = [level EXCEPT ![c] = "nested"]
            /\ place' = [place EXCEPT ![c]["nested"] = "entry"]
            /\ UNCHANGED then
       ELSE BeginLine(c, "test", "detach") /\ UNCHANGED level
    /\ UNCHANGED <<lockVars, locked, tries, inException, causeVars, endVars>>

(* detach_current_task: a process is terminated, with a line of level warn *)
(* and cleanup_process_context; without one this is a panic.               *)
Detach(c) ==
    /\ Runs(c, "detach")
    /\ IF user[c] THEN BeginLine(c, "cli", "cleanup") ELSE Goes(c, "panic") /\ UNCHANGED then
    /\ UNCHANGED <<level, lockVars, locked, tries, inException, causeVars, endVars>>

(* The guards are released and exit_task goes on with another task; what   *)
(* the CPU was doing below is gone.                                        *)
TerminateProcess(c) ==
    /\ Runs(c, "cleanup")
    /\ inException' = [inException EXCEPT ![c] = FALSE]
    /\ excLock' = Free
    /\ level' = [level EXCEPT ![c] = "task"]
    /\ place' = [place EXCEPT ![c] = [l \in Levels |-> "run"]]
    /\ then' = [then EXCEPT ![c] = [l \in Levels |-> "run"]]
    /\ user' = [user EXCEPT ![c] = FALSE]
    /\ locked' = [locked EXCEPT ![c]["task"] = FALSE]
    /\ intr' = [intr EXCEPT ![c] = TRUE]
    /\ UNCHANGED <<flags, tries, logLock, logSaved, excSaved, blind, maps, midLine, traps, directs, lines, endVars>>

-----------------------------------------------------------------------------
(* vk_panic, from an exception or from a task.                             *)

CallPanic(c) ==
    /\ Runs(c, "run") /\ directs < MaxDirect
    /\ directs' = directs + 1
    /\ Goes(c, "panic")
    /\ UNCHANGED <<level, then, lockVars, locked, tries, inException, user, blind, maps, midLine, traps, lines, endVars>>

(* broadcast_nmi_halt, and the message.                                    *)
Panic(c) ==
    /\ Runs(c, "panic")
    /\ nmi' = nmi \cup (Processors \ {c})
    /\ panicked' = panicked \cup {c}
    /\ BeginLine(c, "test", "halt")
    /\ UNCHANGED <<level, lockVars, locked, tries, inException, causeVars, halted, spoken>>

Halt(c) ==
    /\ Runs(c, "halt")
    /\ halted' = halted \cup {c}
    /\ intr' = [intr EXCEPT ![c] = FALSE]
    /\ UNCHANGED <<level, place, then, flags, locked, tries, logLock, logSaved, excLock, excSaved,
                   inException, causeVars, nmi, panicked, spoken>>

(* Vector 2.                                                               *)
TakeNmi(c) ==
    /\ c \in nmi \ halted
    /\ nmi' = nmi \ {c} /\ halted' = halted \cup {c}
    /\ intr' = [intr EXCEPT ![c] = FALSE]
    /\ UNCHANGED <<level, place, then, flags, locked, tries, logLock, logSaved, excLock, excSaved,
                   inException, causeVars, panicked, spoken>>

-----------------------------------------------------------------------------
ExcInit ==
    /\ level = [c \in Processors |-> "task"]
    /\ place = [c \in Processors |-> [l \in Levels |-> "run"]]
    /\ then = [c \in Processors |-> [l \in Levels |-> "run"]]
    /\ intr = [c \in Processors |-> TRUE]
    /\ flags = [c \in Processors |-> [l \in Levels |-> FALSE]]
    /\ locked = [c \in Processors |-> [l \in Levels |-> FALSE]]
    /\ tries = [c \in Processors |-> 0]
    /\ logLock = Free /\ logSaved = FALSE /\ excLock = Free /\ excSaved = FALSE
    /\ inException = [c \in Processors |-> FALSE]
    /\ user = [c \in Processors |-> FALSE] /\ blind = [c \in Processors |-> FALSE]
    /\ maps \in {"ready", "elsewhere"}
    /\ nmi = {} /\ halted = {} /\ panicked = {} /\ spoken = {}
    /\ midLine = FALSE /\ traps = 0 /\ directs = 0 /\ lines = 0

(* What a CPU does next by itself.                                         *)
Onward(c) ==
    \/ Mask(c) \/ Spin(c) \/ HeldBySelf(c) \/ TryAcquire(c) \/ Wrote(c) \/ Unlock(c) \/ Restore(c)
    \/ Iret(c) \/ TakeException(c) \/ Report(c) \/ ReadBytes(c) \/ Detach(c) \/ TerminateProcess(c)
    \/ Panic(c) \/ Halt(c) \/ TakeNmi(c)

ExcNext ==
    \E c \in Processors :
        \/ Onward(c)
        \/ TaskLogs(c) \/ Interrupt(c) \/ CallPanic(c)
        \/ \E u, b \in BOOLEAN : Fault(c, u, b)

ExcSpec == ExcInit /\ [][ExcNext]_excVars

(* CPUs execute.  A spin is not starved: what others may log is bounded.   *)
ExcFairness == \A c \in Processors : WF_excVars(Onward(c))
ExcFairSpec == ExcSpec /\ ExcFairness

-----------------------------------------------------------------------------
Places == {"run", "cli", "spin", "test", "try", "write", "store", "restore", "iret", "entry",
           "wait", "bytes", "detach", "cleanup", "panic", "halt"}

ExcTypeOK ==
    /\ level \in [Processors -> Levels]
    /\ place \in [Processors -> [Levels -> Places]]
    /\ then \in [Processors -> [Levels -> Places]]
    /\ intr \in [Processors -> BOOLEAN]
    /\ flags \in [Processors -> [Levels -> BOOLEAN]] /\ locked \in [Processors -> [Levels -> BOOLEAN]]
    /\ tries \in [Processors -> 0 .. MaxTries - 1]
    /\ logLock \in Processors \cup {Free} /\ logSaved \in BOOLEAN
    /\ excLock \in Processors \cup {Free} /\ excSaved \in BOOLEAN
    /\ inException \in [Processors -> BOOLEAN] /\ user \in [Processors -> BOOLEAN] /\ blind \in [Processors -> BOOLEAN]
    /\ maps \in {"ready", "elsewhere"} /\ midLine \in BOOLEAN
    /\ nmi \subseteq Processors /\ halted \subseteq Processors

(* The levels a CPU is at or will come back to.                            *)
Alive(c) == IF level[c] = "irq" THEN {"task", "irq"}
            ELSE IF level[c] = "task" THEN {"task"}
            ELSE IF level[c] = "exc" THEN {"task", "exc"} ELSE {"task", "exc", "nested"}

(* A line that took the log lock has it until it gives it up: lines that   *)
(* lock never mix, whatever faults, interrupts or panics come in between,  *)
(* and of the levels of one CPU at most one holds it.                      *)
LinesApart ==
    /\ \A c \in Processors : \A l \in Alive(c) : locked[c][l] =>
          logLock = c /\ \A m \in Alive(c) : locked[c][m] => m = l
    /\ \A c \in Processors : logLock = c => \E l \in Alive(c) : locked[c][l]

(* A critical section is atomic with respect to local interrupts, and the  *)
(* code outside runs with the interrupts it had: no section, interrupt or  *)
(* exception leaves them off or turns them on too early.                   *)
SectionsMasked ==
    \A c \in Processors :
        /\ logLock = c \/ excLock = c => ~intr[c]
        /\ level[c] # "task" => ~intr[c]
        /\ (level[c] = "task" /\ At(c) = "run" /\ c \notin halted) => intr[c]

(* Crash reports and cleanup are single-threaded across CPUs.              *)
OneReport ==
    \A c \in Processors :
        (level[c] = "exc" /\ At(c) \notin {"entry", "wait"}) => excLock = c

(* No CPU waits for a lock that it holds itself, unless a process faulted  *)
(* while it wrote a line or the kernel's symbols are not in ramfs; then    *)
(* the report's own lines of other levels wait for the CPU's lock.         *)
NoSelfWait ==
    \A c \in Processors :
        /\ Runs(c, "spin") /\ ~midLine => logLock # c
        /\ Runs(c, "wait") => excLock # c

(* The cases in which the code waits for a lock that nobody will release:  *)
(* those of NoSelfWait; a CPU that faulted while it wrote a line and waits *)
(* for the report of another one, which waits for the line; an interrupt   *)
(* that logs on a CPU that has stopped the others and not yet written its  *)
(* message.                                                                *)
Stuck ==
    \/ midLine \/ maps = "elsewhere"
    \/ \E c \in Processors : Runs(c, "wait") /\ logLock = c
    \/ \E c \in panicked : level[c] = "irq"

(* A CPU that does not halt takes interrupts again: faults of other CPUs,  *)
(* the locks of CPUs that an NMI stopped and exceptions within exceptions  *)
(* keep nobody waiting with interrupts masked.                             *)
CpusGoOn ==
    \A c \in Processors : []<>(Stuck \/ c \in halted \/ intr[c])

(* A panic gets its message out, whoever holds the log lock and was        *)
(* stopped with it; unless two CPUs panic at once and stop each other.     *)
PanicSpeaks ==
    []<>(Stuck \/ panicked = {} \/ spoken # {} \/ Cardinality(panicked) > 1)

(* What the two locks and the interrupt flag promise, whatever faults,     *)
(* interrupts and panics come in between.                                  *)
CriticalSections == ExcTypeOK /\ LinesApart /\ SectionsMasked /\ OneReport /\ NoSelfWait
=============================================================================
