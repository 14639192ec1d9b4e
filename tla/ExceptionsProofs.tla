-------------------------- MODULE ExceptionsProofs --------------------------
(***************************************************************************)
(* What TLAPS proves of Exceptions, for any set of CPUs and any bounds.    *)
(* The inductive invariant is a statement about one CPU and the two locks: *)
(* which places and continuations each of its levels can have, who may     *)
(* have the locks there, and what the saved interrupt flags are.  A step   *)
(* of a CPU keeps it for the others because it changes a lock only from    *)
(* itself to nobody or back.                                               *)
(***************************************************************************)
EXTENDS Exceptions, TLAPS

(* Where a level can be, and where its lines can lead.                     *)
OwnPlaces(d) ==
    /\ place[d]["task"] \in {"run", "cli", "spin", "test", "try", "write", "store", "restore", "panic", "halt"}
    /\ then[d]["task"] \in {"run", "halt"}
    /\ place[d]["task"] \in {"cli", "spin"} => then[d]["task"] = "run"
    /\ place[d]["task"] \in {"test", "try"} => then[d]["task"] = "halt"
    /\ place[d]["irq"] \in {"run", "cli", "spin", "write", "store", "restore", "iret"}
    /\ then[d]["irq"] \in {"run", "iret"}
    /\ place[d]["exc"] \notin {"iret"}
    /\ then[d]["exc"] \in {"run", "bytes", "detach", "cleanup", "halt"}
    /\ place[d]["nested"] \in {"run", "test", "try", "write", "store", "restore", "entry", "halt"}
    /\ then[d]["nested"] \in {"run", "halt"}
    /\ level[d] = "irq" => place[d]["irq"] # "run"
          /\ (place[d]["irq"] # "iret" => then[d]["irq"] = "iret")
    /\ level[d] = "exc" => place[d]["exc"] # "run"
          /\ (place[d]["exc"] \in {"cli", "spin", "test", "try", "write", "store", "restore"}
                 => then[d]["exc"] # "run")
    /\ level[d] = "nested" => place[d]["nested"] # "run"
          /\ (place[d]["nested"] \in {"test", "try", "write", "store", "restore"}
                 => then[d]["nested"] = "halt")

(* Exceptions: what an exception has interrupted, and when s_exception_lock *)
(* is the CPU's.                                                           *)
Reporting(d) ==
    /\ level[d] \in {"exc", "nested"} => place[d]["task"] \in {"run", "write"}
          /\ (place[d]["task"] = "write" => then[d]["task"] = "run")
          /\ (place[d]["task"] = "write" /\ user[d] => midLine)
    /\ level[d] \in {"task", "irq"} => then[d]["exc"] = "run" /\ ~inException[d]
    /\ level[d] = "exc" /\ place[d]["exc"] = "entry" => ~inException[d]
    /\ level[d] = "nested" => inException[d]
    /\ level[d] = "exc" /\ place[d]["exc"] # "entry" => inException[d]
    /\ level[d] = "exc" /\ place[d]["exc"] \notin {"entry", "wait"} => excLock = d
    /\ excLock = d => /\ ~excSaved
                      /\ \/ level[d] = "exc" /\ place[d]["exc"] \notin {"entry", "wait"}
                         \/ level[d] = "nested" /\ place[d]["nested"] = "entry"
    /\ level[d] = "exc" =>
          /\ place[d]["exc"] \in {"cli", "spin"} => then[d]["exc"] = "cleanup"
          /\ place[d]["exc"] \in {"test", "try"} => then[d]["exc"] # "cleanup"
          /\ then[d]["exc"] = "cleanup" => user[d]
          /\ then[d]["exc"] = "cleanup" /\ place[d]["exc"] = "write" => locked[d]["exc"]
          /\ then[d]["exc"] = "cleanup" /\ place[d]["exc"] = "restore" => ~locked[d]["task"]
          /\ place[d]["exc"] = "cleanup" => ~locked[d]["task"]

(* The log lock.                                                           *)
Lines(d) ==
    /\ \A l \in Levels : locked[d][l] =>
          logLock = d /\ place[d][l] \in {"write", "store"} /\ l \in Alive(d)
    /\ \A l, m \in Levels : locked[d][l] /\ locked[d][m] => l = m
    /\ \A l \in Levels : place[d][l] = "store" => locked[d][l]
    /\ logLock = d => \E l \in Levels : locked[d][l]

(* Interrupts.                                                             *)
Masked(d) ==
    /\ level[d] # "task" => ~intr[d]
    /\ logLock = d => ~intr[d]
    /\ \A l \in Levels \ {"task"} : ~flags[d][l] /\ (locked[d][l] => ~logSaved)
    /\ level[d] = "irq" => ~locked[d]["task"] /\ place[d]["task"] # "spin"
    /\ place[d]["task"] = "spin" => ~intr[d] /\ flags[d]["task"]
    /\ then[d]["task"] = "run" /\ place[d]["task"] = "restore" => flags[d]["task"]
    /\ then[d]["task"] = "run" /\ place[d]["task"] = "write" => locked[d]["task"]
    /\ then[d]["task"] = "run" /\ locked[d]["task"] => logSaved
    /\ d \notin halted /\ level[d] = "task" /\ place[d]["task"] \in {"run", "cli"} => intr[d]

CpuInv(d) == OwnPlaces(d) /\ Reporting(d) /\ Lines(d) /\ Masked(d)

ExcInv == ExcTypeOK /\ \A d \in Processors : CpuInv(d)

-----------------------------------------------------------------------------
LEMMA ExcInitInv == ExcInit => ExcInv
<1> SUFFICES ASSUME ExcInit PROVE ExcInv
    OBVIOUS
<1>1. ExcTypeOK
    <2>1. tries \in [Processors -> 0 .. MaxTries - 1]
        BY ExceptionsAssumption DEF ExcInit
    <2>2. /\ level \in [Processors -> Levels]
          /\ place \in [Processors -> [Levels -> Places]]
          /\ then \in [Processors -> [Levels -> Places]]
        BY Zenon DEF ExcInit, Levels, Places
    <2> QED
        BY <2>1, <2>2, Zenon DEF ExcInit, ExcTypeOK
<1>2. ASSUME NEW d \in Processors PROVE CpuInv(d)
    BY ExceptionsAssumption, Zenon
    DEF ExcInit, CpuInv, OwnPlaces, Reporting, Lines, Masked, Levels
<1> QED
    BY <1>1, <1>2, Zenon DEF ExcInv

(* A CPU keeps its invariant when nothing of its own changes, and the      *)
(* locks change only between nobody and others.                            *)
Apart(d) ==
    /\ level'[d] = level[d] /\ place'[d] = place[d] /\ then'[d] = then[d]
    /\ intr'[d] = intr[d] /\ flags'[d] = flags[d] /\ locked'[d] = locked[d]
    /\ inException'[d] = inException[d] /\ user'[d] = user[d]
    /\ (logLock' = d) <=> (logLock = d)
    /\ (excLock' = d) <=> (excLock = d)
    /\ logLock = d => logSaved' = logSaved
    /\ excLock = d => excSaved' = excSaved
    /\ midLine => midLine'
    /\ (d \in halted') <=> (d \in halted)

LEMMA OthersKeep ==
    ASSUME NEW d \in Processors, ExcTypeOK, ExcTypeOK', CpuInv(d), Apart(d)
    PROVE  CpuInv(d)'
<1>1. OwnPlaces(d)'
    BY DEF CpuInv, OwnPlaces, Apart
<1>2. Reporting(d)'
    BY SMTT(30) DEF CpuInv, Reporting, Apart
<1>3. Lines(d)'
    BY DEF CpuInv, Lines, Apart, Alive
<1>4. Masked(d)'
    BY DEF CpuInv, Masked, Lines, Apart, Levels
<1> QED
    BY <1>1, <1>2, <1>3, <1>4, Zenon DEF CpuInv

(* Most places belong to one level.                                        *)
LEMMA LevelOf ==
    ASSUME NEW c \in Processors, ExcTypeOK, OwnPlaces(c)
    PROVE  /\ level[c] \in Levels
           /\ At(c) = "iret" => level[c] = "irq"
           /\ At(c) \in {"wait", "bytes", "detach", "cleanup"} => level[c] = "exc"
           /\ At(c) = "entry" => level[c] \in {"exc", "nested"}
           /\ At(c) \in {"test", "try"} => level[c] \in {"task", "exc", "nested"}
<1>1. level[c] \in {"task", "irq", "exc", "nested"}
    BY Zenon DEF ExcTypeOK, Levels
<1>2. CASE level[c] = "task"
    BY <1>2, Zenon DEF At, OwnPlaces, Levels
<1>3. CASE level[c] = "irq"
    BY <1>3, Zenon DEF At, OwnPlaces, Levels
<1>4. CASE level[c] = "exc"
    BY <1>4, Zenon DEF At, OwnPlaces, Levels
<1>5. CASE level[c] = "nested"
    BY <1>5, Zenon DEF At, OwnPlaces, Levels
<1> QED
    BY <1>1, <1>2, <1>3, <1>4, <1>5, Zenon

(* A line that gives up counts its attempts modulo MaxTries.               *)
LEMMA TriesBound == \A n \in 0 .. MaxTries - 1 : (n + 1) % MaxTries \in 0 .. MaxTries - 1
BY ExceptionsAssumption

-----------------------------------------------------------------------------
(* Each action keeps the invariant: the types, the CPUs that do not take   *)
(* part, and the four parts of the one that does.                          *)
LEMMA MaskInv ==
    ASSUME NEW c \in Processors, ExcInv, Mask(c)
    PROVE  ExcInv'
<1> USE ExceptionsAssumption DEF Mask, Runs, At, Goes, lockVars, causeVars, endVars
<1>0. ExcTypeOK /\ CpuInv(c)
    BY Zenon DEF ExcInv
<1>1. ExcTypeOK'
    BY <1>0, Zenon DEF ExcTypeOK, Places
<1>2. ASSUME NEW d \in Processors, d # c PROVE CpuInv(d)'
    <2>1. Apart(d)
        BY <1>2 DEF Apart
    <2> QED
        BY <1>1, <2>1, OthersKeep, Zenon DEF ExcInv
<1>3. CpuInv(c)'
    <2>1. OwnPlaces(c)'
        BY <1>0, SMTT(30) DEF CpuInv, OwnPlaces
    <2>2. Reporting(c)'
        BY <1>0, SMTT(30) DEF CpuInv, Reporting
    <2>3. Lines(c)'
        BY <1>0 DEF ExcTypeOK, CpuInv, Lines, Alive
    <2>4. Masked(c)'
        BY <1>0 DEF ExcTypeOK, CpuInv, Masked
    <2> QED
        BY <2>1, <2>2, <2>3, <2>4, Zenon DEF CpuInv
<1> QED
    BY <1>1, <1>2, <1>3, Zenon DEF ExcInv

LEMMA SpinInv ==
    ASSUME NEW c \in Processors, ExcInv, Spin(c)
    PROVE  ExcInv'
<1> USE ExceptionsAssumption DEF Spin, Runs, At, Goes, lockVars, causeVars, endVars
<1>0. ExcTypeOK /\ CpuInv(c)
    BY Zenon DEF ExcInv
<1>1. ExcTypeOK'
    BY <1>0 DEF ExcTypeOK, Places
<1>2. ASSUME NEW d \in Processors, d # c PROVE CpuInv(d)'
    <2>1. Apart(d)
        BY <1>2 DEF Apart
    <2> QED
        BY <1>1, <2>1, OthersKeep, Zenon DEF ExcInv
<1>3. CpuInv(c)'
    <2>1. OwnPlaces(c)'
        BY <1>0, SMTT(30) DEF CpuInv, OwnPlaces
    <2>2. Reporting(c)'
        BY <1>0, SMTT(30) DEF ExcTypeOK, CpuInv, Reporting
    <2>3. Lines(c)'
        BY <1>0, SMTT(30) DEF ExcTypeOK, CpuInv, Lines, Alive, Levels
    <2>4. Masked(c)'
        BY <1>0, SMTT(30) DEF ExcTypeOK, CpuInv, Lines, Masked, Levels
    <2> QED
        BY <2>1, <2>2, <2>3, <2>4, Zenon DEF CpuInv
<1> QED
    BY <1>1, <1>2, <1>3, Zenon DEF ExcInv

LEMMA HeldBySelfInv ==
    ASSUME NEW c \in Processors, ExcInv, HeldBySelf(c)
    PROVE  ExcInv'
<1> USE ExceptionsAssumption DEF HeldBySelf, Runs, At, Goes, lockVars, causeVars, endVars
<1>0. ExcTypeOK /\ CpuInv(c)
    BY Zenon DEF ExcInv
<1>1. ExcTypeOK'
    BY <1>0, Zenon DEF ExcTypeOK, Places
<1>2. ASSUME NEW d \in Processors, d # c PROVE CpuInv(d)'
    <2>1. Apart(d)
        BY <1>2 DEF Apart
    <2> QED
        BY <1>1, <2>1, OthersKeep, Zenon DEF ExcInv
<1>3. CpuInv(c)'
    <2>1. OwnPlaces(c)'
        BY <1>0, SMTT(30) DEF CpuInv, OwnPlaces
    <2>2. Reporting(c)'
        BY <1>0 DEF CpuInv, Reporting
    <2>3. Lines(c)'
        BY <1>0, SMTT(30) DEF CpuInv, Lines, Alive
    <2>4. Masked(c)'
        BY <1>0, SMTT(30) DEF CpuInv, OwnPlaces, Masked
    <2> QED
        BY <2>1, <2>2, <2>3, <2>4, Zenon DEF CpuInv
<1> QED
    BY <1>1, <1>2, <1>3, Zenon DEF ExcInv

LEMMA TryTakesInv ==
    ASSUME NEW c \in Processors, ExcInv, TryAcquire(c), logLock = Free
    PROVE  ExcInv'
<1> USE ExceptionsAssumption
<1>0. ExcTypeOK /\ CpuInv(c)
    BY Zenon DEF ExcInv
<1>1. /\ place[c][level[c]] = "try"
      /\ level[c] \in {"task", "exc", "nested"}
    <2>1. At(c) = "try" /\ level[c] \in {"task", "exc", "nested"}
        BY <1>0, LevelOf, Zenon DEF TryAcquire, Runs, CpuInv
    <2> QED
        BY <2>1, Zenon DEF At
<1>2. /\ logLock' = c /\ logSaved' = intr[c]
      /\ intr' = [intr EXCEPT ![c] = FALSE]
      /\ locked' = [locked EXCEPT ![c][level[c]] = TRUE]
      /\ tries' = [tries EXCEPT ![c] = 0]
      /\ place' = [place EXCEPT ![c][level[c]] = "write"]
      /\ UNCHANGED <<level, then, flags, excLock, excSaved, inException, user, blind, maps,
                     nmi, halted, midLine>>
    BY Zenon DEF TryAcquire, Goes, causeVars, endVars
<1>3. ExcTypeOK'
    <2>1. tries' \in [Processors -> 0 .. MaxTries - 1]
        <3>1. 0 \in 0 .. MaxTries - 1
            OBVIOUS
        <3> QED
            BY <1>0, <1>2 DEF ExcTypeOK
    <2> QED
        BY <1>0, <1>2 DEF ExcTypeOK, Places
<1>4. ASSUME NEW d \in Processors, d # c PROVE CpuInv(d)'
    <2>1. Apart(d)
        BY <1>2, <1>4 DEF Apart
    <2> QED
        BY <1>3, <2>1, OthersKeep, Zenon DEF ExcInv
<1>5. CpuInv(c)'
    <2>1. OwnPlaces(c)'
        <3>1. CASE level[c] = "task"
            BY <1>0, <1>2, <3>1, SMTT(30) DEF CpuInv, OwnPlaces
        <3>2. CASE level[c] = "exc"
            BY <1>0, <1>1, <1>2, SMTT(30) DEF CpuInv, OwnPlaces
        <3>3. CASE level[c] = "nested"
            BY <1>0, <1>1, <1>2, SMTT(30) DEF CpuInv, OwnPlaces
        <3> QED
            BY <1>1, <3>1, <3>2, <3>3, Zenon
    <2>2. Reporting(c)'
        <3>1. CASE level[c] = "task"
            BY <1>0, <1>2, <3>1, Zenon DEF CpuInv, Reporting
        <3>2. CASE level[c] = "exc"
            BY <1>0, <1>1, <1>2 DEF CpuInv, Reporting
        <3>3. CASE level[c] = "nested"
            BY <1>0, <1>1, <1>2, SMTT(30) DEF CpuInv, Reporting
        <3> QED
            BY <1>1, <3>1, <3>2, <3>3, Zenon
    <2>3. Lines(c)'
        <3>1. CASE level[c] = "task"
            BY <1>0, <1>2, <3>1 DEF CpuInv, Lines, Alive, ExcTypeOK
        <3>2. CASE level[c] = "exc"
            BY <1>0, <1>2, <3>2 DEF CpuInv, Lines, Alive, ExcTypeOK
        <3>3. CASE level[c] = "nested"
            BY <1>0, <1>2, <3>3, SMTT(30) DEF CpuInv, Lines, Alive, ExcTypeOK
        <3> QED
            BY <1>1, <3>1, <3>2, <3>3, Zenon
    <2>4. Masked(c)'
        <3>1. CASE level[c] = "task"
            BY <1>0, <1>1, <1>2, <3>1, SMTT(30)
            DEF CpuInv, OwnPlaces, Reporting, Lines, Masked, ExcTypeOK, Levels
        <3>2. CASE level[c] = "exc"
            BY <1>0, <1>1, <1>2, <3>2, SMTT(30)
            DEF CpuInv, OwnPlaces, Reporting, Lines, Masked, ExcTypeOK, Levels
        <3>3. CASE level[c] = "nested"
            BY <1>0, <1>2, <3>3 DEF CpuInv, Lines, Masked, Levels
        <3> QED
            BY <1>1, <3>1, <3>2, <3>3, Zenon
    <2> QED
        BY <2>1, <2>2, <2>3, <2>4, Zenon DEF CpuInv
<1> QED
    BY <1>3, <1>4, <1>5, Zenon DEF ExcInv

LEMMA TryFailsInv ==
    ASSUME NEW c \in Processors, ExcInv, TryAcquire(c), logLock # Free
    PROVE  ExcInv'
<1> USE ExceptionsAssumption
<1>0. ExcTypeOK /\ CpuInv(c)
    BY Zenon DEF ExcInv
<1>1. /\ place[c][level[c]] = "try"
      /\ level[c] \in {"task", "exc", "nested"}
    <2>1. At(c) = "try" /\ level[c] \in {"task", "exc", "nested"}
        BY <1>0, LevelOf, Zenon DEF TryAcquire, Runs, CpuInv
    <2> QED
        BY <2>1, Zenon DEF At
<1>2. PICK p \in {"write", "try"} :
      /\ place' = [place EXCEPT ![c][level[c]] = p]
      /\ UNCHANGED <<level, then, intr, flags, locked, logLock, logSaved, excLock,
                     excSaved, inException, user, blind, maps, nmi, halted, midLine>>
    BY Zenon DEF TryAcquire, Goes, causeVars, endVars
<1>3. ExcTypeOK'
    <2>1. tries' \in [Processors -> 0 .. MaxTries - 1]
        <3>1. tries' = [tries EXCEPT ![c] = (tries[c] + 1) % MaxTries]
            BY Zenon DEF TryAcquire
        <3>2. tries \in [Processors -> 0 .. MaxTries - 1]
            BY <1>0, Zenon DEF ExcTypeOK
        <3>3. (tries[c] + 1) % MaxTries \in 0 .. MaxTries - 1
            BY <3>2, TriesBound, Zenon
        <3> QED
            BY <3>1, <3>2, <3>3, Zenon
    <2>2. place' \in [Processors -> [Levels -> Places]]
        BY <1>0, <1>2, Zenon DEF ExcTypeOK, Places
    <2> QED
        BY <1>0, <1>2, <2>1, <2>2, Zenon DEF ExcTypeOK
<1>4. ASSUME NEW d \in Processors, d # c PROVE CpuInv(d)'
    <2>1. Apart(d)
        BY <1>2, <1>4 DEF Apart
    <2> QED
        BY <1>3, <2>1, OthersKeep, Zenon DEF ExcInv
<1>5. CpuInv(c)'
    <2>1. OwnPlaces(c)'
        <3>1. CASE level[c] = "task"
            BY <1>0, <1>1, <1>2, <3>1, SMTT(30) DEF CpuInv, OwnPlaces
        <3>2. CASE level[c] = "exc"
            BY <1>0, <1>1, <1>2, SMTT(30) DEF CpuInv, OwnPlaces, ExcTypeOK
        <3>3. CASE level[c] = "nested"
            BY <1>0, <1>1, <1>2 DEF CpuInv, OwnPlaces
        <3> QED
            BY <1>1, <3>1, <3>2, <3>3, Zenon
    <2>2. Reporting(c)'
        <3>1. CASE level[c] = "task"
            BY <1>0, <1>2, <3>1, Zenon DEF CpuInv, Reporting
        <3>2. CASE level[c] = "exc"
            BY <1>0, <1>1, <1>2, <3>2 DEF CpuInv, OwnPlaces, Reporting
        <3>3. CASE level[c] = "nested"
            BY <1>0, <1>1, <1>2, <3>3 DEF CpuInv, Reporting
        <3> QED
            BY <1>1, <3>1, <3>2, <3>3, Zenon
    <2>3. Lines(c)'
        <3>1. CASE level[c] = "task"
            BY <1>0, <1>1, <1>2 DEF CpuInv, Lines, Alive
        <3>2. CASE level[c] = "exc"
            BY <1>0, <1>1, <1>2 DEF CpuInv, Lines, Alive
        <3>3. CASE level[c] = "nested"
            BY <1>0, <1>1, <1>2, SMTT(30) DEF CpuInv, OwnPlaces, Lines, Alive, ExcTypeOK
        <3> QED
            BY <1>1, <3>1, <3>2, <3>3, Zenon
    <2>4. Masked(c)'
        <3>1. CASE level[c] = "task"
            BY <1>0, <1>1, <1>2, SMTT(30) DEF CpuInv, OwnPlaces, Masked
        <3>2. CASE level[c] = "exc"
            BY <1>0, <1>2, <3>2 DEF CpuInv, Masked
        <3>3. CASE level[c] = "nested"
            BY <1>0, <1>2, <3>3 DEF CpuInv, Reporting, Masked
        <3> QED
            BY <1>1, <3>1, <3>2, <3>3, Zenon
    <2> QED
        BY <2>1, <2>2, <2>3, <2>4, Zenon DEF CpuInv
<1> QED
    BY <1>3, <1>4, <1>5, Zenon DEF ExcInv

LEMMA WroteInv ==
    ASSUME NEW c \in Processors, ExcInv, Wrote(c)
    PROVE  ExcInv'
<1> USE ExceptionsAssumption DEF Wrote, EnsureSymbols, EndLine, Runs, At, Goes, lockVars, causeVars, endVars
<1>0. ExcTypeOK /\ CpuInv(c)
    BY Zenon DEF ExcInv
<1>1. ExcTypeOK'
    <2>1. place' \in [Processors -> [Levels -> Places]] /\ then' \in [Processors -> [Levels -> Places]]
        <3>1. {"store", "run"} \subseteq Places
            BY Zenon DEF Places
        <3>2. then[c][level[c]] \in Places
            BY <1>0 DEF ExcTypeOK
        <3>3. CASE locked[c][level[c]]
            <4>1. place' = [place EXCEPT ![c][level[c]] = "store"] /\ then' = then
                BY <3>3, Zenon
            <4> QED
                BY <1>0, <3>1, <4>1, Zenon DEF ExcTypeOK
        <3>4. CASE ~locked[c][level[c]]
            <4>1. /\ place' = [place EXCEPT ![c][level[c]] = then[c][level[c]]]
                  /\ then' = [then EXCEPT ![c][level[c]] = "run"]
                BY <3>4, Zenon
            <4> QED
                BY <1>0, <3>1, <4>1 DEF ExcTypeOK
        <3> QED
            BY <3>3, <3>4, Zenon
    <2>2. maps' \in {"ready", "elsewhere"}
        BY <1>0, Zenon DEF ExcTypeOK
    <2> QED
        BY <1>0, <2>1, Zenon DEF ExcTypeOK
<1>2. ASSUME NEW d \in Processors, d # c PROVE CpuInv(d)'
    <2>1. Apart(d)
        BY <1>0, <1>2 DEF ExcTypeOK, Apart
    <2> QED
        BY <1>1, <2>1, OthersKeep, Zenon DEF ExcInv
<1>3. CpuInv(c)'
    <2>1. OwnPlaces(c)'
        BY <1>0, SMTT(30) DEF ExcTypeOK, CpuInv, OwnPlaces, Levels
    <2>2. Reporting(c)'
        BY <1>0, SMTT(30) DEF ExcTypeOK, CpuInv, OwnPlaces, Reporting, Levels
    <2>3. Lines(c)'
        BY <1>0, SMTT(30)
        DEF ExcTypeOK, CpuInv, OwnPlaces, Reporting, Lines, Alive, Levels
    <2>4. Masked(c)'
        BY <1>0 DEF ExcTypeOK, CpuInv, OwnPlaces, Masked, Levels
    <2> QED
        BY <2>1, <2>2, <2>3, <2>4, Zenon DEF CpuInv
<1> QED
    BY <1>1, <1>2, <1>3, Zenon DEF ExcInv

LEMMA UnlockInv ==
    ASSUME NEW c \in Processors, ExcInv, Unlock(c)
    PROVE  ExcInv'
<1> USE ExceptionsAssumption DEF Unlock, Runs, At, Goes, lockVars, causeVars, endVars
<1>0. ExcTypeOK /\ CpuInv(c)
    BY Zenon DEF ExcInv
<1>1. ExcTypeOK'
    <2>1. /\ place' \in [Processors -> [Levels -> Places]]
          /\ locked' \in [Processors -> [Levels -> BOOLEAN]]
          /\ flags' \in [Processors -> [Levels -> BOOLEAN]]
        BY <1>0, Zenon DEF ExcTypeOK, Places
    <2>2. logLock' = Free /\ logSaved' \in BOOLEAN
        BY Zenon
    <2> QED
        BY <1>0, <2>1, <2>2, Zenon DEF ExcTypeOK
<1>2. ASSUME NEW d \in Processors, d # c PROVE CpuInv(d)'
    <2>1. Apart(d)
        BY <1>0, <1>2 DEF ExcTypeOK, Apart, CpuInv, Lines
    <2> QED
        BY <1>1, <2>1, OthersKeep, Zenon DEF ExcInv
<1>3. CpuInv(c)'
    <2>1. OwnPlaces(c)'
        BY <1>0 DEF ExcTypeOK, CpuInv, OwnPlaces, Levels
    <2>2. Reporting(c)'
        <3>1. CASE level[c] = "task"
            BY <1>0, <3>1, Zenon DEF CpuInv, Reporting
        <3>2. CASE level[c] = "irq"
            BY <1>0, <3>2, Zenon DEF CpuInv, Reporting
        <3>3. CASE level[c] = "exc"
            BY <1>0, <3>3, SMTT(30) DEF CpuInv, Reporting, Lines, Levels
        <3>4. CASE level[c] = "nested"
            BY <1>0, <3>4 DEF CpuInv, Reporting
        <3> QED
            BY <1>0, <3>1, <3>2, <3>3, <3>4, Zenon DEF ExcTypeOK, Levels
    <2>3. Lines(c)'
        <3>1. /\ level[c] \in Levels /\ place[c][level[c]] = "store" /\ locked[c][level[c]]
              /\ \A l \in Levels : locked[c][l] => l = level[c]
              /\ \A l \in Levels : place[c][l] = "store" => l = level[c]
            BY <1>0, Zenon DEF ExcTypeOK, CpuInv, Lines
        <3>2. /\ \A l \in Levels : locked'[c][l] = IF l = level[c] THEN FALSE ELSE locked[c][l]
              /\ \A l \in Levels : place'[c][l] = IF l = level[c] THEN "restore" ELSE place[c][l]
            BY <1>0, Zenon DEF ExcTypeOK
        <3>3. \A l \in Levels : ~locked'[c][l]
            BY <3>1, <3>2, Zenon
        <3>4. \A l \in Levels : place'[c][l] # "store"
            BY <3>1, <3>2
        <3>5. logLock' # c
            BY Zenon
        <3> QED
            BY <3>3, <3>4, <3>5, Zenon DEF Lines
    <2>4. Masked(c)'
        BY <1>0, SMTT(30) DEF ExcTypeOK, CpuInv, Lines, Masked
    <2> QED
        BY <2>1, <2>2, <2>3, <2>4, Zenon DEF CpuInv
<1> QED
    BY <1>1, <1>2, <1>3, Zenon DEF ExcInv

LEMMA RestoreInv ==
    ASSUME NEW c \in Processors, ExcInv, Restore(c)
    PROVE  ExcInv'
<1> USE ExceptionsAssumption
<1>0. ExcTypeOK /\ CpuInv(c)
    BY Zenon DEF ExcInv
<1>1. /\ place[c][level[c]] = "restore"
    BY Zenon DEF Restore, Runs, At
<1>2. /\ intr' = [intr EXCEPT ![c] = @ \/ flags[c][level[c]]]
      /\ flags' = [flags EXCEPT ![c][level[c]] = FALSE]
      /\ place' = [place EXCEPT ![c][level[c]] = then[c][level[c]]]
      /\ then' = [then EXCEPT ![c][level[c]] = "run"]
      /\ UNCHANGED <<level, locked, tries, logLock, logSaved, excLock, excSaved,
                     inException, user, blind, maps, nmi, halted, midLine>>
    BY Zenon DEF Restore, EndLine, Goes, causeVars, endVars
<1>3. ExcTypeOK'
    BY <1>0, <1>2, SMTT(30) DEF ExcTypeOK, Places
<1>4. ASSUME NEW d \in Processors, d # c PROVE CpuInv(d)'
    <2>1. Apart(d)
        BY <1>2, <1>4 DEF Apart
    <2> QED
        BY <1>3, <2>1, OthersKeep, Zenon DEF ExcInv
<1>5. CpuInv(c)'
    <2>1. CASE level[c] = "task"
        <3>1. /\ then[c]["task"] \in {"run", "halt"}
              /\ then[c]["task"] = "run" => flags[c]["task"]
              /\ ~locked[c]["task"]
            <4>1. then[c]["task"] \in {"run", "halt"}
                BY <1>0, Zenon DEF CpuInv, OwnPlaces
            <4>2. then[c]["task"] = "run" => flags[c]["task"]
                BY <1>0, <1>1, <2>1, Zenon DEF CpuInv, Masked
            <4>3. ~locked[c]["task"]
                BY <1>0, <1>1, <2>1, Zenon DEF CpuInv, Lines, Levels
            <4> QED
                BY <4>1, <4>2, <4>3, Zenon
        <3>2. /\ place'[c] = [place[c] EXCEPT !["task"] = then[c]["task"]]
              /\ then'[c] = [then[c] EXCEPT !["task"] = "run"]
              /\ flags'[c] = [flags[c] EXCEPT !["task"] = FALSE]
              /\ intr'[c] = (intr[c] \/ flags[c]["task"])
            BY <1>0, <1>2, <2>1, Zenon DEF ExcTypeOK
        <3>3. OwnPlaces(c)'
            BY <1>0, <1>1, <1>2, <2>1 DEF CpuInv, OwnPlaces
        <3>4. Reporting(c)'
            BY <1>0, <1>2, <2>1, SMTT(30) DEF CpuInv, Reporting
        <3>5. Lines(c)'
            BY <1>0, <1>2, <3>1, <3>2, SMTT(30) DEF CpuInv, Lines, Alive
        <3>6. Masked(c)'
            BY <1>0, <1>2, <2>1, <3>1, <3>2, SMTT(30)
            DEF CpuInv, Reporting, Lines, Masked, Alive, ExcTypeOK, Levels
        <3> QED
            BY <3>3, <3>4, <3>5, <3>6, Zenon DEF CpuInv
    <2>2. CASE level[c] = "irq"
        <3>1. /\ then[c]["irq"] = "iret"
              /\ ~flags[c]["irq"]
              /\ ~locked[c]["irq"]
            <4>1. then[c]["irq"] = "iret"
                BY <1>0, <1>1, <2>2, Zenon DEF CpuInv, OwnPlaces
            <4>2. ~flags[c]["irq"]
                BY <1>0, Zenon DEF CpuInv, Masked, Levels
            <4>3. ~locked[c]["irq"]
                BY <1>0, <1>1, <2>2, Zenon DEF CpuInv, Lines, Levels
            <4> QED
                BY <4>1, <4>2, <4>3, Zenon
        <3>2. /\ place'[c] = [place[c] EXCEPT !["irq"] = then[c]["irq"]]
              /\ then'[c] = [then[c] EXCEPT !["irq"] = "run"]
              /\ flags'[c] = [flags[c] EXCEPT !["irq"] = FALSE]
              /\ intr'[c] = (intr[c] \/ flags[c]["irq"])
            BY <1>0, <1>2, <2>2, Zenon DEF ExcTypeOK
        <3>3. OwnPlaces(c)'
            BY <1>0, <1>2, <3>1, <3>2, SMTT(30) DEF CpuInv, OwnPlaces, ExcTypeOK
        <3>4. Reporting(c)'
            BY <1>0, <1>2, <2>2 DEF CpuInv, Reporting
        <3>5. Lines(c)'
            BY <1>0, <1>2, <3>1, <3>2, SMTT(30) DEF CpuInv, Lines, Alive
        <3>6. Masked(c)'
            BY <1>0, <1>2, <3>2, SMTT(30) DEF CpuInv, Masked, ExcTypeOK
        <3> QED
            BY <3>3, <3>4, <3>5, <3>6, Zenon DEF CpuInv
    <2>3. CASE level[c] = "exc"
        <3>1. /\ then[c]["exc"] \in {"bytes", "detach", "cleanup", "halt"}
              /\ ~flags[c]["exc"]
              /\ ~locked[c]["exc"]
            <4>1. then[c]["exc"] \in {"bytes", "detach", "cleanup", "halt"}
                BY <1>0, <1>1, <2>3, Zenon DEF CpuInv, OwnPlaces
            <4>2. ~flags[c]["exc"]
                BY <1>0, Zenon DEF CpuInv, Masked, Levels
            <4>3. ~locked[c]["exc"]
                BY <1>0, <1>1, <2>3, Zenon DEF CpuInv, Lines, Levels
            <4> QED
                BY <4>1, <4>2, <4>3, Zenon
        <3>2. /\ place'[c] = [place[c] EXCEPT !["exc"] = then[c]["exc"]]
              /\ then'[c] = [then[c] EXCEPT !["exc"] = "run"]
              /\ flags'[c] = [flags[c] EXCEPT !["exc"] = FALSE]
              /\ intr'[c] = (intr[c] \/ flags[c]["exc"])
            BY <1>0, <1>2, <2>3, Zenon DEF ExcTypeOK
        <3>3. OwnPlaces(c)'
            BY <1>0, <1>2, <2>3, <3>1, SMTT(30) DEF CpuInv, OwnPlaces, ExcTypeOK
        <3>4. Reporting(c)'
            BY <1>0, <1>1, <1>2, <2>3, <3>1, SMTT(30) DEF CpuInv, Reporting
        <3>5. Lines(c)'
            BY <1>0, <1>2, <3>1, <3>2, SMTT(30) DEF CpuInv, Lines, Alive
        <3>6. Masked(c)'
            BY <1>0, <1>2, <3>2, SMTT(30) DEF CpuInv, Masked, ExcTypeOK
        <3> QED
            BY <3>3, <3>4, <3>5, <3>6, Zenon DEF CpuInv
    <2>4. CASE level[c] = "nested"
        <3>1. /\ then[c]["nested"] = "halt"
              /\ ~flags[c]["nested"]
              /\ ~locked[c]["nested"]
            <4>1. then[c]["nested"] = "halt"
                BY <1>0, <1>1, <2>4, Zenon DEF CpuInv, OwnPlaces
            <4>2. ~flags[c]["nested"]
                BY <1>0, Zenon DEF CpuInv, Masked, Levels
            <4>3. ~locked[c]["nested"]
                BY <1>0, <1>1, <2>4, Zenon DEF CpuInv, Lines, Levels
            <4> QED
                BY <4>1, <4>2, <4>3, Zenon
        <3>2. /\ place'[c] = [place[c] EXCEPT !["nested"] = then[c]["nested"]]
              /\ then'[c] = [then[c] EXCEPT !["nested"] = "run"]
              /\ flags'[c] = [flags[c] EXCEPT !["nested"] = FALSE]
              /\ intr'[c] = (intr[c] \/ flags[c]["nested"])
            BY <1>0, <1>2, <2>4, Zenon DEF ExcTypeOK
        <3>3. OwnPlaces(c)'
            BY <1>0, <1>2, <2>4, <3>1 DEF CpuInv, OwnPlaces, ExcTypeOK
        <3>4. Reporting(c)'
            BY <1>0, <1>1, <1>2, <2>4, SMTT(30) DEF CpuInv, Reporting
        <3>5. Lines(c)'
            BY <1>0, <1>2, <3>1, <3>2, SMTT(30) DEF CpuInv, Lines, Alive
        <3>6. Masked(c)'
            BY <1>0, <1>2, <2>4, SMTT(30)
            DEF CpuInv, OwnPlaces, Lines, Masked, ExcTypeOK
        <3> QED
            BY <3>3, <3>4, <3>5, <3>6, Zenon DEF CpuInv
    <2> QED
        BY <1>0, <2>1, <2>2, <2>3, <2>4, Zenon DEF ExcTypeOK, Levels
<1> QED
    BY <1>3, <1>4, <1>5, Zenon DEF ExcInv

LEMMA TaskLogsInv ==
    ASSUME NEW c \in Processors, ExcInv, TaskLogs(c)
    PROVE  ExcInv'
<1> USE ExceptionsAssumption DEF TaskLogs, BeginLine, Runs, At, Goes, lockVars, causeVars, endVars
<1>0. ExcTypeOK /\ CpuInv(c)
    BY Zenon DEF ExcInv
<1>1. ExcTypeOK'
    BY <1>0, Zenon DEF ExcTypeOK, Places
<1>2. ASSUME NEW d \in Processors, d # c PROVE CpuInv(d)'
    <2>1. Apart(d)
        BY <1>2 DEF Apart
    <2> QED
        BY <1>1, <2>1, OthersKeep, Zenon DEF ExcInv
<1>3. CpuInv(c)'
    <2>1. OwnPlaces(c)'
        BY <1>0, SMTT(30) DEF ExcTypeOK, CpuInv, OwnPlaces
    <2>2. Reporting(c)'
        BY <1>0, SMTT(30) DEF CpuInv, OwnPlaces, Reporting
    <2>3. Lines(c)'
        BY <1>0 DEF CpuInv, Lines, Alive
    <2>4. Masked(c)'
        BY <1>0 DEF ExcTypeOK, CpuInv, Lines, Masked
    <2> QED
        BY <2>1, <2>2, <2>3, <2>4, Zenon DEF CpuInv
<1> QED
    BY <1>1, <1>2, <1>3, Zenon DEF ExcInv

LEMMA InterruptInv ==
    ASSUME NEW c \in Processors, ExcInv, Interrupt(c)
    PROVE  ExcInv'
<1> USE ExceptionsAssumption DEF Interrupt, Runs, At, Goes, lockVars, causeVars, endVars
<1>0. ExcTypeOK /\ CpuInv(c)
    BY Zenon DEF ExcInv
<1>1. ExcTypeOK'
    BY <1>0, SMTT(30) DEF ExcTypeOK, Places, Levels
<1>2. ASSUME NEW d \in Processors, d # c PROVE CpuInv(d)'
    <2>1. Apart(d)
        BY <1>2 DEF Apart
    <2> QED
        BY <1>1, <2>1, OthersKeep, Zenon DEF ExcInv
<1>3. CpuInv(c)'
    <2>1. OwnPlaces(c)'
        BY <1>0, SMTT(30) DEF ExcTypeOK, CpuInv, OwnPlaces, Levels
    <2>2. Reporting(c)'
        BY <1>0 DEF CpuInv, Reporting
    <2>3. Lines(c)'
        BY <1>0, SMTT(30) DEF CpuInv, Lines, Alive
    <2>4. Masked(c)'
        BY <1>0 DEF ExcTypeOK, CpuInv, Lines, Masked
    <2> QED
        BY <2>1, <2>2, <2>3, <2>4, Zenon DEF CpuInv
<1> QED
    BY <1>1, <1>2, <1>3, Zenon DEF ExcInv

LEMMA IretInv ==
    ASSUME NEW c \in Processors, ExcInv, Iret(c)
    PROVE  ExcInv'
<1> USE ExceptionsAssumption
<1>0. ExcTypeOK /\ CpuInv(c)
    BY Zenon DEF ExcInv
<1>1. /\ level[c] = "irq"
      /\ place[c]["irq"] = "iret"
    <2>1. At(c) = "iret" /\ level[c] = "irq"
        BY <1>0, LevelOf, Zenon DEF Iret, Runs, CpuInv
    <2> QED
        BY <2>1, Zenon DEF At
<1>2. /\ level' = [level EXCEPT ![c] = "task"]
      /\ intr' = [intr EXCEPT ![c] = TRUE]
      /\ place' = [place EXCEPT ![c]["irq"] = "run"]
      /\ UNCHANGED <<then, flags, locked, tries, logLock, logSaved, excLock, excSaved,
                     inException, user, blind, maps, nmi, halted, midLine>>
    BY <1>1, Zenon DEF Iret, Goes, causeVars, endVars
<1>3. ExcTypeOK'
    BY <1>0, <1>2, Zenon DEF ExcTypeOK, Places, Levels
<1>4. ASSUME NEW d \in Processors, d # c PROVE CpuInv(d)'
    <2>1. Apart(d)
        BY <1>2, <1>4 DEF Apart
    <2> QED
        BY <1>3, <2>1, OthersKeep, Zenon DEF ExcInv
<1>5. CpuInv(c)'
    <2>0. /\ \A l \in Levels : ~locked[c][l]
          /\ logLock # c
        <3>1. Alive(c) = {"task", "irq"}
            BY <1>1, Zenon DEF Alive
        <3>2. ~locked[c]["task"]
            BY <1>0, <1>1, Zenon DEF CpuInv, Masked
        <3>3. ~locked[c]["irq"]
            BY <1>0, <1>1, Zenon DEF CpuInv, Lines, Levels
        <3>4. \A l \in Levels : ~locked[c][l]
            BY <1>0, <3>1, <3>2, <3>3, Zenon DEF CpuInv, Lines
        <3> QED
            BY <1>0, <3>4, Zenon DEF CpuInv, Lines
    <2>1. OwnPlaces(c)'
        BY <1>0, <1>2, SMTT(30) DEF CpuInv, OwnPlaces, ExcTypeOK
    <2>2. Reporting(c)'
        BY <1>0, <1>1, <1>2 DEF CpuInv, Reporting
    <2>3. Lines(c)'
        BY <1>0, <1>2, <2>0, SMTT(30) DEF CpuInv, Lines
    <2>4. Masked(c)'
        BY <1>0, <1>1, <1>2, <2>0, SMTT(30) DEF CpuInv, Masked, ExcTypeOK
    <2> QED
        BY <2>1, <2>2, <2>3, <2>4, Zenon DEF CpuInv
<1> QED
    BY <1>3, <1>4, <1>5, Zenon DEF ExcInv

LEMMA FaultInv ==
    ASSUME NEW c \in Processors, NEW u \in BOOLEAN, NEW b \in BOOLEAN, ExcInv, Fault(c, u, b)
    PROVE  ExcInv'
<1> USE ExceptionsAssumption DEF Fault, Runs, At, Goes, lockVars, causeVars, endVars
<1>0. ExcTypeOK /\ CpuInv(c)
    BY Zenon DEF ExcInv
<1>1. ExcTypeOK'
    BY <1>0, Zenon DEF ExcTypeOK, Places, Levels
<1>2. ASSUME NEW d \in Processors, d # c PROVE CpuInv(d)'
    <2>1. Apart(d)
        BY <1>0, <1>2, Zenon DEF ExcTypeOK, Apart
    <2> QED
        BY <1>1, <2>1, OthersKeep, Zenon DEF ExcInv
<1>3. CpuInv(c)'
    <2>1. OwnPlaces(c)'
        BY <1>0, SMTT(30) DEF ExcTypeOK, CpuInv, OwnPlaces, Levels
    <2>2. Reporting(c)'
        BY <1>0, SMTT(30) DEF ExcTypeOK, CpuInv, Reporting, Levels
    <2>3. Lines(c)'
        BY <1>0, SMTT(30) DEF ExcTypeOK, CpuInv, Lines, Alive
    <2>4. Masked(c)'
        BY <1>0, SMTT(30) DEF ExcTypeOK, CpuInv, Masked
    <2> QED
        BY <2>1, <2>2, <2>3, <2>4, Zenon DEF CpuInv
<1> QED
    BY <1>1, <1>2, <1>3, Zenon DEF ExcInv

LEMMA NestedExceptionInv ==
    ASSUME NEW c \in Processors, ExcInv, TakeException(c), inException[c]
    PROVE  ExcInv'
<1> USE ExceptionsAssumption
<1>0. ExcTypeOK /\ CpuInv(c)
    BY Zenon DEF ExcInv
<1>1. /\ level[c] = "nested"
      /\ place[c]["nested"] = "entry"
      /\ excLock = c => ~excSaved
    <2>1. At(c) = "entry"
        BY Zenon DEF TakeException, Runs
    <2>2. level[c] \in {"exc", "nested"}
        BY <1>0, <2>1, LevelOf, Zenon DEF CpuInv
    <2>3. Reporting(c)
        BY <1>0, Zenon DEF CpuInv
    <2>4. level[c] = "nested"
        BY <2>1, <2>2, <2>3, Zenon DEF At, Reporting
    <2> QED
        BY <2>1, <2>3, <2>4, Zenon DEF At, Reporting
<1>2. /\ place' = [place EXCEPT ![c]["nested"] = "test"]
      /\ then' = [then EXCEPT ![c]["nested"] = "halt"]
      /\ excLock' = IF excLock = c THEN Free ELSE excLock
      /\ intr' = intr
      /\ UNCHANGED <<level, intr, flags, locked, tries, logLock, logSaved, excSaved,
                     inException, user, blind, maps, nmi, halted, midLine>>
    <2>1. intr \in [Processors -> BOOLEAN]
        BY <1>0, Zenon DEF ExcTypeOK
    <2>2. intr' = [intr EXCEPT ![c] = intr[c] \/ (excLock = c /\ excSaved)]
        BY Zenon DEF TakeException
    <2>3. (intr[c] \/ (excLock = c /\ excSaved)) = intr[c]
        BY <1>1, <2>1, Zenon
    <2>4. intr' = intr
        BY <2>1, <2>2, <2>3, Zenon
    <2>5. /\ BeginLine(c, "test", "halt")
          /\ excLock' = IF excLock = c THEN Free ELSE excLock
          /\ UNCHANGED <<flags, inException, level, locked, tries, logLock, logSaved,
                         excSaved, causeVars, endVars>>
        BY Zenon DEF TakeException
    <2> QED
        BY <1>1, <2>4, <2>5, Zenon DEF BeginLine, Goes, causeVars, endVars
<1>3. ExcTypeOK'
    BY <1>0, <1>1, <1>2, Zenon DEF ExcTypeOK, Places
<1>4. ASSUME NEW d \in Processors, d # c PROVE CpuInv(d)'
    <2>1. Apart(d)
        BY <1>2, <1>4 DEF Apart
    <2> QED
        BY <1>3, <2>1, OthersKeep, Zenon DEF ExcInv
<1>5. CpuInv(c)'
    <2>1. OwnPlaces(c)'
        BY <1>0, <1>2, SMTT(30) DEF CpuInv, OwnPlaces, ExcTypeOK
    <2>2. Reporting(c)'
        BY <1>0, <1>1, <1>2 DEF CpuInv, Reporting
    <2>3. Lines(c)'
        BY <1>0, <1>1, <1>2 DEF CpuInv, Lines, Alive
    <2>4. Masked(c)'
        BY <1>0, <1>2 DEF CpuInv, Masked
    <2> QED
        BY <2>1, <2>2, <2>3, <2>4, Zenon DEF CpuInv
<1> QED
    BY <1>3, <1>4, <1>5, Zenon DEF ExcInv

LEMMA FirstExceptionInv ==
    ASSUME NEW c \in Processors, ExcInv, TakeException(c), ~inException[c]
    PROVE  ExcInv'
<1> USE ExceptionsAssumption
<1>0. ExcTypeOK /\ CpuInv(c)
    BY Zenon DEF ExcInv
<1>1. /\ level[c] = "exc"
      /\ place[c]["exc"] = "entry"
      /\ ~intr[c]
    <2>1. At(c) = "entry" /\ level[c] \in {"exc", "nested"}
        BY <1>0, LevelOf, Zenon DEF TakeException, Runs, CpuInv
    <2> QED
        BY <1>0, <2>1, Zenon DEF CpuInv, Reporting, Masked
<1>2. /\ inException' = [inException EXCEPT ![c] = TRUE]
      /\ flags' = [flags EXCEPT ![c]["exc"] = FALSE]
      /\ place' = [place EXCEPT ![c]["exc"] = "wait"]
      /\ UNCHANGED <<level, then, intr, locked, tries, logLock, logSaved, excLock,
                     excSaved, user, blind, maps, nmi, halted, midLine>>
    BY <1>1 DEF TakeException, Goes, causeVars, endVars
<1>3. ExcTypeOK'
    BY <1>0, <1>1, <1>2, Zenon DEF ExcTypeOK, Places
<1>4. ASSUME NEW d \in Processors, d # c PROVE CpuInv(d)'
    <2>1. Apart(d)
        BY <1>2, <1>4 DEF Apart
    <2> QED
        BY <1>3, <2>1, OthersKeep, Zenon DEF ExcInv
<1>5. CpuInv(c)'
    <2>1. OwnPlaces(c)'
        BY <1>0, <1>2, SMTT(30) DEF CpuInv, OwnPlaces
    <2>2. Reporting(c)'
        BY <1>0, <1>1, <1>2, SMTT(30) DEF CpuInv, OwnPlaces, Reporting, ExcTypeOK
    <2>3. Lines(c)'
        BY <1>0, <1>1, <1>2, SMTT(30) DEF CpuInv, OwnPlaces, Lines, Alive, ExcTypeOK
    <2>4. Masked(c)'
        BY <1>0, <1>2, SMTT(30) DEF CpuInv, OwnPlaces, Masked
    <2> QED
        BY <2>1, <2>2, <2>3, <2>4, Zenon DEF CpuInv
<1> QED
    BY <1>3, <1>4, <1>5, Zenon DEF ExcInv

LEMMA ReportInv ==
    ASSUME NEW c \in Processors, ExcInv, Report(c)
    PROVE  ExcInv'
<1> USE ExceptionsAssumption
<1>0. ExcTypeOK /\ CpuInv(c)
    BY Zenon DEF ExcInv
<1>1. /\ level[c] = "exc"
      /\ place[c]["exc"] = "wait"
      /\ excLock = Free
      /\ ~flags[c]["exc"]
    <2>1. At(c) = "wait" /\ level[c] = "exc"
        BY <1>0, LevelOf, Zenon DEF Report, Runs, CpuInv
    <2> QED
        BY <1>0, <2>1, Zenon DEF Report, At, CpuInv, Masked, Levels
<1>2. /\ excLock' = c /\ excSaved' = FALSE
      /\ place' = [place EXCEPT ![c]["exc"] = "test"]
      /\ then' = [then EXCEPT ![c]["exc"] = "bytes"]
      /\ UNCHANGED <<level, intr, flags, locked, tries, logLock, logSaved, inException,
                     user, blind, maps, nmi, halted, midLine>>
    BY <1>1 DEF Report, BeginLine, Goes, causeVars, endVars
<1>3. ExcTypeOK'
    <2>1. /\ place' \in [Processors -> [Levels -> Places]]
          /\ then' \in [Processors -> [Levels -> Places]]
        BY <1>0, <1>2, Zenon DEF ExcTypeOK, Places, Levels
    <2>2. excLock' = c /\ excSaved' \in BOOLEAN
        BY <1>2, Zenon
    <2> QED
        BY <1>0, <1>2, <2>1, <2>2, Zenon DEF ExcTypeOK
<1>4. ASSUME NEW d \in Processors, d # c PROVE CpuInv(d)'
    <2>1. Apart(d)
        BY <1>1, <1>2, <1>4, SMTT(30) DEF Apart
    <2> QED
        BY <1>3, <2>1, OthersKeep, Zenon DEF ExcInv
<1>5. CpuInv(c)'
    <2>1. OwnPlaces(c)'
        BY <1>0, <1>2, SMTT(30) DEF CpuInv, OwnPlaces, ExcTypeOK
    <2>2. Reporting(c)'
        BY <1>0, <1>1, <1>2, SMTT(30) DEF CpuInv, Reporting, ExcTypeOK
    <2>3. Lines(c)'
        BY <1>0, <1>1, <1>2, SMTT(30) DEF CpuInv, Lines, Alive
    <2>4. Masked(c)'
        BY <1>0, <1>2, SMTT(30) DEF CpuInv, Masked
    <2> QED
        BY <2>1, <2>2, <2>3, <2>4, Zenon DEF CpuInv
<1> QED
    BY <1>3, <1>4, <1>5, Zenon DEF ExcInv

LEMMA ReadFaultsInv ==
    ASSUME NEW c \in Processors, ExcInv, ReadBytes(c), blind[c]
    PROVE  ExcInv'
<1> USE ExceptionsAssumption
<1>0. ExcTypeOK /\ CpuInv(c)
    BY Zenon DEF ExcInv
<1>1. /\ level[c] = "exc"
      /\ place[c]["exc"] = "bytes"
    <2>1. At(c) = "bytes" /\ level[c] = "exc"
        BY <1>0, LevelOf, Zenon DEF ReadBytes, Runs, CpuInv
    <2> QED
        BY <2>1, Zenon DEF At
<1>2. /\ level' = [level EXCEPT ![c] = "nested"]
      /\ place' = [place EXCEPT ![c]["nested"] = "entry"]
      /\ UNCHANGED <<then, intr, flags, locked, tries, logLock, logSaved, excLock,
                     excSaved, inException, user, blind, maps, nmi, halted, midLine>>
    BY Zenon DEF ReadBytes, lockVars, causeVars, endVars
<1>3. ExcTypeOK'
    BY <1>0, <1>2, Zenon DEF ExcTypeOK, Places, Levels
<1>4. ASSUME NEW d \in Processors, d # c PROVE CpuInv(d)'
    <2>1. Apart(d)
        BY <1>2, <1>4 DEF Apart
    <2> QED
        BY <1>3, <2>1, OthersKeep, Zenon DEF ExcInv
<1>5. CpuInv(c)'
    <2>1. OwnPlaces(c)'
        BY <1>0, <1>2, SMTT(30) DEF CpuInv, OwnPlaces, ExcTypeOK, Levels
    <2>2. Reporting(c)'
        BY <1>0, <1>1, <1>2, SMTT(30) DEF CpuInv, Reporting, ExcTypeOK, Levels
    <2>3. Lines(c)'
        BY <1>0, <1>1, <1>2, SMTT(30) DEF CpuInv, Lines, Alive
    <2>4. Masked(c)'
        BY <1>0, <1>1, <1>2, SMTT(30) DEF CpuInv, Masked
    <2> QED
        BY <2>1, <2>2, <2>3, <2>4, Zenon DEF CpuInv
<1> QED
    BY <1>3, <1>4, <1>5, Zenon DEF ExcInv

LEMMA ReadSucceedsInv ==
    ASSUME NEW c \in Processors, ExcInv, ReadBytes(c), ~blind[c]
    PROVE  ExcInv'
<1> USE ExceptionsAssumption
<1>0. ExcTypeOK /\ CpuInv(c)
    BY Zenon DEF ExcInv
<1>1. /\ level[c] = "exc"
      /\ place[c]["exc"] = "bytes"
    <2>1. At(c) = "bytes" /\ level[c] = "exc"
        BY <1>0, LevelOf, Zenon DEF ReadBytes, Runs, CpuInv
    <2> QED
        BY <2>1, Zenon DEF At
<1>2. /\ place' = [place EXCEPT ![c]["exc"] = "test"]
      /\ then' = [then EXCEPT ![c]["exc"] = "detach"]
      /\ UNCHANGED <<level, intr, flags, locked, tries, logLock, logSaved, excLock,
                     excSaved, inException, user, blind, maps, nmi, halted, midLine>>
    BY <1>1, Zenon DEF ReadBytes, BeginLine, Goes, lockVars, causeVars, endVars
<1>3. ExcTypeOK'
    BY <1>0, <1>1, <1>2, Zenon DEF ExcTypeOK, Places
<1>4. ASSUME NEW d \in Processors, d # c PROVE CpuInv(d)'
    <2>1. Apart(d)
        BY <1>2, <1>4, SMTT(30) DEF Apart
    <2> QED
        BY <1>3, <2>1, OthersKeep, Zenon DEF ExcInv
<1>5. CpuInv(c)'
    <2>1. OwnPlaces(c)'
        BY <1>0, <1>2, SMTT(30) DEF CpuInv, OwnPlaces, ExcTypeOK
    <2>2. Reporting(c)'
        BY <1>0, <1>1, <1>2, SMTT(30) DEF CpuInv, Reporting, ExcTypeOK
    <2>3. Lines(c)'
        BY <1>0, <1>1, <1>2, SMTT(30) DEF CpuInv, Lines, Alive
    <2>4. Masked(c)'
        BY <1>0, <1>2 DEF CpuInv, Masked
    <2> QED
        BY <2>1, <2>2, <2>3, <2>4, Zenon DEF CpuInv
<1> QED
    BY <1>3, <1>4, <1>5, Zenon DEF ExcInv

LEMMA DetachProcessInv ==
    ASSUME NEW c \in Processors, ExcInv, Detach(c), user[c]
    PROVE  ExcInv'
<1> USE ExceptionsAssumption
<1>0. ExcTypeOK /\ CpuInv(c)
    BY Zenon DEF ExcInv
<1>1. /\ level[c] = "exc"
      /\ place[c]["exc"] = "detach"
    <2>1. At(c) = "detach" /\ level[c] = "exc"
        BY <1>0, LevelOf, Zenon DEF Detach, Runs, CpuInv
    <2> QED
        BY <2>1, Zenon DEF At
<1>2. /\ place' = [place EXCEPT ![c]["exc"] = "cli"]
      /\ then' = [then EXCEPT ![c]["exc"] = "cleanup"]
      /\ UNCHANGED <<level, intr, flags, locked, tries, logLock, logSaved, excLock,
                     excSaved, inException, user, blind, maps, nmi, halted, midLine>>
    BY <1>1, Zenon DEF Detach, BeginLine, Goes, lockVars, causeVars, endVars
<1>3. ExcTypeOK'
    BY <1>0, <1>1, <1>2, Zenon DEF ExcTypeOK, Places
<1>4. ASSUME NEW d \in Processors, d # c PROVE CpuInv(d)'
    <2>1. Apart(d)
        BY <1>2, <1>4 DEF Apart
    <2> QED
        BY <1>3, <2>1, OthersKeep, Zenon DEF ExcInv
<1>5. CpuInv(c)'
    <2>1. OwnPlaces(c)'
        BY <1>0, <1>2, SMTT(30) DEF CpuInv, OwnPlaces, ExcTypeOK
    <2>2. Reporting(c)'
        BY <1>0, <1>1, <1>2, SMTT(30) DEF CpuInv, Reporting, ExcTypeOK
    <2>3. Lines(c)'
        BY <1>0, <1>1, <1>2, SMTT(30) DEF CpuInv, Lines, Alive
    <2>4. Masked(c)'
        BY <1>0, <1>2 DEF CpuInv, Masked
    <2> QED
        BY <2>1, <2>2, <2>3, <2>4, Zenon DEF CpuInv
<1> QED
    BY <1>3, <1>4, <1>5, Zenon DEF ExcInv

LEMMA DetachKernelInv ==
    ASSUME NEW c \in Processors, ExcInv, Detach(c), ~user[c]
    PROVE  ExcInv'
<1> USE ExceptionsAssumption
<1>0. ExcTypeOK /\ CpuInv(c)
    BY Zenon DEF ExcInv
<1>1. /\ level[c] = "exc"
      /\ place[c]["exc"] = "detach"
    <2>1. At(c) = "detach" /\ level[c] = "exc"
        BY <1>0, LevelOf, Zenon DEF Detach, Runs, CpuInv
    <2> QED
        BY <2>1, Zenon DEF At
<1>2. /\ place' = [place EXCEPT ![c]["exc"] = "panic"]
      /\ UNCHANGED <<level, then, intr, flags, locked, tries, logLock, logSaved, excLock,
                     excSaved, inException, user, blind, maps, nmi, halted, midLine>>
    BY <1>1, Zenon DEF Detach, Goes, lockVars, causeVars, endVars
<1>3. ExcTypeOK'
    BY <1>0, <1>1, <1>2, Zenon DEF ExcTypeOK, Places
<1>4. ASSUME NEW d \in Processors, d # c PROVE CpuInv(d)'
    <2>1. Apart(d)
        BY <1>2, <1>4, SMTT(30) DEF Apart
    <2> QED
        BY <1>3, <2>1, OthersKeep, Zenon DEF ExcInv
<1>5. CpuInv(c)'
    <2>1. OwnPlaces(c)'
        BY <1>0, <1>2, SMTT(30) DEF CpuInv, OwnPlaces
    <2>2. Reporting(c)'
        BY <1>0, <1>1, <1>2 DEF CpuInv, Reporting
    <2>3. Lines(c)'
        BY <1>0, <1>1, <1>2 DEF CpuInv, Lines, Alive
    <2>4. Masked(c)'
        BY <1>0, <1>2, SMTT(30) DEF CpuInv, Masked
    <2> QED
        BY <2>1, <2>2, <2>3, <2>4, Zenon DEF CpuInv
<1> QED
    BY <1>3, <1>4, <1>5, Zenon DEF ExcInv

LEMMA TerminateProcessInv ==
    ASSUME NEW c \in Processors, ExcInv, TerminateProcess(c)
    PROVE  ExcInv'
<1> USE ExceptionsAssumption
<1>0. ExcTypeOK /\ CpuInv(c)
    BY Zenon DEF ExcInv
<1>1. /\ level[c] = "exc"
      /\ place[c]["exc"] = "cleanup"
      /\ excLock = c
      /\ ~locked[c]["task"]
    <2>1. At(c) = "cleanup" /\ level[c] = "exc"
        BY <1>0, LevelOf, Zenon DEF TerminateProcess, Runs, CpuInv
    <2>2. place[c]["exc"] = "cleanup"
        BY <2>1, Zenon DEF At
    <2> QED
        BY <1>0, <2>1, <2>2, Zenon DEF CpuInv, Reporting
<1>2. /\ inException' = [inException EXCEPT ![c] = FALSE]
      /\ excLock' = Free
      /\ level' = [level EXCEPT ![c] = "task"]
      /\ place' = [place EXCEPT ![c] = [l \in Levels |-> "run"]]
      /\ then' = [then EXCEPT ![c] = [l \in Levels |-> "run"]]
      /\ user' = [user EXCEPT ![c] = FALSE]
      /\ locked' = [locked EXCEPT ![c]["task"] = FALSE]
      /\ intr' = [intr EXCEPT ![c] = TRUE]
      /\ UNCHANGED <<flags, tries, logLock, logSaved, excSaved, blind, maps, nmi, halted,
                     midLine>>
    BY Zenon DEF TerminateProcess, endVars
<1>3. ExcTypeOK'
    BY <1>0, <1>2, Zenon DEF ExcTypeOK, Places, Levels
<1>4. ASSUME NEW d \in Processors, d # c PROVE CpuInv(d)'
    <2>1. Apart(d)
        BY <1>1, <1>2, <1>4 DEF Apart
    <2> QED
        BY <1>3, <2>1, OthersKeep, Zenon DEF ExcInv
<1>5. CpuInv(c)'
    <2>0. /\ \A l \in Levels : ~locked[c][l]
          /\ logLock # c
        BY <1>0, <1>1, Zenon DEF CpuInv, Lines, Alive
    <2>1. OwnPlaces(c)'
        BY <1>0, <1>2, Zenon DEF OwnPlaces, ExcTypeOK, Levels
    <2>2. Reporting(c)'
        BY <1>0, <1>1, <1>2, SMTT(30) DEF Reporting, ExcTypeOK
    <2>3. Lines(c)'
        BY <1>0, <1>2, <2>0 DEF Lines, ExcTypeOK
    <2>4. Masked(c)'
        <3>1. /\ intr'[c] /\ level'[c] = "task" /\ logLock' # c
              /\ place'[c]["task"] = "run" /\ then'[c]["task"] = "run"
              /\ \A l \in Levels : ~locked'[c][l]
              /\ flags' = flags
            BY <1>0, <1>2, <2>0 DEF ExcTypeOK, Levels
        <3>2. \A l \in Levels \ {"task"} : ~flags[c][l]
            BY <1>0, Zenon DEF CpuInv, Masked
        <3> QED
            BY <3>1, <3>2, Zenon DEF Masked, Levels
    <2> QED
        BY <2>1, <2>2, <2>3, <2>4, Zenon DEF CpuInv
<1> QED
    BY <1>3, <1>4, <1>5, Zenon DEF ExcInv

LEMMA CallPanicInv ==
    ASSUME NEW c \in Processors, ExcInv, CallPanic(c)
    PROVE  ExcInv'
<1> USE ExceptionsAssumption DEF CallPanic, Runs, At, Goes, lockVars, causeVars, endVars
<1>0. ExcTypeOK /\ CpuInv(c)
    BY Zenon DEF ExcInv
<1>1. ExcTypeOK'
    BY <1>0, Zenon DEF ExcTypeOK, Places
<1>2. ASSUME NEW d \in Processors, d # c PROVE CpuInv(d)'
    <2>1. Apart(d)
        BY <1>2 DEF Apart
    <2> QED
        BY <1>1, <2>1, OthersKeep, Zenon DEF ExcInv
<1>3. CpuInv(c)'
    <2>1. OwnPlaces(c)'
        BY <1>0, SMTT(30) DEF ExcTypeOK, CpuInv, OwnPlaces
    <2>2. Reporting(c)'
        BY <1>0 DEF ExcTypeOK, CpuInv, Reporting
    <2>3. Lines(c)'
        BY <1>0, SMTT(30) DEF ExcTypeOK, CpuInv, Lines, Alive
    <2>4. Masked(c)'
        BY <1>0 DEF CpuInv, Masked
    <2> QED
        BY <2>1, <2>2, <2>3, <2>4, Zenon DEF CpuInv
<1> QED
    BY <1>1, <1>2, <1>3, Zenon DEF ExcInv

LEMMA PanicInv ==
    ASSUME NEW c \in Processors, ExcInv, Panic(c)
    PROVE  ExcInv'
<1> USE ExceptionsAssumption DEF Panic, BeginLine, Runs, At, Goes, lockVars, causeVars, endVars
<1>0. ExcTypeOK /\ CpuInv(c)
    BY Zenon DEF ExcInv
<1>1. ExcTypeOK'
    BY <1>0, Zenon DEF ExcTypeOK, Places
<1>2. ASSUME NEW d \in Processors, d # c PROVE CpuInv(d)'
    <2>1. Apart(d)
        BY <1>2 DEF Apart
    <2> QED
        BY <1>1, <2>1, OthersKeep, Zenon DEF ExcInv
<1>3. CpuInv(c)'
    <2>1. OwnPlaces(c)'
        BY <1>0, SMTT(30) DEF ExcTypeOK, CpuInv, OwnPlaces
    <2>2. Reporting(c)'
        BY <1>0, SMTT(30) DEF ExcTypeOK, CpuInv, Reporting
    <2>3. Lines(c)'
        BY <1>0, SMTT(30) DEF ExcTypeOK, CpuInv, Lines, Alive
    <2>4. Masked(c)'
        BY <1>0, SMTT(30) DEF CpuInv, Masked
    <2> QED
        BY <2>1, <2>2, <2>3, <2>4, Zenon DEF CpuInv
<1> QED
    BY <1>1, <1>2, <1>3, Zenon DEF ExcInv

LEMMA HaltInv ==
    ASSUME NEW c \in Processors, ExcInv, Halt(c)
    PROVE  ExcInv'
<1> USE ExceptionsAssumption DEF Halt, Runs, At, Goes, lockVars, causeVars, endVars
<1>0. ExcTypeOK /\ CpuInv(c)
    BY Zenon DEF ExcInv
<1>1. ExcTypeOK'
    BY <1>0, Zenon DEF ExcTypeOK
<1>2. ASSUME NEW d \in Processors, d # c PROVE CpuInv(d)'
    <2>1. Apart(d)
        BY <1>2 DEF Apart
    <2> QED
        BY <1>1, <2>1, OthersKeep, Zenon DEF ExcInv
<1>3. CpuInv(c)'
    <2>1. OwnPlaces(c)'
        BY <1>0, SMTT(30) DEF CpuInv, OwnPlaces
    <2>2. Reporting(c)'
        BY <1>0, Zenon DEF ExcTypeOK, CpuInv, Reporting
    <2>3. Lines(c)'
        BY <1>0, Zenon DEF ExcTypeOK, CpuInv, Lines, Alive
    <2>4. Masked(c)'
        BY <1>0, SMTT(30) DEF ExcTypeOK, CpuInv, Masked
    <2> QED
        BY <2>1, <2>2, <2>3, <2>4, Zenon DEF CpuInv
<1> QED
    BY <1>1, <1>2, <1>3, Zenon DEF ExcInv

LEMMA TakeNmiInv ==
    ASSUME NEW c \in Processors, ExcInv, TakeNmi(c)
    PROVE  ExcInv'
<1> USE ExceptionsAssumption DEF TakeNmi, Runs, At, Goes, lockVars, causeVars, endVars
<1>0. ExcTypeOK /\ CpuInv(c)
    BY Zenon DEF ExcInv
<1>1. ExcTypeOK'
    BY <1>0, Zenon DEF ExcTypeOK
<1>2. ASSUME NEW d \in Processors, d # c PROVE CpuInv(d)'
    <2>1. Apart(d)
        BY <1>2 DEF Apart
    <2> QED
        BY <1>1, <2>1, OthersKeep, Zenon DEF ExcInv
<1>3. CpuInv(c)'
    <2>1. OwnPlaces(c)'
        BY <1>0, SMTT(30) DEF CpuInv, OwnPlaces
    <2>2. Reporting(c)'
        BY <1>0, Zenon DEF CpuInv, Reporting
    <2>3. Lines(c)'
        BY <1>0, Zenon DEF ExcTypeOK, CpuInv, OwnPlaces, Lines, Alive
    <2>4. Masked(c)'
        BY <1>0, Zenon DEF ExcTypeOK, CpuInv, Masked
    <2> QED
        BY <2>1, <2>2, <2>3, <2>4, Zenon DEF CpuInv
<1> QED
    BY <1>1, <1>2, <1>3, Zenon DEF ExcInv

LEMMA ExcNextInv == ExcInv /\ [ExcNext]_excVars => ExcInv'
<1> SUFFICES ASSUME ExcInv, [ExcNext]_excVars PROVE ExcInv'
    OBVIOUS
<1>1. CASE UNCHANGED excVars
    <2>1. ExcTypeOK'
        BY <1>1, Zenon DEF excVars, ExcInv, ExcTypeOK
    <2>2. ASSUME NEW d \in Processors PROVE Apart(d)
        BY <1>1, Zenon DEF excVars, Apart
    <2> QED
        BY <2>1, <2>2, OthersKeep, Zenon DEF ExcInv
<1>2. ASSUME NEW c \in Processors,
             \/ Onward(c) \/ TaskLogs(c) \/ Interrupt(c) \/ CallPanic(c)
             \/ \E u, b \in BOOLEAN : Fault(c, u, b)
      PROVE  ExcInv'
    <2>1. CASE Mask(c) \/ Spin(c) \/ HeldBySelf(c) \/ TryAcquire(c) \/ Wrote(c) \/ Unlock(c) \/ Restore(c)
        BY <2>1, MaskInv, SpinInv, HeldBySelfInv, TryTakesInv, TryFailsInv, WroteInv,
           UnlockInv, RestoreInv, Zenon
    <2>2. CASE Iret(c) \/ TaskLogs(c) \/ Interrupt(c)
        BY <2>2, IretInv, TaskLogsInv, InterruptInv, Zenon
    <2>3. CASE TakeException(c) \/ Report(c) \/ ReadBytes(c) \/ Detach(c) \/ TerminateProcess(c)
        BY <2>3, NestedExceptionInv, FirstExceptionInv, ReportInv, ReadFaultsInv,
           ReadSucceedsInv, DetachProcessInv, DetachKernelInv, TerminateProcessInv, Zenon
    <2>4. CASE Panic(c) \/ Halt(c) \/ TakeNmi(c) \/ CallPanic(c)
        BY <2>4, PanicInv, HaltInv, TakeNmiInv, CallPanicInv, Zenon
    <2>5. CASE \E u, b \in BOOLEAN : Fault(c, u, b)
        BY <2>5, FaultInv, Zenon
    <2> QED
        BY <1>2, <2>1, <2>2, <2>3, <2>4, <2>5, Zenon DEF Onward
<1> QED
    BY <1>1, <1>2, Zenon DEF ExcNext

-----------------------------------------------------------------------------
(* The invariant of one CPU says what CriticalSections asks of it.         *)
LEMMA ExcInvSuffices == ExcInv => CriticalSections
<1> SUFFICES ASSUME ExcInv PROVE CriticalSections
    BY SMTT(30)
<1> USE DEF ExcInv
<1>1. LinesApart
    BY DEF CpuInv, Lines, LinesApart, Alive, Levels
<1>2. SectionsMasked
    <2> SUFFICES ASSUME NEW c \in Processors
                 PROVE  /\ logLock = c \/ excLock = c => ~intr[c]
                        /\ level[c] # "task" => ~intr[c]
                        /\ (level[c] = "task" /\ At(c) = "run" /\ c \notin halted) => intr[c]
        BY Zenon DEF SectionsMasked
    <2> QED
        BY Zenon DEF CpuInv, Masked, Reporting, At
<1>3. OneReport
    BY Zenon DEF OneReport, CpuInv, Reporting, At
<1>4. NoSelfWait
    <2> SUFFICES ASSUME NEW c \in Processors
                 PROVE  /\ Runs(c, "spin") /\ ~midLine => logLock # c
                        /\ Runs(c, "wait") => excLock # c
        BY Zenon DEF NoSelfWait
    <2>1. ASSUME At(c) = "wait" PROVE excLock # c
        BY <2>1, Zenon DEF CpuInv, Reporting, At
    <2>2. ASSUME At(c) = "spin", ~midLine, logLock = c PROVE FALSE
        <3>1. PICK l \in Levels : locked[c][l] /\ place[c][l] \in {"write", "store"} /\ l \in Alive(c)
            BY <2>2, Zenon DEF CpuInv, Lines
        <3>2. level[c] \in {"task", "irq", "exc"}
            BY <2>2, Zenon DEF CpuInv, OwnPlaces, At, ExcTypeOK, Levels
        <3>3. l # level[c]
            BY <2>2, <3>1, Zenon DEF At
        <3>4. level[c] # "task"
            BY <3>1, <3>3, Zenon DEF Alive
        <3>5. level[c] # "irq"
            BY <3>1, <3>3, Zenon DEF Alive, CpuInv, Masked
        <3>6. CASE level[c] = "exc"
            BY <2>2, <3>1, <3>6 DEF Alive, CpuInv, Reporting, At
        <3> QED
            BY <3>2, <3>4, <3>5, <3>6, Zenon
    <2> QED
        BY <2>1, <2>2, Zenon DEF Runs
<1> QED
    BY <1>1, <1>2, <1>3, <1>4, Zenon DEF CriticalSections

(* Whatever faults, interrupts and panics come in between, lines that lock *)
(* stay apart, sections run masked, reports come one at a time, and no CPU *)
(* waits for itself (spinlock.h:27-76, log.cpp, arch_init.cpp,             *)
(* interrupt_dispatch).                                                    *)
THEOREM SectionsHold == ExcSpec => []CriticalSections
<1>1. ExcSpec => []ExcInv
    BY ExcInitInv, ExcNextInv, PTL DEF ExcSpec
<1> QED
    BY <1>1, ExcInvSuffices, PTL
=============================================================================
