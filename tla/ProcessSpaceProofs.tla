------------------------- MODULE ProcessSpaceProofs -------------------------
(***************************************************************************)
(* More of what TLAPS proves of ProcessLifecycle, from the references that *)
(* ProcessLifecycleProofs tracks: which page tables a CPU has loaded, and  *)
(* who owns a context as long as nobody has called terminate_task.         *)
(***************************************************************************)
EXTENDS ProcessLifecycleProofs

-----------------------------------------------------------------------------
(* The page tables a CPU has loaded.                                       *)

(* Where a task's kernel code relies on its own page tables being loaded.  *)
OwnPcs == {"code", "sleep", "wait", "waitsleep", "load", "loadx"}
CleanPcs == {"kill", "leave", "exec"}

InSpace(c, s) ==
    /\ tpc[s] \in OwnPcs \/ (tpc[s] = "kill" /\ ~began[s]) => cr3[c] = userData[s]
    /\ tpc[s] = "kill" /\ began[s] => cr3[c] \in {NoCtx, userData[s]}

Spaces == \A c \in Cpus :
    pc[c] = "run" /\ cur[c] # NoTask /\ ~resurrected[cur[c]] => InSpace(c, cur[c])

(* A task cleaning up another's context will restore its own page tables.  *)
Remembered == \A s \in InUse :
    ~resurrected[s] /\ tpc[s] = "kill" /\ began[s] => savedCr3[s] = userData[s]
Begun == \A s \in Slots : began[s] => tpc[s] \in CleanPcs

SpaceInv == Spaces /\ Remembered /\ Begun

(* A CPU has dispatched s, and no sleep() has brought s back.              *)
Busy(s) == \E c \in Cpus : cur[c] = s /\ ~resurrected[s]

LEMMA BusyInUse ==
    ASSUME DispatchInv, NEW s \in Slots, Busy(s)
    PROVE  s \in InUse /\ s < taskCount /\ currentCpu[s] # NoCpu
<1>1. PICK c \in Cpus : cur[c] = s /\ ~resurrected[s]
    BY Zenon DEF Busy
<1>2. s # NoTask
    BY DEF Slots, NoTask
<1>3. s < taskCount /\ currentCpu[s] = c
    BY <1>1, <1>2, Zenon DEF DispatchInv, DispatchIsRecorded
<1> QED
    BY <1>3, CpuAssumption, Zenon DEF InUse

(* Code of task s running on c disturbs no other CPU's page tables.        *)
LEMMA SpacesKept ==
    ASSUME DispatchInv, Spaces, NEW c \in Cpus, NEW s \in Slots,
           cur[c] = s, UNCHANGED <<pc, cur>>,
           \A q \in Slots : resurrected[q] => resurrected'[q],
           \A q \in Slots : q # s /\ Busy(q) =>
               /\ userData'[q] = userData[q]
               /\ tpc'[q] = tpc[q]
               /\ began'[q] = began[q],
           \A d \in Cpus : d # c => cr3'[d] = cr3[d],
           ~resurrected'[s] => InSpace(c, s)'
    PROVE  Spaces'
<1> SUFFICES ASSUME NEW d \in Cpus, pc[d] = "run", cur[d] # NoTask, ~resurrected'[cur[d]]
             PROVE  InSpace(d, cur[d])'
    BY Zenon DEF Spaces
<1>0. cur[d] \in Slots
    BY Zenon DEF DispatchInv, TypeOK
<1>1. cur[d] \in Slots /\ ~resurrected[cur[d]]
    BY <1>0, Zenon
<1>2. CASE d = c
    BY <1>2, Zenon
<1>3. CASE d # c
    <2>1. cur[d] # s
        BY <1>1, <1>3, OthersKept, Zenon
    <2>2. Busy(cur[d])
        BY <1>1, Zenon DEF Busy
    <2>3. InSpace(d, cur[d])
        BY <1>1, Zenon DEF Spaces
    <2>4. /\ userData'[cur[d]] = userData[cur[d]]
          /\ tpc'[cur[d]] = tpc[cur[d]]
          /\ began'[cur[d]] = began[cur[d]]
          /\ cr3'[d] = cr3[d]
        BY <1>1, <1>3, <2>1, <2>2, Zenon
    <2> QED
        BY <2>3, <2>4, Zenon DEF InSpace
<1> QED
    BY <1>2, <1>3, Zenon

(* Steps that put s nowhere it was not already relying on its page tables. *)
LEMMA SpaceOwn ==
    ASSUME DispatchInv, SpaceInv, NEW c \in Cpus, NEW s \in Slots,
           pc[c] = "run", cur[c] = s,
           UNCHANGED <<pc, cur, began, savedCr3, taskCount, currentCpu>>,
           \A q \in Slots : resurrected[q] => resurrected'[q],
           \A q \in Slots : \/ state'[q] = state[q] \/ state'[q] = "terminated"
                            \/ resurrected'[q] \/ state[q] # "terminated",
           \A q \in Slots : q # s => userData'[q] = userData[q] /\ tpc'[q] = tpc[q],
           \A d \in Cpus : d # c => cr3'[d] = cr3[d],
           \/ /\ tpc'[s] = tpc[s] /\ userData'[s] = userData[s] /\ cr3'[c] = cr3[c]
           \/ /\ tpc[s] \notin CleanPcs /\ tpc'[s] # "kill"
              /\ tpc'[s] \in OwnPcs => /\ tpc[s] \in OwnPcs
                                       /\ userData'[s] = userData[s]
                                       /\ cr3'[c] = cr3[c]
    PROVE  SpaceInv'
<1>1. cur[c] # NoTask
    BY DEF Slots, NoTask
<1>2. ~resurrected'[s] => InSpace(c, s)'
    <2> HAVE ~resurrected'[s]
    <2>1. ~resurrected[s] /\ InSpace(c, s)
        BY <1>1, Zenon DEF SpaceInv, Spaces
    <2> QED
        BY <2>1, Zenon DEF InSpace
<1>3. Spaces'
    BY <1>2, SpacesKept, Zenon DEF SpaceInv
<1>4. Begun'
    BY Zenon DEF SpaceInv, Begun, CleanPcs
<1>5. Remembered'
    <2> SUFFICES ASSUME NEW q \in Slots, q \in InUse', ~resurrected'[q],
                        tpc'[q] = "kill", began'[q]
                 PROVE  savedCr3'[q] = userData'[q]
        BY Zenon DEF Remembered, InUse
    <2>1. q \in InUse
        BY Zenon DEF InUse
    <2>2. tpc[q] = "kill" /\ userData'[q] = userData[q]
        BY Zenon
    <2> QED
        BY <2>1, <2>2, Zenon DEF SpaceInv, Remembered
<1> QED
    BY <1>3, <1>4, <1>5, Zenon DEF SpaceInv

(* terminate_task takes the context of a task no CPU has.                  *)
LEMMA SpaceTaken ==
    ASSUME DispatchInv, SpaceInv, NEW c \in Cpus, NEW s \in Slots, NEW v \in Slots,
           pc[c] = "run", cur[c] = s, tpc[s] = "code", currentCpu[v] = NoCpu,
           UNCHANGED <<pc, cur, cr3, began, savedCr3, taskCount, currentCpu, resurrected>>,
           \A q \in Slots : userData'[q] = IF q = v THEN NoCtx ELSE userData[q],
           \A q \in Slots : tpc'[q] = IF q = s THEN "kill" ELSE tpc[q],
           \A q \in Slots : state'[q] = IF q = v THEN "terminated" ELSE state[q]
    PROVE  SpaceInv'
<1>1. cur[c] # NoTask
    BY DEF Slots, NoTask
<1>2. ~Busy(v)
    BY BusyInUse, Zenon
<1>3. ~began[s]
    BY Zenon DEF SpaceInv, Begun, CleanPcs
<1>4. ~resurrected'[s] => InSpace(c, s)'
    <2> HAVE ~resurrected'[s]
    <2>1. Busy(s) /\ InSpace(c, s)
        BY <1>1, Zenon DEF SpaceInv, Spaces, Busy
    <2>2. v # s
        BY <1>2, <2>1, Zenon
    <2> QED
        BY <1>3, <2>1, <2>2, Zenon DEF InSpace, OwnPcs
<1>5. Spaces'
    BY <1>2, <1>4, SpacesKept, Zenon DEF SpaceInv
<1>6. Begun'
    BY Zenon DEF SpaceInv, Begun, CleanPcs
<1>7. Remembered'
    <2> SUFFICES ASSUME NEW q \in Slots, q \in InUse', ~resurrected'[q],
                        tpc'[q] = "kill", began'[q]
                 PROVE  savedCr3'[q] = userData'[q]
        BY Zenon DEF Remembered, InUse
    <2>1. q # v /\ q # s
        BY <1>3, Zenon DEF InUse
    <2>2. q \in InUse /\ tpc[q] = "kill" /\ userData'[q] = userData[q]
        BY <2>1, Zenon DEF InUse
    <2> QED
        BY <2>2, Zenon DEF SpaceInv, Remembered
<1> QED
    BY <1>5, <1>6, <1>7, Zenon DEF SpaceInv

(* A new task is created in a slot that no CPU has.                        *)
LEMMA SpaceCreated ==
    ASSUME ProcessTypeOK, DispatchInv, SpaceInv, NEW c \in Cpus, NEW s \in Slots,
           RunCreate(c, s)
    PROVE  SpaceInv'
<1>0. /\ userData \in [Slots -> Ctx] /\ state \in [Slots -> States]
      /\ tpc \in [Slots -> TaskPcs] /\ id \in [Slots -> Nat]
      /\ currentCpu \in [Slots -> MaybeCpu] /\ taskCount \in Nat
      /\ began \in [Slots -> BOOLEAN] /\ savedCr3 \in [Slots -> Ctx]
    BY DEF ProcessTypeOK, TypeOK
<1>1. PICK r \in Slots : /\ CreateIn(r, held[s])
                         /\ tpc' = [tpc EXCEPT ![r] = "code", ![s] = "code"]
    BY Zenon DEF RunCreate, CreateTask
<1>2. /\ pc[c] = "run" /\ cur[c] = s /\ tpc[s] = "load"
      /\ UNCHANGED <<pc, cur, cr3, resurrected>>
    BY <1>1, Zenon DEF RunCreate, CreateTask, Executes, CreateIn, cpuState, history
<1>3. /\ \A q \in Slots : q # r => /\ userData'[q] = userData[q]
                                   /\ state'[q] = state[q]
                                   /\ currentCpu'[q] = currentCpu[q]
                                   /\ id'[q] = id[q]
      /\ \A q \in Slots : tpc'[q] = IF q = r \/ q = s THEN "code" ELSE tpc[q]
    BY <1>0, <1>1, Zenon DEF CreateIn
<1>4. /\ \A q \in Slots : q # r => began'[q] = began[q] /\ savedCr3'[q] = savedCr3[q]
      /\ ~began'[r]
    <2>1. PICK p \in Slots : /\ id'[p] # id[p]
                             /\ began' = [began EXCEPT ![p] = FALSE]
                             /\ savedCr3' = [savedCr3 EXCEPT ![p] = NoCtx]
        BY Zenon DEF RunCreate
    <2>2. p = r
        BY <1>3, <2>1, Zenon
    <2> QED
        BY <1>0, <2>1, <2>2, Zenon
<1>5. \A q \in Slots : q < taskCount' /\ q # r => q < taskCount
    BY <1>0, <1>1 DEF CreateIn, Slots
<1>6. ~Busy(r)
    <2>1. ~(r < taskCount /\ currentCpu[r] # NoCpu)
        BY <1>0, <1>1, SMTT(30) DEF CreateIn, AvailableSlot, Reusable, Slots
    <2> QED
        BY <2>1, BusyInUse, Zenon
<1>7. ~began[s]
    BY <1>2, Zenon DEF SpaceInv, Begun, CleanPcs
<1>8. ~resurrected'[s] => InSpace(c, s)'
    <2> HAVE ~resurrected'[s]
    <2>1. cur[c] # NoTask
        BY <1>2 DEF Slots, NoTask
    <2>2. Busy(s) /\ InSpace(c, s)
        BY <1>2, <2>1, Zenon DEF SpaceInv, Spaces, Busy
    <2>3. s # r
        BY <1>6, <2>2, Zenon
    <2>4. userData'[s] = userData[s] /\ tpc'[s] = "code" /\ cr3'[c] = cr3[c]
        BY <1>2, <1>3, <2>3, Zenon
    <2> QED
        BY <1>2, <2>2, <2>4, Zenon DEF InSpace, OwnPcs
<1>9. Spaces'
    <2>1. \A q \in Slots : q # s /\ Busy(q) => /\ userData'[q] = userData[q]
                                               /\ tpc'[q] = tpc[q]
                                               /\ began'[q] = began[q]
        BY <1>3, <1>4, <1>6, Zenon
    <2> QED
        BY <1>2, <1>8, <2>1, SpacesKept, Zenon DEF SpaceInv
<1>10. Begun'
    BY <1>3, <1>4, <1>7, Zenon DEF SpaceInv, Begun
<1>11. Remembered'
    <2> SUFFICES ASSUME NEW q \in Slots, q \in InUse', ~resurrected'[q],
                        tpc'[q] = "kill", began'[q]
                 PROVE  savedCr3'[q] = userData'[q]
        BY Zenon DEF Remembered, InUse
    <2>1. q # r /\ q # s /\ tpc[q] = "kill"
        BY <1>3, Zenon
    <2>2. q \in InUse /\ userData'[q] = userData[q] /\ savedCr3'[q] = savedCr3[q] /\ began[q]
        BY <1>3, <1>4, <1>5, <2>1, Zenon DEF InUse
    <2> QED
        BY <1>2, <2>1, <2>2, Zenon DEF SpaceInv, Remembered
<1> QED
    BY <1>9, <1>10, <1>11, Zenon DEF SpaceInv

(* cleanup_process_context up to the switch to the kernel's page tables.   *)
LEMMA SpaceBegin ==
    ASSUME ProcessTypeOK, DispatchInv, Owned, SpaceInv, NEW c \in Cpus, NEW s \in Slots,
           CleanBegin(c, s)
    PROVE  SpaceInv'
<1>0. /\ began \in [Slots -> BOOLEAN] /\ savedCr3 \in [Slots -> Ctx]
      /\ cr3 \in [Cpus -> Ctx]
    BY Zenon DEF ProcessTypeOK
<1>1. /\ pc[c] = "run" /\ cur[c] = s /\ tpc[s] \in CleanPcs /\ ~began[s]
      /\ UNCHANGED <<pc, cur, userData, tpc, held, resurrected, state, taskCount, currentCpu>>
    BY Zenon DEF CleanBegin, Executes, CleanPcs, vars, table, cpuState, taskCode, history
<1>2. /\ \A q \in Slots : began'[q] = IF q = s THEN TRUE ELSE began[q]
      /\ \A q \in Slots : q # s => savedCr3'[q] = savedCr3[q]
      /\ savedCr3'[s] = IF tpc[s] = "kill" /\ cr3[c] # held[s] THEN cr3[c] ELSE NoCtx
      /\ \A d \in Cpus : cr3'[d] = IF d = c THEN NoCtx ELSE cr3[d]
    BY <1>0, Zenon DEF CleanBegin
<1>3. cur[c] # NoTask
    BY <1>1 DEF Slots, NoTask
<1>4. InSpace(c, s)'
    BY <1>1, <1>2, Zenon DEF InSpace, OwnPcs, CleanPcs
<1>5. Spaces'
    <2>1. \A q \in Slots : q # s => began'[q] = began[q]
        BY <1>2, Zenon
    <2> QED
        BY <1>1, <1>2, <1>4, <2>1, SpacesKept, Zenon DEF SpaceInv
<1>6. Begun'
    BY <1>1, <1>2, Zenon DEF SpaceInv, Begun
<1>7. ASSUME ~resurrected[s], tpc[s] = "kill"
      PROVE  savedCr3'[s] = userData[s]
    <2>1. cr3[c] = userData[s]
        BY <1>1, <1>3, <1>7, Zenon DEF SpaceInv, Spaces, InSpace
    <2>2. held[s] # userData[s]
        BY <1>7, Zenon DEF Owned, InHand, HandPcs, HandApart
    <2> QED
        BY <1>2, <1>7, <2>1, <2>2, Zenon
<1>8. Remembered'
    <2> SUFFICES ASSUME NEW q \in Slots, q \in InUse, ~resurrected[q], tpc[q] = "kill",
                        began'[q]
                 PROVE  savedCr3'[q] = userData[q]
        BY <1>1, Zenon DEF Remembered, InUse
    <2> QED
        BY <1>2, <1>7, Zenon DEF SpaceInv, Remembered
<1> QED
    BY <1>5, <1>6, <1>8, Zenon DEF SpaceInv

(* The rest of cleanup_process_context loads the caller's page tables.     *)
LEMMA SpaceEnd ==
    ASSUME ProcessTypeOK, DispatchInv, SpaceInv, NEW c \in Cpus, NEW s \in Slots,
           CleanEnd(c, s)
    PROVE  SpaceInv'
<1>0. /\ began \in [Slots -> BOOLEAN] /\ savedCr3 \in [Slots -> Ctx]
      /\ cr3 \in [Cpus -> Ctx] /\ tpc \in [Slots -> TaskPcs]
    BY Zenon DEF ProcessTypeOK, TypeOK
<1>1. /\ pc[c] = "run" /\ cur[c] = s /\ tpc[s] \in CleanPcs /\ began[s]
      /\ UNCHANGED <<pc, cur, userData, resurrected, state, taskCount, currentCpu>>
    BY Zenon DEF CleanEnd, Executes, CleanPcs, table, cpuState, history
<1>2. /\ \A q \in Slots : began'[q] = IF q = s THEN FALSE ELSE began[q]
      /\ \A q \in Slots : q # s => savedCr3'[q] = savedCr3[q]
      /\ \A q \in Slots : tpc'[q] =
            IF q = s THEN IF tpc[s] = "leave" THEN "left" ELSE "code" ELSE tpc[q]
    BY <1>0, Zenon DEF CleanEnd
<1>3. /\ \A d \in Cpus : d # c => cr3'[d] = cr3[d]
      /\ cr3'[c] = CASE tpc[s] = "exec" -> userData[s]
                     [] tpc[s] = "kill" /\ savedCr3[s] # NoCtx -> savedCr3[s]
                     [] OTHER -> cr3[c]
    BY <1>0, Zenon DEF CleanEnd
<1>4. cur[c] # NoTask
    BY <1>1 DEF Slots, NoTask
<1>5. ASSUME ~resurrected[s], tpc[s] # "leave"
      PROVE  cr3'[c] = userData[s]
    <2>1. CASE tpc[s] = "exec"
        BY <1>3, <2>1, Zenon
    <2>2. CASE tpc[s] = "kill"
        <3>1. Busy(s) /\ InSpace(c, s)
            BY <1>1, <1>4, <1>5, Zenon DEF SpaceInv, Spaces, Busy
        <3>2. savedCr3[s] = userData[s]
            BY <1>1, <1>5, <2>2, <3>1, BusyInUse, Zenon DEF SpaceInv, Remembered
        <3>3. cr3[c] = NoCtx \/ cr3[c] = userData[s]
            BY <1>1, <2>2, <3>1, Zenon DEF InSpace
        <3>4. CASE savedCr3[s] = NoCtx
            BY <1>3, <2>2, <3>2, <3>3, <3>4, SMTT(30)
        <3>5. CASE savedCr3[s] # NoCtx
            BY <1>3, <2>2, <3>2, <3>5, Zenon
        <3> QED
            BY <3>4, <3>5, Zenon
    <2> QED
        BY <1>1, <1>5, <2>1, <2>2, Zenon DEF CleanPcs
<1>6. ~resurrected'[s] => InSpace(c, s)'
    BY <1>1, <1>2, <1>5, Zenon DEF InSpace, OwnPcs
<1>7. Spaces'
    <2>1. \A q \in Slots : q # s => began'[q] = began[q] /\ tpc'[q] = tpc[q]
        BY <1>2, Zenon
    <2> QED
        BY <1>1, <1>3, <1>6, <2>1, SpacesKept, Zenon DEF SpaceInv
<1>8. Begun'
    BY <1>2, Zenon DEF SpaceInv, Begun
<1>9. Remembered'
    <2> SUFFICES ASSUME NEW q \in Slots, q \in InUse, ~resurrected[q], tpc'[q] = "kill",
                        began'[q]
                 PROVE  savedCr3'[q] = userData[q]
        BY <1>1, Zenon DEF Remembered, InUse
    <2> QED
        BY <1>2, Zenon DEF SpaceInv, Remembered
<1> QED
    BY <1>7, <1>8, <1>9, Zenon DEF SpaceInv

(* preempt takes a CPU off its task before it touches the task's context.  *)
LEMMA SpacePreempt ==
    ASSUME DispatchInv, SpaceInv, NEW c \in Cpus, NEW timer \in BOOLEAN, Preempt(c, timer),
           UNCHANGED memory
    PROVE  SpaceInv'
<1>0. TypeOK
    BY Zenon DEF DispatchInv
<1>1. /\ UNCHANGED <<tpc, resurrected, taskCount, cr3, began, savedCr3>>
      /\ \A d \in Cpus \ {c} : cur'[d] = cur[d] /\ pc'[d] = pc[d]
    <2>1. \A d \in Cpus \ {c} : cur'[d] = cur[d] /\ pc'[d] = pc[d]
        BY <1>0, Zenon DEF Preempt, PreemptTo, PreemptIdle, PreemptKeep, TypeOK
    <2> QED
        BY <2>1, Zenon DEF Preempt, memory
<1>2. \/ pc'[c] = "switch"
      \/ UNCHANGED <<userData, cur, pc>>
    BY <1>0, Zenon DEF Preempt, PreemptTo, PreemptIdle, PreemptKeep, TypeOK
<1>3. \A q \in Slots : userData'[q] = userData[q] \/ (q = cur[c] /\ state[q] = "terminated")
    <2>1. SaveCurrent(c) \/ UNCHANGED userData
        BY Zenon DEF Preempt, PreemptTo, PreemptIdle, PreemptKeep
    <2> QED
        BY <2>1, Zenon DEF SaveCurrent, TakesCtx
<1>4. Spaces'
    <2> SUFFICES ASSUME NEW d \in Cpus, pc'[d] = "run", cur'[d] # NoTask,
                        ~resurrected[cur'[d]]
                 PROVE  InSpace(d, cur[d])'
        BY <1>1, Zenon DEF Spaces
    <2>1. pc[d] = "run" /\ cur'[d] = cur[d]
        BY <1>1, <1>2, Zenon
    <2>2. InSpace(d, cur[d])
        BY <2>1, Zenon DEF SpaceInv, Spaces
    <2>3. userData'[cur[d]] = userData[cur[d]]
        <3>1. CASE d = c
            BY <1>2, <3>1, Zenon
        <3>2. CASE d # c
            <4>1. cur[d] # NoTask /\ ~resurrected[cur[d]]
                BY <2>1, Zenon
            <4>2. cur[d] \in Slots /\ cur[d] # cur[c]
                BY <3>2, <4>1, OthersKept, Zenon
            <4> QED
                BY <1>3, <4>2, Zenon
        <3> QED
            BY <3>1, <3>2, Zenon
    <2> QED
        BY <1>1, <2>1, <2>2, <2>3, Zenon DEF InSpace
<1>5. Begun'
    BY <1>1, Zenon DEF SpaceInv, Begun
<1>6. Remembered'
    <2> SUFFICES ASSUME NEW q \in Slots, q \in InUse', ~resurrected[q], tpc[q] = "kill",
                        began[q]
                 PROVE  savedCr3[q] = userData'[q]
        BY <1>1, Zenon DEF Remembered, InUse
    <2>1. q \in InUse
        BY <1>1, PreemptRecord, Zenon DEF InUse
    <2>2. ~(q = cur[c] /\ state[q] = "terminated")
        BY <1>1, PreemptRecord, Zenon DEF InUse
    <2> QED
        BY <1>3, <2>1, <2>2, Zenon DEF SpaceInv, Remembered
<1> QED
    BY <1>4, <1>5, <1>6, Zenon DEF SpaceInv

(* preempt's tail loads the page tables of the next task.                  *)
LEMMA SpaceSwitch ==
    ASSUME ProcessTypeOK, SpaceInv, NEW c \in Cpus, Switch(c)
    PROVE  SpaceInv'
<1>1. /\ UNCHANGED <<cur, userData, tpc, resurrected, began, savedCr3, taskCount, state,
                     currentCpu>>
      /\ \A d \in Cpus \ {c} : cr3'[d] = cr3[d] /\ pc'[d] = pc[d]
      /\ cur[c] # NoTask => cr3'[c] = userData[cur[c]]
    BY Zenon DEF Switch, SwitchDone, table, taskCode, history, ProcessTypeOK, TypeOK
<1>2. Spaces'
    <2> SUFFICES ASSUME NEW d \in Cpus, pc'[d] = "run", cur[d] # NoTask,
                        ~resurrected[cur[d]]
                 PROVE  InSpace(d, cur[d])'
        BY <1>1, Zenon DEF Spaces
    <2>1. CASE d = c
        BY <1>1, <2>1, Zenon DEF InSpace
    <2>2. CASE d # c
        <3>1. InSpace(d, cur[d]) /\ cr3'[d] = cr3[d]
            BY <1>1, <2>2, Zenon DEF SpaceInv, Spaces
        <3> QED
            BY <1>1, <3>1, Zenon DEF InSpace
    <2> QED
        BY <2>1, <2>2, Zenon
<1>3. Begun' /\ Remembered'
    BY <1>1, Zenon DEF SpaceInv, Begun, Remembered, InUse
<1> QED
    BY <1>2, <1>3, Zenon DEF SpaceInv

(* Boot: every task is still at its entry, and no CPU executes one.        *)
LEMMA SpaceBoot ==
    ASSUME ProcessTypeOK, Booting, SpaceInv, ~active,
           UNCHANGED <<tpc, began, savedCr3, resurrected, userData>>,
           UNCHANGED cur \/ \E n \in Slots : /\ cur' = [cur EXCEPT ![Bsp] = n]
                                              /\ cr3' = [cr3 EXCEPT ![Bsp] = userData[n]]
    PROVE  SpaceInv'
<1>1. \A q \in Slots : tpc[q] = "code"
    BY Zenon DEF Booting
<1>2. Begun'
    BY Zenon DEF SpaceInv, Begun
<1>3. Remembered'
    BY <1>1, Zenon DEF Remembered, InUse
<1>4. Spaces'
    <2>1. CASE UNCHANGED cur
        BY <2>1, Zenon DEF Booting, Spaces
    <2>2. ASSUME NEW n \in Slots, cur' = [cur EXCEPT ![Bsp] = n],
                 cr3' = [cr3 EXCEPT ![Bsp] = userData[n]]
          PROVE  Spaces'
        <3>1. /\ \A c \in Cpus : c # Bsp => cur'[c] = NoTask
              /\ cur'[Bsp] = n /\ cr3'[Bsp] = userData[n]
            BY <2>2, CpuAssumption, SMTT(30) DEF Booting, ProcessTypeOK, TypeOK
        <3>2. InSpace(Bsp, cur[Bsp])'
            BY <1>1, <3>1, Zenon DEF InSpace
        <3> QED
            BY <3>1, <3>2, Zenon DEF Spaces
    <2> QED
        BY <2>1, <2>2, Zenon
<1> QED
    BY <1>2, <1>3, <1>4, Zenon DEF SpaceInv

LEMMA SpaceBootCreate ==
    ASSUME ProcessTypeOK, Booting, SpaceInv, NEW x, BootCreate(x),
           UNCHANGED <<cr3, began, savedCr3>>
    PROVE  SpaceInv'
<1>1. PICK r \in Slots : CreateIn(r, x)
    BY Zenon DEF BootCreate
<1>2. ~active /\ UNCHANGED <<tpc, began, savedCr3, resurrected, cur>>
    BY <1>1, Zenon DEF BootCreate, CreateIn, cpuState, history
<1>3. \A q \in Slots : tpc[q] = "code"
    BY <1>2, Zenon DEF Booting
<1>4. Begun'
    BY <1>2, Zenon DEF SpaceInv, Begun
<1>5. Remembered'
    BY <1>2, <1>3, Zenon DEF Remembered, InUse
<1>6. Spaces'
    BY <1>2, Zenon DEF Booting, Spaces
<1> QED
    BY <1>4, <1>5, <1>6, Zenon DEF SpaceInv

(* The calls of the scheduler that take no context.                        *)
LEMMA SpaceCall ==
    ASSUME ProcessTypeOK, DispatchInv, SpaceInv, NEW c \in Cpus, NEW s \in Slots, Call(c, s)
    PROVE  SpaceInv'
<1>0. TypeOK /\ UNCHANGED <<cr3, began, savedCr3>>
    BY Zenon DEF Call, ProcessTypeOK
<1>1. ASSUME NEW n, NEW p, SleepFor(s, n, p), p \in {"sleep", "waitsleep"},
             tpc[s] \in {"code", "wait"}, pc[c] = "run", cur[c] = s
      PROVE  SpaceInv'
    <2>1. /\ UNCHANGED <<userData, pc, cur, taskCount, currentCpu>>
          /\ \A q \in Slots : tpc'[q] = IF q = s THEN p ELSE tpc[q]
          /\ \A q \in Slots : q # s => state'[q] = state[q] /\ resurrected'[q] = resurrected[q]
          /\ resurrected'[s] = (resurrected[s] \/ state[s] = "terminated")
        BY <1>0, <1>1, Zenon DEF SleepFor, TypeOK, cpuState
    <2>2. /\ tpc[s] \notin CleanPcs /\ tpc'[s] # "kill" /\ tpc[s] \in OwnPcs
        BY <1>1, <2>1, Zenon DEF CleanPcs, OwnPcs
    <2>3. /\ \A q \in Slots : resurrected[q] => resurrected'[q]
          /\ \A q \in Slots : \/ state'[q] = state[q] \/ state'[q] = "terminated"
                               \/ resurrected'[q] \/ state[q] # "terminated"
        BY <2>1, Zenon
    <2>4. \A q \in Slots : q # s => userData'[q] = userData[q] /\ tpc'[q] = tpc[q]
        BY <2>1, Zenon
    <2> QED
        BY <1>0, <1>1, <2>1, <2>2, <2>3, <2>4, SpaceOwn, Zenon
<1>2. CASE Sleep(c, s) \/ WaitAgain(c, s)
    BY <1>1, <1>2, Zenon DEF Sleep, WaitAgain, Executes
<1>3. CASE Yield(c, s)
    <2>1. UNCHANGED <<pc, cur, taskCount, currentCpu, userData, tpc, state, resurrected>>
        BY <1>3, Zenon DEF Yield, table, history
    <2>2. pc[c] = "run" /\ cur[c] = s
        BY <1>3, Zenon DEF Yield, Executes
    <2> QED
        BY <1>0, <2>1, <2>2, SpaceOwn, Zenon
<1>4. CASE SleepDone(c, s) \/ WaitForTask(c, s) \/ WaitDone(c, s)
    <2>1. UNCHANGED <<pc, cur, taskCount, currentCpu, userData, state, resurrected>>
        BY <1>4, Zenon DEF SleepDone, WaitForTask, WaitDone, table, cpuState, history
    <2>2. PICK p \in {"code", "wait"} : tpc' = [tpc EXCEPT ![s] = p]
        BY <1>4, Zenon DEF SleepDone, WaitForTask, WaitDone
    <2>3. tpc[s] \in {"code", "sleep", "wait", "waitsleep"} /\ pc[c] = "run" /\ cur[c] = s
        BY <1>4, Zenon DEF SleepDone, WaitForTask, WaitDone, Executes
    <2>4. \A q \in Slots : tpc'[q] = IF q = s THEN p ELSE tpc[q]
        BY <1>0, <2>2, Zenon DEF TypeOK
    <2>5. tpc[s] \notin CleanPcs /\ tpc'[s] # "kill" /\ tpc[s] \in OwnPcs
        BY <2>2, <2>3, <2>4, Zenon DEF CleanPcs, OwnPcs
    <2>6. \A q \in Slots : q # s => userData'[q] = userData[q] /\ tpc'[q] = tpc[q]
        BY <2>1, <2>4, Zenon
    <2> QED
        BY <1>0, <2>1, <2>3, <2>5, <2>6, SpaceOwn, Zenon
<1>5. ASSUME NEW v \in Slots, TerminateTask(c, s, v)
      PROVE  SpaceInv'
    <2>1. \A q \in Slots : state'[q] = IF q = v THEN "terminated" ELSE state[q]
        BY <1>0, <1>5, Zenon DEF TerminateTask, TypeOK
    <2>2. /\ UNCHANGED <<pc, cur, taskCount, currentCpu, resurrected>>
          /\ pc[c] = "run" /\ cur[c] = s /\ tpc[s] = "code"
        BY <1>5, Zenon DEF TerminateTask, cpuState, history, Executes
    <2>3. CASE currentCpu[v] = NoCpu /\ userData[v] # NoCtx
        <3>1. userData' = [userData EXCEPT ![v] = NoCtx] /\ tpc' = [tpc EXCEPT ![s] = "kill"]
            BY <1>5, <2>3, Zenon DEF TerminateTask
        <3>2. /\ \A q \in Slots : userData'[q] = IF q = v THEN NoCtx ELSE userData[q]
              /\ \A q \in Slots : tpc'[q] = IF q = s THEN "kill" ELSE tpc[q]
            BY <1>0, <3>1, Zenon DEF TypeOK
        <3> QED
            BY <1>0, <2>1, <2>2, <2>3, <3>2, SpaceTaken, Zenon
    <2>4. CASE ~(currentCpu[v] = NoCpu /\ userData[v] # NoCtx)
        <3>1. UNCHANGED <<userData, tpc>>
            BY <1>5, <2>4, Zenon DEF TerminateTask
        <3>2. \A q \in Slots : state'[q] = state[q] \/ state'[q] = "terminated"
            BY <2>1, Zenon
        <3> QED
            BY <1>0, <2>2, <3>1, <3>2, SpaceOwn, Zenon
    <2> QED
        BY <2>3, <2>4, Zenon
<1> QED
    BY <1>2, <1>3, <1>4, <1>5, Zenon DEF Call, TaskStep

(* Loading, leaving, replacing, exiting and faulting: the task goes where  *)
(* it does not rely on its page tables, or still has them.                 *)
LEMMA SpaceMove ==
    ASSUME ProcessTypeOK, DispatchInv, SpaceInv, NEW c \in Cpus, NEW s \in Slots, NEW p,
           pc[c] = "run", cur[c] = s, tpc[s] \notin CleanPcs, p # "kill",
           tpc' = [tpc EXCEPT ![s] = p],
           UNCHANGED <<pc, cur, began, savedCr3, taskCount, currentCpu, resurrected>>,
           \A q \in Slots : q # s => userData'[q] = userData[q],
           \A q \in Slots : state'[q] = state[q] \/ state'[q] = "terminated",
           \A d \in Cpus : d # c => cr3'[d] = cr3[d],
           p \in OwnPcs => tpc[s] \in OwnPcs /\ UNCHANGED <<userData, cr3>>
    PROVE  SpaceInv'
<1>1. \A q \in Slots : tpc'[q] = IF q = s THEN p ELSE tpc[q]
    BY Zenon DEF ProcessTypeOK, TypeOK
<1>2. \A q \in Slots : q # s => userData'[q] = userData[q] /\ tpc'[q] = tpc[q]
    BY <1>1, Zenon
<1>3. /\ tpc'[s] # "kill"
      /\ tpc'[s] \in OwnPcs => /\ tpc[s] \in OwnPcs
                               /\ userData'[s] = userData[s]
                               /\ cr3'[c] = cr3[c]
    <2>1. tpc'[s] = p
        BY <1>1, Zenon
    <2> QED
        BY <2>1, Zenon
<1> QED
    BY <1>2, <1>3, SpaceOwn, Zenon

LEMMA SpaceTask ==
    ASSUME ProcessTypeOK, DispatchInv, SpaceInv, NEW c \in Cpus, NEW s \in Slots,
           \/ \E x \in Ctxs : Load(c, s, x, "run", "load") \/ Load(c, s, x, "exec", "loadx")
           \/ RunFails(c, s) \/ ExecFails(c, s)
           \/ ExecReplace(c, s) \/ Leave(c, s) \/ Exit(c, s) \/ Fault(c, s) \/ FaultEnd(c, s)
    PROVE  SpaceInv'
<1>0. TypeOK /\ cr3 \in [Cpus -> Ctx]
    BY Zenon DEF ProcessTypeOK
<1> DEFINE Same == UNCHANGED <<pc, cur, began, savedCr3, taskCount, currentCpu, resurrected>>
<1>1. ASSUME NEW x, NEW op, NEW p \in {"load", "loadx"}, Load(c, s, x, op, p)
      PROVE  SpaceInv'
    <2>1. /\ pc[c] = "run" /\ cur[c] = s /\ tpc[s] = "code"
          /\ tpc' = [tpc EXCEPT ![s] = p]
          /\ Same /\ UNCHANGED <<userData, state, cr3>>
        BY <1>1, Zenon DEF Load, Executes, table, cpuState, history
    <2>2. tpc[s] \notin CleanPcs /\ p # "kill" /\ tpc[s] \in OwnPcs
        BY <2>1, Zenon DEF CleanPcs, OwnPcs
    <2> QED
        BY <2>1, <2>2, SpaceMove, Zenon
<1>2. CASE RunFails(c, s) \/ ExecFails(c, s)
    <2>1. /\ pc[c] = "run" /\ cur[c] = s /\ tpc[s] \in {"load", "loadx"}
          /\ tpc' = [tpc EXCEPT ![s] = "code"]
          /\ Same /\ UNCHANGED <<userData, state, cr3>>
        BY <1>2, Zenon DEF RunFails, ExecFails, Discard, Executes, table, cpuState, history
    <2>2. tpc[s] \notin CleanPcs /\ tpc[s] \in OwnPcs
        BY <2>1, Zenon DEF CleanPcs, OwnPcs
    <2> QED
        BY <2>1, <2>2, SpaceMove, Zenon
<1>3. CASE ExecReplace(c, s)
    <2>1. /\ pc[c] = "run" /\ cur[c] = s /\ tpc[s] = "loadx"
          /\ tpc' = [tpc EXCEPT ![s] = "exec"]
          /\ userData' = [userData EXCEPT ![s] = held[s]]
          /\ Same /\ UNCHANGED <<state, cr3>>
        BY <1>3, Zenon DEF ExecReplace, ReplaceContext, Executes, cpuState, history, memory
    <2>2. tpc[s] \notin CleanPcs /\ "exec" \notin OwnPcs
        BY <2>1, Zenon DEF CleanPcs, OwnPcs
    <2>3. \A q \in Slots : q # s => userData'[q] = userData[q]
        BY <1>0, <2>1, Zenon DEF TypeOK
    <2> QED
        BY <2>1, <2>2, <2>3, SpaceMove, Zenon
<1>4. CASE Leave(c, s)
    <2>1. /\ pc[c] = "run" /\ cur[c] = s /\ tpc[s] = "code"
          /\ tpc' = [tpc EXCEPT ![s] = "leave"]
          /\ Same /\ UNCHANGED <<userData, state, cr3>>
        BY <1>4, Zenon DEF Leave, Executes, table, cpuState, history, memory
    <2>2. tpc[s] \notin CleanPcs /\ "leave" \notin OwnPcs
        BY <2>1, Zenon DEF CleanPcs, OwnPcs
    <2> QED
        BY <2>1, <2>2, SpaceMove, Zenon
<1>5. ASSUME NEW p \in {"exit", "fault"}, pc[c] = "run", cur[c] = s,
             tpc[s] \in {"left", "code", "fault"}, tpc' = [tpc EXCEPT ![s] = p],
             state' = [state EXCEPT ![s] = "terminated"],
             userData' = [userData EXCEPT ![s] = NoCtx],
             Same, cr3' = cr3 \/ cr3' = [cr3 EXCEPT ![c] = NoCtx]
      PROVE  SpaceInv'
    <2>1. tpc[s] \notin CleanPcs /\ p \notin OwnPcs /\ p # "kill"
        BY <1>5, Zenon DEF CleanPcs, OwnPcs
    <2>2. \A q \in Slots : q # s => userData'[q] = userData[q]
        BY <1>0, <1>5, Zenon DEF TypeOK
    <2>3. \A q \in Slots : state'[q] = state[q] \/ state'[q] = "terminated"
        BY <1>0, <1>5, Zenon DEF TypeOK
    <2>4. \A d \in Cpus : d # c => cr3'[d] = cr3[d]
        BY <1>0, <1>5, Zenon
    <2> QED
        BY <1>5, <2>1, <2>2, <2>3, <2>4, SpaceMove, Zenon
<1>6. CASE Exit(c, s) \/ FaultEnd(c, s)
    BY <1>5, <1>6, Zenon DEF Exit, FaultEnd, ExitTask, Executes, cpuState, history, memory
<1>7. CASE Fault(c, s)
    BY <1>5, <1>7, Zenon DEF Fault, DetachCurrent, Executes, cpuState, history, memory
<1> QED
    BY <1>1, <1>2, <1>3, <1>4, <1>6, <1>7, Zenon

LEMMA SpaceStep ==
    ASSUME OwnInv, SpaceInv, [ProcessNext]_allVars
    PROVE  SpaceInv'
<1>0. ProcessTypeOK /\ DispatchInv /\ Booting /\ Owned
    BY Zenon DEF OwnInv
<1>1. CASE BootTask \/ \E x \in Ctxs : BootProcess(x)
    BY <1>0, <1>1, SpaceBootCreate, Zenon DEF BootTask, BootProcess, memory
<1>2. CASE StartScheduler
    <2>1. PICK n \in Slots : cur' = [cur EXCEPT ![Bsp] = n]
        BY <1>2, Zenon DEF StartScheduler, Start
    <2>2. cur'[Bsp] = n
        BY <1>0, <2>1, CpuAssumption, Zenon DEF ProcessTypeOK, TypeOK
    <2>3. /\ ~active /\ UNCHANGED <<tpc, began, savedCr3, resurrected, userData>>
          /\ cr3' = [cr3 EXCEPT ![Bsp] = userData[n]]
        BY <1>2, <2>2, Zenon DEF StartScheduler, Start, taskCode, history
    <2> QED
        BY <1>0, <2>1, <2>3, SpaceBoot, Zenon
<1>3. ASSUME NEW c \in Cpus, (Timer(c) \/ Int32(c)) /\ UNCHANGED memory
      PROVE  SpaceInv'
    BY <1>0, <1>3, SpacePreempt, Zenon DEF Timer, Int32
<1>4. CASE UNCHANGED allVars
    <2>1. UNCHANGED <<pc, cur, cr3, resurrected, userData, tpc, began, savedCr3, taskCount,
                      state, currentCpu>>
        BY <1>4, Zenon DEF allVars, vars, memory, table, cpuState, taskCode, history
    <2> QED
        BY <2>1, Zenon DEF SpaceInv, Spaces, InSpace, Remembered, InUse, Begun
<1> QED
    BY <1>0, <1>1, <1>2, <1>3, <1>4, SpaceSwitch, SpaceCall, SpaceCreated, SpaceBegin,
       SpaceEnd, SpaceTask, Zenon
    DEF ProcessNext

(* Process code always executes on its own page tables, of a context that  *)
(* is in memory, unless sleep() overwrote its termination: whatever the    *)
(* other CPUs switch, clean up and exec, for any number of CPUs, slots and *)
(* contexts (scheduler.cpp:699-705, process.cpp:394-406, 458-460).         *)
THEOREM OwnSpace == ProcessSpec => []CodeRunsInOwnSpace
<1>1. ProcessInit => SpaceInv
    <2> SUFFICES ASSUME ProcessInit PROVE SpaceInv
        OBVIOUS
    <2>1. Init
        BY Zenon DEF ProcessInit
    <2>2. \A c \in Cpus : cur[c] = NoTask
        BY <2>1, Zenon DEF Init
    <2>3. \A s \in Slots : ~began[s]
        BY Zenon DEF ProcessInit
    <2> QED
        BY <2>2, <2>3, Zenon DEF SpaceInv, Spaces, Remembered, InUse, Begun
<1>2. OwnInv /\ SpaceInv => CodeRunsInOwnSpace
    <2> SUFFICES ASSUME OwnInv, SpaceInv, NEW c \in Cpus, NEW s \in Slots,
                        Executes(c, s, "code"), ~resurrected[s]
                 PROVE  /\ cr3[c] = userData[s]
                        /\ userData[s] # NoCtx => ctx[userData[s]] = "live"
        BY Zenon DEF CodeRunsInOwnSpace
    <2>1. pc[c] = "run" /\ cur[c] = s /\ tpc[s] = "code" /\ cur[c] # NoTask
        BY DEF Executes, Slots, NoTask
    <2>2. InSpace(c, s)
        BY <2>1, Zenon DEF SpaceInv, Spaces
    <2>3. cr3[c] = userData[s]
        BY <2>1, <2>2, Zenon DEF InSpace, OwnPcs
    <2> QED
        BY <2>1, <2>3, Zenon DEF OwnInv, Owned, TaskLive
<1>3. OwnInv /\ SpaceInv /\ [ProcessNext]_allVars => OwnInv' /\ SpaceInv'
    BY OwnStep, SpaceStep, Zenon
<1> QED
    BY <1>1, <1>2, <1>3, OwnInit, PTL DEF ProcessSpec

-----------------------------------------------------------------------------
(* Owners, as long as nobody called terminate_task.                        *)

NoReap == \A c \in Cpus : reap[c] = NoCtx

(* Only exit_task and the exception handler terminate, and both have       *)
(* detached the context by then.                                           *)
EndedAtExit == \A s \in Slots : state[s] = "terminated" => tpc[s] \in {"exit", "fault"}
EndedBare == \A s \in Slots : tpc[s] \in {"exit", "fault"} => userData[s] = NoCtx

(* The exception handler keeps its CPU: interrupts are off.                *)
Faulting == \A s \in Slots : tpc[s] = "fault" =>
    \E c \in Cpus : cur[c] = s /\ pc[c] = "run" /\ ~pending[s]

(* A context in hand is in one hand, and still in memory.                  *)
FreshEmpty == \A s \in Slots : ~(s < taskCount) => held[s] = NoCtx
OneHand == \A s, r \in Slots : held[s] # NoCtx /\ held[s] = held[r] => s = r
HandsLive == \A s \in Slots : held[s] # NoCtx => ctx[held[s]] = "live"

(* A leaving process cleans up its own context.                            *)
LeavesOwn == \A s \in Slots : tpc[s] = "leave" => held[s] = userData[s]
LeftFreed == \A s \in Slots :
    tpc[s] = "left" /\ userData[s] # NoCtx => ctx[userData[s]] # "live"

FreedOnce == \A x \in Ctxs : ctx[x] # "double"
Referenced == \A x \in Ctxs : ctx[x] = "live" =>
    \/ \E s \in Slots : s < taskCount /\ userData[s] = x
    \/ \E s \in Slots : held[s] = x

Tidy ==
    /\ NobodyBack /\ NoReap /\ EndedAtExit /\ EndedBare /\ Faulting
    /\ FreshEmpty /\ OneHand /\ HandsLive /\ LeavesOwn /\ LeftFreed
    /\ FreedOnce /\ Referenced

LEMMA FaultingKept ==
    ASSUME Faulting, UNCHANGED <<cur, pc>>,
           \A s \in Slots : tpc'[s] = "fault" => tpc[s] = "fault" /\ (pending'[s] => pending[s])
    PROVE  Faulting'
BY Zenon DEF Faulting

(* What an executing task is, while nobody has been terminated.            *)
LEMMA ExecutingTask ==
    ASSUME DispatchInv, Tidy, NEW c \in Cpus, NEW s \in Slots, NEW p, Executes(c, s, p)
    PROVE  /\ pc[c] = "run" /\ cur[c] = s /\ tpc[s] = p /\ ~pending[s]
           /\ s < taskCount
           /\ currentCpu[s] # NoCpu
           /\ p \notin {"exit", "fault"} => state[s] # "terminated"
<1>1. pc[c] = "run" /\ cur[c] = s /\ tpc[s] = p /\ ~pending[s]
    BY Zenon DEF Executes
<1>2. Busy(s)
    BY <1>1, Zenon DEF Busy, Tidy, NobodyBack
<1> QED
    BY <1>1, <1>2, BusyInUse, Zenon DEF Tidy, EndedAtExit

(* A step that moves no reference, frees nothing and terminates nobody.    *)
LEMMA TidyKept ==
    ASSUME Tidy, NobodyBack', NoReap', Faulting',
           UNCHANGED <<userData, held, ctx, taskCount>>,
           \A s \in Slots : \/ tpc'[s] = tpc[s]
                            \/ /\ tpc[s] \in {"code", "sleep", "wait", "waitsleep"}
                               /\ tpc'[s] \in {"code", "sleep", "wait", "waitsleep"},
           \A s \in Slots : state'[s] = "terminated" => state[s] = "terminated"
    PROVE  Tidy'
<1>1. EndedAtExit' /\ EndedBare'
    BY Zenon DEF Tidy, EndedAtExit, EndedBare
<1>2. FreshEmpty' /\ OneHand' /\ HandsLive'
    BY Zenon DEF Tidy, FreshEmpty, OneHand, HandsLive
<1>3. LeavesOwn' /\ LeftFreed'
    BY Zenon DEF Tidy, LeavesOwn, LeftFreed
<1>4. FreedOnce' /\ Referenced'
    BY Zenon DEF Tidy, FreedOnce, Referenced
<1> QED
    BY <1>1, <1>2, <1>3, <1>4, Zenon DEF Tidy

(* A new task, with a context nobody else has; the slot's last user has    *)
(* let go of its context and has nothing in hand.                          *)
LEMMA TidyCreated ==
    ASSUME Tidy, Owned, NEW r \in Slots, NEW s \in Slots, NEW x \in Ctx,
           taskCount \in Nat, taskCount' \in Nat,
           \A q \in Slots : userData'[q] = IF q = r THEN x ELSE userData[q],
           \A q \in Slots : held'[q] = IF q = r \/ q = s THEN NoCtx ELSE held[q],
           \A q \in Slots : tpc'[q] = IF q = r \/ q = s THEN "code" ELSE tpc[q],
           \A q \in Slots : state'[q] = IF q = r THEN "ready" ELSE state[q],
           \A q \in Slots : pending'[q] => pending[q],
           UNCHANGED <<reap, resurrected, cur, pc>>,
           r < taskCount', taskCount <= taskCount',
           r < taskCount => userData[r] = NoCtx,
           held[r] = NoCtx \/ r = s,
           held[s] # NoCtx => x = held[s],
           tpc[s] \notin {"exit", "fault", "leave", "left"},
           \A y \in Ctxs : y # x => ctx'[y] = ctx[y],
           x # NoCtx => ctx'[x] = "live",
           \A q \in Slots : userData[q] \in Ctx /\ held[q] \in Ctx,
           x # NoCtx => /\ \A q \in Slots : userData[q] # x
                        /\ \A q \in Slots : held[q] = x => q = s
    PROVE  Tidy'
<1>1. NobodyBack' /\ NoReap'
    BY Zenon DEF Tidy, NobodyBack, NoReap
<1>2. EndedAtExit'
    BY SMTT(30) DEF Tidy, EndedAtExit
<1>3. EndedBare'
    BY SMTT(30) DEF Tidy, EndedBare
<1>4. Faulting'
    BY FaultingKept, Zenon DEF Tidy
<1>5. FreshEmpty'
    <2>1. \A q \in Slots : q < taskCount => q < taskCount'
        BY DEF Slots
    <2> QED
        BY <2>1, Zenon DEF Tidy, FreshEmpty
<1>6. OneHand' /\ LeavesOwn'
    BY SMTT(30) DEF Tidy, OneHand, LeavesOwn
<1>7. HandsLive'
    BY SMTT(30) DEF Tidy, HandsLive, Ctx
<1>8. LeftFreed'
    <2> SUFFICES ASSUME NEW q \in Slots, tpc'[q] = "left", userData'[q] # NoCtx
                 PROVE  ctx'[userData'[q]] # "live"
        BY Zenon DEF LeftFreed
    <2>1. q # r /\ userData'[q] = userData[q] /\ tpc[q] = "left"
        BY Zenon DEF Tidy
    <2>2. userData[q] \in Ctxs /\ userData[q] # x
        BY <2>1, Zenon DEF Ctx
    <2> QED
        BY <2>1, <2>2, Zenon DEF Tidy, LeftFreed
<1>9. FreedOnce'
    BY CtxAssumption, SMTT(30) DEF Tidy, FreedOnce
<1>10. Referenced'
    <2> SUFFICES ASSUME NEW y \in Ctxs, ctx'[y] = "live"
                 PROVE  \/ \E q \in Slots : q < taskCount' /\ userData'[q] = y
                        \/ \E q \in Slots : held'[q] = y
        BY Zenon DEF Referenced
    <2>1. CASE y = x
        BY <2>1, Zenon
    <2>2. CASE y # x
        <3>1. y # NoCtx /\ ctx[y] = "live"
            BY <2>2, CtxAssumption, Zenon
        <3>2. CASE \E q \in Slots : q < taskCount /\ userData[q] = y
            <4>1. PICK q \in Slots : q < taskCount /\ userData[q] = y
                BY <3>2, Zenon
            <4>2. q # r /\ q < taskCount'
                BY <3>1, <4>1, SMTT(30) DEF Slots
            <4> QED
                BY <4>1, <4>2, Zenon
        <3>3. CASE \E q \in Slots : held[q] = y
            <4>1. PICK q \in Slots : held[q] = y
                BY <3>3, Zenon
            <4>2. q # r /\ q # s
                BY <2>2, <3>1, <4>1, Zenon
            <4> QED
                BY <4>1, <4>2, Zenon
        <3> QED
            BY <3>1, <3>2, <3>3, Zenon DEF Tidy, Referenced
    <2> QED
        BY <2>1, <2>2, Zenon
<1> QED
    BY <1>1, <1>2, <1>3, <1>4, <1>5, <1>6, <1>7, <1>8, <1>9, <1>10, Zenon DEF Tidy

(* A context freshly loaded into the hand of s.                            *)
LEMMA TidyLoaded ==
    ASSUME ProcessTypeOK, DispatchInv, Owned, Tidy,
           NEW c \in Cpus, NEW s \in Slots, NEW x \in Ctxs, NEW op,
           NEW p \in {"load", "loadx"}, Load(c, s, x, op, p)
    PROVE  Tidy'
<1>0. /\ \A q \in Slots : held'[q] = IF q = s THEN x ELSE held[q]
      /\ \A q \in Slots : tpc'[q] = IF q = s THEN p ELSE tpc[q]
      /\ \A y \in Ctxs : ctx'[y] = IF y = x THEN "live" ELSE ctx[y]
    BY Zenon DEF Load, ProcessTypeOK, TypeOK
<1>1. /\ UNCHANGED <<userData, reap, state, taskCount, resurrected, cur, pc, pending>>
      /\ ctx[x] = "none" /\ x # NoCtx
    BY CtxAssumption, Zenon DEF Load, table, cpuState, history
<1>2. tpc[s] = "code" /\ s < taskCount /\ state[s] # "terminated"
    BY ExecutingTask DEF Load
<1>3. \A q \in Slots : userData[q] # x /\ held[q] # x
    BY <1>1, Zenon DEF Owned, TaskLive, HandLive
<1>4. \A q \in Slots : userData[q] \in Ctx /\ held[q] \in Ctx
    BY Zenon DEF ProcessTypeOK, TypeOK
<1>5. NobodyBack' /\ NoReap'
    BY <1>1, Zenon DEF Tidy, NobodyBack, NoReap
<1>6. EndedAtExit' /\ EndedBare'
    BY <1>0, <1>1, <1>2, Zenon DEF Tidy, EndedAtExit, EndedBare
<1>7. Faulting'
    BY <1>0, <1>1, FaultingKept, Zenon DEF Tidy
<1>8. FreshEmpty' /\ OneHand'
    <2>1. FreshEmpty'
        BY <1>0, <1>1, <1>2, Zenon DEF Tidy, FreshEmpty
    <2>2. \A q, r \in Slots : held[q] # NoCtx /\ held[q] = held[r] => q = r
        BY Zenon DEF Tidy, OneHand
    <2>3. ASSUME NEW q \in Slots, NEW r \in Slots, held'[q] # NoCtx, held'[q] = held'[r]
          PROVE  q = r
        <3>1. held'[q] = (IF q = s THEN x ELSE held[q]) /\ held'[r] = (IF r = s THEN x ELSE held[r])
            BY <1>0, Zenon
        <3>2. held[q] # x /\ held[r] # x /\ (held[q] # NoCtx /\ held[q] = held[r] => q = r)
            BY <1>3, <2>2, Zenon
        <3> QED
            BY <3>1, <3>2, <2>3, SMT
    <2> QED
        BY <2>1, <2>3, Zenon DEF OneHand
<1>9. HandsLive'
    BY <1>0, <1>3, <1>4, SMTT(30) DEF Tidy, HandsLive, Ctx
<1>10. LeavesOwn' /\ LeftFreed'
    BY <1>0, <1>1, <1>3, <1>4, SMTT(30) DEF Tidy, LeavesOwn, LeftFreed, Ctx
<1>11. FreedOnce'
    BY <1>0, Zenon DEF Tidy, FreedOnce
<1>12. Referenced'
    <2>0. held[s] = NoCtx
        BY <1>2, Zenon DEF Owned, InHand, HandPcs
    <2> SUFFICES ASSUME NEW y \in Ctxs, ctx'[y] = "live"
                 PROVE  \/ \E q \in Slots : q < taskCount' /\ userData'[q] = y
                        \/ \E q \in Slots : held'[q] = y
        BY Zenon DEF Referenced
    <2>1. CASE y = x
        BY <1>0, <2>1, Zenon
    <2>2. CASE y # x
        <3>1. y # NoCtx /\ ctx[y] = "live"
            BY <1>0, <2>2, CtxAssumption, Zenon
        <3>2. \A q \in Slots : held[q] = y => held'[q] = y
            BY <1>0, <2>0, <3>1, Zenon
        <3> QED
            BY <1>1, <3>1, <3>2, Zenon DEF Tidy, Referenced
    <2> QED
        BY <2>1, <2>2, Zenon
<1> QED
    BY <1>5, <1>6, <1>7, <1>8, <1>9, <1>10, <1>11, <1>12, Zenon DEF Tidy

(* Freeing the context in a task's hand.                                   *)
LEMMA TidyFreed ==
    ASSUME ProcessTypeOK, DispatchInv, Owned, Tidy,
           NEW c \in Cpus, NEW s \in Slots, NEW p0, NEW p,
           Executes(c, s, p0), p0 \in HandPcs,
           ctx' = Freed(held[s]),
           held' = [held EXCEPT ![s] = NoCtx],
           tpc' = [tpc EXCEPT ![s] = p],
           p \in {"code", "left", "exit"}, p = "left" => p0 = "leave",
           UNCHANGED <<reap, taskCount, resurrected, cur, pc, pending>>,
           \/ UNCHANGED <<userData, state>> /\ p # "exit" /\ p0 # "fault"
           \/ /\ userData' = [userData EXCEPT ![s] = NoCtx]
              /\ state' = [state EXCEPT ![s] = "terminated"]
              /\ p = "exit" /\ p0 = "fault"
    PROVE  Tidy'
<1>0. /\ tpc[s] = p0 /\ s < taskCount
      /\ p0 # "fault" => state[s] # "terminated"
    BY ExecutingTask, Zenon DEF HandPcs
<1>1. /\ held \in [Slots -> Ctx] /\ tpc \in [Slots -> TaskPcs]
      /\ userData \in [Slots -> Ctx] /\ state \in [Slots -> States]
      /\ ctx \in [Ctxs -> {"none", "live", "freed", "double"}]
    BY Zenon DEF ProcessTypeOK, TypeOK
<1>2. /\ \A q \in Slots : held'[q] = IF q = s THEN NoCtx ELSE held[q]
      /\ \A q \in Slots : tpc'[q] = IF q = s THEN p ELSE tpc[q]
    BY <1>1, Zenon
<1>3. userData' = userData
    <2>1. CASE p0 = "fault"
        <3>1. userData[s] = NoCtx
            BY <1>0, <2>1, Zenon DEF Tidy, EndedBare
        <3> QED
            BY <1>1, <3>1, Zenon
    <2> QED
        BY <2>1, Zenon
<1>4. \A q \in Slots : state'[q] = "terminated" => state[q] = "terminated" \/ (q = s /\ p = "exit")
    BY <1>1, Zenon
<1>5. held[s] # NoCtx /\ held[s] \in Ctxs /\ ctx[held[s]] = "live"
    BY <1>0, <1>1, Zenon DEF Owned, InHand, Tidy, HandsLive, Ctx
<1>6. \A y \in Ctxs : ctx'[y] = IF y = held[s] THEN "freed" ELSE ctx[y]
    BY <1>1, <1>5, Zenon DEF Freed
<1>7. NobodyBack' /\ NoReap'
    BY Zenon DEF Tidy, NobodyBack, NoReap
<1>8. EndedAtExit'
    BY <1>0, <1>2, <1>4, Zenon DEF Tidy, EndedAtExit
<1>9. EndedBare'
    BY <1>2, <1>3, <1>0, Zenon DEF Tidy, EndedBare
<1>10. Faulting'
    BY <1>2, FaultingKept, Zenon DEF Tidy
<1>11. FreshEmpty' /\ OneHand'
    <2>1. FreshEmpty'
        BY <1>2, Zenon DEF Tidy, FreshEmpty
    <2>2. OneHand'
        BY <1>2 DEF Tidy, OneHand
    <2> QED
        BY <2>1, <2>2, Zenon
<1>12. HandsLive'
    <2> SUFFICES ASSUME NEW q \in Slots, held'[q] # NoCtx
                 PROVE  ctx'[held'[q]] = "live"
        BY Zenon DEF HandsLive
    <2>1. q # s /\ held'[q] = held[q]
        BY <1>2, Zenon
    <2>2. held[q] \in Ctxs /\ held[q] # held[s]
        BY <1>1, <1>5, <2>1, Zenon DEF Tidy, OneHand, Ctx
    <2> QED
        BY <1>6, <2>1, <2>2, Zenon DEF Tidy, HandsLive
<1>13. LeavesOwn'
    BY <1>2, <1>3, SMTT(30) DEF Tidy, LeavesOwn
<1>14. LeftFreed'
    <2> SUFFICES ASSUME NEW q \in Slots, tpc'[q] = "left", userData[q] # NoCtx
                 PROVE  ctx'[userData[q]] # "live"
        BY <1>3, Zenon DEF LeftFreed
    <2>1. userData[q] \in Ctxs
        BY <1>1, Zenon DEF Ctx
    <2>2. CASE q = s
        <3>1. userData[q] = held[s]
            BY <1>0, <1>2, <2>2, Zenon DEF Tidy, LeavesOwn
        <3> QED
            BY <1>6, <2>1, <3>1, Zenon
    <2>3. CASE q # s
        <3>1. ctx[userData[q]] # "live"
            BY <1>2, <2>3, Zenon DEF Tidy, LeftFreed
        <3> QED
            BY <1>6, <2>1, <3>1, Zenon
    <2> QED
        BY <2>2, <2>3, Zenon
<1>15. FreedOnce'
    BY <1>6, Zenon DEF Tidy, FreedOnce
<1>16. Referenced'
    <2> SUFFICES ASSUME NEW y \in Ctxs, ctx'[y] = "live"
                 PROVE  \/ \E q \in Slots : q < taskCount /\ userData[q] = y
                        \/ \E q \in Slots : held'[q] = y
        BY <1>3, Zenon DEF Referenced
    <2>1. y # held[s] /\ ctx[y] = "live"
        BY <1>6, Zenon
    <2>2. \A q \in Slots : held[q] = y => held'[q] = y
        BY <1>2, <2>1, Zenon
    <2> QED
        BY <2>1, <2>2, Zenon DEF Tidy, Referenced
<1> QED
    BY <1>7, <1>8, <1>9, <1>10, <1>11, <1>12, <1>13, <1>14, <1>15, <1>16, Zenon DEF Tidy

(* A process takes its own context in hand, to free it when it leaves or   *)
(* faults or to replace it in exec, where the new one becomes its own.     *)
LEMMA TidyTaken ==
    ASSUME ProcessTypeOK, DispatchInv, Owned, Tidy,
           NEW c \in Cpus, NEW s \in Slots, NEW p0 \in {"code", "loadx"}, NEW p,
           Executes(c, s, p0), userData[s] # NoCtx,
           held' = [held EXCEPT ![s] = userData[s]],
           tpc' = [tpc EXCEPT ![s] = p],
           UNCHANGED <<reap, ctx, taskCount, resurrected, cur, pc, pending>>,
           \/ p = "leave" /\ p0 = "code" /\ UNCHANGED <<userData, state>>
           \/ /\ p = "exec" /\ p0 = "loadx" /\ UNCHANGED state
              /\ userData' = [userData EXCEPT ![s] = held[s]]
           \/ /\ p = "fault" /\ p0 = "code"
              /\ userData' = [userData EXCEPT ![s] = NoCtx]
              /\ state' = [state EXCEPT ![s] = "terminated"]
    PROVE  Tidy'
<1>0. /\ pc[c] = "run" /\ cur[c] = s /\ tpc[s] = p0 /\ ~pending[s]
      /\ s < taskCount /\ state[s] # "terminated"
    BY ExecutingTask, Zenon
<1>1. /\ held \in [Slots -> Ctx] /\ tpc \in [Slots -> TaskPcs]
      /\ userData \in [Slots -> Ctx] /\ state \in [Slots -> States]
    BY Zenon DEF ProcessTypeOK, TypeOK
<1>2. /\ \A q \in Slots : held'[q] = IF q = s THEN userData[s] ELSE held[q]
      /\ \A q \in Slots : tpc'[q] = IF q = s THEN p ELSE tpc[q]
    BY <1>1, Zenon
<1>3. /\ \A q \in Slots : q # s => userData'[q] = userData[q] /\ state'[q] = state[q]
      /\ state'[s] = "terminated" => p = "fault"
      /\ p \in {"leave", "exec", "fault"}
      /\ p = "leave" => userData'[s] = userData[s]
      /\ p = "fault" => userData'[s] = NoCtx
      /\ p0 = "loadx" => userData'[s] = held[s]
      /\ p0 = "code" => held[s] = NoCtx
    BY <1>0, <1>1, Zenon DEF Owned, InHand, HandPcs
<1>4. /\ \A q \in Slots : q # s => held[q] # userData[s]
      /\ ctx[userData[s]] = "live"
    BY <1>0, Zenon DEF Owned, HandApart, TaskLive
<1>5. NobodyBack' /\ NoReap'
    BY Zenon DEF Tidy, NobodyBack, NoReap
<1>6. EndedAtExit' /\ EndedBare'
    BY <1>2, <1>3 DEF Tidy, EndedAtExit, EndedBare
<1>7. Faulting'
    <2> SUFFICES ASSUME NEW q \in Slots, tpc'[q] = "fault"
                 PROVE  \E d \in Cpus : cur[d] = q /\ pc[d] = "run" /\ ~pending[q]
        BY Zenon DEF Faulting
    <2>1. CASE q = s
        BY <1>0, <2>1, Zenon
    <2>2. CASE q # s
        BY <1>2, <2>2 DEF Tidy, Faulting
    <2> QED
        BY <2>1, <2>2, Zenon
<1>8. FreshEmpty' /\ OneHand'
    <2>1. FreshEmpty'
        BY <1>0, <1>2, Zenon DEF Tidy, FreshEmpty
    <2>2. OneHand'
        BY <1>2, <1>4, SMTT(30) DEF Tidy, OneHand
    <2> QED
        BY <2>1, <2>2, Zenon
<1>9. HandsLive' /\ LeavesOwn'
    BY <1>2, <1>3, <1>4, SMTT(30) DEF Tidy, HandsLive, LeavesOwn
<1>10. LeftFreed'
    BY <1>2, <1>3, SMTT(30) DEF Tidy, LeftFreed
<1>11. FreedOnce'
    BY Zenon DEF Tidy, FreedOnce
<1>12. Referenced'
    <2> SUFFICES ASSUME NEW y \in Ctxs, ctx[y] = "live"
                 PROVE  \/ \E q \in Slots : q < taskCount /\ userData'[q] = y
                        \/ \E q \in Slots : held'[q] = y
        BY Zenon DEF Referenced
    <2>1. y # NoCtx
        BY CtxAssumption, Zenon
    <2>2. ASSUME NEW q \in Slots, q < taskCount, userData[q] = y
          PROVE  \/ \E r \in Slots : r < taskCount /\ userData'[r] = y
                 \/ \E r \in Slots : held'[r] = y
        BY <1>2, <1>3, <2>2, Zenon
    <2>3. ASSUME NEW q \in Slots, held[q] = y
          PROVE  \/ \E r \in Slots : r < taskCount /\ userData'[r] = y
                 \/ \E r \in Slots : held'[r] = y
        <3>1. CASE q # s
            BY <1>2, <2>3, <3>1, Zenon
        <3>2. CASE q = s
            <4>1. p0 = "loadx"
                BY <1>3, <2>1, <2>3, <3>2, Zenon
            <4> QED
                BY <1>0, <1>3, <2>3, <3>2, <4>1, Zenon
        <3> QED
            BY <3>1, <3>2, Zenon
    <2> QED
        BY <2>2, <2>3, Zenon DEF Tidy, Referenced
<1> QED
    BY <1>5, <1>6, <1>7, <1>8, <1>9, <1>10, <1>11, <1>12, Zenon DEF Tidy

(* exit_task: the context, if there was one, has been cleaned up.          *)
LEMMA TidyExited ==
    ASSUME ProcessTypeOK, DispatchInv, Owned, Tidy, NEW c \in Cpus, NEW s \in Slots, Exit(c, s)
    PROVE  Tidy'
<1>0. PICK p0 \in {"left", "code"} : /\ ExitTask(c, s, p0)
                                     /\ p0 = "code" => userData[s] = NoCtx
    BY Zenon DEF Exit
<1>1. tpc[s] = p0 /\ s < taskCount
    BY <1>0, ExecutingTask, Zenon DEF ExitTask
<1>2. /\ \A q \in Slots : userData'[q] = IF q = s THEN NoCtx ELSE userData[q]
      /\ \A q \in Slots : held'[q] = IF q = s THEN NoCtx ELSE held[q]
      /\ \A q \in Slots : tpc'[q] = IF q = s THEN "exit" ELSE tpc[q]
      /\ \A q \in Slots : q # s => state'[q] = state[q]
      /\ UNCHANGED <<reap, ctx, taskCount, resurrected, cur, pc, pending>>
    BY <1>0, Zenon DEF ExitTask, Exit, ProcessTypeOK, TypeOK, cpuState, memory, history
<1>3. held[s] = NoCtx
    BY <1>1, Zenon DEF Owned, InHand, HandPcs
<1>4. userData[s] # NoCtx => ctx[userData[s]] # "live"
    BY <1>0, <1>1, Zenon DEF Tidy, LeftFreed
<1>5. NobodyBack' /\ NoReap'
    BY <1>2, Zenon DEF Tidy, NobodyBack, NoReap
<1>6. EndedAtExit' /\ EndedBare'
    BY <1>2, Zenon DEF Tidy, EndedAtExit, EndedBare
<1>7. Faulting'
    BY <1>2, FaultingKept, Zenon DEF Tidy
<1>8. FreshEmpty' /\ OneHand' /\ HandsLive'
    <2>1. FreshEmpty'
        BY <1>2, Zenon DEF Tidy, FreshEmpty
    <2>2. OneHand' /\ HandsLive'
        BY <1>2 DEF Tidy, OneHand, HandsLive
    <2> QED
        BY <2>1, <2>2, Zenon
<1>9. LeavesOwn' /\ LeftFreed'
    BY <1>2, Zenon DEF Tidy, LeavesOwn, LeftFreed
<1>10. FreedOnce'
    BY <1>2, Zenon DEF Tidy, FreedOnce
<1>11. Referenced'
    <2> SUFFICES ASSUME NEW y \in Ctxs, ctx[y] = "live"
                 PROVE  \/ \E q \in Slots : q < taskCount /\ userData'[q] = y
                        \/ \E q \in Slots : held'[q] = y
        BY <1>2, Zenon DEF Referenced
    <2>1. y # NoCtx
        BY CtxAssumption, Zenon
    <2>2. /\ \A q \in Slots : userData[q] = y => userData'[q] = y
          /\ \A q \in Slots : held[q] = y => held'[q] = y
        BY <1>2, <1>3, <1>4, <2>1, Zenon
    <2> QED
        BY <2>2, Zenon DEF Tidy, Referenced
<1> QED
    BY <1>5, <1>6, <1>7, <1>8, <1>9, <1>10, <1>11, Zenon DEF Tidy

(* preempt finds no context to take: a terminated task has none.           *)
LEMMA TidyPreempt ==
    ASSUME ProcessTypeOK, DispatchInv, Tidy, NEW c \in Cpus, Timer(c) \/ Int32(c), UNCHANGED ctx
    PROVE  Tidy'
<1>0. PICK timer \in BOOLEAN : Preempt(c, timer)
    BY Zenon DEF Timer, Int32
<1>1. /\ reap \in [Cpus -> Ctx] /\ userData \in [Slots -> Ctx] /\ cur \in [Cpus -> Slots \cup {NoTask}]
      /\ pc \in [Cpus -> {"run", "switch"}] /\ pending \in [Slots -> BOOLEAN]
    BY Zenon DEF ProcessTypeOK, TypeOK
<1>2. \A q \in Slots : ~TakesCtx(c, q)
    BY Zenon DEF TakesCtx, Tidy, EndedAtExit, EndedBare
<1>3. userData' = userData /\ NoReap'
    <2>1. CASE SaveCurrent(c)
        <3>1. userData' = [q \in Slots |-> userData[q]]
            BY <1>2, <2>1, Zenon DEF SaveCurrent
        <3>2. reap' = [reap EXCEPT ![c] = NoCtx]
            BY <1>2, <2>1, Zenon DEF SaveCurrent
        <3>3. userData' = userData
            BY <1>1, <3>1, Zenon
        <3>4. NoReap'
            BY <1>1, <3>2, Zenon DEF NoReap, Tidy
        <3> QED
            BY <3>3, <3>4, Zenon
    <2>2. CASE UNCHANGED <<userData, reap>>
        BY <2>2, Zenon DEF NoReap, Tidy
    <2> QED
        BY <1>0, <2>1, <2>2, Zenon DEF Preempt, PreemptTo, PreemptIdle, PreemptKeep
<1>4. UNCHANGED <<taskCount, tpc, held, resurrected>> /\ pc[c] = "run"
    BY <1>0, Zenon DEF Preempt
<1>5. \A d \in Cpus : d # c => cur'[d] = cur[d] /\ pc'[d] = pc[d]
    BY <1>0, <1>1, Zenon DEF Preempt, PreemptTo, PreemptIdle, PreemptKeep
<1>6. Faulting'
    <2> SUFFICES ASSUME NEW q \in Slots, tpc[q] = "fault"
                 PROVE  \E d \in Cpus : cur'[d] = q /\ pc'[d] = "run" /\ ~pending'[q]
        BY <1>4, Zenon DEF Faulting
    <2>1. PICK d \in Cpus : cur[d] = q /\ pc[d] = "run" /\ ~pending[q]
        BY Zenon DEF Tidy, Faulting
    <2>2. CASE Timer(c)
        <3>1. d # c /\ pending'[q] = pending[q]
            BY <2>1, <2>2, Zenon DEF Timer
        <3> QED
            BY <1>5, <2>1, <3>1, Zenon
    <2>3. CASE Int32(c)
        <3>1. q # cur[c]
            BY <2>1, <2>3, Zenon DEF Int32
        <3>2. d # c /\ pending'[q] = pending[q]
            BY <1>1, <2>1, <2>3, <3>1, Zenon DEF Int32
        <3> QED
            BY <1>5, <2>1, <3>2, Zenon
    <2> QED
        BY <2>2, <2>3, Zenon
<1>7. \A q \in Slots : state'[q] = "terminated" => state[q] = "terminated"
    BY <1>0, PreemptRecord, Zenon
<1>8. NobodyBack'
    BY <1>4, Zenon DEF Tidy, NobodyBack
<1> QED
    BY <1>3, <1>4, <1>6, <1>7, <1>8, TidyKept, Zenon

LEMMA TidySwitch ==
    ASSUME ProcessTypeOK, Tidy, NEW c \in Cpus, Switch(c)
    PROVE  Tidy'
<1>1. /\ UNCHANGED <<userData, held, tpc, taskCount, state, resurrected, cur, pending>>
      /\ pc' = [pc EXCEPT ![c] = "run"] /\ reap' = [reap EXCEPT ![c] = NoCtx]
    BY Zenon DEF Switch, SwitchDone, table, taskCode, history
<1>2. ctx' = ctx
    BY Zenon DEF Switch, Tidy, NoReap
<1>3. /\ \A d \in Cpus : pc[d] = "run" => pc'[d] = "run"
      /\ \A d \in Cpus : reap'[d] = NoCtx
    BY <1>1, Zenon DEF ProcessTypeOK, TypeOK, Tidy, NoReap
<1>4. NobodyBack' /\ NoReap' /\ Faulting'
    BY <1>1, <1>3, Zenon DEF Tidy, NobodyBack, NoReap, Faulting
<1> QED
    BY <1>1, <1>2, <1>4, TidyKept, Zenon

LEMMA TidyStart ==
    ASSUME ProcessTypeOK, Booting, Tidy, StartScheduler
    PROVE  Tidy'
<1>1. /\ UNCHANGED <<userData, held, tpc, taskCount, resurrected, ctx, reap>>
      /\ ~active
    BY Zenon DEF StartScheduler, Start, taskCode, history
<1>2. PICK n \in Slots : state' = [state EXCEPT ![n] = "running"]
    BY Zenon DEF StartScheduler, Start
<1>3. \A q \in Slots : state'[q] = "terminated" => state[q] = "terminated"
    BY <1>2, Zenon DEF ProcessTypeOK, TypeOK
<1>4. Faulting'
    BY <1>1, Zenon DEF Booting, Faulting
<1>5. NobodyBack' /\ NoReap'
    BY <1>1, Zenon DEF Tidy, NobodyBack, NoReap
<1> QED
    BY <1>1, <1>3, <1>4, <1>5, TidyKept, Zenon

LEMMA TidyBoot ==
    ASSUME ProcessTypeOK, Owned, Booting, Tidy, NEW x \in Ctx, BootCreate(x),
           \/ x = NoCtx /\ UNCHANGED ctx
           \/ x # NoCtx /\ ctx[x] = "none" /\ ctx' = [ctx EXCEPT ![x] = "live"]
    PROVE  Tidy'
<1>1. PICK r \in Slots : CreateIn(r, x)
    BY Zenon DEF BootCreate
<1>2. /\ userData \in [Slots -> Ctx] /\ held \in [Slots -> Ctx] /\ state \in [Slots -> States]
      /\ pending \in [Slots -> BOOLEAN] /\ taskCount \in 0..MaxTasks
      /\ ctx \in [Ctxs -> {"none", "live", "freed", "double"}]
    BY Zenon DEF ProcessTypeOK, TypeOK
<1>3. \A q \in Slots : state[q] = "ready" /\ tpc[q] = "code"
    BY Zenon DEF BootCreate, Booting
<1>4. r = taskCount
    BY <1>1, <1>3, Zenon DEF CreateIn, AvailableSlot, Reusable
<1>5. taskCount \in Nat /\ taskCount' = taskCount + 1
    BY <1>1, <1>2, <1>4, TaskAssumption, SMTT(30) DEF CreateIn
<1>6. /\ taskCount' \in Nat /\ taskCount <= taskCount' /\ r < taskCount'
      /\ r < taskCount => userData[r] = NoCtx
      /\ ~(r < taskCount)
    BY <1>4, <1>5
<1>7. held[r] = NoCtx
    BY <1>6, Zenon DEF Tidy, FreshEmpty
<1>8. /\ \A q \in Slots : userData'[q] = IF q = r THEN x ELSE userData[q]
      /\ \A q \in Slots : state'[q] = IF q = r THEN "ready" ELSE state[q]
      /\ \A q \in Slots : pending'[q] => pending[q]
      /\ UNCHANGED <<reap, resurrected, cur, pc, held, tpc>>
    BY <1>1, <1>2, Zenon DEF CreateIn, cpuState, history, BootCreate
<1>9. /\ \A q \in Slots : held'[q] = IF q = r \/ q = r THEN NoCtx ELSE held[q]
      /\ \A q \in Slots : tpc'[q] = IF q = r \/ q = r THEN "code" ELSE tpc[q]
    BY <1>3, <1>7, <1>8, Zenon
<1>10. /\ \A y \in Ctxs : y # x => ctx'[y] = ctx[y]
       /\ x # NoCtx => ctx'[x] = "live"
    BY <1>2, Zenon DEF Ctx
<1>11. x # NoCtx => /\ \A q \in Slots : userData[q] # x
                    /\ \A q \in Slots : held[q] = x => q = r
    BY Zenon DEF Owned, TaskLive, HandLive
<1>12. tpc[r] \notin {"exit", "fault", "leave", "left"}
    BY <1>3, Zenon
<1>13. \A q \in Slots : userData[q] \in Ctx /\ held[q] \in Ctx
    BY <1>2, Zenon
<1> QED
    BY <1>5, <1>6, <1>7, <1>8, <1>9, <1>10, <1>11, <1>12, <1>13, TidyCreated, Zenon

LEMMA TidyRun ==
    ASSUME ProcessTypeOK, DispatchInv, Owned, Tidy, NEW c \in Cpus, NEW s \in Slots,
           RunCreate(c, s)
    PROVE  Tidy'
<1>1. PICK r \in Slots : /\ CreateIn(r, held[s])
                         /\ tpc' = [tpc EXCEPT ![r] = "code", ![s] = "code"]
                         /\ held' = [held EXCEPT ![r] = NoCtx, ![s] = NoCtx]
    BY Zenon DEF RunCreate, CreateTask
<1>2. /\ userData \in [Slots -> Ctx] /\ held \in [Slots -> Ctx] /\ tpc \in [Slots -> TaskPcs]
      /\ state \in [Slots -> States] /\ pending \in [Slots -> BOOLEAN]
      /\ taskCount \in 0..MaxTasks
    BY Zenon DEF ProcessTypeOK, TypeOK
<1>3. /\ \A q \in Slots : userData'[q] = IF q = r THEN held[s] ELSE userData[q]
      /\ \A q \in Slots : state'[q] = IF q = r THEN "ready" ELSE state[q]
      /\ \A q \in Slots : pending'[q] => pending[q]
      /\ UNCHANGED <<reap, resurrected, cur, pc, ctx>>
    BY <1>1, <1>2, Zenon DEF CreateIn, cpuState, history, RunCreate
<1>4. /\ \A q \in Slots : held'[q] = IF q = r \/ q = s THEN NoCtx ELSE held[q]
      /\ \A q \in Slots : tpc'[q] = IF q = r \/ q = s THEN "code" ELSE tpc[q]
    BY <1>1, <1>2, Zenon
<1>5. /\ tpc[s] = "load" /\ Loading(s) /\ held[s] # NoCtx
      /\ tpc[s] \notin {"exit", "fault", "leave", "left"}
    BY Zenon DEF RunCreate, CreateTask, Executes, Loading, Owned, InHand, HandPcs
<1>6. /\ ctx'[held[s]] = "live"
      /\ \A q \in Slots : userData[q] # held[s]
      /\ \A q \in Slots : held[q] = held[s] => q = s
    BY <1>3, <1>5, Zenon DEF Owned, HandLive, HandApart, LoadApart
<1>7. /\ taskCount \in Nat /\ taskCount' \in Nat /\ taskCount <= taskCount' /\ r < taskCount'
      /\ Reusable(r) \/ ~(r < taskCount)
    <2>1. /\ taskCount \in Nat /\ r \in Nat
          /\ taskCount' = IF r = taskCount THEN taskCount + 1 ELSE taskCount
          /\ Reusable(r) \/ r = taskCount
        BY <1>1, <1>2, TaskAssumption, SMTT(30) DEF CreateIn, AvailableSlot, Slots
    <2>2. CASE r = taskCount
        BY <2>1, <2>2
    <2>3. CASE r # taskCount
        BY <2>1, <2>3 DEF Reusable
    <2> QED
        BY <2>2, <2>3, Zenon
<1>8. (r < taskCount => userData[r] = NoCtx) /\ held[r] = NoCtx
    <2>1. CASE ~(r < taskCount)
        BY <2>1, Zenon DEF Tidy, FreshEmpty
    <2>2. CASE Reusable(r)
        <3>1. state[r] = "terminated" /\ currentCpu[r] = NoCpu
            BY <2>2, Zenon DEF Reusable
        <3>2. tpc[r] \in {"exit", "fault"} /\ userData[r] = NoCtx
            BY <3>1, Zenon DEF Tidy, EndedAtExit, EndedBare
        <3>3. tpc[r] # "fault"
            BY <3>1, BusyInUse, Zenon DEF Busy, Tidy, Faulting, NobodyBack
        <3>4. held[r] = NoCtx
            BY <3>2, <3>3, Zenon DEF Owned, InHand, HandPcs
        <3> QED
            BY <3>2, <3>4, Zenon
    <2> QED
        BY <1>7, <2>1, <2>2, Zenon
<1>9. \A q \in Slots : userData[q] \in Ctx /\ held[q] \in Ctx
    BY <1>2, Zenon
<1>10. held[s] \in Ctx /\ \A y \in Ctxs : y # held[s] => ctx'[y] = ctx[y]
    BY <1>3, <1>9, Zenon
<1> QED
    BY <1>3, <1>4, <1>5, <1>6, <1>7, <1>8, <1>9, <1>10, TidyCreated, Zenon

(* The calls: a terminate_task that ends nobody finds nothing to take.     *)
LEMMA TidyCall ==
    ASSUME ProcessTypeOK, DispatchInv, Tidy, NEW c \in Cpus, NEW s \in Slots,
           Call(c, s), ~killed'
    PROVE  Tidy'
<1>0. /\ TypeOK /\ UNCHANGED ctx /\ Tidy
      /\ \A v \in Slots : state'[v] = "terminated" => state[v] = "terminated"
    BY Zenon DEF Call, ProcessTypeOK
<1>1. ASSUME UNCHANGED <<userData, held, taskCount, reap, cur, pc>>, NobodyBack',
             \A q \in Slots : tpc[q] = "fault" => (pending'[q] => pending[q]),
             tpc[s] \in {"code", "sleep", "wait", "waitsleep"} \/ tpc' = tpc,
             \/ tpc' = tpc
             \/ \E p \in {"code", "sleep", "wait", "waitsleep"} : tpc' = [tpc EXCEPT ![s] = p]
      PROVE  Tidy'
    <2>1. \A q \in Slots : \/ tpc'[q] = tpc[q]
                           \/ /\ tpc[q] \in {"code", "sleep", "wait", "waitsleep"}
                              /\ tpc'[q] \in {"code", "sleep", "wait", "waitsleep"}
        BY <1>0, <1>1, Zenon DEF TypeOK
    <2>2. \A q \in Slots : tpc'[q] = "fault" => tpc[q] = "fault"
        BY <2>1, Zenon
    <2>3. Faulting'
        BY <1>1, <2>2, FaultingKept, Zenon DEF Tidy
    <2>4. NoReap'
        BY <1>1, Zenon DEF Tidy, NoReap
    <2> QED
        BY <1>0, <1>1, <2>1, <2>3, <2>4, TidyKept, Zenon
<1>2. ASSUME NEW n, NEW p \in {"sleep", "waitsleep"}, SleepFor(s, n, p),
             NEW p0 \in {"code", "wait"}, Executes(c, s, p0)
      PROVE  Tidy'
    <2>1. tpc[s] = p0 /\ state[s] # "terminated"
        BY <1>2, ExecutingTask, Zenon
    <2>2. NobodyBack'
        BY <1>0, <1>2, <2>1, Zenon DEF SleepFor, TypeOK, Tidy, NobodyBack
    <2>3. UNCHANGED <<userData, held, taskCount, reap, cur, pc, pending>>
        BY <1>2, Zenon DEF SleepFor, cpuState
    <2>4. tpc' = [tpc EXCEPT ![s] = p]
        BY <1>2, Zenon DEF SleepFor
    <2> QED
        BY <1>1, <1>2, <2>1, <2>2, <2>3, <2>4, Zenon
<1>3. CASE Sleep(c, s) \/ WaitAgain(c, s)
    BY <1>2, <1>3, Zenon DEF Sleep, WaitAgain
<1>4. CASE Yield(c, s)
    <2>1. /\ UNCHANGED <<userData, held, taskCount, reap, cur, pc, resurrected, tpc>>
          /\ pending' = [pending EXCEPT ![s] = TRUE]
        BY <1>4, Zenon DEF Yield, table, history
    <2>2. tpc[s] # "fault"
        BY <1>4, Zenon DEF Yield, Executes
    <2>3. \A q \in Slots : tpc[q] = "fault" => (pending'[q] => pending[q])
        BY <1>0, <2>1, <2>2, Zenon DEF TypeOK
    <2> QED
        BY <1>1, <2>1, <2>3, Zenon DEF Tidy, NobodyBack
<1>5. CASE SleepDone(c, s) \/ WaitForTask(c, s) \/ WaitDone(c, s)
    <2>1. UNCHANGED <<userData, held, taskCount, reap, cur, pc, resurrected, pending>>
        BY <1>5, Zenon DEF SleepDone, WaitForTask, WaitDone, table, cpuState, history
    <2>2. PICK p \in {"code", "wait"} : tpc' = [tpc EXCEPT ![s] = p]
        BY <1>5, Zenon DEF SleepDone, WaitForTask, WaitDone
    <2>3. tpc[s] \in {"code", "sleep", "wait", "waitsleep"}
        BY <1>5, Zenon DEF SleepDone, WaitForTask, WaitDone, Executes
    <2> QED
        BY <1>1, <2>1, <2>2, <2>3, Zenon DEF Tidy, NobodyBack
<1>6. ASSUME NEW v \in Slots, TerminateTask(c, s, v)
      PROVE  Tidy'
    <2>1. state'[v] = "terminated"
        BY <1>0, <1>6, Zenon DEF TerminateTask, TypeOK
    <2>2. userData[v] = NoCtx
        BY <1>0, <2>1, Zenon DEF Tidy, EndedAtExit, EndedBare
    <2>3. UNCHANGED <<userData, held, taskCount, reap, cur, pc, resurrected, pending, tpc>>
        BY <1>6, <2>2, Zenon DEF TerminateTask, cpuState, history
    <2> QED
        BY <1>1, <2>3, Zenon DEF Tidy, NobodyBack
<1> QED
    BY <1>3, <1>4, <1>5, <1>6, Zenon DEF Call, TaskStep

(* What the running task does with contexts.                               *)
LEMMA TidyTask ==
    ASSUME ProcessTypeOK, DispatchInv, Owned, Tidy, NEW c \in Cpus, NEW s \in Slots,
           \/ RunFails(c, s) \/ ExecReplace(c, s) \/ ExecFails(c, s) \/ Leave(c, s)
           \/ CleanBegin(c, s) \/ CleanEnd(c, s) \/ Fault(c, s) \/ FaultEnd(c, s)
    PROVE  Tidy'
<1>1. CASE RunFails(c, s) \/ ExecFails(c, s)
    <2>1. PICK p0 \in {"load", "loadx"} : Executes(c, s, p0)
        BY <1>1, Zenon DEF RunFails, ExecFails
    <2>2. /\ ctx' = Freed(held[s])
          /\ tpc' = [tpc EXCEPT ![s] = "code"]
          /\ held' = [held EXCEPT ![s] = NoCtx]
          /\ UNCHANGED <<reap, taskCount, resurrected, cur, pc, pending, userData, state>>
        BY <1>1, Zenon DEF RunFails, ExecFails, Discard, table, cpuState, history
    <2>3. p0 \in HandPcs /\ p0 # "fault"
        BY Zenon DEF HandPcs
    <2> QED
        BY <2>1, <2>2, <2>3, TidyFreed, Zenon
<1>2. CASE CleanEnd(c, s)
    <2>1. PICK p0 \in {"kill", "leave", "exec"} : Executes(c, s, p0)
        BY <1>2, Zenon DEF CleanEnd
    <2>2. /\ ctx' = Freed(held[s])
          /\ held' = [held EXCEPT ![s] = NoCtx]
          /\ UNCHANGED <<reap, taskCount, resurrected, cur, pc, pending, userData, state>>
        BY <1>2, Zenon DEF CleanEnd, table, cpuState, history
    <2>3. PICK p \in {"code", "left"} : /\ tpc' = [tpc EXCEPT ![s] = p]
                                        /\ p = "left" => p0 = "leave"
        BY <1>2, <2>1, Zenon DEF CleanEnd, Executes
    <2>4. p0 \in HandPcs /\ p0 # "fault"
        BY Zenon DEF HandPcs
    <2> QED
        BY <2>1, <2>2, <2>3, <2>4, TidyFreed, Zenon
<1>3. CASE FaultEnd(c, s)
    <2>1. /\ Executes(c, s, "fault")
          /\ ctx' = Freed(held[s])
          /\ tpc' = [tpc EXCEPT ![s] = "exit"]
          /\ held' = [held EXCEPT ![s] = NoCtx]
          /\ userData' = [userData EXCEPT ![s] = NoCtx]
          /\ state' = [state EXCEPT ![s] = "terminated"]
          /\ UNCHANGED <<reap, taskCount, resurrected, cur, pc, pending>>
        BY <1>3, Zenon DEF FaultEnd, ExitTask, cpuState, history
    <2>2. "fault" \in HandPcs
        BY Zenon DEF HandPcs
    <2> QED
        BY <2>1, <2>2, TidyFreed, Zenon
<1>4. CASE Leave(c, s)
    <2>1. /\ Executes(c, s, "code") /\ userData[s] # NoCtx
          /\ held' = [held EXCEPT ![s] = userData[s]]
          /\ tpc' = [tpc EXCEPT ![s] = "leave"]
          /\ UNCHANGED <<reap, ctx, taskCount, resurrected, cur, pc, pending, userData, state>>
        BY <1>4, Zenon DEF Leave, table, cpuState, history, memory
    <2> QED
        BY <2>1, TidyTaken, Zenon
<1>5. CASE Fault(c, s)
    <2>1. /\ Executes(c, s, "code") /\ userData[s] # NoCtx
          /\ held' = [held EXCEPT ![s] = userData[s]]
          /\ tpc' = [tpc EXCEPT ![s] = "fault"]
          /\ userData' = [userData EXCEPT ![s] = NoCtx]
          /\ state' = [state EXCEPT ![s] = "terminated"]
          /\ UNCHANGED <<reap, ctx, taskCount, resurrected, cur, pc, pending>>
        BY <1>5, Zenon DEF Fault, DetachCurrent, cpuState, history, memory
    <2> QED
        BY <2>1, TidyTaken, Zenon
<1>6. CASE ExecReplace(c, s)
    <2>1. /\ Executes(c, s, "loadx") /\ state[s] # "terminated"
          /\ held' = [held EXCEPT ![s] = userData[s]]
          /\ tpc' = [tpc EXCEPT ![s] = "exec"]
          /\ userData' = [userData EXCEPT ![s] = held[s]]
          /\ UNCHANGED <<reap, ctx, taskCount, resurrected, cur, pc, pending, state>>
        BY <1>6, Zenon DEF ExecReplace, ReplaceContext, cpuState, history, memory
    <2>2. userData[s] # NoCtx
        BY <2>1, Zenon DEF Executes, Owned, ExecHasOld
    <2> QED
        BY <2>1, <2>2, TidyTaken, Zenon
<1>7. CASE CleanBegin(c, s)
    <2>1. UNCHANGED <<vars, ctx>>
        BY <1>7, Zenon DEF CleanBegin
    <2>2. UNCHANGED <<userData, held, ctx, taskCount, tpc, state, reap, cur, pc, pending, resurrected>>
        BY <2>1, Zenon DEF vars, table, cpuState, taskCode, history
    <2>3. NobodyBack' /\ NoReap' /\ Faulting'
        BY <2>2, Zenon DEF Tidy, NobodyBack, NoReap, Faulting
    <2> QED
        BY <2>2, <2>3, TidyKept, Zenon
<1> QED
    BY <1>1, <1>2, <1>3, <1>4, <1>5, <1>6, <1>7, Zenon

LEMMA TidyStep ==
    ASSUME OwnInv, Tidy, [ProcessNext]_allVars, ~killed'
    PROVE  Tidy'
<1>0. ProcessTypeOK /\ DispatchInv /\ Booting /\ Owned
    BY Zenon DEF OwnInv
<1>1. CASE BootTask
    BY <1>0, <1>1, TidyBoot, Zenon DEF BootTask, memory, Ctx
<1>2. ASSUME NEW x \in Ctxs, BootProcess(x)
      PROVE  Tidy'
    <2>1. x \in Ctx /\ x # NoCtx
        BY CtxAssumption, Zenon DEF Ctx
    <2> QED
        BY <1>0, <1>2, <2>1, TidyBoot, Zenon DEF BootProcess
<1>3. ASSUME NEW c \in Cpus, Timer(c) \/ Int32(c), UNCHANGED memory
      PROVE  Tidy'
    BY <1>0, <1>3, TidyPreempt, Zenon DEF memory
<1>4. ASSUME NEW c \in Cpus, NEW s \in Slots,
             \E x \in Ctxs : Load(c, s, x, "run", "load") \/ Load(c, s, x, "exec", "loadx")
      PROVE  Tidy'
    BY <1>0, <1>4, TidyLoaded, Zenon
<1>5. CASE UNCHANGED allVars
    <2>1. UNCHANGED <<userData, held, ctx, taskCount, tpc, state, reap, cur, pc, pending, resurrected>>
        BY <1>5, Zenon DEF allVars, memory, vars, table, cpuState, taskCode, history
    <2>2. NobodyBack' /\ NoReap' /\ Faulting'
        BY <2>1, Zenon DEF Tidy, NobodyBack, NoReap, Faulting
    <2> QED
        BY <2>1, <2>2, TidyKept, Zenon
<1> QED
    BY <1>0, <1>1, <1>2, <1>3, <1>4, <1>5, TidySwitch, TidyStart, TidyRun, TidyCall,
       TidyTask, TidyExited, Zenon
    DEF ProcessNext

(* Nothing takes a terminate_task back.                                    *)
LEMMA KilledForGood ==
    ASSUME [ProcessNext]_allVars, killed
    PROVE  killed'
<1>1. ASSUME NEW c \in Cpus, NEW s \in Slots, Call(c, s)
      PROVE  killed'
    BY <1>1, Zenon DEF Call
<1>2. ASSUME killed' = killed
      PROVE  killed'
    BY <1>2, Zenon
<1>3. CASE UNCHANGED allVars
    BY <1>2, <1>3, Zenon DEF allVars, memory
<1>4. ASSUME NEW c \in Cpus, NEW s \in Slots,
             \/ \E x \in Ctxs : Load(c, s, x, "run", "load") \/ Load(c, s, x, "exec", "loadx")
             \/ RunCreate(c, s) \/ RunFails(c, s) \/ ExecReplace(c, s) \/ ExecFails(c, s)
             \/ Leave(c, s) \/ CleanBegin(c, s) \/ CleanEnd(c, s) \/ Exit(c, s)
             \/ Fault(c, s) \/ FaultEnd(c, s)
      PROVE  killed'
    BY <1>2, <1>4, Zenon
    DEF Load, RunCreate, RunFails, ExecReplace, ExecFails, Discard, Leave, CleanBegin,
       CleanEnd, Exit, Fault, FaultEnd, memory
<1>5. ASSUME BootTask \/ (\E x \in Ctxs : BootProcess(x)) \/ StartScheduler
      PROVE  killed'
    BY <1>2, <1>5, Zenon DEF BootTask, BootProcess, StartScheduler, memory
<1>6. ASSUME NEW c \in Cpus, UNCHANGED memory \/ Switch(c)
      PROVE  killed'
    BY <1>2, <1>6, Zenon DEF Switch, memory
<1> QED
    BY <1>1, <1>3, <1>4, <1>5, <1>6, Zenon DEF ProcessNext

(* As long as nobody called terminate_task, every context in memory has an *)
(* owner who will free it, and none is freed twice, through any            *)
(* interleaving of loads, execs, exits, faults and context switches, for   *)
(* any number of CPUs, slots and contexts (process.cpp:390-470, 576-645,   *)
(* scheduler.cpp:664-705).                                                 *)
THEOREM OwnersOfContexts == ProcessSpec => []ContextsOwned
<1> DEFINE KillInv == killed \/ Tidy
<1>1. ProcessInit => KillInv
    <2> SUFFICES ASSUME ProcessInit PROVE Tidy
        BY Zenon
    <2>1. Init
        BY Zenon DEF ProcessInit
    <2>2. \A s \in Slots : /\ state[s] = "ready" /\ tpc[s] = "code" /\ held[s] = NoCtx
                           /\ ~resurrected[s]
        BY <2>1, Zenon DEF Init
    <2>3. \A c \in Cpus : reap[c] = NoCtx
        BY <2>1, Zenon DEF Init
    <2>4. \A x \in Ctxs : ctx[x] = "none"
        BY Zenon DEF ProcessInit
    <2>5. NobodyBack /\ NoReap /\ OneHand /\ FreshEmpty /\ HandsLive
        BY <2>2, <2>3, Zenon DEF NobodyBack, NoReap, OneHand, FreshEmpty, HandsLive
    <2>6. EndedAtExit /\ EndedBare /\ Faulting /\ LeavesOwn /\ LeftFreed
        BY <2>2, Zenon DEF EndedAtExit, EndedBare, Faulting, LeavesOwn, LeftFreed
    <2>7. FreedOnce /\ Referenced
        BY <2>4, Zenon DEF FreedOnce, Referenced
    <2> QED
        BY <2>5, <2>6, <2>7, Zenon DEF Tidy
<1>2. OwnInv /\ KillInv => ContextsOwned
    <2> SUFFICES ASSUME OwnInv, KillInv PROVE ContextsOwned
        BY Zenon
    <2>1. ProcessTypeOK /\ Owned
        BY Zenon DEF OwnInv
    <2>2. CleanedOnce
        BY Zenon DEF CleanedOnce, Tidy, FreedOnce
    <2>3. ASSUME NEW x \in Ctxs, ~killed, ctx[x] = "live", NEW s \in Slots, held[s] = x
          PROVE  state[s] # "terminated" \/ tpc[s] = "fault"
        <3>1. tpc[s] \in HandPcs
            BY <2>1, <2>3, CtxAssumption, Zenon DEF Owned, InHand
        <3>2. tpc[s] # "exit"
            BY <3>1, Zenon DEF HandPcs
        <3> QED
            BY <2>3, <3>2, Zenon DEF Tidy, EndedAtExit
    <2>4. NoOrphan
        BY <2>3, Zenon DEF NoOrphan, Tidy, Referenced
    <2> QED
        BY <2>1, <2>2, <2>4, Zenon DEF ContextsOwned
<1>3. OwnInv /\ KillInv /\ [ProcessNext]_allVars => OwnInv' /\ KillInv'
    BY OwnStep, TidyStep, KilledForGood, Zenon
<1> QED
    BY <1>1, <1>2, <1>3, OwnInit, PTL DEF ProcessSpec
=============================================================================
