--------------------------------- MODULE Smp ---------------------------------
(***************************************************************************)
(* Bringing up the other CPUs (src/arch/x86_64/smp.cpp).  The boot CPU     *)
(* enumerates the MADT and starts one application processor after another  *)
(* through one mailbox in low memory: a stack for the CPU that starts and  *)
(* a flag it raises.  A CPU that takes too long is given up on, but may    *)
(* still come.                                                             *)
(***************************************************************************)
EXTENDS Integers, Sequences, FiniteSets

CONSTANTS
    Tables,      \* MADTs: sequences of [id, usable]
    Boot,        \* APIC id of the boot CPU
    MaxCpus,     \* MAX_CPUS
    MaxGivenUp,  \* bound: CPUs that take too long
    MaxMissed,   \* bound: startup IPIs that are lost
    Nobody

ASSUME SmpAssumption ==
    /\ MaxCpus \in Nat \ {0} /\ Boot \in Nat
    /\ Tables \subseteq Seq([id : Nat, usable : BOOLEAN])
    /\ \A t \in Tables : \A i, j \in DOMAIN t : t[i].id = t[j].id => i = j

VARIABLES
    madt,      \* the table of this machine
    cpus,      \* s_cpus: [id, online]
    bspPc, idx,      \* the boot CPU in init, and the entry it reads or starts
    mailStack, ready,\* TRAM_STACK, an index of s_ap_stacks, and TRAM_READY
    apState, apStack,\* of each CPU, by APIC id
    missed,    \* startup IPIs lost so far
    givenUp    \* history: CPUs that were given up on

smpVars == <<madt, cpus, bspPc, idx, mailStack, ready, apState, apStack, missed, givenUp>>
apVars == <<apState, apStack>>

Ids == {madt[i].id : i \in DOMAIN madt} \cup {Boot}
Id == cpus[idx].id

-----------------------------------------------------------------------------
(* init: foreach_madt_entry keeps the usable entries, as many as fit.      *)

Entry(e) == [id |-> e.id, online |-> e.id = Boot]

Enumerate ==
    /\ bspPc = "enumerate" /\ idx <= Len(madt)
    /\ cpus' = IF madt[idx].usable /\ Len(cpus) < MaxCpus
               THEN Append(cpus, Entry(madt[idx]))
               ELSE cpus
    /\ idx' = idx + 1
    /\ UNCHANGED <<madt, bspPc, mailStack, ready, apVars, missed, givenUp>>

(* Without any, the boot CPU is the only one.                              *)
Enumerated ==
    /\ bspPc = "enumerate" /\ idx > Len(madt)
    /\ IF cpus = <<>>
       THEN cpus' = <<[id |-> Boot, online |-> TRUE]>> /\ bspPc' = "done"
       ELSE bspPc' = "next" /\ UNCHANGED cpus
    /\ idx' = 1
    /\ UNCHANGED <<madt, mailStack, ready, apVars, missed, givenUp>>

(* Mutant of StartAp: every CPU gets the first stack.                      *)
StartApSameStack ==
    /\ bspPc = "next"
    /\ IF idx > Len(cpus) THEN bspPc' = "done" /\ UNCHANGED <<idx, mailStack, ready, apVars>>
       ELSE IF Id = Boot THEN idx' = idx + 1 /\ UNCHANGED <<bspPc, mailStack, ready, apVars>>
       ELSE /\ mailStack' = 1 /\ ready' = FALSE
            /\ apState' = [apState EXCEPT ![Id] = "waiting"]
            /\ apStack' = [apStack EXCEPT ![Id] = Nobody]
            /\ bspPc' = "sipi"
            /\ UNCHANGED idx
    /\ UNCHANGED <<madt, cpus, missed, givenUp>>

(* The next CPU: its stack, the flag, and the INIT IPI, which stops        *)
(* whatever it is doing.                                                   *)
StartAp ==
    /\ bspPc = "next"
    /\ IF idx > Len(cpus) THEN bspPc' = "done" /\ UNCHANGED <<idx, mailStack, ready, apVars>>
       ELSE IF Id = Boot THEN idx' = idx + 1 /\ UNCHANGED <<bspPc, mailStack, ready, apVars>>
       ELSE /\ mailStack' = idx /\ ready' = FALSE
            /\ apState' = [apState EXCEPT ![Id] = "waiting"]
            /\ apStack' = [apStack EXCEPT ![Id] = Nobody]
            /\ bspPc' = "sipi"
            /\ UNCHANGED idx
    /\ UNCHANGED <<madt, cpus, missed, givenUp>>

(* send_sipi, twice: only a CPU that waits for one takes it.  One may be   *)
(* lost.                                                                   *)
SendSipi ==
    /\ bspPc \in {"sipi", "sipi2"}
    /\ \/ apState' = [apState EXCEPT ![Id] = IF @ = "waiting" THEN "started" ELSE @] /\ UNCHANGED missed
       \/ missed < MaxMissed /\ missed' = missed + 1 /\ UNCHANGED apState
    /\ bspPc' = IF bspPc = "sipi" THEN "sipi2" ELSE "wait"
    /\ UNCHANGED <<madt, cpus, idx, mailStack, ready, apStack, givenUp>>

(* Mutant of SeesReady: the same CPU is started again.                     *)
SeesReadyStays ==
    /\ bspPc = "wait" /\ ready
    /\ cpus' = [cpus EXCEPT ![idx].online = TRUE]
    /\ bspPc' = "next"
    /\ UNCHANGED <<madt, idx, mailStack, ready, apVars, missed, givenUp>>

(* wait_ap_ready *)
SeesReady ==
    /\ bspPc = "wait" /\ ready
    /\ cpus' = [cpus EXCEPT ![idx].online = TRUE]
    /\ bspPc' = "next" /\ idx' = idx + 1
    /\ UNCHANGED <<madt, mailStack, ready, apVars, missed, givenUp>>

(* A CPU both of whose startup IPIs were lost never comes.                 *)
GivesUp ==
    /\ bspPc = "wait" /\ ~ready
    /\ Cardinality(givenUp) < MaxGivenUp \/ apState[Id] = "waiting"
    /\ givenUp' = givenUp \cup {Id}
    /\ cpus' = [cpus EXCEPT ![idx].online = FALSE]
    /\ bspPc' = "next" /\ idx' = idx + 1
    /\ UNCHANGED <<madt, mailStack, ready, apVars, missed>>

-----------------------------------------------------------------------------
(* The application processors: the trampoline loads the stack, and         *)
(* ap_init_secondary raises the flag and enters the scheduler.             *)

LoadsStack(a) ==
    /\ apState[a] = "started"
    /\ apStack' = [apStack EXCEPT ![a] = mailStack]
    /\ apState' = [apState EXCEPT ![a] = "onStack"]
    /\ UNCHANGED <<madt, cpus, bspPc, idx, mailStack, ready, missed, givenUp>>

Reports(a) ==
    /\ apState[a] = "onStack"
    /\ ready' = TRUE
    /\ apState' = [apState EXCEPT ![a] = "online"]
    /\ UNCHANGED <<madt, cpus, bspPc, idx, mailStack, apStack, missed, givenUp>>

SmpInit ==
    /\ madt \in Tables
    /\ cpus = <<>> /\ bspPc = "enumerate" /\ idx = 1
    /\ mailStack = 0 /\ ready = FALSE
    /\ apState = [a \in Ids |-> IF a = Boot THEN "online" ELSE "off"]
    /\ apStack = [a \in Ids |-> Nobody]
    /\ missed = 0 /\ givenUp = {}

BspStep == Enumerate \/ Enumerated \/ StartAp \/ SendSipi \/ SeesReady \/ GivesUp
ApStep(a) == LoadsStack(a) \/ Reports(a)
SmpNext == BspStep \/ \E a \in Ids : ApStep(a)

SmpSpec == SmpInit /\ [][SmpNext]_smpVars

(* The CPUs execute.                                                       *)
SmpFairness == WF_smpVars(BspStep) /\ WF_smpVars(\E a \in Ids : ApStep(a))
SmpFairSpec == SmpSpec /\ SmpFairness
-----------------------------------------------------------------------------
Running == {a \in Ids : apState[a] \in {"onStack", "online"}}

(* current_cpu_index *)
CpuIndex(a) ==
    IF \E i \in DOMAIN cpus : cpus[i].id = a THEN CHOOSE i \in DOMAIN cpus : cpus[i].id = a
    ELSE IF a < MaxCpus THEN a + 1 ELSE 1

SmpTypeOK ==
    /\ Len(cpus) <= MaxCpus
    /\ idx \in 1 .. (IF bspPc = "enumerate" THEN Len(madt) ELSE MaxCpus) + 1
    /\ mailStack \in 0 .. MaxCpus
    /\ ready \in BOOLEAN

(* Each application processor that runs has a stack of its own, though all *)
(* get theirs through one mailbox and may miss the first startup IPI.  A   *)
(* CPU that comes after it was given up on may take another one's.         *)
StacksApart ==
    givenUp = {} =>
        \A a, b \in Running \ {Boot} : a # b => apStack[a] # apStack[b]

(* The table agrees with the machine: a CPU recorded as online has its     *)
(* stack and runs, and when init is done one that runs is recorded.        *)
OnlineIsRunning ==
    givenUp = {} =>
        /\ \A i \in DOMAIN cpus : cpus[i].online => apState[cpus[i].id] = "online"
        /\ bspPc = "done" => \A i \in DOMAIN cpus : cpus[i].online = (cpus[i].id \in Running)

(* CPUs that run have different indices, and so slots of their own in the  *)
(* scheduler, also when one comes late; provided that the table has room   *)
(* for the boot CPU.                                                       *)
IndicesDistinct ==
    bspPc # "enumerate" /\ (\E i \in DOMAIN cpus : cpus[i].id = Boot) =>
        \A a, b \in Running : a # b => CpuIndex(a) # CpuIndex(b)

(* Once the CPUs are enumerated, bring-up ends, whoever answers or not:    *)
(* init returns, so that the boot CPU enters the scheduler.                *)
BringupEnds == []<>(bspPc \in {"enumerate", "done"})

(* CPUs that run have a stack and an index each, and are the ones recorded *)
(* as online.                                                              *)
CpusApart == SmpTypeOK /\ StacksApart /\ OnlineIsRunning /\ IndicesDistinct
=============================================================================
