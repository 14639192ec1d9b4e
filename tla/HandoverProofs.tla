--------------------------- MODULE HandoverProofs ---------------------------
(***************************************************************************)
(* What TLAPS proves of the two places where one CPU hands something to    *)
(* another with plain reads and writes and no lock: the mailbox of the CPU *)
(* bring-up (Smp) and the event queues of a process (EventQueue).          *)
(***************************************************************************)
EXTENDS Smp, EventQueue, SequenceTheorems, TLAPS

-----------------------------------------------------------------------------
(* The bring-up, for any MADT in which no id appears twice and any size of *)
(* s_cpus.  The inductive invariant says which CPU may be on its way at    *)
(* each point of the boot CPU's loop: the one that the mailbox is set for, *)
(* and no other as long as none was given up on.                           *)

Starting == bspPc \in {"sipi", "sipi2", "wait"}

Types ==
    /\ madt \in Tables
    /\ cpus \in Seq([id : Nat, online : BOOLEAN])
    /\ idx \in Nat \ {0}
    /\ bspPc \in {"enumerate", "next", "sipi", "sipi2", "wait", "done"}
    /\ ready \in BOOLEAN
    /\ apState \in [Ids -> {"off", "waiting", "started", "onStack", "online"}]
    /\ DOMAIN apStack = Ids

(* The table: its ids are ids of the machine, each once; a CPU that was    *)
(* started is in it.                                                       *)
TableSound ==
    /\ \A i \in DOMAIN cpus : cpus[i].id \in Ids
    /\ \A i, j \in DOMAIN cpus : cpus[i].id = cpus[j].id => i = j
    /\ bspPc = "enumerate" =>
          \A i \in DOMAIN cpus : \E j \in DOMAIN madt : j < idx /\ cpus[i].id = madt[j].id

Started ==
    /\ apState[Boot] = "online"
    /\ \A a \in Ids \ {Boot} : apState[a] # "off" =>
          bspPc # "enumerate" /\ \E i \in DOMAIN cpus : cpus[i].id = a
    /\ Starting => idx \in DOMAIN cpus /\ Id # Boot /\ mailStack = idx

(* As long as no CPU was given up on.                                      *)
InTurn ==
    givenUp = {} =>
        /\ \A a \in Ids : apState[a] \in {"waiting", "started", "onStack"} => Starting /\ a = Id
        /\ Starting /\ ready => apState[Id] = "online"
        /\ \A a \in Ids \ {Boot} : apState[a] \in {"onStack", "online"} =>
              apStack[a] \in DOMAIN cpus /\ cpus[apStack[a]].id = a

Recorded ==
    givenUp = {} =>
        /\ \A i \in DOMAIN cpus : cpus[i].online => apState[cpus[i].id] = "online"
        /\ \A i \in DOMAIN cpus : cpus[i].id = Boot => cpus[i].online
        /\ \A i \in DOMAIN cpus : cpus[i].online /\ (bspPc = "enumerate" \/ i >= idx)
                                      => cpus[i].id = Boot
        /\ bspPc \notin {"enumerate", "done"} => \A i \in DOMAIN cpus : i < idx => cpus[i].online
        /\ bspPc = "done" => \A i \in DOMAIN cpus : cpus[i].online

SmpInv == Types /\ TableSound /\ Started /\ InTurn /\ Recorded

(* The entries of s_cpus.                                                  *)
LEMMA CpusFacts ==
    ASSUME Types
    PROVE  /\ Len(cpus) \in Nat /\ DOMAIN cpus = 1 .. Len(cpus)
           /\ \A i \in DOMAIN cpus : cpus[i] \in [id : Nat, online : BOOLEAN]
           /\ \A i \in DOMAIN cpus : cpus[i].id \in Nat /\ cpus[i].online \in BOOLEAN
<1>1. Len(cpus) \in Nat /\ DOMAIN cpus = 1 .. Len(cpus)
    BY LenProperties, Zenon DEF Types
<1>2. \A i \in DOMAIN cpus : cpus[i] \in [id : Nat, online : BOOLEAN]
    BY <1>1, ElementOfSeq, Zenon DEF Types
<1> QED
    BY <1>1, <1>2, Zenon

(* The entries of the table of this machine.                               *)
LEMMA MadtFacts ==
    ASSUME madt \in Tables
    PROVE  /\ madt \in Seq([id : Nat, usable : BOOLEAN])
           /\ \A i, j \in DOMAIN madt : madt[i].id = madt[j].id => i = j
           /\ \A i \in DOMAIN madt : madt[i].id \in Ids /\ madt[i].id \in Nat
           /\ Boot \in Ids /\ Boot \in Nat
<1>1. madt \in Seq([id : Nat, usable : BOOLEAN])
    BY SmpAssumption, Zenon
<1>2. \A i, j \in DOMAIN madt : madt[i].id = madt[j].id => i = j
    BY SmpAssumption, Zenon
<1>3. \A i \in DOMAIN madt : madt[i] \in [id : Nat, usable : BOOLEAN]
    BY <1>1, LenProperties, ElementOfSeq, Zenon
<1>4. \A i \in DOMAIN madt : madt[i].id \in Ids /\ madt[i].id \in Nat
    BY <1>3, Zenon DEF Ids
<1> QED
    BY <1>1, <1>2, <1>4, SmpAssumption, Zenon DEF Ids

LEMMA SmpInitInv == SmpInit => SmpInv
<1> SUFFICES ASSUME SmpInit PROVE SmpInv
    OBVIOUS
<1>1. cpus = <<>> /\ DOMAIN cpus = {}
    BY DEF SmpInit
<1>2. Boot \in Ids
    BY Zenon DEF Ids
<1>3. Types
    <2>1. apState \in [Ids -> {"off", "waiting", "started", "onStack", "online"}]
        BY Zenon DEF SmpInit
    <2>2. cpus \in Seq([id : Nat, online : BOOLEAN])
        BY <1>1, EmptySeq, Zenon
    <2>3. madt \in Tables /\ idx \in Nat \ {0} /\ bspPc = "enumerate"
        BY DEF SmpInit
    <2>4. ready \in BOOLEAN
        BY Zenon DEF SmpInit
    <2>5. DOMAIN apStack = Ids
        BY Zenon DEF SmpInit
    <2> QED
        BY <2>1, <2>2, <2>3, <2>4, <2>5, Zenon DEF Types
<1>4. TableSound /\ Recorded
    BY <1>1, Zenon DEF TableSound, Recorded
<1>5. Started /\ InTurn
    BY <1>1, <1>2, Zenon DEF SmpInit, Started, InTurn, Starting
<1> QED
    BY <1>3, <1>4, <1>5, Zenon DEF SmpInv

LEMMA EnumerateInv == SmpInv /\ Enumerate => SmpInv'
<1> SUFFICES ASSUME SmpInv, Enumerate PROVE SmpInv'
    OBVIOUS
<1> USE DEF SmpInv
<1>1. /\ bspPc = "enumerate" /\ bspPc' = "enumerate" /\ idx' = idx + 1 /\ idx \in DOMAIN madt
      /\ UNCHANGED <<madt, ready, apState, apStack, givenUp, mailStack>> /\ Ids' = Ids
    BY MadtFacts DEF Enumerate, Types, apVars, Ids
<1>2. CASE cpus' = cpus
    <2>1. Types'
        BY <1>1, <1>2 DEF Types
    <2>2. \A j \in DOMAIN madt : j < idx => j < idx + 1
        BY MadtFacts DEF Types
    <2>3. TableSound'
        BY <1>1, <1>2, <2>2, Zenon DEF TableSound
    <2>4. Started' /\ InTurn' /\ Recorded'
        BY <1>1, <1>2, Zenon DEF Started, InTurn, Recorded, Starting
    <2> QED
        BY <2>1, <2>3, <2>4, Zenon
<1>3. CASE cpus' = Append(cpus, Entry(madt[idx]))
    <2> DEFINE n == Len(cpus) + 1
               e == Entry(madt[idx])
    <2>1. /\ madt[idx].id \in Ids /\ madt[idx].id \in Nat
          /\ e \in [id : Nat, online : BOOLEAN]
          /\ e.id = madt[idx].id /\ (e.online => e.id = Boot)
        BY <1>1, MadtFacts, Zenon DEF Types, Entry
    <2>2. /\ cpus' \in Seq([id : Nat, online : BOOLEAN])
          /\ DOMAIN cpus' = DOMAIN cpus \cup {n} /\ n \notin DOMAIN cpus
          /\ cpus'[n] = e /\ \A i \in DOMAIN cpus : cpus'[i] = cpus[i]
        BY <1>3, <2>1 DEF Types
    <2> HIDE DEF e, n
    <2>3. Types'
        BY <1>1, <2>2 DEF Types
    <2>4. \A i \in DOMAIN cpus : cpus[i].id # e.id
        <3> SUFFICES ASSUME NEW i \in DOMAIN cpus
                     PROVE  cpus[i].id # madt[idx].id
            BY <2>1, Zenon
        <3>1. PICK j \in DOMAIN madt : j < idx /\ cpus[i].id = madt[j].id
            BY <1>1, Zenon DEF TableSound
        <3>2. j # idx
            BY <3>1, MadtFacts DEF Types
        <3> QED
            BY <1>1, <3>1, <3>2, MadtFacts, Zenon DEF Types
    <2>5. TableSound'
        <3>1. \A i \in DOMAIN cpus' : cpus'[i].id \in Ids
            BY <2>1, <2>2, Zenon DEF TableSound
        <3>2. \A i, j \in DOMAIN cpus' : cpus'[i].id = cpus'[j].id => i = j
            BY <2>2, <2>4, Zenon DEF TableSound
        <3>3. \A i \in DOMAIN cpus' : \E j \in DOMAIN madt : j < idx + 1 /\ cpus'[i].id = madt[j].id
            <4> SUFFICES ASSUME NEW i \in DOMAIN cpus'
                         PROVE  \E j \in DOMAIN madt : j < idx + 1 /\ cpus'[i].id = madt[j].id
                OBVIOUS
            <4>1. CASE i = n
                BY <1>1, <2>1, <2>2, <4>1 DEF Types
            <4>2. CASE i \in DOMAIN cpus
                <5>1. PICK j \in DOMAIN madt : j < idx /\ cpus[i].id = madt[j].id
                    BY <1>1, <4>2, Zenon DEF TableSound
                <5>2. j < idx + 1
                    BY <5>1, MadtFacts DEF Types
                <5> QED
                    BY <2>2, <4>2, <5>1, <5>2, Zenon
            <4> QED
                BY <2>2, <4>1, <4>2, Zenon
        <3> QED
            BY <1>1, <3>1, <3>2, <3>3, Zenon DEF TableSound
    <2>6. Started' /\ InTurn'
        BY <1>1, <2>2, Zenon DEF Started, InTurn, Starting
    <2>7. Recorded'
        <3>1. e.id = Boot => e.online
            BY <1>1, MadtFacts, Zenon DEF e, Entry, Types
        <3>2. \A i \in DOMAIN cpus : givenUp = {} /\ cpus[i].online => cpus[i].id = Boot
            BY <1>1, Zenon DEF Recorded
        <3> QED
            BY <1>1, <2>1, <2>2, <3>1, <3>2 DEF Recorded, Started
    <2> QED
        BY <2>3, <2>5, <2>6, <2>7, Zenon
<1> QED
    BY <1>2, <1>3, Zenon DEF Enumerate

LEMMA EnumeratedInv == SmpInv /\ Enumerated => SmpInv'
<1> SUFFICES ASSUME SmpInv, Enumerated PROVE SmpInv'
    OBVIOUS
<1> USE DEF SmpInv
<1>1. /\ bspPc = "enumerate" /\ idx' = 1
      /\ UNCHANGED <<madt, ready, apState, apStack, givenUp, mailStack>> /\ Ids' = Ids
    BY Zenon DEF Enumerated, apVars, Ids
<1>2. \A a \in Ids \ {Boot} : apState[a] = "off"
    BY <1>1, Zenon DEF Started
<1>3. CASE cpus = <<>>
    <2>1. /\ bspPc' = "done" /\ cpus' = <<[id |-> Boot, online |-> TRUE]>>
        BY <1>3, Zenon DEF Enumerated
    <2>2. /\ cpus' \in Seq([id : Nat, online : BOOLEAN]) /\ DOMAIN cpus' = {1}
          /\ cpus'[1].id = Boot /\ cpus'[1].online
        BY <2>1, MadtFacts DEF Types
    <2>3. Boot \in Ids
        BY Zenon DEF Ids
    <2> QED
        BY <1>1, <1>2, <2>1, <2>2, <2>3
        DEF Types, TableSound, Started, InTurn, Recorded, Starting
<1>4. CASE cpus # <<>>
    <2>1. bspPc' = "next" /\ cpus' = cpus
        BY <1>4, Zenon DEF Enumerated
    <2>2. \A i \in DOMAIN cpus : i >= 1
        BY DEF Types
    <2> QED
        BY <1>1, <1>2, <2>1, <2>2 DEF Types, TableSound, Started, InTurn, Recorded, Starting
<1> QED
    BY <1>3, <1>4, Zenon

LEMMA StartApInv == SmpInv /\ StartAp => SmpInv'
<1> SUFFICES ASSUME SmpInv, StartAp PROVE SmpInv'
    OBVIOUS
<1> USE DEF SmpInv
<1>1. /\ bspPc = "next" /\ UNCHANGED <<madt, cpus, givenUp>> /\ Ids' = Ids
      /\ ~Starting
    BY Zenon DEF StartAp, Ids, Starting
<1>2. DOMAIN cpus = 1 .. Len(cpus) /\ Len(cpus) \in Nat
    BY DEF Types
<1>3. CASE idx > Len(cpus)
    <2>1. bspPc' = "done" /\ UNCHANGED <<idx, mailStack, ready, apState, apStack>>
        BY <1>3, Zenon DEF StartAp, apVars
    <2>2. \A i \in DOMAIN cpus : i < idx
        BY <1>2, <1>3 DEF Types
    <2> QED
        BY <1>1, <2>1, <2>2 DEF Types, TableSound, Started, InTurn, Recorded, Starting
<1>4. CASE idx <= Len(cpus) /\ Id = Boot
    <2>1. idx' = idx + 1 /\ UNCHANGED <<bspPc, mailStack, ready, apState, apStack>>
        BY <1>2, <1>4 DEF StartAp, apVars, Types
    <2>2. idx \in DOMAIN cpus
        BY <1>2, <1>4 DEF Types
    <2>3. givenUp = {} => cpus[idx].online
        BY <1>1, <1>4, <2>2, Zenon DEF Recorded, Id
    <2>4. Types' /\ TableSound' /\ Started' /\ InTurn'
        BY <1>1, <2>1 DEF Types, TableSound, Started, InTurn, Starting
    <2>5. \A i \in DOMAIN cpus : /\ i < idx + 1 => i < idx \/ i = idx
                                 /\ i >= idx + 1 => i >= idx
        BY <1>2 DEF Types
    <2>6. Recorded'
        BY <1>1, <2>1, <2>3, <2>5, Zenon DEF Recorded
    <2> QED
        BY <2>4, <2>6, Zenon
<1>5. CASE idx <= Len(cpus) /\ Id # Boot
    <2>1. /\ idx' = idx /\ mailStack' = idx /\ ready' = FALSE /\ bspPc' = "sipi"
          /\ apState' = [apState EXCEPT ![Id] = "waiting"]
          /\ apStack' = [apStack EXCEPT ![Id] = Nobody]
        BY <1>2, <1>5 DEF StartAp, Types
    <2>2. idx \in DOMAIN cpus /\ Id \in Ids /\ Id' = Id
        BY <1>1, <1>2, <1>5, <2>1 DEF Types, TableSound, Id
    <2>3. Types' /\ TableSound'
        BY <1>1, <2>1, <2>2, Zenon DEF Types, TableSound
    <2>4. Started'
        BY <1>1, <1>5, <2>1, <2>2 DEF Started, Starting, Types, Id
    <2>5. InTurn'
        BY <1>1, <1>5, <2>1, <2>2, Zenon DEF InTurn, Starting, Types
    <2>6. Recorded'
        <3>1. \A i \in DOMAIN cpus : givenUp = {} /\ cpus[i].online => cpus[i].id # Id
            BY <1>5, <2>2 DEF Recorded, TableSound, Id, Types
        <3> QED
            BY <1>1, <2>1, <2>2, <3>1, Zenon DEF Recorded, Types, TableSound
    <2> QED
        BY <2>3, <2>4, <2>5, <2>6, Zenon
<1> QED
    BY <1>2, <1>3, <1>4, <1>5 DEF Types

LEMMA SendSipiInv == SmpInv /\ SendSipi => SmpInv'
<1> SUFFICES ASSUME SmpInv, SendSipi PROVE SmpInv'
    OBVIOUS
<1> USE DEF SmpInv
<1>1. /\ Starting /\ bspPc' \in {"sipi2", "wait"} /\ Ids' = Ids
      /\ UNCHANGED <<madt, cpus, idx, mailStack, ready, apStack, givenUp>>
    BY Zenon DEF SendSipi, Ids, Starting
<1>2. idx \in DOMAIN cpus /\ Id \in Ids /\ Id # Boot /\ Id' = Id /\ mailStack = idx
    BY <1>1, Zenon DEF Started, TableSound, Id
<1>3. \/ apState' = apState
      \/ apState[Id] = "waiting" /\ apState' = [apState EXCEPT ![Id] = "started"]
    BY <1>2, Zenon DEF SendSipi, Types
<1>4. \/ apState' = apState
      \/ /\ apState[Id] = "waiting" /\ apState'[Id] = "started"
         /\ \A a \in Ids : a # Id => apState'[a] = apState[a]
         /\ apState' \in [Ids -> {"off", "waiting", "started", "onStack", "online"}]
    BY <1>2, <1>3, Zenon DEF Types
<1>5. Types' /\ TableSound'
    BY <1>1, <1>4, Zenon DEF Types, TableSound, Starting
<1>6. Started'
    <2>1. \A a \in Ids \ {Boot} : apState'[a] # "off" => apState[a] # "off"
        BY <1>4, Zenon
    <2>2. apState'[Boot] = "online"
        BY <1>2, <1>4, MadtFacts, Zenon DEF Types, Started
    <2> QED
        BY <1>1, <1>2, <2>1, <2>2, Zenon DEF Started, Starting
<1>7. InTurn'
    BY <1>1, <1>2, <1>4, Zenon DEF InTurn, Starting, Types
<1>8. Recorded'
    BY <1>1, <1>2, <1>4 DEF Recorded, TableSound, Starting
<1> QED
    BY <1>5, <1>6, <1>7, <1>8, Zenon

(* Recording whether the CPU came or not changes no id.                    *)
LEMMA RecordFacts ==
    ASSUME Types, idx \in DOMAIN cpus, NEW b \in BOOLEAN,
           cpus' = [cpus EXCEPT ![idx].online = b]
    PROVE  /\ cpus' \in Seq([id : Nat, online : BOOLEAN])
           /\ DOMAIN cpus' = DOMAIN cpus
           /\ \A i \in DOMAIN cpus : /\ cpus'[i].id = cpus[i].id
                                     /\ cpus'[i].online = IF i = idx THEN b ELSE cpus[i].online
<1> DEFINE e == [cpus[idx] EXCEPT !.online = b]
<1>1. \A i \in DOMAIN cpus : cpus[i] \in [id : Nat, online : BOOLEAN]
    BY CpusFacts, Zenon
<1>2. e \in [id : Nat, online : BOOLEAN] /\ e.id = cpus[idx].id /\ e.online = b
    BY <1>1, Zenon
<1>3. cpus' = [cpus EXCEPT ![idx] = e]
    OBVIOUS
<1> HIDE DEF e
<1>4. /\ cpus' \in Seq([id : Nat, online : BOOLEAN]) /\ DOMAIN cpus' = DOMAIN cpus
      /\ cpus'[idx] = e /\ \A i \in DOMAIN cpus : i # idx => cpus'[i] = cpus[i]
    <2>1. cpus \in Seq([id : Nat, online : BOOLEAN]) /\ idx \in 1 .. Len(cpus)
        BY CpusFacts, Zenon DEF Types
    <2>2. cpus' \in Seq([id : Nat, online : BOOLEAN])
        <3>1. [cpus EXCEPT ![idx] = e] \in Seq([id : Nat, online : BOOLEAN])
            BY <1>2, <2>1, ExceptSeq, Zenon
        <3> QED
            BY <1>3, <3>1, Zenon
    <2>3. cpus \in [1 .. Len(cpus) -> [id : Nat, online : BOOLEAN]]
        BY <2>1, LenProperties, Zenon
    <2>4. DOMAIN cpus' = DOMAIN cpus
        BY <1>3, <2>3, Zenon
    <2>5. cpus'[idx] = e /\ \A i \in DOMAIN cpus : i # idx => cpus'[i] = cpus[i]
        BY <1>3, <2>1, <2>3, Zenon
    <2> QED
        BY <2>2, <2>4, <2>5, Zenon
<1> QED
    BY <1>2, <1>4, Zenon

LEMMA SeesReadyInv == SmpInv /\ SeesReady => SmpInv'
<1> SUFFICES ASSUME SmpInv, SeesReady PROVE SmpInv'
    OBVIOUS
<1> USE DEF SmpInv
<1>1. /\ Starting /\ ready /\ bspPc' = "next" /\ idx' = idx + 1 /\ Ids' = Ids
      /\ UNCHANGED <<madt, mailStack, ready, apState, apStack, givenUp>>
      /\ cpus' = [cpus EXCEPT ![idx].online = TRUE]
    BY Zenon DEF SeesReady, Ids, Starting, apVars
<1>2. idx \in DOMAIN cpus
    BY <1>1, Zenon DEF Started
<1>3. /\ cpus' \in Seq([id : Nat, online : BOOLEAN])
      /\ DOMAIN cpus' = DOMAIN cpus
      /\ \A i \in DOMAIN cpus : /\ cpus'[i].id = cpus[i].id
                                /\ cpus'[i].online = IF i = idx THEN TRUE ELSE cpus[i].online
    BY <1>1, <1>2, RecordFacts, Zenon
<1>4. Types' /\ TableSound' /\ Started'
    BY <1>1, <1>3 DEF Types, TableSound, Started, Starting
<1>5. givenUp = {} => apState[cpus[idx].id] = "online"
    BY <1>1, Zenon DEF InTurn, Id
<1>6. InTurn'
    BY <1>1, <1>3, <1>5, Zenon DEF InTurn, Starting, Id
<1>7. Recorded'
    <2>1. \A i \in DOMAIN cpus : i \in Int
        BY DEF Types
    <2> QED
        BY <1>1, <1>3, <1>5, <2>1, SMTT(30) DEF Recorded, Types, Starting
<1> QED
    BY <1>4, <1>6, <1>7, Zenon

LEMMA GivesUpInv == SmpInv /\ GivesUp => SmpInv'
<1> SUFFICES ASSUME SmpInv, GivesUp PROVE SmpInv'
    OBVIOUS
<1> USE DEF SmpInv
<1>1. /\ Starting /\ bspPc' = "next" /\ idx' = idx + 1 /\ Ids' = Ids
      /\ UNCHANGED <<madt, mailStack, ready, apState, apStack>>
      /\ cpus' = [cpus EXCEPT ![idx].online = FALSE]
      /\ givenUp' # {}
    BY Zenon DEF GivesUp, Ids, Starting, apVars
<1>2. idx \in DOMAIN cpus
    BY <1>1, Zenon DEF Started
<1>3. /\ cpus' \in Seq([id : Nat, online : BOOLEAN])
      /\ DOMAIN cpus' = DOMAIN cpus
      /\ \A i \in DOMAIN cpus : cpus'[i].id = cpus[i].id
    BY <1>1, <1>2, RecordFacts, Zenon
<1>4. Types' /\ TableSound' /\ Started'
    BY <1>1, <1>3, SMTT(30) DEF Types, TableSound, Started, Starting
<1> QED
    BY <1>1, <1>4, Zenon DEF InTurn, Recorded

LEMMA ApStepInv ==
    ASSUME SmpInv, NEW a \in Ids, ApStep(a)
    PROVE  SmpInv'
<1> USE DEF SmpInv
<1>1. CASE LoadsStack(a)
    <2>1. /\ apState[a] = "started" /\ a # Boot /\ Ids' = Ids
          /\ apStack' = [apStack EXCEPT ![a] = mailStack]
          /\ apState' = [apState EXCEPT ![a] = "onStack"]
          /\ UNCHANGED <<madt, cpus, bspPc, idx, mailStack, ready, givenUp>>
        BY <1>1 DEF LoadsStack, Ids, Started
    <2>2. Types' /\ TableSound' /\ Started'
        BY <2>1 DEF Types, TableSound, Started, Starting, Id
    <2>3. InTurn'
        BY <2>1 DEF InTurn, Started, Starting, Types, Id
    <2>4. Recorded'
        BY <2>1, Zenon DEF Recorded, Types, TableSound
    <2> QED
        BY <2>2, <2>3, <2>4, Zenon
<1>2. CASE Reports(a)
    <2>1. /\ apState[a] = "onStack" /\ a # Boot /\ Ids' = Ids /\ ready' = TRUE
          /\ apState' = [apState EXCEPT ![a] = "online"]
          /\ UNCHANGED <<madt, cpus, bspPc, idx, mailStack, apStack, givenUp>>
        BY <1>2 DEF Reports, Ids, Started
    <2>2. Types' /\ TableSound' /\ Started'
        BY <2>1, SMTT(30) DEF Types, TableSound, Started, Starting, Id
    <2>3. InTurn'
        BY <2>1 DEF InTurn, Started, Starting, Types, Id
    <2>4. Recorded'
        BY <2>1, Zenon DEF Recorded, Types, TableSound
    <2> QED
        BY <2>2, <2>3, <2>4, Zenon
<1> QED
    BY <1>1, <1>2, Zenon DEF ApStep

LEMMA SmpNextInv == SmpInv /\ [SmpNext]_smpVars => SmpInv'
<1> SUFFICES ASSUME SmpInv, [SmpNext]_smpVars PROVE SmpInv'
    BY SMTT(30)
<1>1. CASE UNCHANGED smpVars
    BY <1>1, SMTT(30)
    DEF smpVars, SmpInv, Types, TableSound, Started, InTurn, Recorded, Starting, Id, Ids
<1>2. CASE BspStep
    BY <1>2, EnumerateInv, EnumeratedInv, StartApInv, SendSipiInv, SeesReadyInv,
       GivesUpInv, Zenon
    DEF BspStep
<1>3. ASSUME NEW a \in Ids, ApStep(a)
      PROVE  SmpInv'
    BY <1>3, ApStepInv, Zenon
<1> QED
    BY <1>1, <1>2, <1>3, Zenon DEF SmpNext

LEMMA SmpInvariant == SmpSpec => []SmpInv
BY SmpInitInv, SmpNextInv, PTL DEF SmpSpec

(* Two CPUs that run never have the same stack, unless one was given up on *)
(* (smp.cpp:299-331).                                                      *)
THEOREM StackPerCpu == SmpSpec => []StacksApart
<1>1. SmpInv => StacksApart
    BY SMTT(30) DEF SmpInv, InTurn, StacksApart, Running
<1> QED
    BY <1>1, SmpInvariant, PTL

(* The table records the CPUs that run, unless one was given up on         *)
(* (smp.cpp:173-184, 299-331).                                             *)
THEOREM TableRecords == SmpSpec => []OnlineIsRunning
<1>1. SmpInv => OnlineIsRunning
    <2> SUFFICES ASSUME SmpInv, givenUp = {}
                 PROVE  /\ \A i \in DOMAIN cpus : cpus[i].online => apState[cpus[i].id] = "online"
                        /\ bspPc = "done" => \A i \in DOMAIN cpus :
                                cpus[i].online = (cpus[i].id \in Running)
        BY Zenon DEF OnlineIsRunning
    <2>1. \A i \in DOMAIN cpus : cpus[i].online \in BOOLEAN
        BY CpusFacts, Zenon DEF SmpInv
    <2>2. \A i \in DOMAIN cpus : cpus[i].online => cpus[i].id \in Running
        BY Zenon DEF SmpInv, TableSound, Recorded, Running
    <2> QED
        BY <2>1, <2>2, Zenon DEF SmpInv, Recorded
<1> QED
    BY <1>1, SmpInvariant, PTL

(* Two CPUs that run never have the same index, late ones included         *)
(* (smp.cpp:353-362).                                                      *)
THEOREM IndexPerCpu == SmpSpec => []IndicesDistinct
<1>1. SmpInv => IndicesDistinct
    <2> SUFFICES ASSUME SmpInv, \E i \in DOMAIN cpus : cpus[i].id = Boot,
                        NEW a \in Running, NEW b \in Running, a # b
                 PROVE  CpuIndex(a) # CpuIndex(b)
        BY Zenon DEF IndicesDistinct
    <2>1. /\ \E i \in DOMAIN cpus : cpus[i].id = a
          /\ \E i \in DOMAIN cpus : cpus[i].id = b
        BY Zenon DEF SmpInv, Started, Running
    <2>2. cpus[CpuIndex(a)].id = a /\ cpus[CpuIndex(b)].id = b
        BY <2>1, Zenon DEF CpuIndex
    <2> QED
        BY <2>2, Zenon
<1> QED
    BY <1>1, SmpInvariant, PTL

-----------------------------------------------------------------------------
(* Neither the table nor the boot CPU's index leaves its array             *)
(* (smp.cpp:173-184, 299-331).                                             *)
Bounded == SmpTypeOK /\ (bspPc = "next" => idx <= Len(cpus) + 1)

LEMMA BoundedStep == SmpInv /\ Bounded /\ [SmpNext]_smpVars => Bounded'
<1> SUFFICES ASSUME SmpInv, Bounded, [SmpNext]_smpVars PROVE Bounded'
    OBVIOUS
<1> USE SmpAssumption DEF Bounded, SmpTypeOK
<1>0. /\ Len(cpus) \in Nat /\ DOMAIN cpus = 1 .. Len(cpus) /\ Len(madt) \in Nat
      /\ bspPc \in {"sipi", "sipi2", "wait"} => idx \in DOMAIN cpus
    <2>1. madt \in Seq([id : Nat, usable : BOOLEAN])
        BY Zenon DEF SmpInv, Types
    <2>2. bspPc \in {"sipi", "sipi2", "wait"} => idx \in DOMAIN cpus
        BY Zenon DEF SmpInv, Started, Starting
    <2>3. cpus \in Seq([id : Nat, online : BOOLEAN])
        BY Zenon DEF SmpInv, Types
    <2> QED
        BY <2>1, <2>2, <2>3
<1>1. CASE Enumerate
    <2>1. Len(cpus') \in {Len(cpus), Len(cpus) + 1} /\ Len(cpus') <= MaxCpus
        BY <1>0, <1>1 DEF Enumerate, SmpInv, Types
    <2> QED
        BY <1>0, <1>1, <2>1 DEF Enumerate
<1>2. CASE Enumerated
    <2>1. idx' = 1 /\ bspPc' \in {"done", "next"} /\ UNCHANGED <<mailStack, ready>>
        BY <1>2, Zenon DEF Enumerated
    <2>2. Len(cpus') \in Nat /\ Len(cpus') <= MaxCpus
        <3>1. cpus' = <<[id |-> Boot, online |-> TRUE]>> \/ UNCHANGED cpus
            BY <1>2, Zenon DEF Enumerated
        <3>2. 1 <= MaxCpus
            OBVIOUS
        <3>3. CASE cpus' = <<[id |-> Boot, online |-> TRUE]>>
            <4> DEFINE first == [id |-> Boot, online |-> TRUE]
            <4>1. cpus' = <<first>>
                BY <3>3, Zenon
            <4> HIDE DEF first
            <4>2. Len(cpus') = 1
                BY <4>1, Zenon
            <4> QED
                BY <3>2, <4>2
        <3> QED
            BY <1>0, <3>1, <3>3, Zenon
    <2> QED
        BY <2>1, <2>2
<1>3. CASE StartAp
    <2>1. idx \in Nat /\ idx <= Len(cpus) + 1 /\ UNCHANGED cpus
        BY <1>0, <1>3, Zenon DEF StartAp, SmpInv, Types
    <2>2. CASE idx > Len(cpus)
        BY <1>0, <1>3, <2>1, <2>2, Zenon DEF StartAp
    <2>3. CASE idx <= Len(cpus) /\ Id = Boot
        BY <1>0, <1>3, <2>1, <2>3 DEF StartAp
    <2>4. CASE idx <= Len(cpus) /\ Id # Boot
        <3>1. mailStack' = idx /\ bspPc' = "sipi" /\ idx' = idx
            BY <1>0, <1>3, <2>1, <2>4 DEF StartAp
        <3>2. ready' \in BOOLEAN
            <4>1. ~(idx > Len(cpus))
                BY <1>0, <2>1, <2>4
            <4> QED
                BY <1>3, <2>4, <4>1, Zenon DEF StartAp
        <3> QED
            BY <1>0, <2>1, <2>4, <3>1, <3>2
    <2> QED
        BY <1>0, <2>1, <2>2, <2>3, <2>4
<1>4. CASE SendSipi
    BY <1>0, <1>4, Zenon DEF SendSipi
<1>5. CASE SeesReady \/ GivesUp
    <2>1. Len(cpus') = Len(cpus)
        BY <1>0, <1>5 DEF SeesReady, GivesUp, SmpInv, Types
    <2> QED
        BY <1>0, <1>5, <2>1 DEF SeesReady, GivesUp
<1>6. ASSUME NEW a \in Ids, ApStep(a)
      PROVE  Bounded'
    BY <1>6, Zenon DEF ApStep, LoadsStack, Reports
<1>7. CASE UNCHANGED smpVars
    BY <1>7, Zenon DEF smpVars
<1> QED
    BY <1>1, <1>2, <1>3, <1>4, <1>5, <1>6, <1>7, Zenon DEF SmpNext, BspStep

(* Bringing up the CPUs keeps them apart: stacks, indices and records      *)
(* together, within the bounds of the table (smp.cpp:173-184, 299-362).    *)
THEOREM CpusSeparate == SmpSpec => []CpusApart
<1>1. SmpInit => Bounded
    <2> SUFFICES ASSUME SmpInit PROVE Bounded
        OBVIOUS
    <2>1. madt \in Seq([id : Nat, usable : BOOLEAN])
        BY SmpAssumption, Zenon DEF SmpInit
    <2>2. Len(madt) \in Nat /\ Len(cpus) = 0
        BY <2>1 DEF SmpInit
    <2>3. ready \in BOOLEAN
        BY Zenon DEF SmpInit
    <2>4. bspPc = "enumerate" /\ idx = 1 /\ mailStack = 0
        BY Zenon DEF SmpInit
    <2> QED
        BY <2>2, <2>3, <2>4, SmpAssumption DEF Bounded, SmpTypeOK
<1>2. SmpSpec => []Bounded
    BY <1>1, BoundedStep, SmpInvariant, PTL DEF SmpSpec
<1> QED
    BY <1>2, StackPerCpu, TableRecords, IndexPerCpu, PTL DEF CpusApart, Bounded

-----------------------------------------------------------------------------
(* The event queues, for any size of the queue and any number of events.   *)
(* The inductive invariant says what each side may still rely on of what   *)
(* it has read, and that the events which wait are the last ones sent.     *)

(* The ring, without remainders: how many events wait, and where the i-th  *)
(* of them is.                                                             *)
Distance(h, t) == IF h >= t THEN h - t ELSE h - t + QueueSize
Place(t, i) == IF t + i - 1 < QueueSize THEN t + i - 1 ELSE t + i - 1 - QueueSize
Held == Distance(eqHead, eqTail)
Where(i) == Place(eqTail, i)

EqTyped ==
    /\ eqHead \in EqSlots /\ eqTail \in EqSlots
    /\ sendHead \in EqSlots /\ sendTail \in EqSlots /\ pollTail \in EqSlots
    /\ slots \in [EqSlots -> 0 .. MaxEvents]
    /\ polled \in 0 .. MaxEvents
    /\ delivered \in Seq(0 .. MaxEvents)
    /\ sent \in 0 .. MaxEvents /\ since \in 0 .. sent
    /\ sendPc \in {"idle", "drop", "store", "publish"}
    /\ pollPc \in {"idle", "event", "char", "next", "charNext", "again"}
    /\ sendPc # "idle" => sent < MaxEvents

(* What the sender has read still holds: only it moves the head, and the   *)
(* process makes room at most.                                             *)
SenderOK ==
    /\ sendPc # "idle" => sendHead = eqHead
    /\ sendPc = "drop" => sendTail = eqTail /\ pollPc = "idle" /\ dropped /\ eqHead # eqTail
    /\ sendPc \in {"store", "publish"} => ~Full(eqHead, eqTail)
    /\ sendPc = "publish" => slots[eqHead] = sent + 1

(* What the process has read still holds: the event it takes is there.     *)
PollerOK ==
    /\ pollPc \in {"event", "char", "next", "charNext"} => eqHead # eqTail
    /\ pollPc \in {"next", "charNext"} => pollTail = eqTail /\ polled = slots[eqTail]
    /\ pollPc \in {"char", "charNext", "again"} => queueKind = "key"

(* The events that wait are the last ones sent.                            *)
WaitingOK ==
    /\ Held <= sent - since
    /\ \A i \in 1 .. Held : slots[Where(i)] = sent - Held + i

(* The events delivered come before those, in order, and are all of them   *)
(* but the silent ones.                                                    *)
DeliveredOK ==
    /\ \A i \in DOMAIN delivered : delivered[i] \in 1 .. sent - Held
    /\ \A i \in 2 .. Len(delivered) : delivered[i - 1] < delivered[i]

Accounted(e) ==
    (\E i \in DOMAIN delivered : delivered[i] = e) \/ (e \in Silent /\ queueKind = "key")
AccountedOK == ~dropped => \A e \in since + 1 .. sent - Held : Accounted(e)

EqInv == EqTyped /\ (~crossed => SenderOK /\ PollerOK /\ WaitingOK /\ DeliveredOK /\ AccountedOK)

-----------------------------------------------------------------------------
(* The ring's arithmetic.                                                  *)

LEMMA RingRemainder ==
    ASSUME NEW n \in Nat \ {0}, NEW x \in Int
    PROVE  /\ x \in 0 .. n - 1 => x % n = x
           /\ x \in n .. 2 * n - 1 => x % n = x - n
           /\ x \in -n .. -1 => x % n = x + n
<1>1. x \in 0 .. n - 1 => x % n = x
    OBVIOUS
<1>2. x \in n .. 2 * n - 1 => x % n = x - n
    OBVIOUS
<1>3. x \in -n .. -1 => x % n = x + n
    OBVIOUS
<1> QED
    BY <1>1, <1>2, <1>3, Zenon

LEMMA RingSize == QueueSize \in Nat \ {0} /\ QueueSize > 1 /\ MaxEvents \in Nat
BY EventQueueAssumption

LEMMA AfterIs ==
    ASSUME NEW x \in EqSlots
    PROVE  /\ After(x) = IF x + 1 = QueueSize THEN 0 ELSE x + 1
           /\ After(x) \in EqSlots
<1>1. (x + 1 \in 0 .. QueueSize - 1 \/ x + 1 = QueueSize) /\ x + 1 \in Int
    BY RingSize DEF EqSlots
<1>2. CASE x + 1 \in 0 .. QueueSize - 1
    <2>1. (x + 1) % QueueSize = x + 1
        BY <1>1, <1>2, RingSize, RingRemainder, Zenon
    <2> QED
        BY <1>2, <2>1, RingSize DEF After, EqSlots
<1>3. CASE x + 1 = QueueSize
    <2>1. x + 1 \in QueueSize .. 2 * QueueSize - 1 /\ x + 1 \in Int
        BY <1>3, RingSize
    <2>2. (x + 1) % QueueSize = (x + 1) - QueueSize
        BY <2>1, RingSize, RingRemainder, Zenon
    <2> QED
        BY <1>3, <2>2, RingSize DEF After, EqSlots
<1> QED
    BY <1>1, <1>2, <1>3, Zenon

LEMMA AfterApart ==
    ASSUME NEW x \in EqSlots, NEW y \in EqSlots
    PROVE  (x # y => After(x) # After(y)) /\ After(x) # x
<1>1. /\ After(x) = IF x + 1 = QueueSize THEN 0 ELSE x + 1
      /\ After(y) = IF y + 1 = QueueSize THEN 0 ELSE y + 1
    BY AfterIs, Zenon
<1> QED
    BY <1>1, RingSize DEF EqSlots

LEMMA HeldFacts ==
    ASSUME NEW h \in EqSlots, NEW t \in EqSlots
    PROVE  /\ Distance(h, t) \in 0 .. QueueSize - 1
           /\ h # t => Distance(h, t) >= 1
           /\ h = t => Distance(h, t) = 0
           /\ Place(t, 1) = t
           /\ \A i \in 1 .. Distance(h, t) : Place(t, i) \in EqSlots /\ Place(t, i) # h
BY RingSize DEF Distance, Place, EqSlots

(* The head moves on: one more event waits, in the slot it left.           *)
LEMMA HeadOn ==
    ASSUME NEW h \in EqSlots, NEW t \in EqSlots, After(h) # t
    PROVE  /\ Distance(After(h), t) = Distance(h, t) + 1
           /\ Place(t, Distance(h, t) + 1) = h
<1>1. After(h) = IF h + 1 = QueueSize THEN 0 ELSE h + 1
    BY AfterIs, Zenon
<1> QED
    BY <1>1, RingSize DEF Distance, Place, EqSlots

(* The tail moves on: the oldest event is gone.                            *)
LEMMA TailOn ==
    ASSUME NEW h \in EqSlots, NEW t \in EqSlots, h # t
    PROVE  /\ Distance(h, After(t)) = Distance(h, t) - 1
           /\ \A i \in 1 .. Distance(h, t) - 1 : Place(After(t), i) = Place(t, i + 1)
<1>1. After(t) = IF t + 1 = QueueSize THEN 0 ELSE t + 1
    BY AfterIs, Zenon
<1> QED
    BY <1>1, RingSize DEF Distance, Place, EqSlots

-----------------------------------------------------------------------------
(* What a step leaves alone.                                               *)

LEMMA QueueStays ==
    ASSUME WaitingOK, DeliveredOK, AccountedOK, dropped => dropped',
           UNCHANGED <<slots, eqHead, eqTail, sent, since, delivered, queueKind>>
    PROVE  WaitingOK' /\ DeliveredOK' /\ AccountedOK'
<1>1. Held' = Held /\ \A i : Where(i)' = Where(i)
    BY Zenon DEF Held, Where
<1>2. WaitingOK'
    BY <1>1, Zenon DEF WaitingOK
<1>3. DeliveredOK'
    BY <1>1, Zenon DEF DeliveredOK
<1>4. \A e : Accounted(e)' <=> Accounted(e)
    BY Zenon DEF Accounted
<1>5. AccountedOK'
    BY <1>1, <1>4, Zenon DEF AccountedOK
<1> QED
    BY <1>2, <1>3, <1>5, Zenon

(* The oldest event leaves the queue: it is delivered, is silent, or is    *)
(* dropped.                                                                *)
LEMMA OldestLeaves ==
    ASSUME EqTyped, WaitingOK, eqHead # eqTail, eqTail' = After(eqTail),
           UNCHANGED <<slots, eqHead, sent, since>>
    PROVE  /\ WaitingOK' /\ Held' = Held - 1 /\ Held \in 1 .. QueueSize - 1
           /\ slots[eqTail] = sent - Held'
           /\ since <= sent - Held /\ ~Full(eqHead, eqTail')
<1>1. /\ eqHead \in EqSlots /\ eqTail \in EqSlots /\ sent \in Nat /\ since \in Nat
      /\ Held <= sent - since /\ \A i \in 1 .. Held : slots[Where(i)] = sent - Held + i
    BY RingSize DEF EqTyped, WaitingOK
<1>2. /\ Held \in 1 .. QueueSize - 1 /\ Where(1) = eqTail
    BY <1>1, HeldFacts, RingSize DEF Held, Where
<1>3. Held' = Held - 1 /\ \A i \in 1 .. Held - 1 : Where(i)' = Where(i + 1)
    <2>1. /\ Distance(eqHead, After(eqTail)) = Distance(eqHead, eqTail) - 1
          /\ \A i \in 1 .. Distance(eqHead, eqTail) - 1 :
                Place(After(eqTail), i) = Place(eqTail, i + 1)
        BY <1>1, TailOn, Zenon
    <2> QED
        BY <2>1, Zenon DEF Held, Where
<1>4. slots[eqTail] = sent - Held'
    <2>1. 1 \in 1 .. Held
        BY <1>2
    <2>2. slots[eqTail] = sent - Held + 1
        BY <2>1, <1>1, <1>2, Zenon
    <2> QED
        BY <2>2, <1>1, <1>2, <1>3
<1>5. \A i \in 1 .. Held' : slots'[Where(i)'] = sent' - Held' + i
    <2> SUFFICES ASSUME NEW i \in 1 .. Held - 1 PROVE slots[Where(i)'] = sent - Held' + i
        BY <1>3, Zenon
    <2>1. i + 1 \in 1 .. Held
        BY <1>2
    <2>2. slots[Where(i)'] = sent - Held + (i + 1)
        BY <2>1, <1>1, <1>3, Zenon
    <2> QED
        BY <2>2, <1>1, <1>2, <1>3
<1>6. Held' <= sent' - since' /\ since <= sent - Held
    BY <1>1, <1>2, <1>3
<1>7. ~Full(eqHead, eqTail')
    BY <1>1, AfterApart, Zenon DEF Full
<1> QED
    BY <1>2, <1>3, <1>4, <1>5, <1>6, <1>7, Zenon DEF WaitingOK

-----------------------------------------------------------------------------
(* The invariant, one step after another.                                  *)

LEMMA EqInitHolds == EqInit => EqInv
<1> SUFFICES ASSUME EqInit PROVE EqInv
    OBVIOUS
<1>1. /\ slots = [i \in EqSlots |-> 0] /\ eqHead = 0 /\ eqTail = 0 /\ sent = 0 /\ since = 0
      /\ sendHead = 0 /\ sendTail = 0 /\ pollTail = 0 /\ polled = 0 /\ delivered = <<>>
      /\ sendPc = "idle" /\ pollPc = "idle"
    BY Zenon DEF EqInit
<1>2. 0 \in EqSlots
    BY RingSize DEF EqSlots
<1>3. Held = 0
    BY <1>1, <1>2, HeldFacts, Zenon DEF Held
<1>4. EqTyped
    <2>1. 0 \in 0 .. MaxEvents /\ 0 \in 0 .. 0 /\ <<>> \in Seq(0 .. MaxEvents)
        BY RingSize
    <2> QED
        BY <1>1, <1>2, <2>1, Zenon DEF EqTyped
<1>5. SenderOK /\ PollerOK
    BY <1>1 DEF SenderOK, PollerOK
<1>6. WaitingOK /\ DeliveredOK /\ AccountedOK
    <2>1. Held <= sent - since /\ 1 .. Held = {} /\ since + 1 .. sent - Held = {}
        BY <1>1, <1>3
    <2>2. DOMAIN delivered = {} /\ 2 .. Len(delivered) = {}
        BY <1>1
    <2> QED
        BY <2>1, <2>2, Zenon DEF WaitingOK, DeliveredOK, AccountedOK
<1> QED
    BY <1>4, <1>5, <1>6, Zenon DEF EqInv

LEMMA EqStutterKeeps ==
    ASSUME EqInv, UNCHANGED eqVars
    PROVE  EqInv'
<1>1. /\ UNCHANGED <<queueKind, slots, eqHead, eqTail, sendPc, sendHead, sendTail>>
      /\ UNCHANGED <<pollPc, pollTail, polled, sent, delivered, since, dropped, crossed>>
    BY Zenon DEF eqVars
<1>2. EqTyped'
    BY <1>1, Zenon DEF EqInv, EqTyped
<1>3. ASSUME ~crossed'
      PROVE  SenderOK' /\ PollerOK' /\ WaitingOK' /\ DeliveredOK' /\ AccountedOK'
    <2>1. SenderOK /\ PollerOK /\ WaitingOK /\ DeliveredOK /\ AccountedOK
        BY <1>1, <1>3, Zenon DEF EqInv
    <2>2. SenderOK' /\ PollerOK'
        BY <1>1, <2>1, Zenon DEF SenderOK, PollerOK, Full, After
    <2> QED
        BY <1>1, <2>1, <2>2, QueueStays, Zenon
<1> QED
    BY <1>2, <1>3, Zenon DEF EqInv

LEMMA SendKeeps ==
    ASSUME EqInv, Send
    PROVE  EqInv'
<1>1. /\ sendPc = "idle" /\ sent < MaxEvents
      /\ sendHead' = eqHead /\ sendTail' = eqTail
      /\ sendPc' = IF Full(eqHead, eqTail) THEN "drop" ELSE "store"
      /\ UNCHANGED <<queueKind, slots, eqHead, eqTail, sent>>
      /\ UNCHANGED <<pollPc, pollTail, polled, delivered, since>>
    BY Zenon DEF Send, pollerVars, toggleVars
<1>2. EqTyped
    BY Zenon DEF EqInv
<1>3. EqTyped'
    BY <1>1, <1>2, Zenon DEF EqTyped
<1>4. ASSUME ~crossed'
      PROVE  SenderOK' /\ PollerOK' /\ WaitingOK' /\ DeliveredOK' /\ AccountedOK'
    <2>1. ~crossed /\ (Full(eqHead, eqTail) => pollPc = "idle" /\ dropped') /\ (dropped => dropped')
        BY <1>4, Zenon DEF Send
    <2>2. SenderOK /\ PollerOK /\ WaitingOK /\ DeliveredOK /\ AccountedOK
        BY <2>1, Zenon DEF EqInv
    <2>3. Full(eqHead, eqTail) => eqHead # eqTail
        BY <1>2, AfterApart, Zenon DEF Full, EqTyped
    <2>4. Full(eqHead, eqTail)' <=> Full(eqHead, eqTail)
        BY <1>1, Zenon DEF Full, After
    <2>5. SenderOK'
        <3>1. CASE Full(eqHead, eqTail)
            BY <3>1, <1>1, <2>1, <2>3, Zenon DEF SenderOK
        <3>2. CASE ~Full(eqHead, eqTail)
            BY <3>2, <1>1, <2>4, Zenon DEF SenderOK
        <3> QED
            BY <3>1, <3>2, Zenon
    <2>6. PollerOK'
        BY <1>1, <2>2, Zenon DEF PollerOK
    <2> QED
        BY <1>1, <2>1, <2>2, <2>5, <2>6, QueueStays, Zenon
<1> QED
    BY <1>3, <1>4, Zenon DEF EqInv

LEMMA DropKeeps ==
    ASSUME EqInv, Drop
    PROVE  EqInv'
<1>1. /\ sendPc = "drop" /\ sendPc' = "store"
      /\ \E t \in {sendTail, eqTail} : eqTail' = After(t)
      /\ UNCHANGED <<queueKind, slots, eqHead, sendHead, sendTail, sent, dropped, crossed>>
      /\ UNCHANGED <<pollPc, pollTail, polled, delivered, since>>
    BY Zenon DEF Drop, pollerVars, toggleVars
<1>2. EqTyped
    BY Zenon DEF EqInv
<1>3. EqTyped'
    <2>1. eqTail' \in EqSlots
        BY <1>1, <1>2, AfterIs, Zenon DEF EqTyped
    <2> QED
        BY <1>1, <1>2, <2>1, Zenon DEF EqTyped
<1>4. ASSUME ~crossed'
      PROVE  SenderOK' /\ PollerOK' /\ WaitingOK' /\ DeliveredOK' /\ AccountedOK'
    <2>1. SenderOK /\ PollerOK /\ WaitingOK /\ DeliveredOK /\ AccountedOK
        BY <1>1, <1>4, Zenon DEF EqInv
    <2>2. sendTail = eqTail /\ pollPc = "idle" /\ dropped /\ eqHead # eqTail /\ sendHead = eqHead
        BY <1>1, <2>1, Zenon DEF SenderOK
    <2>3. eqTail' = After(eqTail)
        BY <1>1, <2>2, Zenon
    <2>4. WaitingOK' /\ Held' = Held - 1 /\ Held \in 1 .. QueueSize - 1 /\ ~Full(eqHead, eqTail')
        BY <1>1, <1>2, <2>1, <2>2, <2>3, OldestLeaves, Zenon
    <2>5. SenderOK'
        BY <1>1, <2>2, <2>4, Zenon DEF SenderOK, Full, After
    <2>6. PollerOK'
        BY <1>1, <2>2, Zenon DEF PollerOK
    <2>7. DeliveredOK'
        <3>1. sent \in Nat /\ 1 .. sent - Held \subseteq 1 .. sent - Held'
            BY <1>2, <2>4, RingSize DEF EqTyped
        <3> QED
            BY <1>1, <2>1, <3>1, Zenon DEF DeliveredOK
    <2>8. AccountedOK'
        BY <1>1, <2>2, Zenon DEF AccountedOK
    <2> QED
        BY <2>4, <2>5, <2>6, <2>7, <2>8, Zenon
<1> QED
    BY <1>3, <1>4, Zenon DEF EqInv

LEMMA StoreKeeps ==
    ASSUME EqInv, Store
    PROVE  EqInv'
<1>1. /\ sendPc = "store" /\ sendPc' = "publish"
      /\ slots' = [slots EXCEPT ![sendHead] = sent + 1]
      /\ UNCHANGED <<queueKind, eqHead, eqTail, sendHead, sendTail, sent, dropped, crossed>>
      /\ UNCHANGED <<pollPc, pollTail, polled, delivered, since>>
    BY Zenon DEF Store, pollerVars, toggleVars
<1>2. EqTyped
    BY Zenon DEF EqInv
<1>3. EqTyped'
    <2>1. sent + 1 \in 0 .. MaxEvents
        BY <1>1, <1>2, RingSize DEF EqTyped
    <2> QED
        BY <1>1, <1>2, <2>1, Zenon DEF EqTyped
<1>4. ASSUME ~crossed'
      PROVE  SenderOK' /\ PollerOK' /\ WaitingOK' /\ DeliveredOK' /\ AccountedOK'
    <2>1. SenderOK /\ PollerOK /\ WaitingOK /\ DeliveredOK /\ AccountedOK
        BY <1>1, <1>4, Zenon DEF EqInv
    <2>2. sendHead = eqHead /\ ~Full(eqHead, eqTail)
        BY <1>1, <2>1, Zenon DEF SenderOK
    <2>3. /\ eqHead \in EqSlots /\ eqTail \in EqSlots
          /\ slots'[eqHead] = sent + 1
          /\ \A j \in EqSlots : j # eqHead => slots'[j] = slots[j]
        BY <1>1, <1>2, <2>2, Zenon DEF EqTyped
    <2>4. SenderOK'
        BY <1>1, <2>2, <2>3, Zenon DEF SenderOK, Full, After
    <2>5. PollerOK'
        BY <1>1, <2>1, <2>3, Zenon DEF PollerOK
    <2>6. Held' = Held /\ (\A i : Where(i)' = Where(i))
        BY <1>1, Zenon DEF Held, Where
    <2>7. \A i \in 1 .. Held : Where(i) \in EqSlots /\ Where(i) # eqHead
        BY <2>3, HeldFacts, Zenon DEF Held, Where
    <2>8. WaitingOK'
        BY <1>1, <2>1, <2>3, <2>6, <2>7, Zenon DEF WaitingOK
    <2>9. DeliveredOK'
        BY <1>1, <2>1, <2>6, Zenon DEF DeliveredOK
    <2>10. AccountedOK'
        BY <1>1, <2>1, <2>6, Zenon DEF AccountedOK, Accounted
    <2> QED
        BY <2>4, <2>5, <2>8, <2>9, <2>10, Zenon
<1> QED
    BY <1>3, <1>4, Zenon DEF EqInv

LEMMA PublishKeeps ==
    ASSUME EqInv, Publish
    PROVE  EqInv'
<1>1. /\ sendPc = "publish" /\ sendPc' = "idle" /\ sendHead' = 0 /\ sendTail' = 0
      /\ eqHead' = After(sendHead) /\ sent' = sent + 1
      /\ UNCHANGED <<queueKind, slots, eqTail, dropped, crossed>>
      /\ UNCHANGED <<pollPc, pollTail, polled, delivered, since>>
    BY Zenon DEF Publish, pollerVars, toggleVars
<1>2. EqTyped
    BY Zenon DEF EqInv
<1>3. EqTyped'
    <2>1. sent' \in 0 .. MaxEvents /\ since \in 0 .. sent' /\ 0 \in EqSlots
        BY <1>1, <1>2, RingSize DEF EqTyped, EqSlots
    <2>2. eqHead' \in EqSlots
        BY <1>1, <1>2, AfterIs, Zenon DEF EqTyped
    <2> QED
        BY <1>1, <1>2, <2>1, <2>2, Zenon DEF EqTyped
<1>4. ASSUME ~crossed'
      PROVE  SenderOK' /\ PollerOK' /\ WaitingOK' /\ DeliveredOK' /\ AccountedOK'
    <2>1. SenderOK /\ PollerOK /\ WaitingOK /\ DeliveredOK /\ AccountedOK
        BY <1>1, <1>4, Zenon DEF EqInv
    <2>2. sendHead = eqHead /\ After(eqHead) # eqTail /\ slots[eqHead] = sent + 1
        BY <1>1, <2>1, Zenon DEF SenderOK, Full
    <2>3. /\ eqHead \in EqSlots /\ eqTail \in EqSlots /\ eqHead' = After(eqHead)
          /\ sent \in Nat /\ since \in Nat
        BY <1>1, <1>2, <2>2, RingSize DEF EqTyped
    <2>4. Held' = Held + 1 /\ Where(Held + 1) = eqHead /\ Held \in 0 .. QueueSize - 1
        BY <1>1, <2>2, <2>3, HeadOn, HeldFacts, Zenon DEF Held, Where
    <2>5. \A i : Where(i)' = Where(i)
        BY <1>1, Zenon DEF Where
    <2>6. sent' - Held' = sent - Held
        BY <1>1, <2>3, <2>4
    <2>7. SenderOK'
        BY <1>1 DEF SenderOK
    <2>8. PollerOK'
        BY <1>1, <2>1, <2>2, <2>3, Zenon DEF PollerOK
    <2>9. WaitingOK'
        <3>1. Held' <= sent' - since'
            BY <1>1, <2>1, <2>3, <2>4 DEF WaitingOK
        <3>2. ASSUME NEW i \in 1 .. Held'
              PROVE  slots'[Where(i)'] = sent' - Held' + i
            <4>1. i \in 1 .. Held \/ i = Held + 1
                BY <2>4
            <4>2. CASE i \in 1 .. Held
                BY <4>2, <1>1, <2>1, <2>5, <2>6, Zenon DEF WaitingOK
            <4>3. CASE i = Held + 1
                <5>1. slots'[Where(i)'] = sent + 1
                    BY <4>3, <1>1, <2>2, <2>4, <2>5, Zenon
                <5>2. sent + 1 = sent - Held + i
                    BY <4>3, <2>3, <2>4
                <5> QED
                    BY <5>1, <5>2, <2>6, Zenon
            <4> QED
                BY <4>1, <4>2, <4>3, Zenon
        <3> QED
            BY <3>1, <3>2, Zenon DEF WaitingOK
    <2>10. DeliveredOK'
        BY <1>1, <2>1, <2>6, Zenon DEF DeliveredOK
    <2>11. AccountedOK'
        BY <1>1, <2>1, <2>6, Zenon DEF AccountedOK, Accounted
    <2> QED
        BY <2>7, <2>8, <2>9, <2>10, <2>11, Zenon
<1> QED
    BY <1>3, <1>4, Zenon DEF EqInv

(* A step of the process that moves nothing in the queue.                  *)
LEMMA LookKeeps ==
    ASSUME EqInv, EqTyped', ~crossed', crossed => crossed',
           UNCHANGED <<queueKind, slots, eqHead, eqTail, sendPc, sendHead, sendTail, sent>>,
           UNCHANGED <<delivered, since, dropped>>,
           sendPc = "drop" => pollPc' = "idle", PollerOK'
    PROVE  EqInv'
<1>1. SenderOK /\ WaitingOK /\ DeliveredOK /\ AccountedOK
    BY Zenon DEF EqInv
<1>2. SenderOK'
    BY <1>1, Zenon DEF SenderOK, Full, After
<1>3. WaitingOK' /\ DeliveredOK' /\ AccountedOK'
    BY <1>1, QueueStays, Zenon
<1> QED
    BY <1>2, <1>3, Zenon DEF EqInv

LEMMA CheckKeeps ==
    ASSUME EqInv, NEW mode \in {"event", "char"}, Check(mode)
    PROVE  EqInv'
<1>1. /\ pollPc = "idle" /\ eqHead # eqTail /\ pollPc' = mode
      /\ mode = "char" => queueKind = "key"
      /\ UNCHANGED <<queueKind, slots, eqHead, eqTail, sendPc, sendHead, sendTail, sent>>
      /\ UNCHANGED <<delivered, since, dropped, pollTail, polled>>
    BY Zenon DEF Check, senderVars, toggleVars
<1>2. EqTyped'
    BY <1>1, Zenon DEF EqInv, EqTyped
<1>3. CASE crossed'
    BY <1>2, <1>3, Zenon DEF EqInv
<1>4. CASE ~crossed'
    <2>1. ~crossed /\ sendPc # "drop"
        BY <1>4, Zenon DEF Check
    <2>2. PollerOK'
        <3>1. mode \notin {"next", "charNext", "again"}
            OBVIOUS
        <3> QED
            BY <1>1, <3>1, Zenon DEF PollerOK
    <2> QED
        BY <1>1, <1>2, <1>4, <2>1, <2>2, LookKeeps, Zenon
<1> QED
    BY <1>3, <1>4, Zenon

LEMMA TakeEventKeeps ==
    ASSUME EqInv, Take
    PROVE  EqInv'
<1>1. /\ pollPc \in {"event", "char"} /\ polled' = slots[eqTail] /\ pollTail' = eqTail
      /\ pollPc' = IF pollPc = "char" THEN "charNext" ELSE "next"
      /\ UNCHANGED <<queueKind, slots, eqHead, eqTail, sendPc, sendHead, sendTail, sent>>
      /\ UNCHANGED <<delivered, since, dropped, crossed>>
    BY Zenon DEF Take, senderVars, toggleVars
<1>2. EqTyped'
    <2>1. slots[eqTail] \in 0 .. MaxEvents
        BY Zenon DEF EqInv, EqTyped
    <2> QED
        BY <1>1, <2>1, Zenon DEF EqInv, EqTyped
<1>3. CASE crossed'
    BY <1>2, <1>3, Zenon DEF EqInv
<1>4. CASE ~crossed'
    <2>1. SenderOK /\ PollerOK
        BY <1>1, <1>4, Zenon DEF EqInv
    <2>2. sendPc # "drop" /\ eqHead # eqTail /\ (pollPc = "char" => queueKind = "key")
        <3>1. pollPc # "idle"
            BY <1>1
        <3> QED
            BY <1>1, <2>1, <3>1, Zenon DEF SenderOK, PollerOK
    <2>3. PollerOK'
        <3>1. CASE pollPc = "char"
            BY <3>1, <1>1, <2>2 DEF PollerOK
        <3>2. CASE pollPc = "event"
            BY <3>2, <1>1, <2>2 DEF PollerOK
        <3> QED
            BY <1>1, <3>1, <3>2, Zenon
    <2> QED
        BY <1>1, <1>2, <1>4, <2>2, <2>3, LookKeeps, Zenon
<1> QED
    BY <1>3, <1>4, Zenon

LEMMA AgainKeeps ==
    ASSUME EqInv, Again
    PROVE  EqInv'
<1>1. /\ pollPc = "again" /\ pollPc' = IF eqHead # eqTail THEN "char" ELSE "idle"
      /\ UNCHANGED <<queueKind, slots, eqHead, eqTail, sendPc, sendHead, sendTail, sent>>
      /\ UNCHANGED <<delivered, since, dropped, pollTail, polled>>
    BY Zenon DEF Again, senderVars, toggleVars
<1>2. EqTyped'
    BY <1>1, Zenon DEF EqInv, EqTyped
<1>3. CASE crossed'
    BY <1>2, <1>3, Zenon DEF EqInv
<1>4. CASE ~crossed'
    <2>1. ~crossed
        BY <1>4, Zenon DEF Again
    <2>2. sendPc # "drop" /\ queueKind = "key"
        BY <1>1, <2>1, Zenon DEF EqInv, SenderOK, PollerOK
    <2>3. PollerOK'
        BY <1>1, <2>2 DEF PollerOK
    <2> QED
        BY <1>1, <1>2, <1>4, <2>1, <2>2, <2>3, LookKeeps, Zenon
<1> QED
    BY <1>3, <1>4, Zenon

LEMMA EqAdvanceKeeps ==
    ASSUME EqInv, EqAdvance
    PROVE  EqInv'
<1> DEFINE skip == pollPc = "charNext" /\ polled \in Silent
<1>1. /\ pollPc \in {"next", "charNext"} /\ pollPc' = IF skip THEN "again" ELSE "idle"
      /\ \E t \in {pollTail, eqTail} : eqTail' = After(t)
      /\ delivered' = IF skip THEN delivered ELSE Append(delivered, polled)
      /\ pollTail' = 0 /\ polled' = 0
      /\ UNCHANGED <<queueKind, slots, eqHead, sendPc, sendHead, sendTail, sent>>
      /\ UNCHANGED <<since, dropped, crossed>>
    BY Zenon DEF EqAdvance, IdlePoll, senderVars, toggleVars
<1>2. EqTyped
    BY Zenon DEF EqInv
<1>3. /\ delivered \in Seq(0 .. MaxEvents) /\ delivered' \in Seq(0 .. MaxEvents)
      /\ Len(delivered) \in Nat /\ DOMAIN delivered = 1 .. Len(delivered)
      /\ \/ skip /\ delivered' = delivered
         \/ /\ Len(delivered') = Len(delivered) + 1
            /\ DOMAIN delivered' = 1 .. Len(delivered) + 1
            /\ delivered'[Len(delivered) + 1] = polled
            /\ \A i \in DOMAIN delivered : delivered'[i] = delivered[i]
    <2>1. delivered \in Seq(0 .. MaxEvents) /\ polled \in 0 .. MaxEvents
        BY <1>2, Zenon DEF EqTyped
    <2>2. CASE skip
        BY <1>1, <2>1, <2>2
    <2>3. CASE ~skip
        <3>1. delivered' = Append(delivered, polled)
            BY <1>1, <2>3, Zenon
        <3> HIDE DEF skip
        <3> QED
            BY <2>1, <3>1
    <2> QED
        BY <2>2, <2>3, Zenon
<1> HIDE DEF skip
<1>4. EqTyped'
    <2>1. eqTail' \in EqSlots
        BY <1>1, <1>2, AfterIs, Zenon DEF EqTyped
    <2>2. 0 \in EqSlots /\ 0 \in 0 .. MaxEvents
        BY RingSize DEF EqSlots
    <2>3. pollPc' \in {"idle", "event", "char", "next", "charNext", "again"}
        BY <1>1
    <2> QED
        BY <1>1, <1>2, <1>3, <2>1, <2>2, <2>3, Zenon DEF EqTyped
<1>5. ASSUME ~crossed'
      PROVE  SenderOK' /\ PollerOK' /\ WaitingOK' /\ DeliveredOK' /\ AccountedOK'
    <2>1. SenderOK /\ PollerOK /\ WaitingOK /\ DeliveredOK /\ AccountedOK
        BY <1>1, <1>5, Zenon DEF EqInv
    <2>2. pollPc # "idle" /\ (skip => queueKind = "key" /\ polled \in Silent)
        BY <1>1, <2>1 DEF skip, PollerOK
    <2>3. sendPc # "drop" /\ eqHead # eqTail /\ pollTail = eqTail /\ polled = slots[eqTail]
        <3>1. pollPc \in {"event", "char", "next", "charNext"}
            BY <1>1, Zenon
        <3> QED
            BY <1>1, <2>1, <2>2, <3>1, Zenon DEF SenderOK, PollerOK
    <2>4. eqTail' = After(eqTail)
        BY <1>1, <2>3, Zenon
    <2>5. /\ WaitingOK' /\ Held' = Held - 1 /\ Held \in 1 .. QueueSize - 1
          /\ polled = sent - Held' /\ since <= sent - Held /\ ~Full(eqHead, eqTail')
        BY <1>1, <1>2, <2>1, <2>3, <2>4, OldestLeaves, Zenon
    <2>6. sent \in Nat /\ since \in Nat /\ Held \in Nat /\ Held' \in Nat /\ polled \in Nat
        BY <1>2, <2>5, RingSize DEF EqTyped
    <2>7. SenderOK'
        BY <1>1, <2>1, <2>3, <2>5, Zenon DEF SenderOK, Full, After
    <2>8. PollerOK'
        BY <1>1, <2>2 DEF PollerOK
    <2>9. DeliveredOK'
        <3>1. /\ \A i \in DOMAIN delivered : delivered[i] \in 1 .. sent - Held
              /\ \A i \in 2 .. Len(delivered) : delivered[i - 1] < delivered[i]
            BY <2>1, Zenon DEF DeliveredOK
        <3>2. /\ \A i \in DOMAIN delivered : delivered[i] \in 1 .. sent - Held'
              /\ polled \in 1 .. sent - Held'
              /\ \A i \in DOMAIN delivered : delivered[i] < polled
            <4>1. sent - Held >= 0
                BY <2>5, <2>6
            <4> QED
                BY <3>1, <4>1, <2>5, <2>6
        <3>3. CASE skip /\ delivered' = delivered
            BY <1>1, <3>1, <3>2, <3>3, Zenon DEF DeliveredOK
        <3>4. CASE /\ Len(delivered') = Len(delivered) + 1
                   /\ DOMAIN delivered' = 1 .. Len(delivered) + 1
                   /\ delivered'[Len(delivered) + 1] = polled
                   /\ \A i \in DOMAIN delivered : delivered'[i] = delivered[i]
            <4>1. \A i \in DOMAIN delivered' : i \in DOMAIN delivered \/ i = Len(delivered) + 1
                BY <1>3, <3>4
            <4>2. \A i \in DOMAIN delivered' : delivered'[i] \in 1 .. sent - Held'
                BY <3>2, <3>4, <4>1, Zenon
            <4>3. ASSUME NEW i \in 2 .. Len(delivered')
                  PROVE  delivered'[i - 1] < delivered'[i]
                <5>1. i - 1 \in DOMAIN delivered /\ (i \in 2 .. Len(delivered) \/ i = Len(delivered) + 1)
                    BY <1>3, <3>4
                <5>2. CASE i \in 2 .. Len(delivered)
                    <6>1. i \in DOMAIN delivered
                        BY <1>3, <5>2
                    <6> QED
                        BY <3>1, <3>4, <5>1, <5>2, <6>1, Zenon
                <5>3. CASE i = Len(delivered) + 1
                    BY <3>2, <3>4, <5>1, <5>3, Zenon
                <5> QED
                    BY <5>1, <5>2, <5>3, Zenon
            <4> QED
                BY <1>1, <4>2, <4>3, Zenon DEF DeliveredOK
        <3> QED
            BY <1>3, <3>3, <3>4, Zenon
    <2>10. AccountedOK'
        <3> SUFFICES ASSUME ~dropped', NEW e \in since' + 1 .. sent' - Held'
                     PROVE  Accounted(e)'
            BY Zenon DEF AccountedOK
        <3>1. e \in since + 1 .. sent - Held \/ e = polled
            BY <1>1, <2>5, <2>6
        <3>2. CASE e \in since + 1 .. sent - Held
            <4>1. Accounted(e)
                BY <1>1, <2>1, <3>2, Zenon DEF AccountedOK
            <4>2. \A i \in DOMAIN delivered : i \in DOMAIN delivered' /\ delivered'[i] = delivered[i]
                BY <1>3
            <4> QED
                BY <1>1, <4>1, <4>2, Zenon DEF Accounted
        <3>3. CASE e = polled
            <4>1. CASE skip
                BY <4>1, <3>3, <1>1, <2>2, Zenon DEF Accounted
            <4>2. CASE ~skip
                <5>1. Len(delivered) + 1 \in DOMAIN delivered' /\ delivered'[Len(delivered) + 1] = e
                    BY <4>2, <3>3, <1>3
                <5> QED
                    BY <5>1, Zenon DEF Accounted
            <4> QED
                BY <4>1, <4>2, Zenon
        <3> QED
            BY <3>1, <3>2, <3>3, Zenon
    <2> QED
        BY <2>5, <2>7, <2>8, <2>9, <2>10, Zenon
<1> QED
    BY <1>4, <1>5, Zenon DEF EqInv

LEMMA ToggleKeeps ==
    ASSUME EqInv, Toggle
    PROVE  EqInv'
<1>1. /\ pollPc = "idle"
      /\ \/ eqHead' = 0 /\ eqTail' = 0 /\ since' = sent
         \/ UNCHANGED <<eqHead, eqTail, since>>
      /\ UNCHANGED <<queueKind, slots, sendPc, sendHead, sendTail, sent>>
      /\ UNCHANGED <<pollPc, pollTail, polled, delivered, dropped>>
    BY Zenon DEF Toggle, senderVars, pollerVars
<1>2. EqTyped
    BY Zenon DEF EqInv
<1>3. 0 \in EqSlots /\ sent \in 0 .. sent /\ sent \in Nat
    BY <1>2, RingSize DEF EqTyped, EqSlots
<1>4. EqTyped'
    BY <1>1, <1>2, <1>3, Zenon DEF EqTyped
<1>5. ASSUME ~crossed'
      PROVE  SenderOK' /\ PollerOK' /\ WaitingOK' /\ DeliveredOK' /\ AccountedOK'
    <2>1. ~crossed /\ sendPc = "idle"
        BY <1>5, Zenon DEF Toggle
    <2>2. SenderOK /\ PollerOK /\ WaitingOK /\ DeliveredOK /\ AccountedOK
        BY <2>1, Zenon DEF EqInv
    <2>3. SenderOK' /\ PollerOK'
        BY <1>1, <2>1 DEF SenderOK, PollerOK
    <2>4. CASE eqHead' = 0 /\ eqTail' = 0 /\ since' = sent
        <3>1. Held' = 0
            BY <2>4, <1>3, HeldFacts, Zenon DEF Held
        <3>2. /\ Held' <= sent' - since' /\ 1 .. Held' = {} /\ since' + 1 .. sent' - Held' = {}
              /\ sent' - Held' = sent
            BY <1>1, <1>3, <2>4, <3>1
        <3>3. WaitingOK' /\ AccountedOK'
            BY <3>2, Zenon DEF WaitingOK, AccountedOK
        <3>4. 1 .. sent - Held \subseteq 1 .. sent' - Held'
            <4>1. Held \in Nat
                BY <1>2, HeldFacts, RingSize DEF Held, EqTyped
            <4> QED
                BY <4>1, <1>3, <3>2
        <3>5. DeliveredOK'
            BY <1>1, <2>2, <3>4, Zenon DEF DeliveredOK
        <3> QED
            BY <2>3, <3>3, <3>5, Zenon
    <2>5. CASE UNCHANGED <<eqHead, eqTail, since>>
        BY <1>1, <2>2, <2>3, <2>5, QueueStays, Zenon
    <2> QED
        BY <1>1, <2>4, <2>5, Zenon
<1> QED
    BY <1>4, <1>5, Zenon DEF EqInv

LEMMA EqNextKeeps ==
    ASSUME EqInv, [EqNext]_eqVars
    PROVE  EqInv'
BY EqStutterKeeps, SendKeeps, DropKeeps, StoreKeeps, PublishKeeps, CheckKeeps, TakeEventKeeps,
   EqAdvanceKeeps, AgainKeeps, ToggleKeeps, Zenon DEF EqNext

(* Pending lists the events that wait.                                     *)
LEMMA PendingIs ==
    ASSUME EqTyped
    PROVE  /\ Held \in Nat /\ Len(Pending) = Held /\ DOMAIN Pending = 1 .. Held
           /\ \A i \in 1 .. Held : Pending[i] = slots[Where(i)]
<1>1. eqHead \in EqSlots /\ eqTail \in EqSlots
    BY Zenon DEF EqTyped
<1>2. (eqHead - eqTail) % QueueSize = Held /\ Held \in 0 .. QueueSize - 1
    <2>1. Held \in 0 .. QueueSize - 1 /\ eqHead - eqTail \in Int
        BY <1>1, HeldFacts, RingSize DEF Held, EqSlots
    <2>2. CASE eqHead >= eqTail
        <3>1. eqHead - eqTail \in 0 .. QueueSize - 1
            BY <2>2, <1>1, RingSize DEF EqSlots
        <3>2. (eqHead - eqTail) % QueueSize = eqHead - eqTail
            BY <2>1, <3>1, RingSize, RingRemainder, Zenon
        <3> QED
            BY <2>1, <2>2, <3>2, Zenon DEF Held, Distance
    <2>3. CASE ~(eqHead >= eqTail)
        <3>1. eqHead - eqTail \in -QueueSize .. -1
            BY <2>3, <1>1, RingSize DEF EqSlots
        <3>2. (eqHead - eqTail) % QueueSize = eqHead - eqTail + QueueSize
            BY <2>1, <3>1, RingSize, RingRemainder, Zenon
        <3> QED
            BY <2>1, <2>3, <3>2, Zenon DEF Held, Distance
    <2> QED
        BY <2>2, <2>3, Zenon
<1>3. ASSUME NEW i \in 1 .. Held
      PROVE  (eqTail + i - 1) % QueueSize = Where(i)
    <2>1. i \in Int /\ i >= 1 /\ i <= QueueSize - 1 /\ eqTail + i - 1 \in Int
        BY <1>1, <1>2, <1>3, RingSize DEF EqSlots
    <2>2. CASE eqTail + i - 1 < QueueSize
        <3>1. eqTail + i - 1 \in 0 .. QueueSize - 1
            BY <2>1, <2>2, <1>1, RingSize DEF EqSlots
        <3>2. (eqTail + i - 1) % QueueSize = eqTail + i - 1
            BY <2>1, <3>1, RingSize, RingRemainder, Zenon
        <3> QED
            BY <2>2, <3>2, Zenon DEF Where, Place
    <2>3. CASE ~(eqTail + i - 1 < QueueSize)
        <3>1. eqTail + i - 1 \in QueueSize .. 2 * QueueSize - 1
            BY <2>1, <2>3, <1>1, RingSize DEF EqSlots
        <3>2. (eqTail + i - 1) % QueueSize = (eqTail + i - 1) - QueueSize
            BY <2>1, <3>1, RingSize, RingRemainder, SMTT(30)
        <3>3. Where(i) = (eqTail + i - 1) - QueueSize
            BY <2>1, <2>3, <1>1, RingSize DEF Where, Place, EqSlots
        <3> QED
            BY <3>2, <3>3, Zenon
    <2> QED
        BY <2>2, <2>3, Zenon
<1>4. Pending = [i \in 1 .. Held |-> slots[Where(i)]]
    BY <1>2, <1>3, Zenon DEF Pending
<1>5. Held \in Nat
    BY <1>2, RingSize
<1> HIDE DEF Pending
<1> QED
    BY <1>4, <1>5

LEMMA EqInvIsSound == EqInv => EventsSound
<1> SUFFICES ASSUME EqInv PROVE EventsSound
    OBVIOUS
<1>1. EqTyped
    BY Zenon DEF EqInv
<1>2. EqTypeOK
    BY <1>1, Zenon DEF EqTyped, EqTypeOK
<1>3. /\ Held \in Nat /\ Len(Pending) = Held /\ DOMAIN Pending = 1 .. Held
      /\ \A i \in 1 .. Held : Pending[i] = slots[Where(i)]
      /\ sent \in Nat /\ since \in Nat
    BY <1>1, PendingIs, RingSize DEF EqTyped
<1>4. ASSUME ~crossed
      PROVE  /\ \A i \in DOMAIN delivered : delivered[i] \in 1 .. sent
             /\ \A i \in 2 .. Len(delivered) : delivered[i - 1] < delivered[i]
             /\ \A i \in DOMAIN Pending : Pending[i] = sent - Len(Pending) + i /\ Pending[i] > since
             /\ ~dropped => \A e \in since + 1 .. sent :
                     Accounted(e) \/ \E i \in DOMAIN Pending : Pending[i] = e
    <2>1. WaitingOK /\ DeliveredOK /\ AccountedOK
        BY <1>4, Zenon DEF EqInv
    <2>2. 1 .. sent - Held \subseteq 1 .. sent
        BY <1>3
    <2>3. \A i \in 1 .. Held : Pending[i] = sent - Held + i
        BY <1>3, <2>1, Zenon DEF WaitingOK
    <2>4. Held <= sent - since
        BY <2>1, Zenon DEF WaitingOK
    <2>5. \A i \in 1 .. Held : Pending[i] > since
        BY <1>3, <2>3, <2>4
    <2>6. ASSUME ~dropped, NEW e \in since + 1 .. sent
          PROVE  Accounted(e) \/ \E i \in DOMAIN Pending : Pending[i] = e
        <3>1. CASE e \in since + 1 .. sent - Held
            BY <2>1, <2>6, <3>1, Zenon DEF AccountedOK
        <3>2. CASE e \notin since + 1 .. sent - Held
            <4>1. e - (sent - Held) \in 1 .. Held /\ sent - Held + (e - (sent - Held)) = e
                BY <3>2, <2>4, <1>3
            <4> QED
                BY <4>1, <2>3, <1>3, Zenon
        <3> QED
            BY <3>1, <3>2, Zenon
    <2> QED
        BY <1>3, <2>1, <2>2, <2>3, <2>5, <2>6, Zenon DEF DeliveredOK
<1>5. EventsInOrder
    BY <1>4, Zenon DEF EventsInOrder
<1>6. NothingLost
    BY <1>4, Zenon DEF NothingLost, Accounted
<1> QED
    BY <1>2, <1>5, <1>6, Zenon DEF EventsSound

(* For any size of the queue: what the process is given was sent, in that  *)
(* order and once, and nothing is lost but the oldest event of a full      *)
(* queue; as long as the two sides do not meet in a full queue, where both *)
(* move the tail (kernel_api.cpp, route_poll_key, dequeue_ascii_key,       *)
(* stub_send_key and their like).                                          *)
THEOREM EventsDelivered == EqSpec => []EventsSound
<1>1. EqInit => EqInv
    BY EqInitHolds
<1>2. EqInv /\ [EqNext]_eqVars => EqInv'
    BY EqNextKeeps
<1> QED
    BY <1>1, <1>2, EqInvIsSound, PTL DEF EqSpec
=============================================================================
