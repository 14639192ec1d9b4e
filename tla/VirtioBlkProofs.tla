--------------------------- MODULE VirtioBlkProofs ---------------------------
(***************************************************************************)
(* Proofs about the transfers of the virtio block driver: for any number   *)
(* of callers, device size, chunk size and wrap of the ring indices.       *)
(***************************************************************************)
EXTENDS VirtioBlk, FiniteSetTheorems, TLAPS

(* The types that the steps keep, with what is needed to keep them: a      *)
(* buffer that is written holds values, and a request for a write is only  *)
(* published once the bounce buffer holds values for all of it.            *)
Calls == [write : BOOLEAN, lba : Sectors, buffer : Seq(BlkContents)]

HoldsValues(r) == r.type = "out" => \A i \in Chunk : i < r.len => bounce[i] \in Values

BlkTyped ==
    /\ lock \in Callers \cup {NoCaller}
    /\ blkPc \in [Callers -> {"idle", "lock", "submit", "wait", "done"}]
    /\ call \in [Callers -> Calls]
    /\ done \in [Callers -> Nat]
    /\ header \in Request \cup {NoRequest}
    /\ fetched \in Request \cup {NoRequest}
    /\ status \in {"none", "ok", "error"}
    /\ bounce \in [Chunk -> BlkContents]
    /\ avail \in 0 .. IdxMod - 1 /\ lastUsed \in 0 .. IdxMod - 1 /\ used \in 0 .. IdxMod - 1
    /\ sectors \in [Sectors -> Values]
    /\ blkTimeouts \in 0 .. MaxBlkTimeouts
    /\ HoldsValues(header) /\ HoldsValues(fetched)

(* A transfer stays within the device, and within its buffer; one that is  *)
(* to submit or waits has sectors left.                                    *)
Size(t) == Len(call[t].buffer)

InRange(t) ==
    /\ call[t].write => call[t].buffer \in Seq(Values)
    /\ call[t].lba + Size(t) <= BlockCount
    /\ done[t] <= Size(t)
    /\ blkPc[t] \in {"lock", "submit", "wait"} => done[t] < Size(t)
    /\ blkPc[t] \in {"idle", "lock"} => done[t] = 0

(* The lock is held from Acquire to BlkRelease.                            *)
Locked == \A t \in Callers : lock = t <=> blkPc[t] \in {"submit", "wait", "done"}

(* What last_used_idx lags behind, without the remainder.                  *)
Lag == IF avail >= lastUsed THEN avail - lastUsed ELSE avail - lastUsed + IdxMod
Lagging ==
    /\ (\A t \in Callers : blkPc[t] # "wait") => Lag = blkTimeouts
    /\ \A t \in Callers : blkPc[t] = "wait" => Lag = blkTimeouts + 1

(* The indices, the device and the request of the transfer that waits,     *)
(* until a request times out.                                              *)
Quiet == avail = used /\ used = lastUsed /\ fetched = NoRequest

HeaderOf(t) ==
    header = [type |-> IF call[t].write THEN "out" ELSE "in",
              sector |-> call[t].lba + done[t], len |-> ChunkOf(t)]

BounceOf(t) ==
    call[t].write => \A i \in Chunk : i < ChunkOf(t) => bounce[i] = call[t].buffer[done[t] + i + 1]

ServedOf(t) ==
    status = "ok" =>
        \A i \in Chunk : i < ChunkOf(t) =>
            sectors[call[t].lba + done[t] + i]
                = IF call[t].write THEN call[t].buffer[done[t] + i + 1] ELSE bounce[i]

Pending(t) ==
    /\ HeaderOf(t)
    /\ BounceOf(t)
    /\ \/ used = lastUsed /\ avail # used /\ fetched \in {NoRequest, header}
       \/ used # lastUsed /\ avail = used /\ fetched = NoRequest /\ ServedOf(t)

Matches(t) ==
    \A i \in Nat : i < done[t] => call[t].buffer[i + 1] = sectors[call[t].lba + i]

InStep ==
    blkTimeouts = 0 =>
        /\ (\A t \in Callers : blkPc[t] # "wait") => Quiet
        /\ \A t \in Callers : blkPc[t] = "wait" => Pending(t)
        /\ \A t \in Callers : lock = t => Matches(t)

BlkInv ==
    /\ BlkTyped
    /\ \A t \in Callers : InRange(t)
    /\ Locked
    /\ Lagging
    /\ InStep

-----------------------------------------------------------------------------
(* Facts about the operators.                                              *)

LEMMA Remainder ==
    ASSUME NEW n \in Nat \ {0}, NEW x \in Int
    PROVE  /\ x \in 0 .. n - 1 => x % n = x
           /\ x \in n .. 2 * n - 1 => x % n = x - n
<1>1. x \in 0 .. n - 1 => x % n = x
    OBVIOUS
<1>2. x \in n .. 2 * n - 1 => x % n = x - n
    OBVIOUS
<1> QED
    BY <1>1, <1>2, Zenon

LEMMA Sizes ==
    /\ BlockCount \in Nat \ {0} /\ MaxChunk \in Nat \ {0} /\ IdxMod \in Nat \ {0}
    /\ MaxBlkTimeouts \in Nat /\ MaxBlkTimeouts + 1 < IdxMod
BY BlkAssumption, Zenon

LEMMA NextIndex ==
    ASSUME NEW x \in 0 .. IdxMod - 1
    PROVE  /\ (x + 1) % IdxMod = IF x + 1 = IdxMod THEN 0 ELSE x + 1
           /\ (x + 1) % IdxMod \in 0 .. IdxMod - 1
           /\ (x + 1) % IdxMod # x
<1>1. IdxMod \in Nat \ {0} /\ IdxMod > 1 /\ x + 1 \in Int
    BY Sizes
<1>2. x + 1 \in 0 .. IdxMod - 1 \/ (x + 1 = IdxMod /\ x + 1 \in IdxMod .. 2 * IdxMod - 1)
    BY <1>1
<1>3. /\ x + 1 \in 0 .. IdxMod - 1 => (x + 1) % IdxMod = x + 1
      /\ x + 1 \in IdxMod .. 2 * IdxMod - 1 => (x + 1) % IdxMod = (x + 1) - IdxMod
    BY <1>1, Remainder, Zenon
<1> QED
    BY <1>1, <1>2, <1>3

(* The sectors of a request.                                               *)
LEMMA ChunkFacts ==
    ASSUME BlkTyped, NEW t \in Callers, InRange(t)
    PROVE  /\ call[t] \in Calls /\ call[t].lba \in Nat /\ call[t].buffer \in Seq(BlkContents)
           /\ Size(t) \in Nat /\ done[t] \in Nat
           /\ DOMAIN call[t].buffer = 1 .. Size(t)
           /\ ChunkOf(t) \in Nat
           /\ ChunkOf(t) <= MaxChunk /\ done[t] + ChunkOf(t) <= Size(t)
           /\ done[t] < Size(t) => ChunkOf(t) > 0
           /\ done[t] + ChunkOf(t) = Size(t) \/ ChunkOf(t) = MaxChunk
           /\ call[t].lba + done[t] + ChunkOf(t) <= BlockCount
<1>a. call[t] \in Calls /\ done[t] \in Nat
    BY Zenon DEF BlkTyped
<1>b. call[t].lba \in Sectors /\ call[t].buffer \in Seq(BlkContents)
    BY <1>a DEF Calls
<1>1. /\ call[t] \in Calls /\ call[t].lba \in Nat /\ call[t].buffer \in Seq(BlkContents)
      /\ done[t] \in Nat
    BY <1>a, <1>b, BlkAssumption DEF Sectors
<1>2. Size(t) \in Nat /\ DOMAIN call[t].buffer = 1 .. Size(t)
    BY <1>1 DEF Size
<1>3. ChunkOf(t) = IF Size(t) - done[t] > MaxChunk THEN MaxChunk ELSE Size(t) - done[t]
    BY Zenon DEF ChunkOf, Size
<1>4. call[t].lba + Size(t) <= BlockCount /\ done[t] <= Size(t)
    BY Zenon DEF InRange
<1> QED
    BY <1>1, <1>2, <1>3, <1>4, Sizes, SMTT(30)

-----------------------------------------------------------------------------
(* The initial states.                                                     *)
LEMMA InitHolds == BlkInit => BlkInv
<1> SUFFICES ASSUME BlkInit PROVE BlkInv
    OBVIOUS
<1>1. NoCall \in Calls /\ Len(NoCall.buffer) = 0 /\ NoCall.lba = 0 /\ ~NoCall.write
    BY BlkAssumption DEF NoCall, Calls, Sectors
<1>2. IdxMod \in Nat \ {0} /\ BlockCount \in Nat /\ MaxBlkTimeouts \in Nat
    BY BlkAssumption, Zenon
<1>3. BlkTyped
    BY <1>1, <1>2 DEF BlkInit, BlkTyped, HoldsValues, NoRequest, BlkContents
<1>4. \A t \in Callers : InRange(t)
    BY <1>1, <1>2 DEF BlkInit, InRange, Size
<1>5. Locked
    BY BlkAssumption, Zenon DEF BlkInit, Locked
<1>6. Lagging
    BY <1>2 DEF BlkInit, Lagging, Lag
<1>7. InStep
    BY BlkAssumption, Zenon DEF BlkInit, InStep, Quiet
<1> QED
    BY <1>3, <1>4, <1>5, <1>6, <1>7, Zenon DEF BlkInv

-----------------------------------------------------------------------------
(* Types and ranges.                                                       *)
TypedInRange == BlkTyped /\ \A t \in Callers : InRange(t)

LEMMA TransferTyped ==
    ASSUME TypedInRange, NEW t \in Callers, NEW write \in BOOLEAN, NEW lba \in Sectors,
           NEW buffer \in Buffers(write), Transfer(t, write, lba, buffer)
    PROVE  TypedInRange'
<1>1. /\ buffer \in Seq(BlkContents)
      /\ write => buffer \in Seq(Values)
    <2>1. CASE write
        <3>1. buffer \in Seq(Values)
            BY <2>1, BlkAssumption, Zenon DEF Buffers
        <3> QED
            BY <3>1 DEF BlkContents
    <2>2. CASE ~write
        <3>1. PICK b \in BlkWritten : buffer = [i \in DOMAIN b |-> NoValue]
            BY <2>2, Zenon DEF Buffers
        <3>2. b \in Seq(Values)
            BY BlkAssumption, Zenon
        <3> QED
            BY <2>2, <3>1, <3>2 DEF BlkContents
    <2> QED
        BY <2>1, <2>2, Zenon
<1> DEFINE c == [write |-> write, lba |-> lba, buffer |-> buffer]
<1>2. c \in Calls /\ c.write = write /\ c.lba = lba /\ c.buffer = buffer
    BY <1>1, Zenon DEF Calls
<1>3. /\ call' = [call EXCEPT ![t] = c] /\ blkPc' = [blkPc EXCEPT ![t] = "lock"]
      /\ UNCHANGED <<lock, done, header, status, bounce, avail, lastUsed, sectors, used, fetched,
                     blkTimeouts>>
      /\ done[t] = 0
    BY Zenon DEF Transfer, ring, blkDevice, TypedInRange, InRange
<1> HIDE DEF c
<1>4. BlkTyped'
    BY <1>2, <1>3, Zenon DEF TypedInRange, BlkTyped, HoldsValues
<1>5. Len(buffer) \in Nat /\ Len(buffer) > 0 /\ lba + Len(buffer) <= BlockCount
    BY <1>1, Sizes DEF Transfer, Sectors
<1>6. ASSUME NEW s \in Callers PROVE InRange(s)'
    <2>1. CASE s = t
        <3>1. call'[t] = c /\ blkPc'[t] = "lock" /\ done'[t] = 0 /\ Size(t)' = Len(buffer)
            BY <1>2, <1>3, Zenon DEF TypedInRange, BlkTyped, Size
        <3> QED
            BY <1>1, <1>2, <1>5, <2>1, <3>1 DEF InRange
    <2>2. CASE s # t
        <3>1. call'[s] = call[s] /\ blkPc'[s] = blkPc[s] /\ done'[s] = done[s]
            BY <1>3, <2>2, Zenon DEF TypedInRange, BlkTyped
        <3> QED
            BY <3>1, Zenon DEF TypedInRange, InRange, Size
    <2> QED
        BY <2>1, <2>2, Zenon
<1> QED
    BY <1>4, <1>6, Zenon DEF TypedInRange

(* A step that leaves calls and progress alone, and moves callers on.      *)
LEMMA MovesOn ==
    ASSUME TypedInRange, NEW t \in Callers, NEW p \in {"submit", "wait", "done"},
           UNCHANGED <<call, done>>, blkPc' = [blkPc EXCEPT ![t] = p],
           blkPc[t] # "idle",
           p # "done" => blkPc[t] \in {"lock", "submit", "wait"}
    PROVE  \A s \in Callers : InRange(s)'
<1> TAKE s \in Callers
<1>1. CASE s = t
    BY <1>1, Zenon DEF TypedInRange, BlkTyped, InRange, Size
<1>2. CASE s # t
    <2>1. blkPc'[s] = blkPc[s]
        BY <1>2, Zenon DEF TypedInRange, BlkTyped
    <2> QED
        BY <2>1, Zenon DEF TypedInRange, InRange, Size
<1> QED
    BY <1>1, <1>2, Zenon

LEMMA AcquireTyped ==
    ASSUME TypedInRange, NEW t \in Callers, Acquire(t)
    PROVE  TypedInRange'
<1>1. BlkTyped'
    BY Zenon DEF Acquire, TypedInRange, BlkTyped, HoldsValues, ring, blkDevice
<1>2. \A s \in Callers : InRange(s)'
    BY MovesOn, Zenon DEF Acquire
<1> QED
    BY <1>1, <1>2, Zenon DEF TypedInRange

LEMMA SubmitTyped ==
    ASSUME TypedInRange, NEW t \in Callers, BlkSubmit(t)
    PROVE  TypedInRange'
<1> DEFINE n == ChunkOf(t)
<1>1. /\ call[t].lba \in Nat
      /\ Size(t) \in Nat /\ done[t] \in Nat
      /\ n \in Nat /\ n > 0 /\ n <= MaxChunk /\ done[t] + n <= Size(t)
      /\ call[t].lba + done[t] + n <= BlockCount
    BY ChunkFacts, Zenon DEF BlkSubmit, TypedInRange, InRange
<1>2. header' \in Request
    <2> DEFINE type == IF call[t].write THEN "out" ELSE "in"
    <2>1. /\ header' = [type |-> type, sector |-> call[t].lba + done[t], len |-> n]
          /\ type \in Types
        BY Zenon DEF BlkSubmit, Types
    <2> HIDE DEF type
    <2>2. call[t].lba + done[t] \in Sectors /\ n \in 1 .. MaxChunk
          /\ call[t].lba + done[t] + n <= BlockCount
        BY <1>1, Sizes DEF Sectors
    <2> QED
        BY <2>1, <2>2, Zenon DEF Request
<1>3. ASSUME call[t].write
      PROVE  \A i \in Chunk : i < n => call[t].buffer[done[t] + i + 1] \in Values
    <2>1. call[t].buffer \in Seq(Values)
        BY <1>3, Zenon DEF TypedInRange, InRange
    <2> TAKE i \in Chunk
    <2> HAVE i < n
    <2>2. done[t] + i + 1 \in 1 .. Size(t)
        BY <1>1, Sizes DEF Chunk
    <2> QED
        BY <2>1, <2>2 DEF Size
<1>4. /\ bounce' \in [Chunk -> BlkContents]
      /\ \A i \in Chunk : bounce[i] \in Values => bounce'[i] \in Values
      /\ call[t].write => \A i \in Chunk : i < n => bounce'[i] \in Values
    <2>1. CASE call[t].write
        BY <1>3, <2>1, Zenon DEF BlkSubmit, TypedInRange, BlkTyped, BlkContents
    <2>2. CASE ~call[t].write
        BY <2>2, Zenon DEF BlkSubmit, TypedInRange, BlkTyped
    <2> QED
        BY <2>1, <2>2, Zenon
<1>5. HoldsValues(header)'
    BY <1>4, Zenon DEF BlkSubmit, HoldsValues
<1>6. HoldsValues(fetched)'
    BY <1>4, Zenon DEF BlkSubmit, blkDevice, HoldsValues, TypedInRange, BlkTyped
<1>7. avail' \in 0 .. IdxMod - 1
    BY NextIndex, Zenon DEF BlkSubmit, TypedInRange, BlkTyped
<1>8. BlkTyped'
    BY <1>2, <1>4, <1>5, <1>6, <1>7, Zenon DEF BlkSubmit, TypedInRange, BlkTyped, blkDevice
<1>9. \A s \in Callers : InRange(s)'
    BY MovesOn, Zenon DEF BlkSubmit
<1> QED
    BY <1>8, <1>9, Zenon DEF TypedInRange

(* A read that succeeds fills the part of the buffer that the request is   *)
(* for, and a caller's buffer keeps its length.                            *)
LEMMA SucceedCall ==
    ASSUME TypedInRange, NEW t \in Callers, BlkSucceed(t)
    PROVE  /\ call' \in [Callers -> Calls]
           /\ \A s \in Callers : /\ call'[s].write = call[s].write
                                 /\ call'[s].lba = call[s].lba /\ Size(s)' = Size(s)
                                 /\ s # t \/ call[s].write => call'[s] = call[s]
           /\ ~call[t].write => \A i \in 1 .. Size(t) :
                call'[t].buffer[i] = IF i - done[t] \in 1 .. ChunkOf(t)
                                     THEN bounce[i - done[t] - 1] ELSE call[t].buffer[i]
<1> DEFINE n == ChunkOf(t)
<1>0. call \in [Callers -> Calls]
    BY Zenon DEF TypedInRange, BlkTyped
<1>1. CASE call[t].write
    <2>1. call' = call
        BY <1>1, Zenon DEF BlkSucceed
    <2> QED
        BY <1>0, <1>1, <2>1, Zenon DEF Size
<1>2. CASE ~call[t].write
    <2> DEFINE new == [i \in DOMAIN call[t].buffer |->
                         IF i - done[t] \in 1 .. n THEN bounce[i - done[t] - 1]
                         ELSE call[t].buffer[i]]
    <2>1. call' = [call EXCEPT ![t].buffer = new]
        BY <1>2, Zenon DEF BlkSucceed
    <2>2. /\ call[t] \in Calls /\ call[t].buffer \in Seq(BlkContents)
          /\ Size(t) \in Nat /\ done[t] \in Nat /\ n \in Nat /\ n <= MaxChunk
          /\ DOMAIN call[t].buffer = 1 .. Size(t)
        BY ChunkFacts, Zenon DEF TypedInRange
    <2>3. \A i \in 1 .. Size(t) : new[i] \in BlkContents
        <3> SUFFICES ASSUME NEW i \in 1 .. Size(t) PROVE new[i] \in BlkContents
            OBVIOUS
        <3>1. CASE i - done[t] \in 1 .. n
            <4>1. i - done[t] - 1 \in Chunk
                BY <2>2, <3>1, Sizes, SMTT(30) DEF Chunk
            <4> QED
                BY <2>2, <3>1, <4>1, Zenon DEF TypedInRange, BlkTyped
        <3>2. CASE i - done[t] \notin 1 .. n
            BY <2>2, <3>2
        <3> QED
            BY <3>1, <3>2, Zenon
    <2>4. new \in [1 .. Size(t) -> BlkContents]
        BY <2>2, <2>3, Zenon
    <2>5. new \in Seq(BlkContents) /\ Len(new) = Size(t)
        BY <2>2, <2>4
    <2>6. \A i \in 1 .. Size(t) : new[i] = IF i - done[t] \in 1 .. n
                                           THEN bounce[i - done[t] - 1] ELSE call[t].buffer[i]
        BY <2>2, Zenon
    <2> HIDE DEF new
    <2>7. /\ call'[t] = [call[t] EXCEPT !.buffer = new]
          /\ \A s \in Callers : s # t => call'[s] = call[s]
          /\ call' \in [Callers -> Calls]
        BY <1>0, <2>1, <2>5, Zenon DEF Calls
    <2>8. /\ call'[t].write = call[t].write /\ call'[t].lba = call[t].lba
          /\ call'[t].buffer = new
        BY <2>2, <2>7, Zenon DEF Calls
    <2> QED
        BY <1>2, <2>5, <2>6, <2>7, <2>8, Zenon DEF Size
<1> QED
    BY <1>1, <1>2, Zenon

LEMMA SucceedTyped ==
    ASSUME TypedInRange, NEW t \in Callers, BlkSucceed(t)
    PROVE  /\ TypedInRange'
           /\ done' = [done EXCEPT ![t] = @ + ChunkOf(t)]
           /\ blkPc' = [blkPc EXCEPT ![t] = IF done[t] + ChunkOf(t) = Size(t)
                                            THEN "done" ELSE "submit"]
<1> DEFINE n == ChunkOf(t)
<1>1. /\ Size(t) \in Nat /\ done[t] \in Nat /\ n \in Nat /\ done[t] + n <= Size(t)
    BY ChunkFacts, Zenon DEF TypedInRange
<1>2. done' = [done EXCEPT ![t] = @ + n] /\ done' \in [Callers -> Nat] /\ done'[t] = done[t] + n
    BY <1>1, SMTT(30) DEF BlkSucceed, TypedInRange, BlkTyped
<1>3. blkPc' = [blkPc EXCEPT ![t] = IF done[t] + n = Size(t) THEN "done" ELSE "submit"]
    BY <1>2, Zenon DEF BlkSucceed, Size
<1>4. lastUsed' \in 0 .. IdxMod - 1
    BY NextIndex, Zenon DEF BlkSucceed, TypedInRange, BlkTyped
<1>5. BlkTyped'
    BY <1>2, <1>3, <1>4, SucceedCall, Zenon
    DEF BlkSucceed, TypedInRange, BlkTyped, HoldsValues, blkDevice
<1>6. ASSUME NEW s \in Callers PROVE InRange(s)'
    <2>1. CASE s = t
        <3>1. call[t].write => call'[t].buffer \in Seq(Values)
            BY SucceedCall, Zenon DEF TypedInRange, InRange
        <3>2. call[t].lba + Size(t) <= BlockCount
            BY Zenon DEF TypedInRange, InRange
        <3>3. blkPc'[t] = IF done[t] + n = Size(t) THEN "done" ELSE "submit"
            BY <1>3, Zenon DEF TypedInRange, BlkTyped
        <3> QED
            BY <1>1, <1>2, <2>1, <3>1, <3>2, <3>3, SucceedCall DEF InRange
    <2>2. CASE s # t
        <3>1. call'[s] = call[s] /\ blkPc'[s] = blkPc[s] /\ done'[s] = done[s]
            BY <1>2, <1>3, <2>2, SucceedCall, SMTT(30) DEF TypedInRange, BlkTyped
        <3> QED
            BY <3>1, Zenon DEF TypedInRange, InRange, Size
    <2> QED
        BY <2>1, <2>2, Zenon
<1> QED
    BY <1>2, <1>3, <1>5, <1>6, Zenon DEF TypedInRange

LEMMA FailTyped ==
    ASSUME TypedInRange, NEW t \in Callers, BlkFail(t) \/ Timeout(t)
    PROVE  TypedInRange'
<1>1. lastUsed' \in 0 .. IdxMod - 1
    BY NextIndex, Zenon DEF BlkFail, Timeout, TypedInRange, BlkTyped, ring
<1>2. blkTimeouts' \in 0 .. MaxBlkTimeouts
    BY Sizes DEF BlkFail, Timeout, TypedInRange, BlkTyped
<1>3. /\ UNCHANGED <<lock, call, done, header, status, bounce, avail, sectors, used, fetched>>
      /\ blkPc' = [blkPc EXCEPT ![t] = "done"]
      /\ blkPc[t] = "wait"
    BY Zenon DEF BlkFail, Timeout, ring, blkDevice
<1>4. BlkTyped'
    BY <1>1, <1>2, <1>3, Zenon DEF TypedInRange, BlkTyped, HoldsValues
<1>5. \A s \in Callers : InRange(s)'
    BY <1>3, MovesOn, Zenon
<1> QED
    BY <1>4, <1>5, Zenon DEF TypedInRange

LEMMA ReleaseTyped ==
    ASSUME TypedInRange, NEW t \in Callers, BlkRelease(t)
    PROVE  TypedInRange'
<1>1. NoCall \in Calls /\ Len(NoCall.buffer) = 0 /\ NoCall.lba = 0 /\ ~NoCall.write
    BY Sizes DEF NoCall, Calls, Sectors
<1>2. BlkTyped'
    BY <1>1, Zenon DEF BlkRelease, TypedInRange, BlkTyped, HoldsValues, ring, blkDevice
<1>3. ASSUME NEW s \in Callers PROVE InRange(s)'
    <2>1. CASE s = t
        <3>1. call'[s] = NoCall /\ blkPc'[s] = "idle" /\ done'[s] = 0 /\ Size(s)' = 0
            BY <1>1, <2>1, Zenon DEF BlkRelease, TypedInRange, BlkTyped, Size
        <3> QED
            BY <1>1, <3>1, Sizes DEF InRange
    <2>2. CASE s # t
        <3>1. call'[s] = call[s] /\ blkPc'[s] = blkPc[s] /\ done'[s] = done[s]
            BY <2>2, Zenon DEF BlkRelease, TypedInRange, BlkTyped
        <3> QED
            BY <3>1, Zenon DEF TypedInRange, InRange, Size
    <2> QED
        BY <2>1, <2>2, Zenon
<1> QED
    BY <1>2, <1>3, Zenon DEF TypedInRange

LEMMA FetchTyped ==
    ASSUME TypedInRange, Fetch
    PROVE  TypedInRange'
<1>1. BlkTyped'
    BY Zenon DEF Fetch, TypedInRange, BlkTyped, HoldsValues, ring
<1> QED
    BY <1>1, Zenon DEF Fetch, TypedInRange, InRange, Size

(* What the device moves for a request, all of it or a part.               *)
LEMMA MovedFacts ==
    ASSUME BlkTyped, fetched # NoRequest, NEW k \in 0 .. fetched.len, Moved(k)
    PROVE  /\ fetched \in Request /\ fetched.type \in Types
           /\ bounce' \in [Chunk -> BlkContents]
           /\ sectors' \in [Sectors -> Values]
           /\ \A i \in Chunk : bounce[i] \in Values => bounce'[i] \in Values
<1>1. /\ fetched \in Request /\ fetched.type \in Types
      /\ fetched.sector \in Nat /\ fetched.len \in 1 .. MaxChunk
      /\ fetched.sector + fetched.len <= BlockCount
    BY Sizes, SMTT(30) DEF BlkTyped, Request, Sectors
<1>2. \A i \in Chunk : i < k => fetched.sector + i \in Sectors
    BY <1>1, Sizes DEF Chunk, Sectors
<1>3. \A s \in Sectors : s - fetched.sector \in 0 .. k - 1 => s - fetched.sector \in Chunk
    BY <1>1, Sizes DEF Chunk, Sectors
<1>4. \A i \in Chunk : i < k => sectors[fetched.sector + i] \in Values
    BY <1>2, Zenon DEF BlkTyped
<1>5. /\ bounce' \in [Chunk -> BlkContents]
      /\ \A i \in Chunk : bounce[i] \in Values => bounce'[i] \in Values
    <2>1. CASE fetched.type = "out"
        BY <2>1, Zenon DEF Moved, BlkTyped
    <2>2. CASE fetched.type # "out"
        <3>1. bounce' = [i \in Chunk |-> IF i < k THEN sectors[fetched.sector + i] ELSE bounce[i]]
            BY <2>2, Zenon DEF Moved
        <3> QED
            BY <1>4, <3>1, Zenon DEF BlkTyped, BlkContents
    <2> QED
        BY <2>1, <2>2, Zenon
<1>6. sectors' \in [Sectors -> Values]
    <2>1. CASE fetched.type = "in"
        BY <2>1, Zenon DEF Moved, BlkTyped
    <2>2. CASE fetched.type = "out"
        <3>1. sectors' = [s \in Sectors |-> IF s - fetched.sector \in 0 .. k - 1
                                            THEN bounce[s - fetched.sector] ELSE sectors[s]]
            BY <2>2, Zenon DEF Moved
        <3>2. \A s \in Sectors : s - fetched.sector \in 0 .. k - 1 =>
                    bounce[s - fetched.sector] \in Values
            <4> TAKE s \in Sectors
            <4> HAVE s - fetched.sector \in 0 .. k - 1
            <4>1. s - fetched.sector \in Chunk /\ s - fetched.sector < fetched.len
                BY <1>1, <1>3
            <4> QED
                BY <2>2, <4>1, Zenon DEF BlkTyped, HoldsValues
        <3> QED
            BY <3>1, <3>2, Zenon DEF BlkTyped
    <2> QED
        BY <1>1, <2>1, <2>2, Zenon DEF Types
<1> QED
    BY <1>1, <1>5, <1>6, Zenon

(* The device answers a request: it has moved a part of it, and all of it  *)
(* when the status is OK.                                                  *)
LEMMA ServeFacts ==
    ASSUME BlkTyped, Serve
    PROVE  /\ fetched # NoRequest
           /\ \E k \in 0 .. fetched.len : Moved(k) /\ (status' = "ok" => k = fetched.len)
           /\ status' \in {"ok", "error"}
           /\ used' = (used + 1) % IdxMod
           /\ fetched' = NoRequest
           /\ UNCHANGED <<lock, blkPc, call, done, header, avail, lastUsed, blkTimeouts>>
<1>1. fetched.len \in 0 .. fetched.len
    BY Sizes DEF Serve, BlkTyped, Request
<1>2. CASE status' = "ok" /\ Moved(fetched.len)
    BY <1>1, <1>2, Zenon DEF Serve
<1>3. CASE status' = "error" /\ \E k \in 0 .. fetched.len : Moved(k)
    BY <1>3, Zenon DEF Serve
<1> QED
    BY <1>2, <1>3, Zenon DEF Serve

LEMMA ServeTyped ==
    ASSUME TypedInRange, Serve
    PROVE  TypedInRange'
<1>1. PICK k \in 0 .. fetched.len : Moved(k)
    BY ServeFacts, Zenon DEF TypedInRange
<1>2. /\ bounce' \in [Chunk -> BlkContents]
      /\ sectors' \in [Sectors -> Values]
      /\ \A i \in Chunk : bounce[i] \in Values => bounce'[i] \in Values
    BY <1>1, MovedFacts, ServeFacts, Zenon DEF TypedInRange
<1>3. HoldsValues(header)' /\ HoldsValues(fetched)'
    BY <1>2, ServeFacts DEF HoldsValues, TypedInRange, BlkTyped, NoRequest
<1>4. used' \in 0 .. IdxMod - 1
    BY NextIndex, ServeFacts, Zenon DEF TypedInRange, BlkTyped
<1>5. BlkTyped'
    BY <1>2, <1>3, <1>4, ServeFacts, Zenon DEF TypedInRange, BlkTyped
<1> QED
    BY <1>5, ServeFacts, Zenon DEF TypedInRange, InRange, Size

LEMMA TypedStep ==
    ASSUME TypedInRange, [BlkNext]_blkVars
    PROVE  TypedInRange'
<1>1. CASE UNCHANGED blkVars
    BY <1>1, Zenon
    DEF blkVars, ring, blkDevice, TypedInRange, BlkTyped, HoldsValues, InRange, Size
<1>2. ASSUME NEW t \in Callers, CallerStep(t) PROVE TypedInRange'
    BY <1>2, AcquireTyped, SubmitTyped, SucceedTyped, FailTyped, ReleaseTyped, Zenon
    DEF CallerStep
<1> QED
    BY <1>1, <1>2, TransferTyped, FetchTyped, ServeTyped, Zenon DEF BlkNext

-----------------------------------------------------------------------------
(* The lock.                                                               *)
LEMMA LockedStep ==
    ASSUME BlkTyped, Locked, [BlkNext]_blkVars
    PROVE  Locked'
<1>0. blkPc \in [Callers -> {"idle", "lock", "submit", "wait", "done"}] /\ NoCaller \notin Callers
    BY BlkAssumption, Zenon DEF BlkTyped
<1>1. ASSUME NEW t \in Callers, CallerStep(t) PROVE Locked'
    <2>1. CASE Acquire(t)
        BY <1>0, <2>1, Zenon DEF Acquire, Locked
    <2>2. CASE BlkRelease(t)
        BY <1>0, <2>2, Zenon DEF BlkRelease, Locked
    <2>3. ASSUME NEW p \in {"submit", "wait", "done"}, lock' = lock,
                 blkPc[t] \in {"submit", "wait"}, blkPc' = [blkPc EXCEPT ![t] = p]
          PROVE  Locked'
        BY <1>0, <2>3, Zenon DEF Locked
    <2>4. CASE BlkSubmit(t)
        BY <2>3, <2>4, Zenon DEF BlkSubmit
    <2>5. CASE BlkSucceed(t)
        BY <2>3, <2>5, Zenon DEF BlkSucceed
    <2>6. CASE BlkFail(t) \/ Timeout(t)
        BY <2>3, <2>6, Zenon DEF BlkFail, Timeout
    <2> QED
        BY <1>1, <2>1, <2>2, <2>4, <2>5, <2>6, Zenon DEF CallerStep
<1>2. ASSUME NEW t \in Callers, blkPc[t] = "idle", lock' = lock,
             blkPc' = [blkPc EXCEPT ![t] = "lock"]
      PROVE  Locked'
    BY <1>0, <1>2, Zenon DEF Locked
<1>3. CASE UNCHANGED <<lock, blkPc>>
    BY <1>3, Zenon DEF Locked
<1> QED
    BY <1>1, <1>2, <1>3, Zenon DEF BlkNext, Transfer, Fetch, Serve, blkVars

-----------------------------------------------------------------------------
(* The ring indices: at most the holder of the lock waits.                 *)
LEMMA OneWaits ==
    ASSUME BlkTyped, Locked, NEW s \in Callers, NEW t \in Callers,
           blkPc[s] = "wait", blkPc[t] \in {"submit", "wait", "done"}
    PROVE  s = t
BY Zenon DEF Locked

LEMMA LaggingStep ==
    ASSUME BlkTyped, Locked, Lagging, [BlkNext]_blkVars
    PROVE  Lagging'
<1>0. /\ blkPc \in [Callers -> {"idle", "lock", "submit", "wait", "done"}]
      /\ avail \in 0 .. IdxMod - 1 /\ lastUsed \in 0 .. IdxMod - 1
      /\ blkTimeouts \in 0 .. MaxBlkTimeouts
    BY Zenon DEF BlkTyped
<1>1. ASSUME UNCHANGED <<avail, lastUsed, blkTimeouts>>,
             \A s \in Callers : blkPc'[s] = "wait" <=> blkPc[s] = "wait"
      PROVE  Lagging'
    BY <1>1, Zenon DEF Lagging, Lag
<1>2. ASSUME NEW t \in Callers, BlkSubmit(t) PROVE Lagging'
    <2>1. \A s \in Callers : blkPc[s] # "wait"
        BY <1>2, OneWaits, Zenon DEF BlkSubmit
    <2>2. Lag = blkTimeouts
        BY <2>1, Zenon DEF Lagging
    <2>3. Lag' = Lag + 1
        <3>1. avail' = IF avail + 1 = IdxMod THEN 0 ELSE avail + 1
            BY <1>0, <1>2, NextIndex, Zenon DEF BlkSubmit
        <3>2. lastUsed' = lastUsed
            BY <1>2, Zenon DEF BlkSubmit
        <3> QED
            BY <1>0, <2>2, <3>1, <3>2, Sizes DEF Lag
    <2>4. blkTimeouts' = blkTimeouts /\ blkPc' = [blkPc EXCEPT ![t] = "wait"]
        BY <1>2, Zenon DEF BlkSubmit
    <2> QED
        BY <1>0, <2>2, <2>3, <2>4, Zenon DEF Lagging
<1>3. ASSUME NEW t \in Callers, blkPc[t] = "wait", blkPc'[t] # "wait",
             \A s \in Callers : s # t => blkPc'[s] = blkPc[s],
             \/ Lag' = Lag - 1 /\ blkTimeouts' = blkTimeouts
             \/ Lag' = Lag /\ blkTimeouts' = blkTimeouts + 1
      PROVE  Lagging'
    <2>1. \A s \in Callers : blkPc'[s] # "wait"
        BY <1>3, OneWaits, Zenon
    <2>2. Lag = blkTimeouts + 1
        BY <1>3, Zenon DEF Lagging
    <2>3. Lag' = blkTimeouts'
        BY <1>0, <1>3, <2>2
    <2> QED
        BY <2>1, <2>3, Zenon DEF Lagging
<1>4. ASSUME NEW t \in Callers, BlkSucceed(t) \/ BlkFail(t) PROVE Lagging'
    <2>1. /\ blkPc[t] = "wait" /\ lastUsed' = (lastUsed + 1) % IdxMod
          /\ UNCHANGED <<avail, blkTimeouts>>
          /\ blkPc'[t] # "wait"
          /\ \A s \in Callers : s # t => blkPc'[s] = blkPc[s]
        BY <1>0, <1>4, Zenon DEF BlkSucceed, BlkFail
    <2>2. lastUsed' = IF lastUsed + 1 = IdxMod THEN 0 ELSE lastUsed + 1
        BY <1>0, <2>1, NextIndex, Zenon
    <2>3. Lag = blkTimeouts + 1
        BY <2>1, Zenon DEF Lagging
    <2>4. Lag' = Lag - 1
        BY <1>0, <2>1, <2>2, <2>3, Sizes DEF Lag
    <2> QED
        BY <1>3, <2>1, <2>4, Zenon
<1>5. ASSUME NEW t \in Callers, Timeout(t) PROVE Lagging'
    <2>1. /\ blkPc[t] = "wait" /\ Lag' = Lag /\ blkTimeouts' = blkTimeouts + 1
          /\ blkPc'[t] # "wait"
          /\ \A s \in Callers : s # t => blkPc'[s] = blkPc[s]
        BY <1>0, <1>5, Zenon DEF Timeout, ring, Lag
    <2> QED
        BY <1>3, <2>1, Zenon
<1>6. ASSUME NEW t \in Callers, Acquire(t) \/ BlkRelease(t) PROVE Lagging'
    BY <1>0, <1>1, <1>6, Zenon DEF Acquire, BlkRelease, ring
<1>7. ASSUME NEW t \in Callers, NEW write \in BOOLEAN, NEW lba \in Sectors,
             NEW buffer \in Buffers(write), Transfer(t, write, lba, buffer)
      PROVE  Lagging'
    BY <1>0, <1>1, <1>7, Zenon DEF Transfer, ring
<1>8. CASE Fetch \/ Serve \/ UNCHANGED blkVars
    BY <1>1, <1>8, Zenon DEF Fetch, Serve, blkVars, ring
<1> QED
    BY <1>2, <1>4, <1>5, <1>6, <1>7, <1>8, Zenon DEF BlkNext, CallerStep

LEMMA LagZero ==
    ASSUME NEW a \in 0 .. IdxMod - 1, NEW u \in 0 .. IdxMod - 1,
           (IF a >= u THEN a - u ELSE a - u + IdxMod) = 0
    PROVE  a = u
BY Sizes

LEMMA LagOne ==
    ASSUME NEW a \in 0 .. IdxMod - 1, NEW u \in 0 .. IdxMod - 1,
           (IF a >= u THEN a - u ELSE a - u + IdxMod) = 1
    PROVE  a = (u + 1) % IdxMod
<1>1. (u + 1) % IdxMod = IF u + 1 = IdxMod THEN 0 ELSE u + 1
    BY NextIndex, Zenon
<1> QED
    BY <1>1, Sizes

LEMMA LagCounted == BlkTyped /\ Locked /\ Lagging => BehindByTimeouts
<1> SUFFICES ASSUME BlkTyped, Locked, Lagging PROVE BehindByTimeouts
    OBVIOUS
<1> DEFINE waiting == {t \in Callers : blkPc[t] = "wait"}
<1>0. /\ avail \in 0 .. IdxMod - 1 /\ lastUsed \in 0 .. IdxMod - 1
      /\ blkTimeouts \in 0 .. MaxBlkTimeouts
    BY Zenon DEF BlkTyped
<1>1. (avail - lastUsed + IdxMod) % IdxMod = Lag
    <2>1. avail - lastUsed + IdxMod \in Int /\ IdxMod \in Nat \ {0}
        BY <1>0, Sizes
    <2>2. /\ avail - lastUsed + IdxMod \in 0 .. IdxMod - 1 =>
                (avail - lastUsed + IdxMod) % IdxMod = avail - lastUsed + IdxMod
          /\ avail - lastUsed + IdxMod \in IdxMod .. 2 * IdxMod - 1 =>
                (avail - lastUsed + IdxMod) % IdxMod = (avail - lastUsed + IdxMod) - IdxMod
        BY <2>1, Remainder, Zenon
    <2> QED
        BY <1>0, <2>1, <2>2 DEF Lag
<1>2. CASE \A t \in Callers : blkPc[t] # "wait"
    <2>1. waiting = {} /\ Lag = blkTimeouts
        BY <1>2, Zenon DEF Lagging
    <2>2. Cardinality(waiting) = 0
        BY <2>1, FS_EmptySet, Zenon
    <2> QED
        BY <1>0, <1>1, <2>1, <2>2 DEF BehindByTimeouts
<1>3. ASSUME NEW t \in Callers, blkPc[t] = "wait" PROVE BehindByTimeouts
    <2>1. waiting = {t} /\ Lag = blkTimeouts + 1
        BY <1>3, OneWaits, Zenon DEF Lagging
    <2>2. Cardinality(waiting) = 1
        BY <2>1, FS_Singleton, Zenon
    <2> QED
        BY <1>0, <1>1, <2>1, <2>2, Zenon DEF BehindByTimeouts
<1> QED
    BY <1>2, <1>3, Zenon

-----------------------------------------------------------------------------
(* The request that waits, while none has timed out.                       *)

LEMMA KeepsRequest ==
    ASSUME NEW s \in Callers, call'[s] = call[s], done'[s] = done[s],
           UNCHANGED <<header, status, bounce, avail, lastUsed, sectors, used, fetched>>
    PROVE  /\ Pending(s) => Pending(s)'
           /\ Matches(s) => Matches(s)'
<1>1. ChunkOf(s)' = ChunkOf(s)
    BY Zenon DEF ChunkOf
<1> QED
    BY <1>1, SMTT(30) DEF Pending, HeaderOf, BounceOf, ServedOf, Matches

LEMMA SubmitInStep ==
    ASSUME BlkInv, blkTimeouts = 0, NEW t \in Callers, BlkSubmit(t)
    PROVE  InStep'
<1>1. /\ UNCHANGED <<lock, call, done, lastUsed, sectors, used, fetched>>
      /\ blkPc' = [blkPc EXCEPT ![t] = "wait"]
      /\ lock = t
    BY Zenon DEF BlkSubmit, blkDevice, BlkInv, Locked
<1>2. \A s \in Callers : blkPc[s] # "wait"
    BY OneWaits, Zenon DEF BlkSubmit, BlkInv
<1>3. Quiet /\ Matches(t)
    BY <1>1, <1>2, Zenon DEF BlkInv, InStep
<1>4. ChunkOf(t)' = ChunkOf(t)
    BY <1>1, Zenon DEF ChunkOf
<1>5. avail' # used'
    BY <1>1, <1>3, NextIndex, Zenon DEF BlkSubmit, Quiet, BlkInv, BlkTyped
<1>6. HeaderOf(t)'
    BY <1>1, <1>4, Zenon DEF BlkSubmit, HeaderOf
<1>7. BounceOf(t)'
    <2>1. CASE call[t].write
        <3>1. bounce' = [i \in Chunk |-> IF i < ChunkOf(t) THEN call[t].buffer[done[t] + i + 1]
                                        ELSE bounce[i]]
            BY <2>1, Zenon DEF BlkSubmit
        <3> QED
            BY <1>1, <1>4, <3>1, Zenon DEF BounceOf
    <2>2. CASE ~call[t].write
        BY <1>1, <2>2, Zenon DEF BounceOf
    <2> QED
        BY <2>1, <2>2, Zenon
<1>8. Pending(t)'
    BY <1>1, <1>3, <1>5, <1>6, <1>7, Zenon DEF Pending, Quiet
<1>9. Matches(t)'
    BY <1>1, <1>3, Zenon DEF Matches
<1>10. \A s \in Callers : s # t => blkPc'[s] # "wait" /\ lock' # s
    BY <1>1, <1>2, Zenon DEF BlkInv, BlkTyped
<1>11. blkPc'[t] = "wait"
    BY <1>1, Zenon DEF BlkInv, BlkTyped
<1> QED
    BY <1>8, <1>9, <1>10, <1>11, Zenon DEF InStep

(* A request that was answered with OK has moved its sectors, and a read   *)
(* takes them from the bounce buffer.                                      *)
LEMMA SucceedMatches ==
    ASSUME BlkInv, blkTimeouts = 0, NEW t \in Callers, BlkSucceed(t)
    PROVE  Matches(t)'
<1> DEFINE n == ChunkOf(t)
<1>0. TypedInRange
    BY Zenon DEF BlkInv, TypedInRange
<1>1. Pending(t) /\ Matches(t)
    BY Zenon DEF BlkInv, InStep, BlkSucceed, Locked
<1>2. /\ call[t].lba \in Nat /\ Size(t) \in Nat /\ done[t] \in Nat /\ n \in Nat
      /\ n <= MaxChunk /\ done[t] + n <= Size(t)
    BY <1>0, ChunkFacts, Zenon DEF TypedInRange
<1>3. \A i \in Chunk : i < n =>
            sectors[call[t].lba + done[t] + i]
                = IF call[t].write THEN call[t].buffer[done[t] + i + 1] ELSE bounce[i]
    BY <1>1, Zenon DEF Pending, ServedOf, BlkSucceed
<1>4. sectors' = sectors /\ call'[t].lba = call[t].lba /\ done'[t] = done[t] + n
    <2>1. done \in [Callers -> Nat] /\ done' = [done EXCEPT ![t] = @ + n]
        BY <1>0, SucceedTyped, Zenon DEF TypedInRange, BlkTyped
    <2>2. sectors' = sectors /\ call'[t].lba = call[t].lba
        BY <1>0, SucceedCall, Zenon DEF BlkSucceed, blkDevice
    <2> QED
        BY <2>1, <2>2, Zenon
<1> SUFFICES ASSUME NEW i \in Nat, i < done[t] + n
             PROVE  call'[t].buffer[i + 1] = sectors[call[t].lba + i]
    BY <1>4, Zenon DEF Matches
<1>5. i + 1 \in 1 .. Size(t)
    BY <1>2
<1>6. CASE i < done[t]
    <2>1. (i + 1) - done[t] \notin 1 .. n
        BY <1>2, <1>6
    <2>2. call'[t].buffer[i + 1] = call[t].buffer[i + 1]
        BY <1>0, <1>5, <2>1, SucceedCall, Zenon
    <2> QED
        BY <1>1, <1>6, <2>2, Zenon DEF Matches
<1>7. CASE i >= done[t]
    <2> DEFINE j == i - done[t]
    <2>1. j \in Chunk /\ j < n /\ (i + 1) - done[t] \in 1 .. n /\ (i + 1) - done[t] - 1 = j
          /\ call[t].lba + done[t] + j = call[t].lba + i /\ done[t] + j + 1 = i + 1
        BY <1>2, <1>7, Sizes DEF Chunk
    <2>2. sectors[call[t].lba + done[t] + j]
                = IF call[t].write THEN call[t].buffer[done[t] + j + 1] ELSE bounce[j]
        BY <1>3, <2>1, Zenon
    <2>3. sectors[call[t].lba + i] = IF call[t].write THEN call[t].buffer[i + 1] ELSE bounce[j]
        BY <2>1, <2>2, Zenon
    <2> HIDE DEF j
    <2>4. CASE call[t].write
        <3>1. call'[t] = call[t]
            BY <1>0, <2>4, SucceedCall, Zenon
        <3> QED
            BY <2>3, <2>4, <3>1, Zenon
    <2>5. CASE ~call[t].write
        <3>1. call'[t].buffer[i + 1] = bounce[(i + 1) - done[t] - 1]
            BY <1>0, <1>5, <2>1, <2>5, SucceedCall, Zenon
        <3> QED
            BY <2>1, <2>3, <2>5, <3>1, Zenon
    <2> QED
        BY <2>4, <2>5, Zenon
<1> QED
    BY <1>2, <1>6, <1>7

LEMMA EndsInStep ==
    ASSUME BlkInv, Locked', Lagging', blkTimeouts = 0, NEW t \in Callers,
           BlkSucceed(t) \/ BlkFail(t)
    PROVE  InStep'
<1>1. /\ UNCHANGED <<lock, header, status, bounce, avail, sectors, used, fetched, blkTimeouts>>
      /\ blkPc[t] = "wait" /\ blkPc'[t] # "wait" /\ used # lastUsed
      /\ \A s \in Callers : s # t => blkPc'[s] = blkPc[s]
      /\ lastUsed' = (lastUsed + 1) % IdxMod
    BY Zenon DEF BlkSucceed, BlkFail, blkDevice, BlkInv, BlkTyped
<1>2. lock = t
    BY <1>1, Zenon DEF BlkInv, Locked
<1>3. \A s \in Callers : blkPc'[s] # "wait"
    BY <1>1, OneWaits, Zenon DEF BlkInv
<1>4. avail' = lastUsed'
    <2>1. Lag' = 0
        BY <1>1, <1>3, Zenon DEF Lagging
    <2>2. avail' \in 0 .. IdxMod - 1 /\ lastUsed' \in 0 .. IdxMod - 1
        BY <1>1, NextIndex, Zenon DEF BlkInv, BlkTyped
    <2>3. Lag' = IF avail' >= lastUsed' THEN avail' - lastUsed' ELSE avail' - lastUsed' + IdxMod
        BY Zenon DEF Lag
    <2> QED
        BY <2>1, <2>2, <2>3, LagZero, Zenon
<1>5. used = avail /\ fetched = NoRequest
    BY <1>1, Zenon DEF BlkInv, InStep, Pending
<1>6. Quiet'
    BY <1>1, <1>4, <1>5, Zenon DEF Quiet
<1>7. Matches(t)'
    <2>1. CASE BlkSucceed(t)
        BY <2>1, SucceedMatches, Zenon
    <2>2. CASE BlkFail(t)
        <3>1. Matches(t)
            BY <1>2, Zenon DEF BlkInv, InStep
        <3> QED
            BY <1>1, <2>2, <3>1, Zenon DEF BlkFail, Matches
    <2> QED
        BY <2>1, <2>2, Zenon
<1> QED
    BY <1>1, <1>2, <1>3, <1>6, <1>7, Zenon DEF InStep

(* While the device has a request, it is that of the caller who waits.     *)
LEMMA DeviceServesWaiting ==
    ASSUME BlkInv, blkTimeouts = 0, used # avail \/ fetched # NoRequest
    PROVE  \E t \in Callers :
            /\ blkPc[t] = "wait" /\ lock = t /\ Pending(t) /\ Matches(t)
            /\ used = lastUsed /\ fetched \in {NoRequest, header}
<1>1. PICK t \in Callers : blkPc[t] = "wait"
    BY Zenon DEF BlkInv, InStep, Quiet
<1>2. lock = t /\ Pending(t) /\ Matches(t)
    BY <1>1, Zenon DEF BlkInv, InStep, Locked
<1> QED
    BY <1>1, <1>2, Zenon DEF Pending

LEMMA FetchInStep ==
    ASSUME BlkInv, blkTimeouts = 0, Fetch
    PROVE  InStep'
<1>1. PICK t \in Callers :
            /\ blkPc[t] = "wait" /\ lock = t /\ Pending(t) /\ Matches(t) /\ used = lastUsed
    BY DeviceServesWaiting, Zenon DEF Fetch
<1>2. /\ UNCHANGED <<lock, blkPc, call, done, header, status, bounce, avail, lastUsed, sectors, used>>
      /\ fetched' = header
    BY Zenon DEF Fetch, ring
<1>3. ChunkOf(t)' = ChunkOf(t)
    BY <1>2, Zenon DEF ChunkOf
<1>4. Pending(t)' /\ Matches(t)'
    BY <1>1, <1>2, <1>3, Zenon DEF Pending, HeaderOf, BounceOf, Matches
<1>5. \A s \in Callers : s # t => blkPc'[s] # "wait" /\ lock' # s
    BY <1>1, <1>2, OneWaits, Zenon DEF BlkInv
<1> QED
    BY <1>1, <1>2, <1>4, <1>5, Zenon DEF InStep

(* What the device does to the sectors, for the request of caller t.       *)
LEMMA ServeWrites ==
    ASSUME BlkInv, blkTimeouts = 0, Serve
    PROVE  \E t \in Callers :
            /\ blkPc[t] = "wait" /\ lock = t /\ Pending(t) /\ Matches(t)
            /\ used = lastUsed /\ fetched = header
            /\ \E k \in 0 .. ChunkOf(t) :
                /\ status' = "ok" => k = ChunkOf(t)
                /\ call[t].write =>
                    /\ bounce' = bounce
                    /\ sectors' = [s \in Sectors |->
                                    IF s - (call[t].lba + done[t]) \in 0 .. k - 1
                                    THEN bounce[s - (call[t].lba + done[t])] ELSE sectors[s]]
                /\ ~call[t].write =>
                    /\ sectors' = sectors
                    /\ bounce' = [i \in Chunk |-> IF i < k THEN sectors[call[t].lba + done[t] + i]
                                                  ELSE bounce[i]]
<1>0. BlkTyped
    BY Zenon DEF BlkInv
<1>1. PICK t \in Callers :
            /\ blkPc[t] = "wait" /\ lock = t /\ Pending(t) /\ Matches(t) /\ used = lastUsed
            /\ fetched \in {NoRequest, header}
    BY DeviceServesWaiting, Zenon DEF Serve
<1>2. fetched = header
    BY <1>1, Zenon DEF Serve
<1>3. /\ fetched.type = IF call[t].write THEN "out" ELSE "in"
      /\ fetched.sector = call[t].lba + done[t] /\ fetched.len = ChunkOf(t)
    BY <1>1, <1>2, Zenon DEF Pending, HeaderOf
<1>4. PICK k \in 0 .. fetched.len : Moved(k) /\ (status' = "ok" => k = fetched.len)
    BY <1>0, ServeFacts, Zenon
<1>5. k \in 0 .. ChunkOf(t) /\ (status' = "ok" => k = ChunkOf(t))
    BY <1>3, <1>4, Zenon
<1>6. ASSUME call[t].write
      PROVE  /\ bounce' = bounce
             /\ sectors' = [s \in Sectors |->
                            IF s - (call[t].lba + done[t]) \in 0 .. k - 1
                            THEN bounce[s - (call[t].lba + done[t])] ELSE sectors[s]]
    <2>1. fetched.type = "out"
        BY <1>3, <1>6, Zenon
    <2>2. fetched.type # "in"
        BY <2>1, Zenon
    <2> QED
        BY <1>3, <1>4, <2>1, <2>2, Zenon DEF Moved
<1>7. ASSUME ~call[t].write
      PROVE  /\ sectors' = sectors
             /\ bounce' = [i \in Chunk |-> IF i < k THEN sectors[call[t].lba + done[t] + i]
                                           ELSE bounce[i]]
    <2>1. fetched.type = "in"
        BY <1>3, <1>7, Zenon
    <2>2. fetched.type # "out"
        BY <2>1, Zenon
    <2> QED
        BY <1>3, <1>4, <2>1, <2>2, Zenon DEF Moved
<1> QED
    BY <1>1, <1>2, <1>5, <1>6, <1>7, Zenon

LEMMA ServeInStep ==
    ASSUME BlkInv, blkTimeouts = 0, Serve
    PROVE  InStep'
<1>0. TypedInRange
    BY Zenon DEF BlkInv, TypedInRange
<1>1. PICK t \in Callers :
            /\ blkPc[t] = "wait" /\ lock = t /\ Pending(t) /\ Matches(t)
            /\ used = lastUsed /\ fetched = header
            /\ \E k \in 0 .. ChunkOf(t) :
                /\ status' = "ok" => k = ChunkOf(t)
                /\ call[t].write =>
                    /\ bounce' = bounce
                    /\ sectors' = [s \in Sectors |->
                                    IF s - (call[t].lba + done[t]) \in 0 .. k - 1
                                    THEN bounce[s - (call[t].lba + done[t])] ELSE sectors[s]]
                /\ ~call[t].write =>
                    /\ sectors' = sectors
                    /\ bounce' = [i \in Chunk |-> IF i < k THEN sectors[call[t].lba + done[t] + i]
                                                  ELSE bounce[i]]
    BY ServeWrites, Zenon
<1>2. PICK k \in 0 .. ChunkOf(t) :
                /\ status' = "ok" => k = ChunkOf(t)
                /\ call[t].write =>
                    /\ bounce' = bounce
                    /\ sectors' = [s \in Sectors |->
                                    IF s - (call[t].lba + done[t]) \in 0 .. k - 1
                                    THEN bounce[s - (call[t].lba + done[t])] ELSE sectors[s]]
                /\ ~call[t].write =>
                    /\ sectors' = sectors
                    /\ bounce' = [i \in Chunk |-> IF i < k THEN sectors[call[t].lba + done[t] + i]
                                                  ELSE bounce[i]]
    BY <1>1, Zenon
<1>3. /\ UNCHANGED <<lock, blkPc, call, done, header, avail, lastUsed>>
      /\ fetched' = NoRequest /\ used' = (used + 1) % IdxMod
    BY <1>0, ServeFacts, Zenon DEF TypedInRange
<1>4. ChunkOf(t)' = ChunkOf(t)
    BY <1>3, Zenon DEF ChunkOf
<1>5. /\ call[t].lba \in Nat /\ Size(t) \in Nat /\ done[t] \in Nat /\ ChunkOf(t) \in Nat
      /\ ChunkOf(t) <= MaxChunk /\ call[t].lba + done[t] + ChunkOf(t) <= BlockCount
    BY <1>0, ChunkFacts, Zenon DEF TypedInRange
<1>6. used' # lastUsed' /\ avail' = used'
    <2>1. Lag = 1
        BY <1>1 DEF BlkInv, Lagging
    <2>2. Lag = IF avail >= lastUsed THEN avail - lastUsed ELSE avail - lastUsed + IdxMod
        BY Zenon DEF Lag
    <2>3. avail \in 0 .. IdxMod - 1 /\ lastUsed \in 0 .. IdxMod - 1
        BY <1>0, Zenon DEF TypedInRange, BlkTyped
    <2>4. avail = (lastUsed + 1) % IdxMod /\ (lastUsed + 1) % IdxMod # lastUsed
        BY <2>1, <2>2, <2>3, LagOne, NextIndex, Zenon
    <2> QED
        BY <1>1, <1>3, <2>4, Zenon
<1>7. ServedOf(t)'
    <2> SUFFICES ASSUME status' = "ok", NEW i \in Chunk, i < ChunkOf(t)
                 PROVE  sectors'[call[t].lba + done[t] + i]
                            = IF call[t].write THEN call[t].buffer[done[t] + i + 1] ELSE bounce'[i]
        BY <1>3, <1>4, Zenon DEF ServedOf
    <2>1. k = ChunkOf(t)
        BY <1>2, Zenon
    <2> DEFINE s == call[t].lba + done[t] + i
    <2>2. s \in Sectors /\ s - (call[t].lba + done[t]) \in 0 .. k - 1
          /\ s - (call[t].lba + done[t]) = i
        BY <1>5, <2>1, Sizes DEF Sectors, Chunk
    <2> HIDE DEF s
    <2>3. CASE call[t].write
        <3>1. sectors'[s] = bounce[s - (call[t].lba + done[t])]
            BY <1>2, <2>2, <2>3, Zenon
        <3>2. bounce[i] = call[t].buffer[done[t] + i + 1]
            BY <1>1, <2>3, Zenon DEF Pending, BounceOf
        <3> QED
            BY <2>2, <2>3, <3>1, <3>2, Zenon DEF s
    <2>4. CASE ~call[t].write
        <3>1. bounce'[i] = sectors[s] /\ sectors' = sectors
            BY <1>2, <2>1, <2>4, Zenon DEF s
        <3> QED
            BY <2>4, <3>1, Zenon DEF s
    <2> QED
        BY <2>3, <2>4, Zenon
<1>8. HeaderOf(t)'
    BY <1>1, <1>3, <1>4, Zenon DEF Pending, HeaderOf
<1>9. BounceOf(t)'
    BY <1>1, <1>2, <1>3, <1>4, Zenon DEF Pending, BounceOf
<1>10. Matches(t)'
    <2> SUFFICES ASSUME NEW i \in Nat, i < done[t]
                 PROVE  sectors'[call[t].lba + i] = sectors[call[t].lba + i]
        BY <1>1, <1>3, Zenon DEF Matches
    <2> DEFINE s == call[t].lba + i
    <2>1. s \in Sectors /\ s - (call[t].lba + done[t]) \notin 0 .. k - 1
        BY <1>5, Sizes DEF Sectors
    <2> HIDE DEF s
    <2>2. sectors'[s] = sectors[s]
        BY <1>2, <2>1, Zenon
    <2> QED
        BY <2>2, Zenon DEF s
<1>11. \A s \in Callers : s # t => blkPc'[s] # "wait" /\ lock' # s
    BY <1>1, <1>3, OneWaits, Zenon DEF BlkInv
<1>12. Pending(t)'
    BY <1>3, <1>6, <1>7, <1>8, <1>9, Zenon DEF Pending
<1> QED
    BY <1>1, <1>3, <1>10, <1>11, <1>12, Zenon DEF InStep

LEMMA InStepStep ==
    ASSUME BlkInv, Locked', Lagging', [BlkNext]_blkVars
    PROVE  InStep'
<1> SUFFICES ASSUME blkTimeouts' = 0 PROVE InStep'
    BY Zenon DEF InStep
<1>0. /\ blkTimeouts = 0
      /\ \A t \in Callers : ~Timeout(t)
    BY Sizes, SMTT(30)
    DEF BlkInv, BlkTyped, BlkNext, Transfer, CallerStep, Acquire, BlkSubmit, BlkSucceed,
       BlkFail, Timeout, BlkRelease, Fetch, Serve, blkVars
<1>1. ASSUME NEW t \in Callers, BlkSubmit(t) PROVE InStep'
    BY <1>0, <1>1, SubmitInStep, Zenon
<1>2. ASSUME NEW t \in Callers, BlkSucceed(t) \/ BlkFail(t) PROVE InStep'
    BY <1>0, <1>2, EndsInStep, Zenon
<1>3. CASE Fetch
    BY <1>0, <1>3, FetchInStep, Zenon
<1>4. CASE Serve
    BY <1>0, <1>4, ServeInStep, Zenon
<1>5. ASSUME UNCHANGED <<header, status, bounce, avail, lastUsed, sectors, used, fetched>>,
             \A s \in Callers : blkPc'[s] = "wait" <=> blkPc[s] = "wait",
             \A s \in Callers : blkPc[s] = "wait" => call'[s] = call[s] /\ done'[s] = done[s],
             \A s \in Callers : lock' = s =>
                done'[s] = 0 \/ (lock = s /\ call'[s] = call[s] /\ done'[s] = done[s])
      PROVE  InStep'
    <2>1. (\A s \in Callers : blkPc'[s] # "wait") => Quiet'
        BY <1>0, <1>5, Zenon DEF BlkInv, InStep, Quiet
    <2>2. \A s \in Callers : blkPc'[s] = "wait" => Pending(s)'
        BY <1>0, <1>5, KeepsRequest, Zenon DEF BlkInv, InStep
    <2>3. \A s \in Callers : lock' = s => Matches(s)'
        <3> SUFFICES ASSUME NEW s \in Callers, lock' = s PROVE Matches(s)'
            OBVIOUS
        <3>1. CASE done'[s] = 0
            BY <3>1 DEF Matches
        <3>2. CASE lock = s /\ call'[s] = call[s] /\ done'[s] = done[s]
            BY <1>0, <1>5, <3>2, KeepsRequest, Zenon DEF BlkInv, InStep
        <3> QED
            BY <1>5, <3>1, <3>2, Zenon
    <2> QED
        BY <2>1, <2>2, <2>3, Zenon DEF InStep
<1>6. /\ blkPc \in [Callers -> {"idle", "lock", "submit", "wait", "done"}]
      /\ NoCaller \notin Callers
      /\ \A s \in Callers : lock = s <=> blkPc[s] \in {"submit", "wait", "done"}
      /\ \A s \in Callers : blkPc[s] = "lock" => done[s] = 0
    BY BlkAssumption, Zenon DEF BlkInv, BlkTyped, Locked, InRange
<1>7. ASSUME NEW t \in Callers, Acquire(t) PROVE InStep'
    BY <1>5, <1>6, <1>7, Zenon DEF Acquire, ring, blkDevice
<1>8. ASSUME NEW t \in Callers, BlkRelease(t) PROVE InStep'
    <2>1. /\ \A s \in Callers : s # t => blkPc'[s] = blkPc[s] /\ call'[s] = call[s]
                                                              /\ done'[s] = done[s]
          /\ blkPc[t] = "done" /\ blkPc'[t] = "idle" /\ lock' = NoCaller
          /\ UNCHANGED <<header, status, bounce, avail, lastUsed, sectors, used, fetched>>
        BY <1>8, Zenon DEF BlkRelease, ring, blkDevice, BlkInv, BlkTyped
    <2> QED
        BY <1>5, <1>6, <2>1, Zenon
<1>9. ASSUME NEW t \in Callers, NEW write \in BOOLEAN, NEW lba \in Sectors,
             NEW buffer \in Buffers(write), Transfer(t, write, lba, buffer)
      PROVE  InStep'
    <2>1. /\ \A s \in Callers : s # t => blkPc'[s] = blkPc[s] /\ call'[s] = call[s]
          /\ blkPc[t] = "idle" /\ blkPc'[t] = "lock"
          /\ UNCHANGED <<lock, done, header, status, bounce, avail, lastUsed, sectors, used, fetched>>
        BY <1>9, Zenon DEF Transfer, ring, blkDevice, BlkInv, BlkTyped
    <2> QED
        BY <1>5, <1>6, <2>1, Zenon
<1>10. CASE UNCHANGED blkVars
    BY <1>5, <1>10, Zenon DEF blkVars, ring, blkDevice
<1> QED
    BY <1>0, <1>1, <1>2, <1>3, <1>4, <1>7, <1>8, <1>9, <1>10, Zenon DEF BlkNext, CallerStep

-----------------------------------------------------------------------------
(* The results.                                                            *)

(* The invariant of the driver and the device, for every interleaving.     *)
THEOREM BlkInvariant == BlkSpec => []BlkInv
<1>1. BlkInv /\ [BlkNext]_blkVars => BlkInv'
    <2> SUFFICES ASSUME BlkInv, [BlkNext]_blkVars PROVE BlkInv'
        OBVIOUS
    <2>1. TypedInRange'
        BY TypedStep, Zenon DEF BlkInv, TypedInRange
    <2>2. Locked' /\ Lagging'
        BY LockedStep, LaggingStep, Zenon DEF BlkInv
    <2> QED
        BY <2>1, <2>2, InStepStep, Zenon DEF BlkInv, TypedInRange
<1> QED
    BY <1>1, InitHolds, PTL DEF BlkSpec

(* While a transfer holds the lock, the sectors done so far are the same   *)
(* in the caller's buffer and on the device until a request times out, and *)
(* last_used_idx lags behind by the requests that timed out, wrap of the   *)
(* indices included (virtio_blk.cpp:251-312).                              *)
THEOREM TransfersCorrect == BlkSpec => []TransfersSound
<1>1. ASSUME BlkInv PROVE TransfersSound
    <2>0. BlkTyped /\ (\A t \in Callers : InRange(t)) /\ Locked /\ Lagging /\ InStep
        BY <1>1, Zenon DEF BlkInv
    <2>1. BlkTypeOK
        <3>1. \A t \in Callers : /\ call[t].write \in BOOLEAN /\ call[t].lba \in Sectors
                                 /\ call[t].buffer \in Seq(BlkContents)
            BY <2>0, Zenon DEF BlkTyped, Calls
        <3>2. \A t \in Callers : done[t] \in 0 .. Len(call[t].buffer)
            <4> TAKE t \in Callers
            <4>1. done[t] \in Nat /\ done[t] <= Size(t) /\ Size(t) \in Nat
                BY <2>0, ChunkFacts, Zenon DEF InRange
            <4>2. done[t] \in 0 .. Size(t)
                BY <4>1
            <4> QED
                BY <4>2, Zenon DEF Size
        <3>3. {avail, lastUsed, used} \subseteq 0 .. IdxMod - 1
            BY <2>0, Zenon DEF BlkTyped
        <3> QED
            BY <2>0, <3>1, <3>2, <3>3, Zenon DEF BlkTyped, BlkTypeOK
    <2>2. TransferredMatches
        <3> SUFFICES ASSUME NEW t \in Callers, blkTimeouts = 0, lock = t, NEW i \in 0 .. done[t] - 1
                     PROVE  call[t].buffer[i + 1] = sectors[call[t].lba + i]
            BY Zenon DEF TransferredMatches
        <3>1. Matches(t)
            BY <2>0, Zenon DEF InStep
        <3>2. i \in Nat /\ i < done[t]
            BY <2>0 DEF BlkTyped
        <3> QED
            BY <3>1, <3>2, Zenon DEF Matches
    <2>3. BehindByTimeouts
        BY <2>0, LagCounted, Zenon
    <2> QED
        BY <2>1, <2>2, <2>3, Zenon DEF TransfersSound
<1> QED
    BY <1>1, BlkInvariant, PTL

(* Until a request times out, a sector changes only if the transfer that   *)
(* holds the lock writes it, and then to what its caller gave; and the     *)
(* driver leaves the header, the status and the bounce buffer alone while  *)
(* the device has a request (virtio_blk.cpp:223-225, 251-263).             *)
THEOREM RequestsStayApart == BlkSpec => RequestsApart
<1>1. ASSUME BlkInv, [BlkNext]_blkVars, NEW s \in Sectors, blkTimeouts = 0, sectors'[s] # sectors[s]
      PROVE  \E t \in Callers :
                LET i == s - call[t].lba + 1
                IN  /\ lock = t /\ call[t].write
                    /\ i \in DOMAIN call[t].buffer
                    /\ sectors'[s] = call[t].buffer[i]
    <2>1. Serve
        BY <1>1, SMTT(30)
        DEF BlkNext, Transfer, CallerStep, Acquire, BlkSubmit, BlkSucceed, BlkFail,
           Timeout, BlkRelease, Fetch, blkVars, blkDevice
    <2>2. PICK t \in Callers :
            /\ blkPc[t] = "wait" /\ lock = t /\ Pending(t)
            /\ \E k \in 0 .. ChunkOf(t) :
                /\ call[t].write =>
                    /\ bounce' = bounce
                    /\ sectors' = [x \in Sectors |->
                                    IF x - (call[t].lba + done[t]) \in 0 .. k - 1
                                    THEN bounce[x - (call[t].lba + done[t])] ELSE sectors[x]]
                /\ ~call[t].write => sectors' = sectors
        BY <1>1, <2>1, ServeWrites, Zenon
    <2>3. PICK k \in 0 .. ChunkOf(t) :
            /\ call[t].write
            /\ s - (call[t].lba + done[t]) \in 0 .. k - 1
            /\ sectors'[s] = bounce[s - (call[t].lba + done[t])]
        BY <1>1, <2>2, Zenon
    <2> DEFINE j == s - (call[t].lba + done[t])
    <2>4. /\ call[t].lba \in Nat /\ Size(t) \in Nat /\ done[t] \in Nat /\ ChunkOf(t) \in Nat
          /\ ChunkOf(t) <= MaxChunk /\ done[t] + ChunkOf(t) <= Size(t)
        BY <1>1, ChunkFacts, Zenon DEF BlkInv
    <2>5. DOMAIN call[t].buffer = 1 .. Size(t)
        BY <1>1, ChunkFacts, Zenon DEF BlkInv
    <2>6. /\ j \in Chunk /\ j < ChunkOf(t) /\ done[t] + j + 1 = s - call[t].lba + 1
          /\ s - call[t].lba + 1 \in 1 .. Size(t)
        <3>1. s \in Nat /\ k \in Nat /\ k <= ChunkOf(t)
            BY <2>4, Sizes DEF Sectors
        <3>2. s - (call[t].lba + done[t]) \in 0 .. k - 1
            BY <2>3, Zenon
        <3> QED
            BY <2>4, <3>1, <3>2, Sizes DEF Chunk
    <2> HIDE DEF j
    <2>7. bounce[j] = call[t].buffer[done[t] + j + 1]
        BY <2>2, <2>3, <2>6, Zenon DEF Pending, BounceOf
    <2> QED
        BY <2>2, <2>3, <2>4, <2>5, <2>6, <2>7, Zenon DEF j
<1>2. ASSUME BlkInv, NEW t \in Callers, blkTimeouts = 0, CallerStep(t), used # avail
      PROVE  UNCHANGED <<header, status, bounce>>
    <2>1. PICK s \in Callers : blkPc[s] = "wait"
        BY <1>2, DeviceServesWaiting, Zenon
    <2>2. ~BlkSubmit(t)
        BY <1>2, <2>1, OneWaits, Zenon DEF BlkInv, BlkSubmit
    <2> QED
        BY <1>2, <2>2, Zenon
        DEF CallerStep, Acquire, BlkSucceed, BlkFail, Timeout, BlkRelease, ring
<1>3. BlkInv /\ [BlkNext]_blkVars =>
        [\A s \in Sectors : blkTimeouts = 0 /\ sectors'[s] # sectors[s] =>
            \E t \in Callers :
                LET i == s - call[t].lba + 1
                IN  /\ lock = t /\ call[t].write
                    /\ i \in DOMAIN call[t].buffer
                    /\ sectors'[s] = call[t].buffer[i]]_blkVars
    BY <1>1, Zenon
<1>4. BlkInv /\ [BlkNext]_blkVars =>
        [\A t \in Callers : blkTimeouts = 0 /\ CallerStep(t) /\ used # avail
            => UNCHANGED <<header, status, bounce>>]_blkVars
    BY <1>2, Zenon
<1>5. BlkSpec => WritesOnlyAsked
    BY <1>3, BlkInvariant, PTL DEF BlkSpec, WritesOnlyAsked
<1>6. BlkSpec => DeviceOwnsRequest
    BY <1>4, BlkInvariant, PTL DEF BlkSpec, DeviceOwnsRequest
<1> QED
    BY <1>5, <1>6, PTL DEF RequestsApart
=============================================================================
