------------------------------ MODULE VirtioBlk ------------------------------
(***************************************************************************)
(* Transfers of the virtio block driver (src/drivers/virtio_blk.cpp) below *)
(* block::read_blocks and block::write_blocks (src/core/block.cpp), with   *)
(* the device at the other end of the ring.                                *)
(*                                                                         *)
(* There is one header, one status byte, one bounce buffer and one chain   *)
(* of descriptors, which every request uses.  A transfer is cut into       *)
(* requests of at most MaxChunk sectors.  The driver's stores before it    *)
(* publishes a request are one step: nothing reads them before, unless a   *)
(* request timed out.                                                      *)
(***************************************************************************)
EXTENDS Integers, Sequences, FiniteSets

CONSTANTS
    Callers,      \* tasks that use the device
    BlockCount,   \* sectors of the device
    Values,       \* contents of a sector
    MaxChunk,     \* VIRTIO_BLK_MAX_SECTORS_PER_REQUEST
    IdxMod,       \* 2^16, at which the ring indices wrap
    NoCaller, NoValue,
    BlkWritten,      \* bound: the buffers that callers write, and whose lengths they read
    MaxBlkTimeouts   \* bound: requests that time out

ASSUME BlkAssumption ==
    /\ {BlockCount, MaxChunk, IdxMod} \subseteq Nat \ {0}
    /\ MaxBlkTimeouts \in Nat /\ MaxBlkTimeouts + 1 < IdxMod
    /\ BlkWritten \subseteq Seq(Values)
    /\ NoCaller \notin Callers /\ NoValue \notin Values

Sectors == 0 .. BlockCount - 1
Chunk == 0 .. MaxChunk - 1
Types == {"in", "out"}
BlkContents == Values \cup {NoValue}   \* of memory; NoValue was never transferred

VARIABLES
    lock,        \* s_request_lock, with who holds it
    blkPc, call,    \* a caller's place in the transfer, and its arguments
    done,        \* sectors transferred so far
    header,      \* request_header and the length of descriptor 1
    status,      \* request_status
    bounce,      \* bounce_mem
    avail, lastUsed,     \* avail->idx and last_used_idx
    sectors, used,  \* the device: its sectors and used->idx
    fetched,     \* the header of the request it works on, or none
    blkTimeouts     \* history: how many requests timed out

ring == <<header, status, bounce, avail, lastUsed>>
blkDevice == <<sectors, used, fetched>>
blkVars == <<lock, blkPc, call, done, ring, blkDevice, blkTimeouts>>

Request == {r \in [type : Types, sector : Sectors, len : 1 .. MaxChunk] :
                r.sector + r.len <= BlockCount}
NoRequest == [type |-> "none", sector |-> 0, len |-> 0]
NoCall == [write |-> FALSE, lba |-> 0, buffer |-> <<>>]

(* Each request lies within the device (block.cpp:128, 144).               *)
BlkTypeOK ==
    /\ lock \in Callers \cup {NoCaller}
    /\ blkPc \in [Callers -> {"idle", "lock", "submit", "wait", "done"}]
    /\ \A t \in Callers :
        /\ call[t].write \in BOOLEAN /\ call[t].lba \in Sectors
        /\ call[t].buffer \in Seq(BlkContents)
        /\ done[t] \in 0 .. Len(call[t].buffer)
    /\ header \in Request \cup {NoRequest}
    /\ fetched \in Request \cup {NoRequest}
    /\ status \in {"none", "ok", "error"}
    /\ bounce \in [Chunk -> BlkContents]
    /\ {avail, lastUsed, used} \subseteq 0 .. IdxMod - 1
    /\ sectors \in [Sectors -> Values]
    /\ blkTimeouts \in 0 .. MaxBlkTimeouts

BlkInit ==
    /\ lock = NoCaller
    /\ blkPc = [t \in Callers |-> "idle"]
    /\ call = [t \in Callers |-> NoCall]
    /\ done = [t \in Callers |-> 0]
    /\ header = NoRequest /\ fetched = NoRequest
    /\ status = "none"
    /\ sectors \in [Sectors -> Values]
    /\ bounce = [i \in Chunk |-> NoValue]
    /\ avail = 0 /\ lastUsed = 0 /\ used = 0
    /\ blkTimeouts = 0

-----------------------------------------------------------------------------
(* block::read_blocks, block::write_blocks and the start of                *)
(* virtio_blk_transfer.                                                    *)
Transfer(t, write, lba, buffer) ==
    /\ blkPc[t] = "idle"
    /\ Len(buffer) > 0
    /\ lba < BlockCount /\ Len(buffer) <= BlockCount - lba
    /\ blkPc' = [blkPc EXCEPT ![t] = "lock"]
    /\ call' = [call EXCEPT ![t] = [write |-> write, lba |-> lba, buffer |-> buffer]]
    /\ UNCHANGED <<lock, done, ring, blkDevice, blkTimeouts>>

Acquire(t) ==
    /\ blkPc[t] = "lock"
    /\ lock = NoCaller
    /\ lock' = t
    /\ blkPc' = [blkPc EXCEPT ![t] = "submit"]
    /\ UNCHANGED <<call, done, ring, blkDevice, blkTimeouts>>

(* The sectors of the caller's next request.                               *)
ChunkOf(t) ==
    LET remaining == Len(call[t].buffer) - done[t]
    IN  IF remaining > MaxChunk THEN MaxChunk ELSE remaining

(* Mutant of BlkSubmit: every request starts at the first sector.             *)
SubmitSameSector(t) ==
    LET n == ChunkOf(t)
    IN  /\ blkPc[t] = "submit"
        /\ bounce' = IF call[t].write
                     THEN [i \in Chunk |-> IF i < n THEN call[t].buffer[done[t] + i + 1]
                                           ELSE bounce[i]]
                     ELSE bounce
        /\ header' = [type |-> IF call[t].write THEN "out" ELSE "in",
                      sector |-> call[t].lba, len |-> n]
        /\ status' = "none"
        /\ avail' = (avail + 1) % IdxMod
        /\ blkPc' = [blkPc EXCEPT ![t] = "wait"]
        /\ UNCHANGED <<lock, call, done, lastUsed, blkDevice, blkTimeouts>>

(* submit_request up to the notification: the bounce buffer is filled for  *)
(* a write, the descriptors are set and the request is published.          *)
BlkSubmit(t) ==
    LET n == ChunkOf(t)
    IN  /\ blkPc[t] = "submit"
        /\ bounce' = IF call[t].write
                     THEN [i \in Chunk |-> IF i < n THEN call[t].buffer[done[t] + i + 1]
                                           ELSE bounce[i]]
                     ELSE bounce
        /\ header' = [type |-> IF call[t].write THEN "out" ELSE "in",
                      sector |-> call[t].lba + done[t], len |-> n]
        /\ status' = "none"
        /\ avail' = (avail + 1) % IdxMod
        /\ blkPc' = [blkPc EXCEPT ![t] = "wait"]
        /\ UNCHANGED <<lock, call, done, lastUsed, blkDevice, blkTimeouts>>

(* The polling loop sees a used element, and the status is OK: a read is   *)
(* copied to the caller's buffer, and the next chunk follows.              *)
BlkSucceed(t) ==
    LET n == ChunkOf(t)
    IN  /\ blkPc[t] = "wait"
        /\ used # lastUsed
        /\ status = "ok"
        /\ lastUsed' = (lastUsed + 1) % IdxMod
        /\ call' = IF call[t].write THEN call
                   ELSE [call EXCEPT ![t].buffer =
                            [i \in DOMAIN @ |-> IF i - done[t] \in 1 .. n
                                                THEN bounce[i - done[t] - 1] ELSE @[i]]]
        /\ done' = [done EXCEPT ![t] = @ + n]
        /\ blkPc' = [blkPc EXCEPT ![t] =
                IF done'[t] = Len(call[t].buffer) THEN "done" ELSE "submit"]
        /\ UNCHANGED <<lock, header, status, bounce, avail, blkDevice, blkTimeouts>>

(* Mutant of BlkFail: a status that is not OK yet is a failure.               *)
FailAtOnce(t) ==
    /\ blkPc[t] = "wait"
    /\ status # "ok"
    /\ lastUsed' = (lastUsed + 1) % IdxMod
    /\ blkPc' = [blkPc EXCEPT ![t] = "done"]
    /\ UNCHANGED <<lock, call, done, header, status, bounce, avail, blkDevice, blkTimeouts>>

(* Mutant of BlkFail: a failed request is sent again.                         *)
FailRetries(t) ==
    /\ blkPc[t] = "wait"
    /\ used # lastUsed
    /\ status # "ok"
    /\ lastUsed' = (lastUsed + 1) % IdxMod
    /\ blkPc' = [blkPc EXCEPT ![t] = "submit"]
    /\ UNCHANGED <<lock, call, done, header, status, bounce, avail, blkDevice, blkTimeouts>>

(* It sees a used element with another status.                             *)
BlkFail(t) ==
    /\ blkPc[t] = "wait"
    /\ used # lastUsed
    /\ status # "ok"
    /\ lastUsed' = (lastUsed + 1) % IdxMod
    /\ blkPc' = [blkPc EXCEPT ![t] = "done"]
    /\ UNCHANGED <<lock, call, done, header, status, bounce, avail, blkDevice, blkTimeouts>>

(* It gives up after VIRTIO_BLK_TIMEOUT_SPINS.                             *)
Timeout(t) ==
    /\ blkPc[t] = "wait"
    /\ used = lastUsed
    /\ blkTimeouts < MaxBlkTimeouts
    /\ blkTimeouts' = blkTimeouts + 1
    /\ blkPc' = [blkPc EXCEPT ![t] = "done"]
    /\ UNCHANGED <<lock, call, done, ring, blkDevice>>

(* Return from virtio_blk_transfer, which releases the lock.               *)
BlkRelease(t) ==
    /\ blkPc[t] = "done"
    /\ lock' = NoCaller
    /\ blkPc' = [blkPc EXCEPT ![t] = "idle"]
    /\ call' = [call EXCEPT ![t] = NoCall]
    /\ done' = [done EXCEPT ![t] = 0]
    /\ UNCHANGED <<ring, blkDevice, blkTimeouts>>

-----------------------------------------------------------------------------
(* The device (external): it takes the next published request, reads its   *)
(* descriptors, moves the data, and publishes a used element.  A request   *)
(* that fails may have moved a part of the data.                           *)
Fetch ==
    /\ fetched = NoRequest
    /\ used # avail
    /\ fetched' = header
    /\ UNCHANGED <<lock, blkPc, call, done, ring, sectors, used, blkTimeouts>>

Moved(k) ==
    /\ bounce' = IF fetched.type = "out" THEN bounce
                 ELSE [i \in Chunk |-> IF i < k THEN sectors[fetched.sector + i] ELSE bounce[i]]
    /\ sectors' = IF fetched.type = "in" THEN sectors
               ELSE [s \in Sectors |-> IF s - fetched.sector \in 0 .. k - 1
                                       THEN bounce[s - fetched.sector] ELSE sectors[s]]

Serve ==
    /\ fetched # NoRequest
    /\ \/ status' = "ok" /\ Moved(fetched.len)
       \/ status' = "error" /\ \E k \in 0 .. fetched.len : Moved(k)
    /\ used' = (used + 1) % IdxMod
    /\ fetched' = NoRequest
    /\ UNCHANGED <<lock, blkPc, call, done, header, avail, lastUsed, blkTimeouts>>

(* The buffers of a write, and of a read.                                  *)
Buffers(write) == IF write THEN BlkWritten ELSE {[i \in DOMAIN b |-> NoValue] : b \in BlkWritten}

CallerStep(t) == Acquire(t) \/ BlkSubmit(t) \/ BlkSucceed(t) \/ BlkFail(t) \/ Timeout(t) \/ BlkRelease(t)

BlkNext ==
    \/ \E t \in Callers :
        \/ \E write \in BOOLEAN, lba \in Sectors : \E buffer \in Buffers(write) :
            Transfer(t, write, lba, buffer)
        \/ CallerStep(t)
    \/ Fetch
    \/ Serve

BlkSpec == BlkInit /\ [][BlkNext]_blkVars

(* The polling loop keeps running, and the device answers what it is sent. *)
BlkFairSpec ==
    /\ BlkSpec
    /\ \A t \in Callers : WF_blkVars(CallerStep(t))
    /\ WF_blkVars(Fetch) /\ WF_blkVars(Serve)

-----------------------------------------------------------------------------
(* Properties.                                                             *)

(* As long as no request timed out:                                        *)
(* while a transfer holds the lock, the sectors done so far are the same   *)
(* in the caller's buffer and on the device, for reads and writes and over *)
(* any number of requests: no other transfer gets in between, and the      *)
(* shared bounce buffer and status are those of the current request        *)
(* (virtio_blk.cpp:277-312);                                               *)
TransferredMatches ==
    \A t \in Callers : blkTimeouts = 0 /\ lock = t =>
        \A i \in 0 .. done[t] - 1 : call[t].buffer[i + 1] = sectors[call[t].lba + i]

(* a sector changes only if the transfer that holds the lock is a write of *)
(* that sector, and then to what its caller gave (virtio_blk.cpp:223-225); *)
WritesOnlyAsked ==
    [][\A s \in Sectors : blkTimeouts = 0 /\ sectors'[s] # sectors[s] =>
        \E t \in Callers :
            LET i == s - call[t].lba + 1
            IN  /\ lock = t /\ call[t].write
                /\ i \in DOMAIN call[t].buffer
                /\ sectors'[s] = call[t].buffer[i]]_blkVars

(* the driver does not touch the header, the status or the bounce buffer   *)
(* while the device has a request (virtio_blk.cpp:251-263).                *)
DeviceOwnsRequest ==
    [][\A t \in Callers : blkTimeouts = 0 /\ CallerStep(t) /\ used # avail
        => UNCHANGED <<header, status, bounce>>]_blkVars

(* A transfer that has the lock gives it back, timeouts or not             *)
(* (virtio_blk.cpp:277).                                                   *)
LockReturned == []<>(lock = NoCaller)

(* Nothing reads the used element of a request that timed out later, so    *)
(* from then on last_used_idx stays behind by one for each of them, wrap   *)
(* of the indices included (virtio_blk.cpp:251-264).                       *)
BehindByTimeouts ==
    (avail - lastUsed + IdxMod) % IdxMod
        = blkTimeouts + Cardinality({t \in Callers : blkPc[t] = "wait"})

(* Buffers and sectors agree until a request times out, and from then on   *)
(* the driver lags behind by exactly the timeouts.                         *)
TransfersSound == BlkTypeOK /\ TransferredMatches /\ BehindByTimeouts

(* Device and driver leave alone what is the other's.                      *)
RequestsApart == WritesOnlyAsked /\ DeviceOwnsRequest
=============================================================================
