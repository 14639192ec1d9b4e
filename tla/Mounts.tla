------------------------------- MODULE Mounts -------------------------------
(***************************************************************************)
(* The search for a volume to mount (src/fs/mounts.cpp, probe_volume of    *)
(* src/fs/fat32.cpp, mount_boot_filesystem of src/core/fs.cpp): over the   *)
(* block devices, their partition tables and the volumes in them, with     *)
(* reads that can fail.  A step is one read of a sector and what follows   *)
(* from it.                                                                *)
(*                                                                         *)
(* A disk is what its sectors hold, decoded: the GPT header, the table of  *)
(* GPT entries, the MBR, and the boot sectors of volumes.  Byte positions  *)
(* in the table are in units of the smallest GPT entry.                    *)
(***************************************************************************)
EXTENDS Integers, Sequences, FiniteSets

CONSTANTS
    Disks,          \* block devices the machine may have
    MaxDisks,       \* bound: how many
    BlockBytes,     \* 512
    EntryBytes,     \* sizeof(GPTPartitionEntry)
    WantedIndex,    \* the GPT index that mount_boot_filesystem asks for
    MinClusters,    \* FAT32_MIN_CLUSTER_COUNT
    Word,           \* the range of u32
    MaxReadFaults,  \* bound: reads that fail
    Blank           \* a sector without a boot record; also: nothing mounted

UnknownCount == -1   \* FAT32_FSINFO_UNKNOWN

ASSUME MountsAssumption ==
    /\ EntryBytes \in Nat \ {0} /\ BlockBytes \in Nat \ {0}
    /\ MinClusters \in Nat /\ Word \in Nat \ {0}

VARIABLES
    disks,       \* the block registry, in order
    how,         \* mount_gpt_partition_index or mount_first_available
    searchAt,          \* where the search is
    dev, entry,  \* the device and the partition it is at
    from, volumeStart, \* the probed partition: out of which table, its start_lba
    fatState,    \* s_state of fat32, Blank when reset
    active,      \* s_active_driver is set
    unread       \* history: reads that failed, as <<device, what>>

mountVars == <<disks, how, searchAt, dev, entry, from, volumeStart, fatState, active, unread>>

-----------------------------------------------------------------------------
(* probe_volume *)

IsPowerOf2(n) == \E k \in 0 .. 7 : n = 2 ^ k
SectorsPerFat(v) == IF v.spf16 # 0 THEN v.spf16 ELSE v.spf32
TotalSectors(v) == IF v.total16 # 0 THEN v.total16 ELSE v.total32

(* In u32: the product may wrap.                                           *)
NonData(v) == (v.reserved + v.fats * SectorsPerFat(v) + v.rootSectors) % Word

ClusterCount(v) == (TotalSectors(v) - NonData(v)) \div v.spc

Accepted(v) ==
    /\ v # Blank
    /\ v.bps = BlockBytes
    /\ v.spc # 0 /\ IsPowerOf2(v.spc)
    /\ v.reserved # 0 /\ v.fats # 0
    /\ SectorsPerFat(v) # 0
    /\ TotalSectors(v) # 0
    /\ TotalSectors(v) > NonData(v)
    /\ ClusterCount(v) >= MinClusters
    /\ v.extended
    /\ v.root >= 2

(* What a successful probe leaves in s_state.                              *)
MountState(d, lba, v, infoRead) ==
    [dev |-> d, lba |-> lba, firstData |-> NonData(v), clusters |-> ClusterCount(v),
     count |-> IF v.info # Blank /\ infoRead THEN v.info ELSE UnknownCount]

-----------------------------------------------------------------------------
(* The partition tables.                                                   *)

(* Mutant of PartitionAt: the offset is not taken within the sector.           *)
PartitionAtRaw(d, i) ==
    LET perSector == BlockBytes \div d.size
    IN  BlockBytes * (i \div perSector) + i * d.size

(* Where read_gpt_partition_entry looks, from the start of the table.      *)
PartitionAt(d, i) ==
    LET perSector == BlockBytes \div d.size
    IN  BlockBytes * (i \div perSector) + (i % perSector) * d.size

MountUnused == [used |-> FALSE, first |-> 0, last |-> 0]

(* The entry that starts at a byte of the table, on the disk.              *)
OnDisk(d, byte) ==
    IF byte % d.size = 0 /\ byte \div d.size < Len(d.table) THEN d.table[byte \div d.size + 1]
    ELSE MountUnused

HeaderValid(d) == d.gpt /\ d.size >= EntryBytes /\ d.count > 0
Readable(d, i) == i < d.count /\ BlockBytes \div d.size # 0
Plausible(e) == e.used /\ e.first # 0 /\ e.last >= e.first
VolumeAt(d, lba) == IF lba \in DOMAIN d.volumes THEN d.volumes[lba] ELSE Blank

-----------------------------------------------------------------------------
Here == disks[dev]
NextDevice == searchAt' = "device" /\ dev' = dev + 1 /\ entry' = 0 /\ UNCHANGED <<from, volumeStart>>
GoTo(s, i) == searchAt' = s /\ entry' = i /\ UNCHANGED <<dev, from, volumeStart>>
ProbeAt(t, lba) ==
    searchAt' = "probe" /\ from' = t /\ volumeStart' = lba /\ UNCHANGED <<dev, entry>>

Fails(what) ==
    /\ Cardinality(unread) < MaxReadFaults
    /\ unread' = unread \cup {<<dev, what>>}
Reads == UNCHANGED unread

unmountedVars == <<disks, how, fatState, active>>

(* The next device; devices with other block sizes are passed over.  The   *)
(* generic search first takes the whole device for a volume.               *)
Device ==
    /\ searchAt = "device"
    /\ IF dev > Len(disks) THEN searchAt' = "none" /\ UNCHANGED <<dev, entry, from, volumeStart>>
       ELSE IF Here.block # BlockBytes THEN NextDevice
       ELSE IF how = "index" THEN GoTo("header", WantedIndex)
       ELSE ProbeAt("raw", 0)
    /\ UNCHANGED <<unmountedVars, unread>>

(* Sector 0, for the boot signature.                                       *)
ReadMbr ==
    /\ searchAt = "sector0"
    /\ \/ Reads /\ (IF Here.mbr # Blank THEN GoTo("header", 0) ELSE NextDevice)
       \/ Fails("mbr") /\ NextDevice
    /\ UNCHANGED unmountedVars

(* After the header, or after the last entry, the generic search goes on   *)
(* to the four MBR partitions, the other one to the next device.           *)
NoMoreGpt == IF how = "index" THEN NextDevice ELSE GoTo("mbr", 1)

ReadHeader ==
    /\ searchAt = "header"
    /\ \/ Reads /\ (IF HeaderValid(Here) THEN GoTo("entry", entry) ELSE NoMoreGpt)
       \/ Fails("header") /\ NoMoreGpt
    /\ UNCHANGED unmountedVars

NextEntry ==
    IF how = "first" /\ entry + 1 < Here.count THEN GoTo("entry", entry + 1) ELSE NoMoreGpt

ReadEntry ==
    /\ searchAt = "entry"
    /\ IF ~Readable(Here, entry) THEN Reads /\ NextEntry
       ELSE \/ LET e == OnDisk(Here, PartitionAt(Here, entry))
               IN  Reads /\ (IF Plausible(e) THEN ProbeAt("gpt", e.first) ELSE NextEntry)
            \/ Fails("table") /\ NextEntry
    /\ UNCHANGED unmountedVars

(* A partition that starts at 0 or has no sectors is 0 here.               *)
MbrEntry ==
    /\ searchAt = "mbr"
    /\ IF entry > 4 THEN NextDevice
       ELSE LET e == Here.mbr[entry]
            IN  IF e = 0 THEN GoTo("mbr", entry + 1)
                ELSE ProbeAt("mbr", e)
    /\ UNCHANGED <<unmountedVars, unread>>

(* After a partition that is not a volume.                                 *)
Otherwise ==
    CASE from = "raw" -> GoTo("sector0", 0)
      [] from = "gpt" -> NextEntry
      [] from = "mbr" -> GoTo("mbr", entry + 1)

(* mount_supported_partition *)
Mount(ok) ==
    IF ok THEN searchAt' = "done" /\ active' = TRUE /\ UNCHANGED <<dev, entry, from, volumeStart>>
    ELSE Otherwise /\ UNCHANGED active

(* mount_partition: the boot sector, then the FSInfo sector, whose loss    *)
(* only costs the free count.                                              *)
Probe ==
    LET v == VolumeAt(Here, volumeStart)
    IN  /\ searchAt = "probe"
        /\ \/ /\ Reads
              /\ fatState' = IF Accepted(v) THEN MountState(dev, volumeStart, v, TRUE) ELSE Blank
              /\ Mount(Accepted(v))
           \/ /\ Fails("boot")
              /\ fatState' = Blank
              /\ Mount(FALSE)
           \/ /\ Accepted(v) /\ v.info # Blank
              /\ Fails("info")
              /\ fatState' = MountState(dev, volumeStart, v, FALSE)
              /\ Mount(TRUE)
        /\ UNCHANGED <<disks, how>>

MountInit ==
    /\ disks \in UNION {[1 .. n -> Disks] : n \in 0 .. MaxDisks}
    /\ how \in {"index", "first"}
    /\ searchAt = "device" /\ dev = 1 /\ entry = 0 /\ from = "raw" /\ volumeStart = 0
    /\ fatState = Blank /\ active = FALSE
    /\ unread = {}

MountNext == Device \/ ReadMbr \/ ReadHeader \/ ReadEntry \/ MbrEntry \/ Probe
MountSpec == MountInit /\ [][MountNext]_mountVars
-----------------------------------------------------------------------------
MountTypeOK ==
    /\ searchAt \in {"device", "sector0", "header", "entry", "mbr", "probe", "done", "none"}
    /\ dev \in 1 .. Len(disks) + 1
    /\ active \in BOOLEAN
    /\ searchAt \in {"device", "none"} \/ dev <= Len(disks)
    /\ fatState # Blank =>
          fatState.dev \in 1 .. Len(disks) /\ fatState.clusters >= MinClusters

(* The places a device offers, as its tables list them.                    *)
Places(d, h) ==
    LET gpt == IF HeaderValid(d) /\ d.size <= BlockBytes
               THEN {k \in 0 .. d.count - 1 : k < Len(d.table) /\ Plausible(d.table[k + 1])} ELSE {}
    IN  IF d.block # BlockBytes THEN {}
        ELSE IF h = "index" THEN {d.table[k + 1].first : k \in gpt \cap {WantedIndex}}
        ELSE {0} \cup (IF d.mbr = Blank THEN {}
                       ELSE {d.table[k + 1].first : k \in gpt} \cup ({d.mbr[k] : k \in 1 .. 4} \ {0}))
Usable(i) == \E lba \in Places(disks[i], how) : Accepted(VolumeAt(disks[i], lba))
Unhurt(i) == \A u \in unread : u[1] = i => u[2] = "info"

(* What gets mounted is on the first device that has a volume in a place   *)
(* the search covers, and it is in such a place; nothing is mounted only   *)
(* if there is none.  Only a read that failed on a device makes the search *)
(* pass a volume over.                                                     *)
FirstVolumeWins ==
    /\ searchAt = "done" =>
          /\ active /\ fatState # Blank
          /\ fatState.lba \in Places(disks[fatState.dev], how)
          /\ \A i \in 1 .. fatState.dev - 1 : Usable(i) => ~Unhurt(i)
    /\ searchAt = "none" =>
          /\ ~active /\ fatState = Blank
          /\ \A i \in DOMAIN disks : Usable(i) => ~Unhurt(i)

(* The geometry that was accepted: FATs, data clusters and what precedes   *)
(* them lie in the volume one after the other.  A FAT size whose product   *)
(* with the number of FATs does not fit in u32 is not noticed.             *)
GeometrySound ==
    searchAt = "done" =>
        LET v == VolumeAt(disks[fatState.dev], fatState.lba)
        IN  v.reserved + v.fats * SectorsPerFat(v) + v.rootSectors < Word =>
                /\ fatState.firstData >= v.reserved + v.fats * SectorsPerFat(v)
                /\ fatState.firstData + fatState.clusters * v.spc <= TotalSectors(v)
                /\ fatState.clusters >= MinClusters

(* The volume that is mounted is the first one there is, and lies on its   *)
(* disk.                                                                   *)
MountSound == MountTypeOK /\ FirstVolumeWins /\ GeometrySound
=============================================================================
