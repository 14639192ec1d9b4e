-------------------------------- MODULE Fat32 --------------------------------
(***************************************************************************)
(* The FAT32 driver (src/fs/fat32.cpp): one task that writes and removes   *)
(* files, others that read, a disk that can fail and a machine that can    *)
(* lose power between any two sector writes.                               *)
(*                                                                         *)
(* A file's data is counted in sectors; the data of one cluster is written *)
(* in one step, since nothing refers to it yet.  A long name takes one     *)
(* long-name entry, and all long names have aliases with the same base, so *)
(* that aliases collide.                                                   *)
(***************************************************************************)
EXTENDS Integers, Sequences, FiniteSets, SequencesExt

CONSTANTS
    TotalClusters,    \* of the volume
    FatCount,         \* copies of the FAT
    PerSector,        \* FAT entries in a sector
    CacheSectors,     \* FAT_CACHE_SECTOR_COUNT
    SlotsPerCluster,  \* directory entries in a cluster
    ClusterSize,      \* sectors in a cluster
    FatPaths, LongNames, \* paths are sequences of names
    SubDirectory,     \* the name of the directory in the root
    Missing,
    Written,          \* bound: what callers write
    MaxCalls,         \* bound: calls of write_file and remove_file
    MaxFaults         \* bound: I/O errors and power losses

Clusters == 2 .. TotalClusters + 1
EndOfChain == TotalClusters + 2
RootCluster == 2
Unknown == -1   \* FAT32_FSINFO_UNKNOWN; the u32 one below 0, too
Unsure == "unsure"

ASSUME FatAssumption ==
    /\ {TotalClusters, FatCount, PerSector, CacheSectors, SlotsPerCluster,
        ClusterSize} \subseteq Nat \ {0}
    /\ MaxCalls \in Nat /\ MaxFaults \in Nat
    /\ Missing \notin Written

VARIABLES
    fat,      \* on disk: the copies of the FAT
    slot,     \* on disk: directory entries of a cluster
    data,     \* on disk: file data of a cluster
    fsInfo,   \* on disk: free cluster count and next free hint
    free, hint,   \* mount_state: free_cluster_count, next_free_cluster_hint
    cache,    \* fat_cache: the values of the clusters it covers
    at, op,   \* write_file or remove_file: where it is, and its locals
    fd,       \* a file_descriptor some stream holds
    calls,    \* calls of write_file and remove_file so far
    faults,   \* I/O errors and power losses so far
    saved,    \* history: what the last write_file or remove_file of a path did
    damaged   \* history: an entry or a directory refers to freed clusters

disk == <<fat, slot, data, fsInfo>>
fatVars == <<disk, free, hint, cache, at, op, fd, calls, faults, saved, damaged>>

-----------------------------------------------------------------------------
(* The FAT and its cache.                                                  *)

IsData(c) == c \in Clusters
SectorOf(c) == c \div PerSector
WindowOf(c) == SectorOf(c) \div CacheSectors

(* read_cached_fat_sector: a miss reads the aligned window around c.       *)
Filled(old, c) ==
    IF c \in DOMAIN old THEN old
    ELSE [d \in {e \in Clusters : WindowOf(e) = WindowOf(c)} |-> fat[1][d]]

(* read_fat_value *)
Look(c) == Filled(cache, c)[c]
LookedUp(clusters) == FoldLeft(Filled, cache, clusters)

(* Mutant of Patched: only a cluster whose entry is in the first cached    *)
(* sector is patched.                                                      *)
PatchedFirst(c) == [d \in DOMAIN cache |->
    IF SectorOf(d) = SectorOf(c) /\ SectorOf(c) % CacheSectors = 0 THEN fat[1][d] ELSE cache[d]]

(* write_fat_value, after the first copy: the sector replaces its cached   *)
(* copy, if there is one.                                                  *)
Patched(c) == [d \in DOMAIN cache |->
    IF SectorOf(d) = SectorOf(c) THEN fat[1][d] ELSE cache[d]]

RECURSIVE ChainFrom(_, _)
ChainFrom(c, n) ==
    IF ~IsData(c) \/ n = 0 THEN <<>> ELSE <<c>> \o ChainFrom(Look(c), n - 1)

Chain(c) == ChainFrom(c, TotalClusters)

(* allocate_cluster: the clusters it looks at, from the hint to the end    *)
(* and from the start again, up to the first free one.                     *)
Candidates ==
    LET start == IF hint \in Clusters THEN hint ELSE 2
    IN  [i \in 1 .. EndOfChain - start |-> start + i - 1]
            \o [i \in 1 .. TotalClusters |-> i + 1]

Tried ==
    LET hits == {i \in DOMAIN Candidates : Look(Candidates[i]) = 0}
    IN  IF hits = {} THEN Candidates
        ELSE SubSeq(Candidates, 1, CHOOSE i \in hits : \A j \in hits : i <= j)

HasFree == Look(Last(Tried)) = 0

-----------------------------------------------------------------------------
(* Directories.                                                            *)

End == [kind |-> "end"]
Unused == [kind |-> "unused"]
Lfn(name, sfn) == [kind |-> "lfn", text |-> name, sum |-> sfn]
Entry(kind, sfn, c, size) == [kind |-> kind, sfn |-> sfn, cluster |-> c, size |-> size]

ShortName(name) == <<name, 0>>
Alias(k) == <<"alias", k>>
NoRef == [name |-> "", at |-> <<0, 0>>, lfns |-> <<>>, e |-> End]
Found(ref) == ref # NoRef

(* The locations of a directory's entries, in order.                       *)
Locations(c) ==
    LET chain == Chain(c)
    IN  FlattenSeq([i \in DOMAIN chain |-> [k \in 1 .. SlotsPerCluster |-> <<chain[i], k>>]])
EntryAt(l) == slot[l[1]][l[2]]

(* decode_lfn_name, or decode_short_name when the checksums do not match.  *)
NameOf(e, pending) ==
    IF pending # <<>> /\ \A i \in DOMAIN pending : EntryAt(pending[i]).sum = e.sfn
    THEN ShortName(EntryAt(Last(pending)).text) ELSE e.sfn

(* Mutant of ScanStep: an entry leaves its long-name entries pending.      *)
ScanStepKeeps(s, l) ==
    LET e == EntryAt(l) IN
    CASE s.ended \/ e.kind = "end" -> [s EXCEPT !.ended = TRUE]
      [] e.kind = "unused" -> [s EXCEPT !.pending = <<>>]
      [] e.kind = "lfn" -> [s EXCEPT !.pending = Append(@, l)]
      [] OTHER -> [s EXCEPT !.refs = Append(@,
            [name |-> NameOf(e, s.pending), at |-> l, lfns |-> s.pending, e |-> e])]

(* scan_directory: the entries up to the end mark, with the long-name      *)
(* entries in front of them.                                               *)
ScanStep(s, l) ==
    LET e == EntryAt(l) IN
    CASE s.ended \/ e.kind = "end" -> [s EXCEPT !.ended = TRUE]
      [] e.kind = "unused" -> [s EXCEPT !.pending = <<>>]
      [] e.kind = "lfn" -> [s EXCEPT !.pending = Append(@, l)]
      [] OTHER -> [s EXCEPT !.pending = <<>>, !.refs = Append(@,
            [name |-> NameOf(e, s.pending), at |-> l, lfns |-> s.pending, e |-> e])]

Scan(c) ==
    FoldLeft(ScanStep, [ended |-> FALSE, pending |-> <<>>, refs |-> <<>>], Locations(c)).refs

FindInDirectory(c, name) ==
    LET refs == Scan(c)
        hits == {i \in DOMAIN refs : refs[i].name = ShortName(name)}
    IN  IF hits = {} THEN NoRef ELSE refs[CHOOSE i \in hits : \A j \in hits : i <= j]

(* resolve_path: every component but the last must be a directory.         *)
ResolveStep(r, name) ==
    IF r.e.kind = "dir" /\ IsData(r.e.cluster)
    THEN FindInDirectory(r.e.cluster, name) ELSE NoRef
Root == [NoRef EXCEPT !.e = Entry("dir", ShortName("/"), RootCluster, 0)]
Resolve(path) == FoldLeft(ResolveStep, Root, path)

(* resolve_parent_directory *)
Parent(path) == Resolve(Front(path))

(* generate_unique_sfn: the first alias that no entry of the directory has. *)
UniqueAlias(c) ==
    LET taken == {ref.e.sfn : ref \in Range(Scan(c))}
    IN  Alias(CHOOSE k \in 1 .. 999 :
            Alias(k) \notin taken /\ \A j \in 1 .. k - 1 : Alias(j) \in taken)

(* build_file_entry *)
NewSfn(c, name) == IF name \in LongNames THEN UniqueAlias(c) ELSE ShortName(name)
Needed(name) == IF name \in LongNames THEN 2 ELSE 1

(* allocate_directory_slots: the first run of n free entries; everything   *)
(* behind the end mark is free.                                            *)
FreeRun(c, n) ==
    LET ls == Locations(c)
        isFree(i) == \/ EntryAt(ls[i]).kind = "unused"
                     \/ \E j \in 1 .. i : EntryAt(ls[j]).kind = "end"
        runs == {i \in 1 .. Len(ls) - n + 1 : \A k \in i .. i + n - 1 : isFree(k)}
    IN  IF runs = {} THEN <<>>
        ELSE LET i == CHOOSE i \in runs : \A j \in runs : i <= j IN SubSeq(ls, i, i + n - 1)

-----------------------------------------------------------------------------
(* Reading files.                                                          *)

(* collect_cluster_run: how far the clusters from c on are consecutive.    *)
RECURSIVE ClusterRun(_, _, _)
ClusterRun(first, last, max) ==
    IF last - first + 1 = max THEN [last |-> last, next |-> EndOfChain]
    ELSE IF Look(last) # last + 1 THEN [last |-> last, next |-> Look(last)]
    ELSE ClusterRun(first, last + 1, max)

(* read_cluster_bytes *)
ClusterBytes(c, start, size) == SubSeq(data[c], start + 1, start + size)
RunData(first, last) == FlattenSeq([i \in 1 .. last - first + 1 |-> data[first + i - 1]])

(* read_file_data: whole clusters run by run, then a part of the last one. *)
RECURSIVE ReadFrom(_, _)
ReadFrom(c, left) ==
    IF left = 0 THEN <<>>
    ELSE IF ~IsData(c) THEN <<Missing>>
    ELSE IF left < ClusterSize THEN ClusterBytes(c, 0, left)
    ELSE LET run == ClusterRun(c, c, left \div ClusterSize)
             next == IF IsData(run.next) THEN run.next ELSE Look(run.last)
         IN  RunData(c, run.last) \o ReadFrom(next, left - ClusterSize * (run.last - c + 1))

(* read_file *)
ReadFile(path) ==
    LET ref == Resolve(path)
    IN  IF ref.e.kind = "file" THEN ReadFrom(ref.e.cluster, ref.e.size) ELSE Missing

(* file_exists, file_size and list_directory *)
FileExists(path) == Resolve(path).e.kind = "file"
FileSize(path) == IF FileExists(path) THEN Resolve(path).e.size ELSE 0
ListDirectory(path) == {ref.name : ref \in Range(Scan(Resolve(path).e.cluster))}

(* cluster_for_file_offset, from the descriptor's cached cluster if that   *)
(* is not behind the wanted one; 0 if the chain ends first.                *)
RECURSIVE Follow(_, _)
Follow(c, n) ==
    IF n = 0 THEN c ELSE IF IsData(Look(c)) THEN Follow(Look(c), n - 1) ELSE 0

ClusterForOffset(f, i) ==
    IF f.value # 0 /\ f.index <= i THEN Follow(f.value, i - f.index) ELSE Follow(f.first, i)

(* read_file_range: what it reads, and the descriptor it leaves behind.    *)
RECURSIVE RangeFrom(_, _, _, _)
RangeFrom(f, offset, left, got) ==
    LET i == offset \div ClusterSize
        start == offset % ClusterSize
        c == ClusterForOffset(f, i)
    IN  IF left = 0 \/ c = 0 THEN [file |-> f, data |-> got]
        ELSE IF start = 0 /\ left >= ClusterSize
        THEN LET run == ClusterRun(c, c, left \div ClusterSize)
                 count == run.last - c + 1
                 size == count * ClusterSize
                 ahead == IsData(run.next) /\ size < left
             IN  RangeFrom([f EXCEPT !.index = IF ahead THEN i + count ELSE i + count - 1,
                                     !.value = IF ahead THEN run.next ELSE run.last],
                           offset + size, left - size, got \o RunData(c, run.last))
        ELSE LET chunk == IF left < ClusterSize - start THEN left ELSE ClusterSize - start
             IN  RangeFrom([f EXCEPT !.index = i, !.value = c], offset + chunk, left - chunk,
                           got \o ClusterBytes(c, start, chunk))

ReadRange(f, offset, size) ==
    LET left == IF offset >= f.size THEN 0
                ELSE IF f.size - offset < size THEN f.size - offset ELSE size
    IN  RangeFrom(f, offset, left, <<>>)

NoDescriptor == [path |-> <<>>, first |-> 0, size |-> 0, index |-> 0, value |-> 0,
                 content |-> <<>>, fresh |-> FALSE]

-----------------------------------------------------------------------------
(* The steps of write_file and remove_file.  op.after is where             *)
(* allocate_cluster or free_cluster_chain returns to, op.copy the copy of  *)
(* the FAT that write_fat_value is about to write, 0 being the cache.      *)

NoOp == [path |-> <<>>, ref |-> NoRef, dir |-> 0, sfn |-> <<>>, locs |-> <<>>,
         content |-> <<>>, done |-> 0, first |-> 0, prev |-> 0, cur |-> 0, next |-> 0,
         head |-> 0, freed |-> 0, copy |-> 1, after |-> "", tearing |-> FALSE]

Exists == Found(op.ref)
FatSteps == {"alloc", "link", "grow_link", "free"}

Go(where, o) == at' = where /\ op' = o
Quiet == UNCHANGED <<saved, damaged>>

(* The call returns; on success the path now has the given content.        *)
Return(result, damage) ==
    /\ Go("idle", NoOp)
    /\ saved' = [saved EXCEPT ![op.path] = result]
    /\ damaged' = (damaged \/ damage)
Fail == Return(Unsure, op.tearing)
Succeed(result) == Return(result, FALSE)

BeginFree(c, o, after) ==
    Go("free", [o EXCEPT !.cur = c, !.head = c, !.freed = 0, !.after = after, !.copy = 1])
BeginAllocate(o, after) ==
    Go("alloc", [o EXCEPT !.cur = Last(Tried), !.after = after, !.copy = 1])

(* write_file_data failed: what it wrote is given back.                    *)
DataFailed == IF IsData(op.first) THEN BeginFree(op.first, op, "failed") ELSE Go("failed", op)

(* What the cache can hold after a scan of a directory, which looks up its *)
(* clusters until it has found what it wants.                              *)
Scanned(clusters) == {LookedUp(SubSeq(clusters, 1, n)) : n \in 0 .. Len(clusters)}

Begin(path) ==
    /\ at = "idle" /\ calls < MaxCalls
    /\ calls' = calls + 1
    /\ saved' = [saved EXCEPT ![path] = Unsure]
    /\ fd' = [fd EXCEPT !.fresh = @ /\ fd.path # path]

(* write_file, up to the first change.                                     *)
WriteFile(path, content) ==
    LET ref == Resolve(path)
        dir == Parent(path).e
        o == [NoOp EXCEPT !.path = path, !.ref = ref, !.dir = dir.cluster,
                  !.sfn = NewSfn(dir.cluster, Last(path)), !.content = content]
    IN  /\ Begin(path)
        /\ dir.kind = "dir" /\ ref.e.kind # "dir"
        /\ cache' \in Scanned(Chain(dir.cluster))
        /\ IF ~Found(ref) THEN Go("slots", o)
           ELSE IF IsData(ref.e.cluster) THEN BeginFree(ref.e.cluster, o, "cluster")
           ELSE Go("cluster", o)
        /\ UNCHANGED <<disk, free, hint, faults, damaged>>

(* allocate_directory_slots, which appends a cluster when there is no run. *)
FindSlots ==
    /\ at = "slots"
    /\ LET run == FreeRun(op.dir, Needed(Last(op.path))) IN
       \/ /\ run # <<>>
          /\ Go("cluster", [op EXCEPT !.locs = run]) /\ Quiet
          /\ cache' \in Scanned(Chain(op.dir))
       \/ /\ run = <<>> /\ HasFree
          /\ BeginAllocate([op EXCEPT !.prev = Last(Chain(op.dir))], "zero") /\ Quiet
          /\ cache' = LookedUp(Chain(op.dir) \o Tried)
       \/ /\ run = <<>> /\ ~HasFree
          /\ Fail
          /\ cache' = LookedUp(Chain(op.dir) \o Tried)
    /\ UNCHANGED <<disk, free, hint, fd, calls, faults>>

(* write_file_data, the head of its loop.                                  *)
NextCluster ==
    /\ at = "cluster"
    /\ \/ /\ op.done >= Len(op.content)
          /\ Go("entry", op)
          /\ UNCHANGED cache
       \/ /\ op.done < Len(op.content) /\ HasFree
          /\ BeginAllocate([op EXCEPT !.prev = IF op.first = 0 THEN 0 ELSE @], "data")
          /\ cache' = LookedUp(Tried)
       \/ /\ op.done < Len(op.content) /\ ~HasFree
          /\ DataFailed
          /\ cache' = LookedUp(Tried)
    /\ Quiet /\ UNCHANGED <<disk, free, hint, fd, calls, faults>>

(* What write_fat_value writes, and where.                                 *)
Target == IF at \in {"link", "grow_link"} THEN op.prev ELSE op.cur
NewValue == CASE at = "alloc" -> EndOfChain [] at = "free" -> 0 [] OTHER -> op.cur

(* write_fat_value has written every copy.                                 *)
FatWritten ==
    CASE at = "alloc" -> Go("alloc_info", op)
      [] at = "link" -> Go("data", op)
      [] at = "grow_link" -> Go("slots", op)
      [] at = "free" ->
            LET o == [op EXCEPT !.freed = @ + 1] IN
            IF IsData(op.next) THEN Go("free", [o EXCEPT !.cur = op.next, !.copy = 1])
            ELSE Go("free_info", o)

(* write_fat_value, after one copy or the cache.                           *)
AfterCopy == IF op.copy < FatCount
             THEN Go(at, [op EXCEPT !.copy = IF @ = 0 THEN 2 ELSE @ + 1]) ELSE FatWritten

(* write_fat_value, one copy: the sector is read, changed and written.     *)
(* free_cluster_chain has read the next cluster before.                    *)
WriteFatCopy ==
    /\ at \in FatSteps /\ op.copy > 0
    /\ fat' = [fat EXCEPT ![op.copy][Target] = NewValue]
    /\ IF op.copy > 1 THEN AfterCopy /\ UNCHANGED cache
       ELSE IF at # "free" THEN Go(at, [op EXCEPT !.copy = 0]) /\ UNCHANGED cache
       ELSE /\ Go(at, [op EXCEPT !.copy = 0, !.next = Look(op.cur),
                                 !.tearing = @ \/ op.after = "cluster"])
            /\ cache' = LookedUp(<<op.cur>>)
    /\ Quiet /\ UNCHANGED <<slot, data, fsInfo, free, hint, fd, calls, faults>>

(* write_fat_value, under the cache lock, after the first copy.            *)
PatchCache ==
    /\ at \in FatSteps /\ op.copy = 0
    /\ cache' = Patched(Target)
    /\ AfterCopy
    /\ Quiet /\ UNCHANGED <<disk, free, hint, fd, calls, faults>>

(* update_fsinfo: the sector and the copy in memory.                       *)
UpdateFsInfo(count, next) ==
    /\ free' = count /\ hint' = next
    /\ fsInfo' = [free |-> count, hint |-> next]

NextHint == IF op.cur + 1 \in Clusters THEN op.cur + 1 ELSE 2

(* allocate_cluster, its end, and where it returns to.                     *)
AllocInfo ==
    /\ at = "alloc_info"
    /\ UpdateFsInfo(IF free = Unknown THEN Unknown ELSE free - 1, NextHint)
    /\ IF op.after = "zero" THEN Go("zero", op)
       ELSE Go(IF op.prev # 0 THEN "link" ELSE "data",
               [op EXCEPT !.first = IF @ = 0 THEN op.cur ELSE @, !.copy = 1])
    /\ Quiet /\ UNCHANGED <<fat, slot, data, cache, fd, calls, faults>>

FreedCount == IF free = Unknown THEN Unknown ELSE free + op.freed

(* free_cluster_chain, its end, and where it returns to.                   *)
FreeInfo ==
    /\ at = "free_info"
    /\ UpdateFsInfo(FreedCount, IF hint = Unknown \/ op.head < hint THEN op.head ELSE hint)
    /\ CASE op.after \in {"cluster", "failed"} -> Go(op.after, op) /\ Quiet
         [] op.after = "give_up" -> Fail
         [] op.after = "removed" -> Succeed(Missing)
    /\ UNCHANGED <<fat, slot, data, cache, fd, calls, faults>>

(* zero_cluster, of a new directory cluster.                               *)
ZeroCluster ==
    /\ at = "zero"
    /\ slot' = [slot EXCEPT ![op.cur] = [k \in 1 .. SlotsPerCluster |-> End]]
    /\ Go("grow_link", [op EXCEPT !.copy = 1])
    /\ Quiet /\ UNCHANGED <<fat, data, fsInfo, free, hint, cache, fd, calls, faults>>

(* write_file_data: the sectors of one cluster, padded with zeros.         *)
WriteData ==
    /\ at = "data"
    /\ data' = [data EXCEPT ![op.cur] = [k \in 1 .. ClusterSize |->
            IF op.done + k <= Len(op.content) THEN op.content[op.done + k] ELSE 0]]
    /\ Go("cluster", [op EXCEPT !.prev = op.cur, !.done = @ + ClusterSize])
    /\ Quiet /\ UNCHANGED <<fat, slot, fsInfo, free, hint, cache, fd, calls, faults>>

(* write_entry_bytes *)
Put(l, e) == slot' = [slot EXCEPT ![l[1]][l[2]] = e]

(* write_file: the short entry, and for a new long name the other one.     *)
WriteEntry ==
    /\ at = "entry"
    /\ IF Exists
       THEN Put(op.ref.at, [op.ref.e EXCEPT !.cluster = op.first, !.size = Len(op.content)])
       ELSE Put(Last(op.locs), Entry("file", op.sfn, op.first, Len(op.content)))
    /\ IF ~Exists /\ Len(op.locs) > 1 THEN Go("lfn", op) /\ Quiet ELSE Succeed(op.content)
    /\ UNCHANGED <<fat, data, fsInfo, free, hint, cache, fd, calls, faults>>

WriteLfn ==
    /\ at = "lfn"
    /\ Put(Head(op.locs), Lfn(Last(op.path), op.sfn))
    /\ Succeed(op.content)
    /\ UNCHANGED <<fat, data, fsInfo, free, hint, cache, fd, calls, faults>>

(* Mutant of EmptyEntry: the entry keeps the clusters that were freed.     *)
EmptyEntryKeeps ==
    /\ at = "failed"
    /\ Return(Unsure, FALSE)
    /\ UNCHANGED <<disk, free, hint, cache, fd, calls, faults>>

(* write_file, after write_file_data failed: an existing file is now empty. *)
EmptyEntry ==
    /\ at = "failed"
    /\ IF Exists THEN Put(op.ref.at, [op.ref.e EXCEPT !.cluster = 0, !.size = 0])
       ELSE UNCHANGED slot
    /\ Return(Unsure, FALSE)
    /\ UNCHANGED <<fat, data, fsInfo, free, hint, cache, fd, calls, faults>>

RemoveFile(path) ==
    LET ref == Resolve(path) IN
    /\ Begin(path)
    /\ ref.e.kind = "file"
    /\ cache' \in Scanned(Chain(Parent(path).e.cluster))
    /\ Go("unmark", [NoOp EXCEPT !.path = path, !.ref = ref, !.locs = <<ref.at>> \o ref.lfns])
    /\ UNCHANGED <<disk, free, hint, faults, damaged>>

(* mark_entry_unused: the entry, its long-name entries, then the chain.    *)
Unmark ==
    /\ at = "unmark"
    /\ Put(Head(op.locs), Unused)
    /\ IF Len(op.locs) > 1 THEN Go("unmark", [op EXCEPT !.locs = Tail(@)]) /\ Quiet
       ELSE IF IsData(op.ref.e.cluster) THEN BeginFree(op.ref.e.cluster, op, "removed") /\ Quiet
       ELSE Succeed(Missing)
    /\ UNCHANGED <<fat, data, fsInfo, free, hint, cache, fd, calls, faults>>

-----------------------------------------------------------------------------
(* Faults.  A failed sector write changes nothing; what the functions do   *)
(* about it depends on where it happens.                                   *)
IoError ==
    /\ at # "idle" /\ ~(at \in FatSteps /\ op.copy = 0) /\ faults < MaxFaults
    /\ faults' = faults + 1
    /\ CASE at \in {"slots", "entry", "lfn", "unmark", "failed"} -> Fail
         [] at = "cluster" -> DataFailed /\ Quiet
         [] at \in {"alloc", "alloc_info"} ->
                IF op.after = "zero" THEN Fail ELSE DataFailed /\ Quiet
         [] at = "zero" -> BeginFree(op.cur, op, "give_up") /\ Quiet
         [] at = "grow_link" ->
                BeginFree(op.cur, [op EXCEPT !.tearing = op.copy > 1], "give_up") /\ Quiet
         [] at \in {"link", "data"} -> BeginFree(op.first, op, "failed") /\ Quiet
         [] at \in {"free", "free_info"} ->
                IF op.after = "failed" THEN Go("failed", op) /\ Quiet ELSE Fail
    /\ UNCHANGED <<disk, free, hint, cache, fd, calls>>

(* The power is lost, and the volume is mounted again (probe_volume).      *)
PowerLoss ==
    /\ faults < MaxFaults /\ faults' = faults + 1
    /\ Go("idle", NoOp)
    /\ damaged' = (damaged \/ op.tearing)
    /\ free' = fsInfo.free /\ hint' = fsInfo.hint
    /\ cache' = <<>> /\ fd' = NoDescriptor
    /\ UNCHANGED <<disk, calls, saved>>

-----------------------------------------------------------------------------
(* Other tasks read at any time.                                           *)

(* read_fat_value, for a reader of some other file.                        *)
OtherLookup(c) ==
    /\ c \notin DOMAIN cache
    /\ cache' = LookedUp(<<c>>)
    /\ UNCHANGED <<disk, free, hint, at, op, fd, calls, faults, saved, damaged>>

(* open_file *)
OpenFile(path) ==
    LET e == Resolve(path).e IN
    /\ at = "idle" /\ fd = NoDescriptor
    /\ e.kind = "file"
    /\ e.size > 0 => IsData(e.cluster)
    /\ cache' \in Scanned(Chain(Parent(path).e.cluster))
    /\ fd' = [NoDescriptor EXCEPT !.path = path, !.first = e.cluster, !.size = e.size,
                  !.content = saved[path], !.fresh = saved[path] # Unsure]
    /\ UNCHANGED <<disk, free, hint, at, op, calls, faults, saved, damaged>>

(* read_file, from a descriptor.                                           *)
ReadFd(offset, size) ==
    /\ fd.fresh
    /\ fd' = ReadRange(fd, offset, size).file
    /\ cache' \in Scanned(Chain(fd.first))
    /\ UNCHANGED <<disk, free, hint, at, op, calls, faults, saved, damaged>>

MaxSize == FoldSet(LAMBDA w, m : IF Len(w) > m THEN Len(w) ELSE m, 0, Written)

FatInit ==
    /\ fat = [k \in 1 .. FatCount |-> [c \in Clusters |-> IF c <= 3 THEN EndOfChain ELSE 0]]
    /\ slot = [c \in Clusters |-> [k \in 1 .. SlotsPerCluster |->
            IF c = RootCluster /\ k = 1
            THEN Entry("dir", ShortName(SubDirectory), 3, 0) ELSE End]]
    /\ data = [c \in Clusters |-> [k \in 1 .. ClusterSize |-> 0]]
    /\ fsInfo = [free |-> TotalClusters - 2, hint |-> Unknown]
    /\ free = fsInfo.free /\ hint = fsInfo.hint
    /\ cache = <<>>
    /\ at = "idle" /\ op = NoOp
    /\ fd = NoDescriptor
    /\ calls = 0 /\ faults = 0
    /\ saved = [p \in FatPaths |-> Missing]
    /\ damaged = FALSE

FatNext ==
    \/ \E p \in FatPaths, w \in Written : WriteFile(p, w)
    \/ \E p \in FatPaths : RemoveFile(p) \/ OpenFile(p)
    \/ FindSlots \/ NextCluster \/ WriteFatCopy \/ PatchCache
    \/ AllocInfo \/ FreeInfo \/ ZeroCluster \/ WriteData
    \/ WriteEntry \/ WriteLfn \/ EmptyEntry \/ Unmark
    \/ IoError \/ PowerLoss
    \/ \E c \in {d \in Clusters : d = 2 \/ WindowOf(d - 1) # WindowOf(d)} : OtherLookup(c)
    \/ \E o \in 0 .. MaxSize - 1, n \in 1 .. MaxSize : ReadFd(o, n)

FatSpec == FatInit /\ [][FatNext]_fatVars

-----------------------------------------------------------------------------
(* The values of the variables, with the FAT cache holding whole windows.  *)
FatTypeOK ==
    /\ fat \in [1 .. FatCount -> [Clusters -> {0, EndOfChain} \cup Clusters]]
    /\ \A c \in Clusters, k \in 1 .. SlotsPerCluster :
            slot[c][k].kind \in {"end", "unused", "lfn", "file", "dir"}
    /\ free \in Unknown .. TotalClusters /\ hint \in Clusters \cup {Unknown}
    /\ DOMAIN cache \in {{}} \cup {{e \in Clusters : WindowOf(e) = WindowOf(c)} : c \in Clusters}
    /\ faults \in 0 .. MaxFaults
    /\ op.cur \in Clusters \cup {0} /\ op.copy \in 0 .. FatCount

Intact == ~damaged /\ ~op.tearing

AllRefs == Scan(RootCluster) \o Scan(Resolve(<<SubDirectory>>).e.cluster)

(* Unless an overwrite or the growth of a directory was cut short after it *)
(* had freed clusters that are still referred to, every file that can be   *)
(* found has a chain of exactly the clusters its size needs, all allocated, *)
(* and no two files or directories share a cluster.  An error or a power   *)
(* loss between any two sector writes of write_file or remove_file loses   *)
(* clusters at worst.                                                      *)
ChainsSound ==
    Intact => LET entries == {ref.e : ref \in Range(AllRefs)} \cup {Root.e}
                  owned == [e \in entries |-> Range(Chain(e.cluster))]
              IN  /\ \A e \in entries : e.kind = "file" =>
                        Cardinality(owned[e]) * ClusterSize \in e.size .. e.size + ClusterSize - 1
                  /\ \A e \in entries : \A c \in owned[e] : fat[1][c] # 0
                  /\ \A e, f \in entries : e # f => owned[e] \cap owned[f] = {}

(* A file that write_file reported written reads back as written, and one  *)
(* that remove_file reported removed stays away, whatever happens to       *)
(* other files: errors, power losses and remounts included.  The listing   *)
(* of its directory and file_size agree with that.                         *)
SavedReadsBack ==
    Intact => \A p \in {q \in FatPaths : saved[q] # Unsure} :
        /\ ReadFile(p) = saved[p]
        /\ FileSize(p) = IF saved[p] = Missing THEN 0 ELSE Len(saved[p])
        /\ (ShortName(Last(p)) \in ListDirectory(Front(p))) = (saved[p] # Missing)

(* The FAT cache never hides a change: outside write_fat_value's own       *)
(* window it agrees with the first FAT copy, however readers refill it.    *)
CacheCoherent ==
    (at \in FatSteps /\ op.copy = 0) \/ \A c \in DOMAIN cache : cache[c] = fat[1][c]

(* Without faults the free cluster count, when known, is exact, on disk    *)
(* and in memory, and the copies of the FAT agree between two calls.       *)
FreeCountExact ==
    (faults = 0 /\ at = "idle") =>
        /\ free # Unknown => free = Cardinality({c \in Clusters : fat[1][c] = 0})
        /\ fsInfo = [free |-> free, hint |-> hint]
        /\ \A k \in 2 .. FatCount : fat[k] = fat[1]

(* In each directory every visible file has a name and an alias of its own. *)
NamesUnique ==
    ~damaged => \A d \in {RootCluster, Resolve(<<SubDirectory>>).e.cluster} :
        LET refs == Scan(d) IN
        \A i, j \in DOMAIN refs : i # j =>
            refs[i].name # refs[j].name /\ refs[i].e.sfn # refs[j].e.sfn

(* A descriptor reads the bytes of the file at any offset, in any order of *)
(* reads before it, as long as the file is not written or removed.         *)
RangeReadsMatch ==
    (fd.fresh /\ Intact) => \A o \in 0 .. MaxSize - 1, n \in 1 .. MaxSize :
        ReadRange(fd, o, n).data = SubSeq(fd.content, o + 1,
            IF o + n < Len(fd.content) THEN o + n ELSE Len(fd.content))

(* The structure of the volume survives errors and power losses: chains,   *)
(* names and the count of free clusters.                                   *)
VolumeSound == FatTypeOK /\ ChainsSound /\ NamesUnique /\ FreeCountExact

(* What was saved reads back, through the path and through a descriptor.   *)
ReadsBack == SavedReadsBack /\ RangeReadsMatch
=============================================================================
