---------------------------- MODULE ProcessMemory ----------------------------
(***************************************************************************)
(* The memory of a process: its page tables (src/core/virtual_memory.cpp)  *)
(* and its allocations (malloc, mmap and brk in src/core/kernel_api.cpp,   *)
(* cleanup in src/core/process.cpp), over the page allocator.              *)
(*                                                                         *)
(* Addresses are in pages.  A process calls these operations from its one  *)
(* task, so a call is an action.  Physical memory, tables and mappings are *)
(* one record that the helpers pass on, as the code's helpers do with      *)
(* their side effects.  A compositor, the task that starts the process,    *)
(* takes pages for window buffers, shares one with the process and gives   *)
(* them back.  Protection flags are left out: mprotect changes nothing     *)
(* else.                                                                   *)
(*                                                                         *)
(* The allocator is the part of PhysAlloc that matters here: first fit,    *)
(* and free_pages gives back the run that starts at the address, whatever  *)
(* its length, or does nothing.                                            *)
(***************************************************************************)
EXTENDS Integers, Sequences, FiniteSets, FiniteSetsExt, SequencesExt

CONSTANTS
    PhysPages,          \* pages 1 .. PhysPages
    ImageBase, HeapBase, MmapBase, SharedBase, MapLimit, \* USER_IMAGE_BASE ...
    Spans,              \* pages under one table of each level, from the top
    ImagePages,         \* pages of an image
    PmSizes,              \* bound: pages of an allocation
    BufferSizes,        \* bound: pages of a buffer
    MaxRecords,         \* bound: allocations a process has at a time
    MaxBuffers,         \* bound: buffers the compositor takes
    MaxLoads,           \* bound: processes that are loaded
    MaxCuts,            \* bound: records brk shortens
    MaxHeapFaults,      \* bound: times the kernel heap is out of memory
    Untaken

ASSUME ProcessMemoryAssumption ==
    /\ 0 <= ImageBase /\ ImageBase + ImagePages <= HeapBase
    /\ HeapBase < MmapBase /\ MmapBase < SharedBase /\ SharedBase < MapLimit
    /\ Spans \in Seq(Nat \ {0}) /\ PmSizes \subseteq Nat \ {0}

VARIABLES
    mem,        \* runs: what the allocator gave; count: its used_pages_;
                \* tables: the page of each table; pt: the leaf entries;
                \* ok: the outcome of the last helper
    recs,       \* ctx->allocations, newest first
    image,      \* ctx->image_phys, Untaken when there is no process
    brkEnd,     \* ctx->brk_mapped_end
    mapNext,    \* address_space->map_next
    buffers,    \* the runs the compositor holds
    window,     \* ctx->fb_override: the buffer it stands for, or Untaken
    heapFaults, \* so far, as are the next two
    takes, loads,
    torn,       \* history: a mapping failed after some of its pages
    cuts,       \* history: records that brk shortened
    withdrawn   \* history: a buffer was given back while it was shared

pmVars == <<mem, recs, image, brkEnd, mapNext, buffers, window, heapFaults,
            takes, loads, torn, cuts, withdrawn>>

Phys == 1 .. PhysPages
Span(s, n) == s .. s + n - 1
TakenPages(m) == UNION {Span(r.start, r.count) : r \in m.runs}

-----------------------------------------------------------------------------
(* The allocator.                                                          *)

PmFitting(m, n) == {s \in Phys : Span(s, n) \subseteq Phys \ TakenPages(m)}

(* free_pages: the run that starts at s, if there is one.                  *)
GiveBack(m, s, n) ==
    IF \E r \in m.runs : r.start = s
    THEN [m EXCEPT !.runs = {r \in @ : r.start # s}, !.count = @ - n]
    ELSE m

Take(m, n) ==
    [m EXCEPT !.runs = @ \cup {[start |-> Min(PmFitting(m, n)), count |-> n]},
              !.count = @ + n]

-----------------------------------------------------------------------------
(* Page tables.  A table is known by its level and its index in it.        *)

Path(v) == [l \in 1 .. Len(Spans) |-> <<l, v \div Spans[l]>>]
Root == <<0, 0>>
SetAt(f, x, y) == [z \in DOMAIN f \cup {x} |-> IF z = x THEN y ELSE f[z]]

(* alloc_table_page *)
AllocTable(m, t) ==
    IF PmFitting(m, 1) = {} THEN [m EXCEPT !.ok = FALSE]
    ELSE [Take(m, 1) EXCEPT !.tables = SetAt(@, t, Min(PmFitting(m, 1)))]

(* ensure_next_table; after a failure map_page returns.                    *)
EnsureTable(m, t) ==
    IF ~m.ok \/ t \in DOMAIN m.tables THEN m ELSE AllocTable(m, t)

(* map_page *)
MapPage(m, v, p) ==
    LET walked == FoldLeft(EnsureTable, m, Path(v))
    IN  IF walked.ok THEN [walked EXCEPT !.pt = SetAt(@, v, p)] ELSE walked

(* map_contiguous: pages that were mapped before a failure stay mapped.    *)
MapContiguous(m, v, p, n) ==
    LET Step(a, i) == MapPage(a, v + i, p + i)
    IN  FoldLeft(Step, m, [i \in 1 .. n |-> i - 1])

(* unmap_range: the tables stay.                                           *)
UnmapRange(m, v, n) ==
    [m EXCEPT !.pt = [x \in DOMAIN @ \ Span(v, n) |-> @[x]]]

(* Mutant of AllocateUserPages: pages that cannot be mapped are kept.      *)
AllocateUserPagesKeeps(m, v, n) ==
    IF PmFitting(m, n) = {} THEN [m EXCEPT !.ok = FALSE]
    ELSE MapContiguous(Take(m, n), v, Min(PmFitting(m, n)), n)

(* allocate_user_pages *)
AllocateUserPages(m, v, n) ==
    IF PmFitting(m, n) = {} THEN [m EXCEPT !.ok = FALSE]
    ELSE LET p == Min(PmFitting(m, n))
             mapped == MapContiguous(Take(m, n), v, p, n)
         IN  IF mapped.ok THEN mapped ELSE GiveBack(mapped, p, n)

(* create_address_space *)
CreateSpace(m) == AllocTable(m, Root)

(* free_page_table_tree: the tables and no leaf.                           *)
FreeTree(m, ts) ==
    LET Drop(t, a) == GiveBack(a, a.tables[t], 1)
    IN  FoldSet(Drop, m, ts)

(* destroy_address_space *)
DestroySpace(m) ==
    [FreeTree(m, DOMAIN m.tables) EXCEPT !.tables = <<>>, !.pt = <<>>]

(* m is a failed continuation of the current state that mapped pages.      *)
Tears(m) == ~m.ok /\ \E v \in DOMAIN m.pt : v \notin DOMAIN mem.pt \/ m.pt[v] # mem.pt[v]

-----------------------------------------------------------------------------
(* Starting a process: load_process_context and run_impl.  The file may    *)
(* have no image, the heap no context, the scheduler no task.              *)

NoProcess == image = Untaken

ShareWindow(m, b) ==
    IF b = Untaken THEN m ELSE MapContiguous(m, SharedBase, b.start, b.count)

Loaded(m) ==
    /\ mem' = m
    /\ image' = m.pt[ImageBase]
    /\ brkEnd' = HeapBase
    /\ mapNext' = MmapBase
    /\ UNCHANGED <<takes, recs, buffers, torn, cuts, withdrawn>>

NotLoaded(m) ==
    /\ mem' = [DestroySpace(m) EXCEPT !.ok = TRUE]
    /\ UNCHANGED <<takes, recs, image, brkEnd, mapNext, buffers, window, torn, cuts, withdrawn>>

(* b: the buffer that becomes the process's framebuffer, if any.           *)
LoadProcess(b) ==
    /\ NoProcess
    /\ loads < MaxLoads
    /\ loads' = loads + 1
    /\ \E space \in {CreateSpace(mem)} :
       \E loaded \in {IF space.ok THEN AllocateUserPages(space, ImageBase, ImagePages) ELSE space} :
       \E shared \in {IF loaded.ok THEN ShareWindow(loaded, b) ELSE loaded} :
          \/ shared.ok /\ Loaded(shared) /\ window' = b /\ UNCHANGED heapFaults
          \/ /\ ~loaded.ok
             /\ NotLoaded(loaded)
             /\ UNCHANGED heapFaults
          \/ /\ loaded.ok /\ ~shared.ok
             /\ NotLoaded(GiveBack(shared, loaded.pt[ImageBase], ImagePages))
             /\ UNCHANGED heapFaults
          \/ /\ loaded.ok /\ heapFaults < MaxHeapFaults
             /\ NotLoaded(GiveBack(loaded, loaded.pt[ImageBase], ImagePages))
             /\ heapFaults' = heapFaults + 1

-----------------------------------------------------------------------------
(* Allocating.                                                             *)

Record(v, p, n) == [user |-> v, phys |-> p, size |-> n]
Keep(m) == mem' = [m EXCEPT !.ok = TRUE]

(* A mapping of n pages at v, and its record: malloc, mmap and the growth  *)
(* of brk.  A record needs heap memory; without it the pages go back.      *)
Allocated(v, n, after) ==
  /\ Len(recs) < MaxRecords
  /\ \E m \in {AllocateUserPages(mem, v, n)} :
       \/ /\ m.ok
          /\ Keep(m)
          /\ recs' = <<Record(v, m.pt[v], n)>> \o recs
          /\ mapNext' = after
          /\ UNCHANGED <<heapFaults, torn>>
       \/ /\ m.ok /\ heapFaults < MaxHeapFaults
          /\ Keep(GiveBack(UnmapRange(m, v, n), m.pt[v], n))
          /\ heapFaults' = heapFaults + 1
          /\ mapNext' = after
          /\ UNCHANGED <<recs, torn>>
       \/ /\ ~m.ok
          /\ Keep(m)
          /\ torn' = (torn \/ Tears(m))
          /\ UNCHANGED <<recs, mapNext, heapFaults>>

(* user_range_is_unmapped *)
Unmapped(v, n) == Span(v, n) \cap DOMAIN mem.pt = {}

(* The loop of allocate_process_mapping.                                   *)
MappingBase(n) == {v \in mapNext .. MapLimit - n : Unmapped(v, n)}

(* stub_malloc_internal, and SYS_MMAP of an anonymous mapping.             *)
Malloc(n) ==
    /\ ~NoProcess
    /\ MappingBase(n) # {}
    /\ LET v == Min(MappingBase(n)) IN Allocated(v, n, v + n)
    /\ UNCHANGED <<takes, loads, image, brkEnd, buffers, window, cuts, withdrawn>>

(* The record leaves the list: untrack_process_mapping for munmap.         *)
Untracked(i) == RemoveAt(recs, i)

Released(m, r) == GiveBack(UnmapRange(m, r.user, r.size), r.phys, r.size)

(* stub_free, and SYS_MUNMAP of a mapping and its length.                  *)
FreeRecord(i) ==
    /\ recs[i].user >= MmapBase
    /\ Keep(Released(mem, recs[i]))
    /\ recs' = Untracked(i)
    /\ UNCHANGED <<takes, loads, image, brkEnd, mapNext, buffers, window, heapFaults, torn, cuts, withdrawn>>

-----------------------------------------------------------------------------
(* adjust_process_brk, by the page the break rounds up to.                 *)

GrowBrk(end) ==
    /\ ~NoProcess
    /\ brkEnd < end
    /\ Allocated(brkEnd, end - brkEnd, mapNext)
    /\ brkEnd' = IF Len(recs') > Len(recs) THEN end ELSE brkEnd
    /\ UNCHANGED <<takes, loads, image, buffers, window, cuts, withdrawn>>

IsTop(r, end) == r.user >= HeapBase /\ r.user + r.size = end

(* One turn of the loop: the record at the end goes, or loses its tail.    *)
ShrinkOnce(b, end) ==
    LET tops == {i \in DOMAIN b.recs : IsTop(b.recs[i], b.end)}
        top == b.recs[Min(tops)]
        kept == end - top.user
    IN  IF b.end <= end \/ tops = {} THEN b
        ELSE IF kept <= 0
        THEN [b EXCEPT !.m = Released(@, top), !.recs = RemoveAt(@, Min(tops)), !.end = top.user]
        ELSE [b EXCEPT !.m = GiveBack(UnmapRange(@, end, b.end - end), top.phys + kept, b.end - end),
                       !.recs[Min(tops)].size = kept,
                       !.end = end,
                       !.cut = TRUE]

ShrinkBrk(end) ==
    /\ ~NoProcess
    /\ HeapBase <= end /\ end < brkEnd
    /\ LET Turn(b, i) == ShrinkOnce(b, end)
       IN  \E b \in {FoldLeft(Turn, [m |-> mem, recs |-> recs, end |-> brkEnd, cut |-> FALSE],
                              [i \in 0 .. Len(recs) |-> i])} :
              /\ Keep(b.m)
              /\ recs' = b.recs
              /\ brkEnd' = b.end
              /\ cuts' = IF b.cut THEN cuts + 1 ELSE cuts
              /\ cuts' <= MaxCuts
    /\ UNCHANGED <<takes, loads, image, mapNext, buffers, window, heapFaults, torn, withdrawn>>

-----------------------------------------------------------------------------
(* cleanup_process_context: every record, the image, the tables.           *)
Cleanup ==
    /\ ~NoProcess
    /\ \E freed \in {FoldLeft(Released, mem, recs)} :
       \E bare \in {GiveBack(UnmapRange(freed, ImageBase, ImagePages), image, ImagePages)} :
          mem' = DestroySpace(bare)
    /\ recs' = <<>>
    /\ image' = Untaken
    /\ brkEnd' = HeapBase
    /\ mapNext' = MmapBase
    /\ window' = Untaken
    /\ torn' = FALSE
    /\ withdrawn' = FALSE
    /\ UNCHANGED <<takes, loads, buffers, heapFaults, cuts>>

-----------------------------------------------------------------------------
(* The compositor.                                                         *)

TakeBuffer(n) ==
    /\ takes < MaxBuffers
    /\ takes' = takes + 1
    /\ PmFitting(mem, n) # {}
    /\ mem' = Take(mem, n)
    /\ buffers' = mem'.runs \ (mem.runs \ buffers)
    /\ UNCHANGED <<loads, recs, image, brkEnd, mapNext, window, heapFaults, torn, cuts, withdrawn>>

GiveBuffer(b) ==
    /\ mem' = GiveBack(mem, b.start, b.count)
    /\ buffers' = buffers \ {b}
    /\ withdrawn' = (withdrawn \/ window = b)
    /\ UNCHANGED <<takes, loads, recs, image, brkEnd, mapNext, window, heapFaults, torn, cuts>>

(* Mutant of Retarget: the tail of the old window stays mapped.            *)
RetargetKeeps(m, b) == m

(* The old window's pages past the new one.                                *)
Retarget(m, b) ==
    IF window # Untaken /\ window.count > b.count
    THEN UnmapRange(m, SharedBase + b.count, window.count - b.count)
    ELSE m

(* remap_target_framebuffer: map first, drop the old tail after; a failure *)
(* drops the pages mapped so far.                                          *)
SetFramebuffer(b) ==
    /\ ~NoProcess
    /\ \E m \in {MapContiguous(mem, SharedBase, b.start, b.count)} :
       \E fresh \in {{v \in Span(SharedBase, b.count) :
                         v \in DOMAIN m.pt /\ m.pt[v] = b.start + (v - SharedBase)}} :
          IF m.ok
          THEN Keep(Retarget(m, b)) /\ window' = b /\ UNCHANGED torn
          ELSE /\ Keep(UnmapRange(m, SharedBase, Cardinality(fresh)))
               /\ window' = Untaken
               /\ torn' = (torn \/ window # Untaken)
    /\ withdrawn' = (withdrawn /\ torn')
    /\ UNCHANGED <<takes, loads, recs, image, brkEnd, mapNext, buffers, heapFaults, cuts>>

-----------------------------------------------------------------------------
PmInit ==
    /\ mem = [runs |-> {}, count |-> 0, tables |-> <<>>, pt |-> <<>>, ok |-> TRUE]
    /\ recs = <<>> /\ image = Untaken
    /\ brkEnd = HeapBase /\ mapNext = MmapBase
    /\ buffers = {} /\ window = Untaken
    /\ heapFaults = 0 /\ takes = 0 /\ loads = 0
    /\ torn = FALSE /\ cuts = 0 /\ withdrawn = FALSE

PmNext ==
    \/ \E b \in buffers \cup {Untaken} : LoadProcess(b)
    \/ \E n \in PmSizes : Malloc(n)
    \/ \E i \in DOMAIN recs : FreeRecord(i)
    \/ \E end \in HeapBase .. MmapBase : GrowBrk(end) \/ ShrinkBrk(end)
    \/ Cleanup
    \/ \E n \in BufferSizes : TakeBuffer(n)
    \/ \E b \in buffers : GiveBuffer(b) \/ SetFramebuffer(b)

PmSpec == PmInit /\ [][PmNext]_pmVars
-----------------------------------------------------------------------------
PmTypeOK ==
    /\ mem.runs \subseteq [start : Phys, count : Nat \ {0}]
    /\ mem.count \in Int /\ mem.ok
    /\ \A v \in DOMAIN mem.pt : v \in 0 .. MapLimit - 1 /\ mem.pt[v] \in Phys
    /\ \A i \in DOMAIN recs : recs[i].phys \in Phys /\ recs[i].size \in Nat \ {0}
    /\ image \in Phys \cup {Untaken}
    /\ brkEnd \in HeapBase .. MmapBase /\ mapNext \in MmapBase .. MapLimit
    /\ window \in buffers \cup {Untaken} \/ withdrawn

(* What the process owns, by virtual address: its image and its records,   *)
(* and the window it was given.                                            *)
PmOwned ==
    (IF NoProcess THEN {} ELSE {Record(ImageBase, image, ImagePages)}) \cup Range(recs)
Lent == IF window = Untaken THEN {} ELSE {Record(SharedBase, window.start, window.count)}

(* Until a mapping fails part way, a process's page tables hold exactly    *)
(* its image, its live allocations and its window, each page at its place: *)
(* no page it gave back is still mapped, and none it has is missing.       *)
(* map_next only grows, so that in the end allocations meet the window.    *)
MapsWhatItOwns ==
    ~torn /\ mapNext <= SharedBase => mem.pt = [v \in UNION {Span(r.user, r.size) : r \in PmOwned \cup Lent} |->
                          LET r == CHOOSE r \in PmOwned \cup Lent : v \in Span(r.user, r.size)
                          IN  r.phys + (v - r.user)]

(* Every allocation begins a run of its own from the page allocator, so    *)
(* that free_pages finds it, as does every table and every buffer; and     *)
(* every run is one of these: none is lost.  This survives mappings that   *)
(* fail and breaks that shrink.                                            *)
EveryRunHasItsOwner ==
    LET owners == {<<"record", r.phys>> : r \in PmOwned}
                     \cup {<<"table", mem.tables[t], t>> : t \in DOMAIN mem.tables}
                     \cup {<<"buffer", b.start>> : b \in buffers}
    IN  /\ {r.start : r \in mem.runs} = {o[2] : o \in owners}
        /\ Cardinality(owners) = Cardinality(mem.runs)
        /\ \A r \in PmOwned : \E run \in mem.runs : run.start = r.phys /\ run.count >= r.size

(* The allocations of brk lie end to end from the heap's base to the break,*)
(* all of them mapped, so that shrinking always finds its record; those of *)
(* malloc and mmap lie above them, below map_next, and apart.              *)
BreakIsTiled ==
    LET below == {r \in Range(recs) : r.user < MmapBase}
        above == Range(recs) \ below
    IN  /\ UNION {Span(r.user, r.size) : r \in below} = HeapBase .. brkEnd - 1
        /\ \A r, q \in Range(recs) : r # q => Span(r.user, r.size) \cap Span(q.user, q.size) = {}
        /\ \A r \in above : r.user + r.size <= mapNext
        /\ Span(HeapBase, brkEnd - HeapBase) \subseteq DOMAIN mem.pt

(* Once its process is gone the memory it had is back, the tables of a     *)
(* failed load included.  The count of used pages is right too, unless brk *)
(* has cut a record, whose tail free_pages does not find.                  *)
GoneLeavesNothing ==
    NoProcess => /\ mem.runs = buffers
                 /\ cuts = 0 => mem.count = MapThenSumSet(LAMBDA b : b.count, buffers)

(* While the compositor keeps the buffer it shares, and mappings succeed,  *)
(* every page a process can reach is one that it or the compositor has.    *)
ReachesLivePages ==
    ~torn /\ ~withdrawn => \A v \in DOMAIN mem.pt : mem.pt[v] \in TakenPages(mem)

(* No page is lost, and none has two owners, from the first load to the    *)
(* end of the last process.                                                *)
PagesOwned == PmTypeOK /\ EveryRunHasItsOwner /\ GoneLeavesNothing

(* What a process can reach is what it owns, at the addresses it was told. *)
AddressSpaceSound == MapsWhatItOwns /\ BreakIsTiled /\ ReachesLivePages
=============================================================================
