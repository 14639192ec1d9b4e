------------------------------ MODULE PhysAlloc ------------------------------
(***************************************************************************)
(* The physical page allocator (class phys_allocator, src/core/memory.cpp). *)
(*                                                                         *)
(* Addresses and sizes are in pages.  The list of memory_region nodes is a *)
(* set of regions: it is kept in ascending address order from the memory   *)
(* map on, so a region's neighbours in the list are its neighbours in      *)
(* memory and first fit is lowest start.  Each node in the list is one     *)
(* entry of g_region_pool.  lock_ is held over each operation, which is    *)
(* one action.                                                             *)
(***************************************************************************)
EXTENDS Integers, FiniteSets

CONSTANTS
    Map,         \* the usable entries of the memory map: start and pages
    PoolSize,    \* REGION_POOL_SIZE
    Counts,      \* bound: the page counts that callers ask for
    Alignments,  \* bound: the alignments they ask for
    Limits       \* bound: the max_addr they give; 0 is none

ASSUME MapAssumption ==
    /\ Map \subseteq [start : Nat, pages : Nat]
    /\ IsFiniteSet(Map)
    /\ \A e, f \in Map : e # f => \/ e.start + e.pages <= f.start
                                  \/ f.start + f.pages <= e.start
ASSUME RequestAssumption ==
    /\ PoolSize \in Nat
    /\ Counts \subseteq Nat /\ Limits \subseteq Nat
    /\ Alignments \subseteq Nat \ {0}

VARIABLES
    regions,     \* free_list_: records of start, size and used
    usedPages, freePages,
    blocks,      \* what callers hold: records of start and count
    exhausted    \* history: alloc_region_node found no node

vars == <<regions, usedPages, freePages, blocks, exhausted>>

(* A node of size 0 is one that alloc_region_node may hand out, so none is *)
(* in the list.                                                            *)
Region == [start : Nat \ {0}, size : Nat \ {0}, used : BOOLEAN]

(* Every node in the list is in use as a node, and lies above page 0       *)
(* (memory.cpp:117-130, 214-222).                                          *)
TypeOK ==
    /\ regions \subseteq Region
    /\ usedPages \in Int /\ freePages \in Int
    /\ blocks \subseteq [start : Nat \ {0}, count : Nat \ {0}]
    /\ exhausted \in BOOLEAN

Top(r) == r.start + r.size
Free(s, e) == [start |-> s, size |-> e - s, used |-> FALSE]
Used(s, e) == [start |-> s, size |-> e - s, used |-> TRUE]

-----------------------------------------------------------------------------
(* init: one node for each entry, while there are nodes; page 0 is never   *)
(* handed out.                                                             *)
Usable == {e \in Map : e.pages > 0 /\ ~(e.start = 0 /\ e.pages = 1)}
Included == {e \in Usable : Cardinality({f \in Usable : f.start < e.start}) < PoolSize}

InitRegion(e) == Free(IF e.start = 0 THEN 1 ELSE e.start, e.start + e.pages)
InitRegions == {InitRegion(e) : e \in Included}

Run(s, n) == s .. (s + n - 1)
Pages(rs) == UNION {Run(r.start, r.size) : r \in rs}
Managed == Pages(InitRegions)

(* The pages of the entries, page 0 included: the entries are disjoint, so *)
(* their number is the sum that init computes.                             *)
MapPages == UNION {Run(e.start, e.pages) : e \in Included}

Init ==
    /\ regions = InitRegions
    /\ usedPages = 0
    /\ freePages = Cardinality(MapPages)
    /\ blocks = {}
    /\ exhausted = (Included # Usable)

-----------------------------------------------------------------------------
(* allocate_pages(n, align, limit): first fit.                             *)

AlignUp(a, k) == ((a + k - 1) \div k) * k

Nodes(k) == Cardinality(regions) + k <= PoolSize

Fits(r, n, align, limit) ==
    LET a == AlignUp(r.start, align)
    IN  /\ ~r.used
        /\ a + n <= Top(r)
        /\ limit # 0 => a + n <= limit

(* A fit behind an unaligned start needs a node of its own.                *)
Eligible(r, n, align, limit) ==
    /\ Fits(r, n, align, limit)
    /\ AlignUp(r.start, align) # r.start => Nodes(1)

CarveDropsTail(r, a, b) ==
    IF a = r.start
    THEN IF b < Top(r) /\ Nodes(1)
         THEN {Used(a, b), Free(b, Top(r))}
         ELSE {Used(a, Top(r))}
    ELSE {Free(r.start, a), Used(a, b)}

(* The nodes that replace region r once the run from a to b is taken out   *)
(* of it.  Without a spare node the front case gives the caller the whole  *)
(* region, and the split case drops the pages behind the run.              *)
Carve(r, a, b) ==
    IF a = r.start
    THEN IF b < Top(r) /\ Nodes(1)
         THEN {Used(a, b), Free(b, Top(r))}
         ELSE {Used(a, Top(r))}
    ELSE {Free(r.start, a), Used(a, b)} \cup
         (IF b < Top(r) /\ Nodes(2) THEN {Free(b, Top(r))} ELSE {})

AllocatePages(n, align, limit) ==
    /\ n > 0
    /\ \E r \in regions :
        LET a == AlignUp(r.start, align)
        IN  /\ Eligible(r, n, align, limit)
            /\ \A q \in regions : Eligible(q, n, align, limit) => r.start <= q.start
            /\ regions' = (regions \ {r}) \cup Carve(r, a, a + n)
            /\ blocks' = blocks \cup {[start |-> a, count |-> n]}
            /\ exhausted' = \/ exhausted
                            \/ a + n < Top(r) /\ ~Nodes(IF a = r.start THEN 1 ELSE 2)
                            \/ \E q \in regions : q.start < r.start /\ Fits(q, n, align, limit)
    /\ usedPages' = usedPages + n
    /\ freePages' = freePages - n

(* Out of memory; nothing but the history changes.                         *)
AllocateFails(n, align, limit) ==
    /\ n > 0
    /\ \A r \in regions : ~Eligible(r, n, align, limit)
    /\ exhausted' = (exhausted \/ \E r \in regions : Fits(r, n, align, limit))
    /\ UNCHANGED <<regions, usedPages, freePages, blocks>>

-----------------------------------------------------------------------------
(* free_pages(b.start, b.count), by the holder of block b.                 *)

(* Mutants of FreeAfter: the next region is merged over a hole; or never.  *)
FreeAfterHole(r) == {q \in regions : ~q.used /\ q.start >= Top(r)}
FreeAfterNone(r) == {}

FreeAfter(r) == {q \in regions : ~q.used /\ q.start = Top(r)}
FreeBefore(r) == {q \in regions : ~q.used /\ Top(q) = r.start}

(* The free region that r becomes with its free neighbours.                *)
Merged(r) ==
    Free(IF FreeBefore(r) = {} THEN r.start ELSE (CHOOSE q \in FreeBefore(r) : TRUE).start,
         IF FreeAfter(r) = {} THEN Top(r) ELSE Top(CHOOSE q \in FreeAfter(r) : TRUE))

FreePages(b) ==
    /\ b \in blocks
    /\ \E r \in regions :
        /\ r.used /\ r.start = b.start
        /\ regions' = (regions \ ({r} \cup FreeAfter(r) \cup FreeBefore(r))) \cup {Merged(r)}
    /\ blocks' = blocks \ {b}
    /\ usedPages' = usedPages - b.count
    /\ freePages' = freePages + b.count
    /\ UNCHANGED exhausted

Next ==
    \/ \E n \in Counts, align \in Alignments, limit \in Limits :
        AllocatePages(n, align, limit) \/ AllocateFails(n, align, limit)
    \/ \E b \in blocks : FreePages(b)

Spec == Init /\ [][Next]_vars

-----------------------------------------------------------------------------
(* Properties.                                                             *)

(* The list is a PageAllocator: what it has marked as used are runs of     *)
(* usable memory that are handed out while no used run overlaps them, and  *)
(* taken back whole, however requests and frees split and merge the        *)
(* regions (memory.cpp:239-345).                                           *)
Listed == {[start |-> r.start, count |-> r.size] : r \in {q \in regions : q.used}}

Abstract == INSTANCE PageAllocator WITH Managed <- Managed, blocks <- Listed
Implements == Abstract!Spec

(* The list and the holders agree: regions are disjoint parts of usable    *)
(* memory, each block lies at the start of a used region of its own, and   *)
(* each used region has a holder, so none is leaked (memory.cpp:262-297,   *)
(* 316-339).                                                               *)
ListMatchesBlocks ==
    /\ \A q, r \in regions : q # r => Top(q) <= r.start \/ Top(r) <= q.start
    /\ \A r \in regions : Run(r.start, r.size) \subseteq Managed
    /\ \A r \in regions : r.used => \E b \in blocks : b.start = r.start
    /\ \A b \in blocks : \E r \in regions :
            r.used /\ r.start = b.start /\ b.count <= r.size
    /\ \A b, c \in blocks : b.start = c.start => b = c

(* Two holders never share a page (memory.cpp:239-306).                    *)
BlocksDisjoint ==
    \A b, c \in blocks : b # c => Run(b.start, b.count) \cap Run(c.start, c.count) = {}

(* As long as the node pool lasts every page is in the list: splitting and *)
(* merging lose none (memory.cpp:262-297, 322-338).                        *)
PagesConserved == ~exhausted => Pages(regions) = Managed

(* free_pages merges on both sides, so the list fragments no further than  *)
(* the memory map: two free neighbours can only meet where two entries of  *)
(* the map did (memory.cpp:321-338).                                       *)
Coalesced ==
    \A q, r \in regions :
        ~q.used /\ ~r.used /\ Top(q) = r.start => \E e \in Map : e.start = r.start

(* used_pages_ counts what callers hold, and the free regions never hold   *)
(* more pages than free_pages_ says, so that the unsigned counter cannot   *)
(* wrap: also with absorbed tails, lost fragments and page 0, which init   *)
(* counts (memory.cpp:230, 270, 286-301, 319-320).                         *)
Held == UNION {Run(b.start, b.count) : b \in blocks}
FreeListed == Pages({r \in regions : ~r.used})
CountersExact ==
    /\ usedPages = Cardinality(Held)
    /\ freePages + usedPages = Cardinality(MapPages)
    /\ Cardinality(FreeListed) <= freePages

(* When everything has been freed and the pool never ran out, each region  *)
(* of the boot map is whole again (memory.cpp:309-345).                    *)
FullyRecovers ==
    blocks = {} /\ ~exhausted =>
        \A q \in InitRegions : \E r \in regions :
            ~r.used /\ Run(q.start, q.size) \subseteq Run(r.start, r.size)

(* The list never keeps two free regions apart that touch, and while the   *)
(* nodes last it returns to the one region of each range.                  *)
Recovers == TypeOK /\ Coalesced /\ FullyRecovers

(* The list matches the holders, who are apart; the counters are exact;    *)
(* and no page is lost while the nodes last.                               *)
PagesSound == ListMatchesBlocks /\ BlocksDisjoint /\ CountersExact /\ PagesConserved
=============================================================================
