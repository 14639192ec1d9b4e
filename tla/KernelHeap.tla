------------------------------ MODULE KernelHeap ------------------------------
(***************************************************************************)
(* The kernel heap (class kernel_heap, src/core/memory.cpp).               *)
(*                                                                         *)
(* Addresses and sizes are in units of HEAP_MIN_ALIGNMENT (16 bytes), to   *)
(* which every request is rounded up.  A header is a record of the memory  *)
(* at its address; the list runs in ascending address order (SortedList),  *)
(* so the first block that fits is the lowest one.  Each critical section  *)
(* under lock_ is one action.                                              *)
(***************************************************************************)
EXTENDS Integers, FiniteSets, FiniteSetsExt

CONSTANTS
    Threads,     \* tasks that use the heap
    Header,      \* sizeof(heap_block)
    MinSplit,    \* HEAP_MIN_SPLIT_DATA_SIZE
    PageSize,    \* PAGE_SIZE_4K
    MinSubheap,  \* config::kernel_heap_min_subheap_size
    Base, Size,  \* g_initial_kernel_heap
    Supply,      \* the pages the physical allocator may give
    Sizes,       \* bound: the sizes that callers ask for
    HeapAlignments,  \* bound: the alignments they ask for
    MaxLive      \* bound: the allocations callers hold at once

ASSUME HeapAssumption ==
    /\ {Header, MinSplit, PageSize, Base, Size} \subseteq Nat \ {0}
    /\ MinSubheap \in Nat /\ MaxLive \in Nat
    /\ Size > Header
    /\ Supply \subseteq Nat \ {0}
    /\ Sizes \subseteq Nat \ {0} /\ HeapAlignments \subseteq Nat \ {0}

VARIABLES
    node,        \* the headers in the list, by address
    freeList,    \* free_list_
    totalBytes, expanding,
    supply,      \* pages the physical allocator still has
    pc,          \* where a thread is in its allocation
    req,         \* the request it is working on: size and alignment
    region,      \* the pages expand() got for it: start and size
    live,        \* what callers hold: records of ptr, size and alignment
    aligned      \* history: an aligned request was served

heapVars == <<node, freeList, totalBytes, expanding, supply, pc, req, region, live, aligned>>

Null == 0
NoRegion == [start |-> Null, size |-> 0]

(* A block is never empty: every split leaves room on both sides           *)
(* (memory.cpp:81-85, 521, 612).                                           *)
HeapTypeOK ==
    /\ \A b \in DOMAIN node :
        node[b] \in [size : Nat \ {0}, used : BOOLEAN, next : Nat, prev : Nat]
    /\ freeList \in DOMAIN node
    /\ totalBytes \in Nat
    /\ expanding \in BOOLEAN
    /\ supply \subseteq Supply
    /\ pc \in [Threads -> {"idle", "try", "expand", "add", "added", "failed"}]
    /\ req \in [Threads -> [size : Sizes \cup {0}, alignment : HeapAlignments \cup {0}]]
    /\ region \in [Threads -> [start : Nat, size : Nat]]
    /\ live \subseteq [ptr : Nat, size : Sizes, alignment : HeapAlignments]
    /\ aligned \in BOOLEAN

HeapAlignUp(x, a) == ((x + a - 1) \div a) * a

HeapInit ==
    /\ node = [b \in {Base} |->
            [size |-> Size - Header, used |-> FALSE, next |-> Null, prev |-> Null]]
    /\ freeList = Base
    /\ totalBytes = Size
    /\ expanding = FALSE
    /\ supply = Supply
    /\ pc = [t \in Threads |-> "idle"]
    /\ req = [t \in Threads |-> [size |-> 0, alignment |-> 0]]
    /\ region = [t \in Threads |-> NoRegion]
    /\ live = {}
    /\ aligned = FALSE

-----------------------------------------------------------------------------
(* heap_block::data and heap_block::end *)
Data(b) == b + Header
End(n, b) == b + Header + n[b].size

(* Set the prev of the block at b, if there is one.                        *)
SetPrev(n, b, p) == IF b = Null THEN n ELSE [n EXCEPT ![b].prev = p]

(* p takes in b, the block behind it.                                      *)
Absorb(n, p, b) ==
    LET m == SetPrev([n EXCEPT ![p].size = @ + n[b].size + Header,
                               ![p].next = n[b].next], n[b].next, p)
    IN  [x \in DOMAIN m \ {b} |-> m[x]]

MergesNext(n, b) ==
    /\ n[b].next # Null
    /\ ~n[n[b].next].used
    /\ End(n, b) = n[b].next

MergesPrev(n, b) ==
    /\ n[b].prev # Null
    /\ ~n[n[b].prev].used
    /\ End(n, n[b].prev) = b

MergeNext(n, b) == IF MergesNext(n, b) THEN Absorb(n, b, n[b].next) ELSE n
MergePrev(n, b) == IF MergesPrev(n, b) THEN Absorb(n, n[b].prev, b) ELSE n

-----------------------------------------------------------------------------
(* Allocation.                                                             *)

(* find_heap_block *)
FitsPlain(b, size) == ~node[b].used /\ node[b].size >= size

(* find_aligned_heap_block: the address its inner loop stops at.  There is *)
(* a multiple of the alignment in each run of that many addresses.         *)
AlignedData(b, size, align) ==
    LET start == HeapAlignUp(Data(b), align)
        Stops(a) == \/ a - Header = b
                    \/ a - Header - Data(b) >= MinSplit
                    \/ a + size > End(node, b)
    IN  Min({a \in {start + k * align : k \in 0 .. Header + MinSplit} : Stops(a)})

FitsAligned(b, size, align) ==
    /\ ~node[b].used
    /\ AlignedData(b, size, align) - Header >= b
    /\ AlignedData(b, size, align) + size <= End(node, b)

HeapFits(b, size, align) ==
    IF align = 1 THEN FitsPlain(b, size) ELSE FitsAligned(b, size, align)

Fitting(size, align) == {b \in DOMAIN node : HeapFits(b, size, align)}

(* Mutant of TakePlain: the new header is not paid for.                    *)
TakeKeepsHeader(b, size) ==
    LET old == node[b]
        rest == b + Header + size
        split == [x \in DOMAIN node \cup {rest} |->
            CASE x = b -> [old EXCEPT !.size = size, !.next = rest]
              [] x = rest -> [size |-> old.size - size, used |-> FALSE,
                              next |-> old.next, prev |-> b]
              [] OTHER -> node[x]]
    IN  [IF old.size > size + Header + MinSplit
         THEN SetPrev(split, old.next, rest) ELSE node EXCEPT ![b].used = TRUE]

(* allocate: block b is used, and split if enough is left.                 *)
TakePlain(b, size) ==
    LET old == node[b]
        rest == b + Header + size
        split == [x \in DOMAIN node \cup {rest} |->
            CASE x = b -> [old EXCEPT !.size = size, !.next = rest]
              [] x = rest -> [size |-> old.size - size - Header, used |-> FALSE,
                              next |-> old.next, prev |-> b]
              [] OTHER -> node[x]]
    IN  [IF old.size > size + Header + MinSplit
         THEN SetPrev(split, old.next, rest) ELSE node EXCEPT ![b].used = TRUE]

(* allocate_zero_aligned: a prefix of b stays free, the block at u is      *)
(* used, a suffix is free if it is large enough.  When u is b itself the   *)
(* prefix size in the candidate is 0 - Header, which is not 0, so prev is  *)
(* set as if there was a prefix.                                           *)
TakeAligned(b, size, data) ==
    LET old == node[b]
        u == data - Header
        prefix == u - Data(b)
        suffix == End(node, b) - (data + size)
        rest == data + size
        split == suffix > Header + MinSplit
        last == IF split THEN rest ELSE u
        used == [size |-> IF split THEN size ELSE size + suffix, used |-> TRUE,
                 next |-> IF split THEN rest ELSE old.next,
                 prev |-> IF prefix = 0 /\ u = b THEN old.prev ELSE b]
        new == [x \in DOMAIN node \cup {u, last} |->
            CASE x = u -> used
              [] x = b /\ b # u -> [old EXCEPT !.size = prefix, !.next = u]
              [] x = rest /\ split -> [size |-> suffix - Header, used |-> FALSE,
                                       next |-> old.next, prev |-> u]
              [] OTHER -> node[x]]
    IN  SetPrev(new, old.next, last)

Pointer(b, size, align) == IF align = 1 THEN Data(b) ELSE AlignedData(b, size, align)

Request(t, size, align) ==
    /\ pc[t] = "idle"
    /\ Cardinality(live) + Cardinality({u \in Threads : pc[u] # "idle"}) < MaxLive
    /\ pc' = [pc EXCEPT ![t] = "try"]
    /\ req' = [req EXCEPT ![t] = [size |-> size, alignment |-> align]]
    /\ UNCHANGED <<node, freeList, totalBytes, expanding, supply, region, live, aligned>>

Idle(t) ==
    /\ pc' = [pc EXCEPT ![t] = "idle"]
    /\ req' = [req EXCEPT ![t] = [size |-> 0, alignment |-> 0]]

(* One round of the loop in allocate and allocate_zero_aligned.            *)
Allocate(t) ==
    LET r == req[t]
        fitting == Fitting(r.size, r.alignment)
    IN  /\ pc[t] = "try"
        /\ fitting # {}
        /\ \E b \in {Min(fitting)} : \E data \in {Pointer(b, r.size, r.alignment)} :
            /\ node' = IF r.alignment = 1 THEN TakePlain(b, r.size)
                                          ELSE TakeAligned(b, r.size, data)
            /\ live' = live \cup {[ptr |-> data, size |-> r.size,
                                   alignment |-> r.alignment]}
        /\ aligned' = (aligned \/ r.alignment > 1)
        /\ Idle(t)
        /\ UNCHANGED <<freeList, totalBytes, expanding, supply, region>>

(* No block fits: expand, or try again while another thread does.          *)
StartExpand(t) ==
    /\ pc[t] = "try"
    /\ Fitting(req[t].size, req[t].alignment) = {}
    /\ ~expanding
    /\ expanding' = TRUE
    /\ pc' = [pc EXCEPT ![t] = "expand"]
    /\ UNCHANGED <<node, freeList, totalBytes, supply, req, region, live, aligned>>

-----------------------------------------------------------------------------
(* expand and add_region.                                                  *)

Larger(x, y) == IF x > y THEN x ELSE y

GrowBytes(size, align) ==
    LET minimum == size + Header + Larger(align, PageSize)
    IN  Larger(HeapAlignUp(2 * minimum + PageSize, PageSize), MinSubheap)

(* allocate_pages: the lowest aligned run of free pages, or none.          *)
HeapRun(s, n) == s .. (s + n - 1)
Runs(pages, align) ==
    {s \in supply : HeapRun(s, pages) \subseteq supply /\ (s * PageSize) % align = 0}

ExpandPages(t) ==
    LET bytes == GrowBytes(req[t].size, req[t].alignment)
        runs == Runs(bytes \div PageSize, Larger(req[t].alignment, PageSize))
    IN  /\ pc[t] = "expand"
        /\ runs # {}
        /\ supply' = supply \ HeapRun(Min(runs), bytes \div PageSize)
        /\ region' = [region EXCEPT ![t] = [start |-> Min(runs) * PageSize, size |-> bytes]]
        /\ pc' = [pc EXCEPT ![t] = "add"]
        /\ UNCHANGED <<node, freeList, totalBytes, expanding, req, live, aligned>>

ExpandFails(t) ==
    /\ pc[t] = "expand"
    /\ Runs(GrowBytes(req[t].size, req[t].alignment) \div PageSize,
            Larger(req[t].alignment, PageSize)) = {}
    /\ pc' = [pc EXCEPT ![t] = "failed"]
    /\ UNCHANGED <<node, freeList, totalBytes, expanding, supply, req, region, live, aligned>>

(* The list with a free block of the region at b in its place.             *)
Inserted(b, size) ==
    LET below == {x \in DOMAIN node : x < b}
        cur == IF below = {} THEN Null ELSE Max(below)
        next == IF cur = Null THEN freeList ELSE node[cur].next
        new == [x \in DOMAIN node \cup {b} |->
            CASE x = b -> [size |-> size - Header, used |-> FALSE, next |-> next, prev |-> cur]
              [] x = cur -> [node[x] EXCEPT !.next = b]
              [] OTHER -> node[x]]
    IN  SetPrev(new, next, b)

AddRegion(t) ==
    LET b == region[t].start
        in == Inserted(b, region[t].size)
        first == IF MergesPrev(in, b) THEN in[b].prev ELSE b
    IN  /\ pc[t] = "add"
        /\ node' = MergeNext(MergePrev(in, b), first)
        /\ freeList' = IF b < freeList THEN b ELSE freeList
        /\ totalBytes' = totalBytes + region[t].size
        /\ region' = [region EXCEPT ![t] = NoRegion]
        /\ pc' = [pc EXCEPT ![t] = "added"]
        /\ UNCHANGED <<expanding, supply, req, live, aligned>>

(* Mutant of EndExpand: the result of expand is not looked at.             *)
EndExpandRetries(t) ==
    /\ pc[t] \in {"added", "failed"}
    /\ expanding' = FALSE
    /\ pc' = [pc EXCEPT ![t] = "try"]
    /\ UNCHANGED <<node, freeList, totalBytes, supply, req, region, live, aligned>>

(* expanding_ is reset; a failure returns null, otherwise the thread tries *)
(* again.                                                                  *)
EndExpand(t) ==
    /\ pc[t] \in {"added", "failed"}
    /\ expanding' = FALSE
    /\ IF pc[t] = "failed" THEN Idle(t)
                           ELSE pc' = [pc EXCEPT ![t] = "try"] /\ UNCHANGED req
    /\ UNCHANGED <<node, freeList, totalBytes, supply, region, live, aligned>>

-----------------------------------------------------------------------------
(* free: the callers return what they hold.                                *)
HeapFree(a) ==
    LET b == a.ptr - Header
        n == [node EXCEPT ![b].used = FALSE]
    IN  /\ a \in live
        /\ node' = MergePrev(MergeNext(n, b), b)
        /\ live' = live \ {a}
        /\ UNCHANGED <<freeList, totalBytes, expanding, supply, pc, req, region, aligned>>

Step(t) ==
    \/ Allocate(t) \/ StartExpand(t)
    \/ ExpandPages(t) \/ ExpandFails(t) \/ AddRegion(t) \/ EndExpand(t)

HeapNext ==
    \/ \E t \in Threads :
        \/ \E size \in Sizes, align \in HeapAlignments : Request(t, size, align)
        \/ Step(t)
    \/ \E a \in live : HeapFree(a)

HeapSpec == HeapInit /\ [][HeapNext]_heapVars

(* A thread in the heap keeps running: it is preempted, never blocked.     *)
HeapFairSpec == HeapSpec /\ \A t \in Threads : WF_heapVars(Step(t))

-----------------------------------------------------------------------------
(* Properties.                                                             *)

Units(n, b) == b .. (End(n, b) - 1)
Owned ==
    (HeapRun(Base, Size) \cup UNION {HeapRun(p * PageSize, PageSize) : p \in Supply \ supply})
    \ UNION {HeapRun(region[t].start, region[t].size) : t \in Threads}

(* Whatever splits, merges and insertions happened, following next from    *)
(* free_list_ visits every block in ascending order, and the prev of a     *)
(* block is the block before it, or the block itself (memory.cpp:381-418,  *)
(* 596-633).                                                               *)
SortedList ==
    \A b \in DOMAIN node :
        LET below == {x \in DOMAIN node : x < b}
            above == {x \in DOMAIN node : x > b}
        IN  /\ freeList <= b
            /\ node[b].next = IF above = {} THEN Null ELSE Min(above)
            /\ node[b].prev \in {b, IF below = {} THEN Null ELSE Max(below)}

(* The blocks, headers included, tile the memory the heap was given: none  *)
(* overlap and no byte is lost to a split or a merge, and total_bytes_     *)
(* counts exactly that memory (memory.cpp:356-362, 421, 519-533).          *)
BlocksTile ==
    /\ UNION {Units(node, b) : b \in DOMAIN node} = Owned
    /\ \A b, c \in DOMAIN node : b # c => Units(node, b) \cap Units(node, c) = {}
    /\ totalBytes = Cardinality(Owned)

(* Each pointer a caller holds is aligned as it asked, and is the data of  *)
(* a used block of its own that is as large as it asked; a block that is   *)
(* used is held by someone (memory.cpp:506-657).                           *)
HeldBlocks ==
    /\ \A a \in live :
        /\ a.ptr % a.alignment = 0
        /\ a.ptr - Header \in DOMAIN node
        /\ node[a.ptr - Header].used
        /\ node[a.ptr - Header].size >= a.size
        /\ \A other \in live : other.ptr = a.ptr => other = a
    /\ \A b \in DOMAIN node : node[b].used => \E a \in live : a.ptr = Data(b)

(* "Coalesce with next block if free AND physically adjacent", "Coalesce   *)
(* with previous block if free AND physically adjacent" (memory.cpp:673,   *)
(* 683): two free blocks never touch.                                      *)
HeapCoalesced ==
    \A b \in DOMAIN node : ~node[b].used =>
        ~\E c \in DOMAIN node : ~node[c].used /\ End(node, b) = c

(* Plain allocations and frees, and expansions, never leave two free       *)
(* blocks that touch (memory.cpp:400-418, 673-693).                        *)
PlainCoalesced == ~aligned => HeapCoalesced

(* What expand() adds is enough: the request that caused the expansion     *)
(* fits as soon as its region is in the list (memory.cpp:431-461).         *)
ExpandSuffices ==
    [][\A t \in Threads : AddRegion(t) => Fitting(req[t].size, req[t].alignment)' # {}]_heapVars

(* One thread at a time expands the heap, and expanding_ is set exactly    *)
(* while it does (memory.cpp:541-555).                                     *)
SingleExpander ==
    /\ expanding <=> \E t \in Threads : pc[t] \notin {"idle", "try"}
    /\ \A t, u \in Threads :
        pc[t] \notin {"idle", "try"} /\ pc[u] \notin {"idle", "try"} => t = u

(* An allocation returns, with memory or with null, once the other threads *)
(* have left the heap: expanding_ is never left set (memory.cpp:514-559).  *)
AllocationReturns ==
    \A t \in Threads :
        <>[](\A u \in Threads \ {t} : pc[u] = "idle") => []<>(pc[t] = "idle")

(* The heap's list is in order, tiles its memory, matches its holders and  *)
(* is merged, while at most one thread expands it.                         *)
HeapSound == HeapTypeOK /\ SortedList /\ BlocksTile /\ HeldBlocks /\ PlainCoalesced /\ SingleExpander

(* An expansion is enough for the request that asked for it, and every     *)
(* allocation returns.                                                     *)
RequestsEnd == ExpandSuffices /\ AllocationReturns
=============================================================================
