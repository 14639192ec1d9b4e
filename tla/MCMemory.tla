------------------------------- MODULE MCMemory -------------------------------
(***************************************************************************)
(* An instance for TLC of the page allocator and of the kernel heap.  They  *)
(* share no state, so a behaviour is one of one component, the one that    *)
(* part names; the other keeps its initial state.                          *)
(***************************************************************************)
EXTENDS PhysAlloc, KernelHeap

VARIABLE part

(* Page 0 and its neighbours, an adjacent entry of another type, a hole,   *)
(* and a last entry.                                                       *)
MCMap == {[start |-> 0, pages |-> 4], [start |-> 4, pages |-> 4],
          [start |-> 10, pages |-> 2]}

(* A header is two units, as 32 bytes are, a page is four, and the boot    *)
(* heap is pages 8 to 10, with memory below and above it.                  *)
SupplyAround == 3 .. 7 \cup 11 .. 16

MemoryInit == part \in {"pages", "heap"} /\ Init /\ HeapInit

MemoryNext ==
    /\ \/ part = "pages" /\ Next /\ UNCHANGED heapVars
       \/ part = "heap" /\ HeapNext /\ UNCHANGED vars
    /\ UNCHANGED part

MemorySpec ==
    /\ MemoryInit /\ [][MemoryNext]_<<vars, heapVars, part>>
    /\ \A t \in Threads : WF_heapVars(part = "heap" /\ Step(t) /\ UNCHANGED <<vars, part>>)
===============================================================================
