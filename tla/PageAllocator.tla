---------------------------- MODULE PageAllocator ----------------------------
(***************************************************************************)
(* What a physical page allocator promises: it hands out runs of pages     *)
(* that no one holds, and takes them back.  It may refuse at any time.     *)
(***************************************************************************)
EXTENDS Integers

CONSTANT Managed     \* the page numbers it may hand out

VARIABLE blocks      \* the runs handed out: records of start and count

Run(b) == b.start .. (b.start + b.count - 1)

Init == blocks = {}

Allocate ==
    \E first, last \in Managed :
        LET b == [start |-> first, count |-> last - first + 1]
        IN  /\ first <= last
            /\ Run(b) \subseteq Managed
            /\ \A o \in blocks : Run(o) \cap Run(b) = {}
            /\ blocks' = blocks \cup {b}

Free == \E b \in blocks : blocks' = blocks \ {b}

Next == Allocate \/ Free

Spec == Init /\ [][Next]_blocks
=============================================================================
