----------------------------- MODULE MCKernelHeap -----------------------------
(* Instances of KernelHeap for TLC: a header is two units, as 32 bytes are, *)
(* a page is four, and the boot heap is pages 8 to 10, with memory below   *)
(* and above it.                                                           *)
EXTENDS KernelHeap

SupplyAround == 3 .. 7 \cup 11 .. 16
=============================================================================
