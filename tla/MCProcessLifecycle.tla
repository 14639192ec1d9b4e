-------------------------- MODULE MCProcessLifecycle --------------------------
(***************************************************************************)
(* An instance for TLC of the lives of processes on two CPUs and of the    *)
(* memory of one process.  They share no state, so a behaviour is one of   *)
(* one component, the one that part names; the other keeps its initial     *)
(* state.                                                                  *)
(***************************************************************************)
EXTENDS ProcessLifecycle, ProcessMemory, TLC

VARIABLE part

(* Contexts are interchangeable; CPUs are not, because of the BSP.         *)
CtxSymmetry == Permutations(Ctxs)

MCSpans == <<2>>

ProcessesInit == part \in {"life", "memory"} /\ ProcessInit /\ PmInit

(* A process that is gone, with its loads used up, does nothing more.      *)
ProcessesNext ==
    /\ \/ part = "life" /\ ProcessNext /\ UNCHANGED pmVars
       \/ part = "memory" /\ PmNext /\ UNCHANGED allVars
       \/ part = "memory" /\ UNCHANGED <<allVars, pmVars>>
    /\ UNCHANGED part

ProcessesSpec == ProcessesInit /\ [][ProcessesNext]_<<allVars, pmVars, part>>
=============================================================================
