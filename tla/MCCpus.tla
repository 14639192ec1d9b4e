------------------------------- MODULE MCCpus -------------------------------
(***************************************************************************)
(* Instances for TLC of the scheduler and of exceptions, on two CPUs.  A   *)
(* behaviour is one of one component, the one that part names; the other   *)
(* keeps an initial state.                                                 *)
(***************************************************************************)
EXTENDS Scheduler, Exceptions

VARIABLE part

CpusInit ==
    /\ part \in {"sched", "exc"}
    /\ Init /\ ExcInit
    /\ part # "exc" => maps = "ready"

SchedOnly == part = "sched" /\ UNCHANGED <<excVars, part>>
ExcOnly == part = "exc" /\ UNCHANGED <<vars, part>>

CpusNext ==
    \/ SchedOnly /\ Next
    \/ ExcOnly /\ ExcNext
    \/ ExcOnly /\ UNCHANGED excVars   \* a machine that has halted

(* The fairness of ExcFairSpec.                                            *)
CpusFairness == \A c \in Processors : WF_excVars(ExcOnly /\ Onward(c))

CpusSpec == CpusInit /\ [][CpusNext]_<<vars, excVars, part>> /\ CpusFairness
=============================================================================
