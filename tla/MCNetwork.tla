------------------------------ MODULE MCNetwork ------------------------------
(***************************************************************************)
(* Instances for TLC of the network and of the start of the CPUs.  A       *)
(* behaviour is one of one component, the one that part names; the other   *)
(* keeps an initial state.                                                 *)
(***************************************************************************)
EXTENDS Network, Smp

CONSTANTS p1, p2, p3, m1, m2
VARIABLE part

Frame(k, i, m) == [kind |-> k, ip |-> i, mac |-> m]

(* Three peers for a cache of two entries, and a peer of two stations.     *)
SomeArrivals ==
    {Frame("arp_request", p1, m1), Frame("echo_request", p1, m2),
     Frame("arp_reply", p2, m2), Frame("arp_reply", p3, m1), Frame("bad", p2, m1)}

Cpu(i) == [id |-> i, usable |-> TRUE]

(* No table; the boot CPU first, in the middle and last; ids that are not  *)
(* indices; a CPU that is not usable; more CPUs than entries.              *)
SomeTables ==
    {<<>>, <<Cpu(0), Cpu(1), Cpu(2)>>, <<Cpu(4), Cpu(0), Cpu(2), Cpu(6)>>,
     <<Cpu(1), [id |-> 5, usable |-> FALSE], Cpu(2), Cpu(0)>>,
     <<Cpu(1), Cpu(2), Cpu(3), Cpu(0)>>}

NetworkInit ==
    /\ part \in {"net", "smp"}
    /\ NetInit /\ SmpInit
    /\ part # "smp" => madt = <<>>

NetOnly == part = "net" /\ UNCHANGED <<smpVars, part>>
SmpOnly == part = "smp" /\ UNCHANGED <<netVars, part>>

NetworkNext ==
    \/ NetOnly /\ NetNext
    \/ SmpOnly /\ SmpNext

(* The fairness of NetFairSpec and SmpFairSpec.                            *)
NetworkFairness ==
    /\ WF_netVars(NetOnly /\ RxStep)
    /\ WF_netVars(NetOnly /\ TakePacket)
    /\ WF_netVars(NetOnly /\ DeviceSends)
    /\ \A t \in Tasks : /\ WF_netVars(NetOnly /\ (Complete(t) \/ GiveUp(t)))
                        /\ SF_netVars(NetOnly /\ Submit(t))
    /\ WF_netVars(NetOnly /\ ResolveStep("ping"))
    /\ WF_smpVars(SmpOnly /\ BspStep) /\ WF_smpVars(SmpOnly /\ (\E a \in Ids : ApStep(a)))

NetworkSpec == NetworkInit /\ [][NetworkNext]_<<netVars, smpVars, part>> /\ NetworkFairness
==============================================================================
