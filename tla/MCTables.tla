------------------------------- MODULE MCTables -------------------------------
(***************************************************************************)
(* Instances for TLC of what tasks share without a lock: the tables of     *)
(* streams and drivers, the tree of kernel objects and the PS/2 port.  A   *)
(* behaviour is one of one component, the one that part names; the others  *)
(* keep an initial state.                                                  *)
(***************************************************************************)
EXTENDS FileStreams, Drivers, KernelObjects, Ps2Input, TLC

VARIABLE part

FewFiles == {NoFile, <<0>>}
OneByte == {<<0>>}
TaskSymmetry == Permutations(Tasks)

Ask(op, path, label, max) == [op |-> op, path |-> path, label |-> label, max |-> max]

TwoDrivers == <<"ac97", "virtio_blk">>
OneDisk == <<"vda">>
OneCard == <<"eth0">>
TwoSlots == 1 .. 2

(* Calls of each kind on fixed nodes and on a task, and a list that the    *)
(* caller's buffer cuts.                                                   *)
SomeRequests ==
    {Ask("get", <<"proc", "1", "name">>, "", 0),
     Ask("get", <<"proc", "1", "state">>, "", 0),
     Ask("set", <<"sys", "power", "state", "">>, "hibernate", 0),
     Ask("set", <<"proc", "1", "state">>, "ready", 0),
     Ask("ls", <<"proc">>, "", 0),
     Ask("list", <<"proc">>, "", 1),
     Ask("describe", <<"proc", "1">>, "", 0),
     Ask("drvload", <<>>, "ac97", 0),
     Ask("drvunload", <<>>, "ac97", 0)}

Key(k, e, u) == [key |-> k, ext |-> e, up |-> u]

(* A left arrow within a press of shift: the four bytes of a shift and an  *)
(* extended code.                                                          *)
SomeTyping == <<Key("shift", FALSE, FALSE), Key("left", TRUE, FALSE),
                Key("shift", FALSE, TRUE), Key("ctrl", FALSE, FALSE), Key("a", FALSE, FALSE)>>
SomeMotions == <<TRUE, FALSE, FALSE>>

TablesInit ==
    /\ part \in {"stream", "driver", "object", "ps2"}
    /\ Init /\ DrvInit /\ KobjInit /\ Ps2Init
    /\ part # "stream" => file = [p \in Paths |-> NoFile]
    /\ part # "ps2" => moved = 0

TablesNext ==
    /\ \/ part = "stream" /\ Next /\ UNCHANGED <<drvVars, kobjVars, ps2Vars>>
       \/ part = "driver" /\ DrvNext /\ UNCHANGED <<vars, kobjVars, ps2Vars>>
       \/ part = "object" /\ KobjNext /\ UNCHANGED <<vars, drvVars, ps2Vars>>
       \/ part = "ps2" /\ Ps2Next /\ UNCHANGED <<vars, drvVars, kobjVars>>
    /\ UNCHANGED part

TablesSpec == TablesInit /\ [][TablesNext]_<<vars, drvVars, kobjVars, ps2Vars, part>>
===============================================================================
