------------------------------- MODULE MCFiles -------------------------------
(***************************************************************************)
(* Instances for TLC of file streams, of the file system and of mounting.  *)
(* A behaviour is one of one component, the one that part names; the       *)
(* others keep an initial state.                                           *)
(***************************************************************************)
EXTENDS FileStreams, Fat32, Mounts

VARIABLE part

SomeFiles == {NoFile, <<>>, <<1, 2>>}
TwoLengths == {<<3>>, <<3, 3>>}

MCPaths == {<<"d", "long1">>, <<"d", "long2">>}
MCLong == {"long1", "long2"}
MCWritten == {<<1>>, <<2, 3, 4>>}

(* Volumes: good ones with 32- and 16-bit fields, and ones that a check of  *)
(* probe_volume rejects or the arithmetic is at its limit for.             *)
MCGood == [bps |-> 4, spc |-> 2, reserved |-> 1, fats |-> 2, spf16 |-> 0, spf32 |-> 2,
           rootSectors |-> 0, total16 |-> 0, total32 |-> 12, extended |-> TRUE, root |-> 2, info |-> 3]
MCSmall == [MCGood EXCEPT !.total16 = 8]
MCLeast == [MCGood EXCEPT !.total32 = 11, !.spf16 = 1, !.info = Blank]
MCFull == [MCGood EXCEPT !.total32 = 5]
MCWraps == [MCGood EXCEPT !.spf32 = 16]
MCFat12 == [MCGood EXCEPT !.extended = FALSE]
MCOdd == [MCGood EXCEPT !.spc = 3]

MCPart(a) == [used |-> TRUE, first |-> a, last |-> a + 12]
MCBad == [used |-> TRUE, first |-> 9, last |-> 8]
MCDisk == [block |-> 4, gpt |-> TRUE, size |-> 1, count |-> 4, mbr |-> Blank,
           table |-> <<MCPart(5), MCPart(20)>>, volumes |-> <<>>]
MCVol(a, v) == [x \in {a} |-> v]
MCTwo(a, v, b, w) == [x \in {a, b} |-> IF x = a THEN v ELSE w]

MCDisks == {
    [MCDisk EXCEPT !.volumes = MCTwo(5, MCFull, 20, MCGood)],
    [MCDisk EXCEPT !.volumes = MCTwo(5, MCGood, 20, MCSmall), !.size = 2, !.mbr = <<0, 0, 0, 0>>],
    [MCDisk EXCEPT !.volumes = MCVol(20, MCLeast), !.size = 4],
    [MCDisk EXCEPT !.volumes = MCVol(20, MCGood), !.size = 8, !.mbr = <<0, 40, 20, 0>>],
    [MCDisk EXCEPT !.volumes = MCVol(20, MCGood), !.block = 8],
    [MCDisk EXCEPT !.volumes = MCVol(5, MCWraps), !.table = <<MountUnused, MCPart(5), MCPart(20)>>, !.count = 3],
    [MCDisk EXCEPT !.volumes = MCTwo(5, MCGood, 9, MCGood), !.table = <<MountUnused, MCBad, MCPart(5)>>, !.mbr = <<9, 0, 0, 0>>],
    [MCDisk EXCEPT !.volumes = MCTwo(0, MCGood, 20, MCFat12), !.mbr = <<0, 0, 0, 0>>],
    [MCDisk EXCEPT !.volumes = MCTwo(0, MCOdd, 30, MCGood), !.gpt = FALSE, !.mbr = <<0, 40, 0, 30>>] }

FilesInit ==
    /\ part \in {"stream", "fat", "mount"}
    /\ Init /\ FatInit /\ MountInit
    /\ part # "stream" => file = [p \in Paths |-> NoFile]
    /\ part # "mount" => disks = <<>> /\ how = "first"

(* The task that uses the streams ends, and so does the search for a       *)
(* volume.                                                                 *)
FilesNext ==
    /\ \/ part = "stream" /\ Next /\ UNCHANGED <<fatVars, mountVars>>
       \/ part = "fat" /\ FatNext /\ UNCHANGED <<vars, mountVars>>
       \/ part = "mount" /\ MountNext /\ UNCHANGED <<vars, fatVars>>
       \/ part # "fat" /\ UNCHANGED <<vars, fatVars, mountVars>>
    /\ UNCHANGED part

FilesSpec == FilesInit /\ [][FilesNext]_<<vars, fatVars, mountVars, part>>
==============================================================================
