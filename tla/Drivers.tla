------------------------------- MODULE Drivers -------------------------------
(***************************************************************************)
(* The driver registry (src/core/driver.cpp), the block and network device *)
(* registries, and how the virtio drivers take and give back what they     *)
(* need: load, unload, and what a request meanwhile gets to use.           *)
(*                                                                         *)
(* Nothing here holds a lock, so load and unload go step by step: a step   *)
(* is what lies between two accesses to the shared device structures.      *)
(* efi_main loads the drivers before any task runs; afterwards any task    *)
(* may call vk_load_driver and vk_unload_driver.  A page stands for one    *)
(* allocation of the driver: a ring or a buffer.                           *)
(***************************************************************************)
EXTENDS Integers, Sequences, FiniteSets, FiniteSetsExt, SequencesExt

CONSTANTS
    Loaders,        \* tasks that load and unload
    DriverPages,    \* allocations the drivers can have
    BlockEntries,   \* MAX_BLOCK_DEVICES
    NetEntries,     \* MAX_NET_DEVICES, in the registry and in the driver
    NetCards,       \* network cards on the bus
    MaxCalls,       \* bound: calls of load and unload
    MaxLoading,     \* bound: loads and unloads at a time
    MaxDeviceFaults,\* bound: devices that report no sectors
    NoPage

ASSUME DriversAssumption ==
    /\ NetCards \in 1 .. NetEntries /\ BlockEntries \in Nat \ {0}
    /\ DriverPages \subseteq Nat /\ NoPage \notin DriverPages

VARIABLES
    boot,      \* steps of efi_main still to come
    loaded,    \* s_drivers[i].loaded, the drivers that are
    taken,     \* pages of the drivers
    blk,       \* s_device of virtio_blk
    blkRegs,   \* entries of the block registry, all for blk
    cards,     \* s_devices of virtio_net
    cardCount, \* its s_device_count
    netRegs,   \* driver_data of each network registry entry
    workers,   \* the network tasks have been created
    volume,    \* a file system is mounted on blk
    step,      \* where each loader is
    which,     \* the driver each loader loads or unloads
    card,      \* the card each loader is at, and the slot it fills
    calls, deviceFaults, \* so far
    overlapped,\* history: two loaders were at one driver
    spoiled    \* history: a block device failed after it had its pages

drvVars == <<boot, loaded, taken, blk, blkRegs, cards, cardCount, netRegs, workers,
             volume, step, which, card, calls, deviceFaults, overlapped, spoiled>>
registryVars == <<blkRegs, netRegs>>
historyVars == <<overlapped, spoiled>>
boundVars == <<calls, deviceFaults>>

DriverNames == {"virtio_blk", "fat32", "virtio_net"}
NoBlk == [present |-> FALSE, queue |-> NoPage, bounce |-> NoPage]
NoCard == [present |-> FALSE, rxq |-> NoPage, txq |-> NoPage, rx |-> NoPage, tx |-> NoPage]
BlkPages == {blk.queue, blk.bounce} \ {NoPage}
CardPages(c) == {c.rxq, c.txq, c.rx, c.tx} \ {NoPage}
Free == DriverPages \ taken
NthFree(n) == CHOOSE p \in Free : Cardinality({q \in Free : q < p}) = n - 1

(* register_device of the block and of the network layer.                  *)
BlkEntryFree == blkRegs < BlockEntries
NetEntryFree == Len(netRegs) < NetEntries

Busy(t) == step[t] # "idle"
Goto(t, s) == step' = [step EXCEPT ![t] = s]

(* The loader's call returns; efi_main goes on to its next one.            *)
Return(t) ==
    /\ Goto(t, "idle")
    /\ boot' = IF boot = <<>> THEN boot ELSE Tail(boot)

-----------------------------------------------------------------------------
(* load *)

Starting(t, d) ==
    /\ ~Busy(t)
    /\ Cardinality({u \in Loaders : Busy(u)}) < MaxLoading
    /\ IF boot # <<>> THEN d = Head(boot) /\ \A u \in Loaders : ~Busy(u) ELSE calls < MaxCalls
    /\ calls' = IF boot # <<>> THEN calls ELSE calls + 1
    /\ which' = [which EXCEPT ![t] = d]
    /\ overlapped' = (overlapped \/ \E u \in Loaders \ {t} : Busy(u) /\ which[u] = d)

LoadDriver(t, d) ==
    /\ Starting(t, d)
    /\ d \notin loaded
    /\ Goto(t, d)
    /\ card' = [card EXCEPT ![t] = <<1, 1>>]
    /\ UNCHANGED <<boot, loaded, taken, blk, registryVars, cards, cardCount, workers, volume, deviceFaults, spoiled>>

(* loaded = true, at the end.  The file system's init only clears its      *)
(* state.                                                                  *)
Mark(t) ==
    /\ step[t] = "mark" \/ step[t] = "fat32"
    /\ loaded' = loaded \cup {which[t]}
    /\ Return(t)
    /\ UNCHANGED <<taken, blk, registryVars, cards, cardCount, workers, volume, which, card, boundVars, historyVars>>

-----------------------------------------------------------------------------
(* virtio_blk *)

(* init_device forgets what s_device had.                                  *)
BlkReset(t) ==
    /\ step[t] = "virtio_blk"
    /\ blk' = NoBlk
    /\ Goto(t, "queue")
    /\ UNCHANGED <<boot, loaded, taken, registryVars, cards, cardCount, workers, volume, which,
                   card, boundVars, historyVars>>

(* setup_queue: the ring and the bounce buffer, or neither.                *)
BlkSetup(t) ==
    /\ step[t] = "queue"
    /\ IF Cardinality(Free) >= 2
       THEN /\ blk' = [blk EXCEPT !.queue = NthFree(1), !.bounce = NthFree(2)]
            /\ taken' = taken \cup {NthFree(1), NthFree(2)}
            /\ Goto(t, "capacity")
            /\ UNCHANGED boot
       ELSE Return(t) /\ UNCHANGED <<blk, taken>>
    /\ UNCHANGED <<loaded, registryVars, cards, cardCount, workers, volume, which, card,
                   boundVars, historyVars>>

(* No sectors: init fails and the pages stay.                              *)
BlkNoSectors(t) ==
    /\ step[t] = "capacity"
    /\ deviceFaults < MaxDeviceFaults
    /\ deviceFaults' = deviceFaults + 1
    /\ spoiled' = TRUE
    /\ Return(t)
    /\ UNCHANGED <<loaded, taken, blk, registryVars, cards, cardCount, workers, volume, which, card, calls, overlapped>>

(* present, then register_device, which fails when the registry is full:   *)
(* the device stays present and its pages stay.                            *)
BlkRegister(t) ==
    /\ step[t] = "capacity"
    /\ blk' = [blk EXCEPT !.present = TRUE]
    /\ IF BlkEntryFree
       THEN blkRegs' = blkRegs + 1 /\ Goto(t, "mark") /\ UNCHANGED <<boot, spoiled>>
       ELSE Return(t) /\ spoiled' = TRUE /\ UNCHANGED blkRegs
    /\ UNCHANGED <<loaded, taken, netRegs, cards, cardCount, workers, volume, which, card, boundVars, overlapped>>

-----------------------------------------------------------------------------
(* virtio_net: each card on the bus gets the next slot.                    *)

(* cleanup_rx_buffer, cleanup_tx_buffer, cleanup_queue *)
Cleaned(c) == CardPages(c)

NetSetUp == [present |-> TRUE, rxq |-> NthFree(1), txq |-> NthFree(2),
             rx |-> NthFree(3), tx |-> NthFree(4)]

(* init_device for one card: all four allocations and a registry entry, or *)
(* nothing of it.  virtio_net_init clears the count first.                 *)
NetCard(t) ==
    LET i == card[t][1]
        slot == card[t][2]
    IN  /\ step[t] = "virtio_net"
        /\ i <= NetCards
        /\ cardCount' = IF i = 1 THEN 0 ELSE cardCount
        /\ IF Cardinality(Free) >= 4 /\ NetEntryFree
           THEN /\ cards' = [cards EXCEPT ![slot] = NetSetUp]
                /\ taken' = taken \cup CardPages(NetSetUp)
                /\ netRegs' = Append(netRegs, slot)
                /\ card' = [card EXCEPT ![t] = <<i + 1, slot + 1>>]
           ELSE /\ cards' = [cards EXCEPT ![slot] = NoCard]
                /\ card' = [card EXCEPT ![t] = <<i + 1, slot>>]
                /\ taken' = taken \cup (IF Cardinality(Free) < 4 THEN {}
                                        ELSE CardPages(NetSetUp) \ Cleaned(NetSetUp))
                /\ UNCHANGED netRegs
        /\ UNCHANGED <<boot, loaded, blk, blkRegs, workers, volume, step, which,
                       boundVars, historyVars>>

(* The count, and whether any card works.                                  *)
NetFound(t) ==
    /\ step[t] = "virtio_net"
    /\ card[t][1] > NetCards
    /\ cardCount' = card[t][2] - 1
    /\ IF card[t][2] = 1 THEN Return(t) ELSE Goto(t, "mark") /\ UNCHANGED boot
    /\ UNCHANGED <<loaded, taken, blk, registryVars, cards, workers, volume, which, card,
                   boundVars, historyVars>>

-----------------------------------------------------------------------------
(* unload, for the two drivers that have a shutdown.                       *)

Unload(t, d) ==
    /\ boot = <<>>
    /\ Starting(t, d)
    /\ d \in loaded
    /\ d # "fat32"
    /\ Goto(t, IF d = "virtio_blk" THEN "free" ELSE "stop")
    /\ card' = [card EXCEPT ![t] = <<1, 1>>]
    /\ UNCHANGED <<boot, loaded, taken, blk, registryVars, cards, cardCount, workers, volume, deviceFaults, spoiled>>

(* virtio_blk_shutdown: the pages, then the structure.                     *)
BlkFree(t) ==
    /\ step[t] = "free"
    /\ taken' = taken \ BlkPages
    /\ Goto(t, "zero")
    /\ UNCHANGED <<boot, loaded, blk, registryVars, cards, cardCount, workers, volume, which, card, boundVars, historyVars>>

(* Mutant of BlkZero: the structure is left as it is.                      *)
BlkZeroKeeps(t) ==
    /\ step[t] = "zero"
    /\ loaded' = loaded \ {which[t]}
    /\ Return(t)
    /\ UNCHANGED <<taken, blk, registryVars, cards, cardCount, workers, volume, which, card, boundVars, historyVars>>

BlkZero(t) ==
    /\ step[t] = "zero"
    /\ blk' = NoBlk
    /\ loaded' = loaded \ {which[t]}
    /\ Return(t)
    /\ UNCHANGED <<taken, registryVars, cards, cardCount, workers, volume, which, card, boundVars, historyVars>>

(* virtio_net_shutdown, card by card.                                      *)
NetStop(t) ==
    LET i == card[t][1]
    IN  /\ step[t] = "stop"
        /\ IF i <= cardCount
           THEN /\ taken' = taken \ Cleaned(cards[i])
                /\ cards' = [cards EXCEPT ![i] = NoCard]
                /\ card' = [card EXCEPT ![t][1] = i + 1]
                /\ UNCHANGED <<cardCount, loaded, step, boot>>
           ELSE /\ cardCount' = 0
                /\ loaded' = loaded \ {which[t]}
                /\ Return(t)
                /\ UNCHANGED <<taken, cards, card>>
        /\ UNCHANGED <<blk, registryVars, workers, volume, which, boundVars, historyVars>>

-----------------------------------------------------------------------------
(* The rest of efi_main: mounting, then the network tasks.                 *)

MountBoot ==
    /\ boot # <<>> /\ Head(boot) = "mount"
    /\ volume' \in {FALSE, blkRegs > 0 /\ blk.present}
    /\ boot' = Tail(boot)
    /\ UNCHANGED <<loaded, taken, blk, registryVars, cards, cardCount, workers, step, which,
                   card, boundVars, historyVars>>

(* start_background_worker *)
StartWorkers ==
    /\ boot # <<>> /\ Head(boot) = "workers"
    /\ workers' = (netRegs # <<>>)
    /\ boot' = Tail(boot)
    /\ UNCHANGED <<loaded, taken, blk, registryVars, cards, cardCount, volume, step, which,
                   card, boundVars, historyVars>>

-----------------------------------------------------------------------------
(* Requests: a transfer of the file system, a frame polled or sent.  The   *)
(* device is looked at once; its rings are used after that.                *)

Admitted ==
    (IF volume /\ blk.present THEN {blk.queue} ELSE {})
      \cup (IF workers THEN {cards[netRegs[i]].rx : i \in {j \in DOMAIN netRegs : cards[netRegs[j]].present}}
            ELSE {})

-----------------------------------------------------------------------------
DrvInit ==
    /\ boot = <<"virtio_blk", "fat32", "virtio_net", "mount", "workers">>
    /\ loaded = {} /\ taken = {}
    /\ blk = NoBlk /\ blkRegs = 0
    /\ cards = [i \in 1 .. NetEntries |-> NoCard] /\ cardCount = 0 /\ netRegs = <<>>
    /\ workers = FALSE /\ volume = FALSE
    /\ step = [t \in Loaders |-> "idle"]
    /\ which = [t \in Loaders |-> "fat32"]
    /\ card = [t \in Loaders |-> <<1, 1>>]
    /\ calls = 0 /\ deviceFaults = 0
    /\ overlapped = FALSE /\ spoiled = FALSE

LoaderStep(t) ==
    \/ Mark(t)
    \/ BlkReset(t) \/ BlkSetup(t) \/ BlkNoSectors(t) \/ BlkRegister(t)
    \/ NetCard(t) \/ NetFound(t)
    \/ BlkFree(t) \/ BlkZero(t) \/ NetStop(t)

DrvNext ==
    \/ \E t \in Loaders, d \in DriverNames : LoadDriver(t, d) \/ Unload(t, d)
    \/ \E t \in Loaders : LoaderStep(t)
    \/ MountBoot \/ StartWorkers

DrvSpec == DrvInit /\ [][DrvNext]_drvVars
-----------------------------------------------------------------------------
DrvTypeOK ==
    /\ loaded \subseteq DriverNames
    /\ taken \subseteq DriverPages
    /\ blk \in [present : BOOLEAN, queue : DriverPages \cup {NoPage}, bounce : DriverPages \cup {NoPage}]
    /\ blkRegs \in 0 .. BlockEntries
    /\ \A i \in DOMAIN cards : CardPages(cards[i]) \subseteq DriverPages
    /\ cardCount \in 0 .. NetEntries
    /\ netRegs \in Seq(1 .. NetEntries) /\ Len(netRegs) <= NetEntries

Kept(i) == CardPages(cards[i])
BlkKept == IF \E t \in Loaders : step[t] = "zero" THEN {} ELSE BlkPages

(* Loading, failing and unloading lose no page and share none, however     *)
(* often: what the drivers took is what their devices have, each page once.*)
(* Two loads of one driver at a time void this, and so does a block device *)
(* that fails after setup_queue, whose pages the next load forgets.        *)
PagesAccounted ==
    ~overlapped /\ ~spoiled =>
        /\ taken = BlkKept \cup UNION {Kept(i) : i \in DOMAIN cards}
        /\ \A i \in DOMAIN cards : BlkKept \cap Kept(i) = {}
        /\ \A i, j \in DOMAIN cards : i # j => Kept(i) \cap Kept(j) = {}

(* A driver that is loaded, and not being unloaded, has a device with all  *)
(* its rings and an entry in the registry for it.                          *)
LoadedIsUsable ==
    ~overlapped =>
        /\ "virtio_blk" \in loaded /\ (\A t \in Loaders : step[t] \notin {"free", "zero"}) =>
               blk.present /\ Cardinality(BlkPages) = 2 /\ blkRegs > 0
        /\ "virtio_net" \in loaded /\ (\A t \in Loaders : step[t] # "stop") =>
               /\ cardCount > 0
               /\ \A i \in 1 .. cardCount :
                     /\ cards[i].present /\ Cardinality(Kept(i)) = 4
                     /\ \E r \in DOMAIN netRegs : netRegs[r] = i

(* What a request would be given is memory its driver has, whichever of    *)
(* the stale registry entries it comes through: after any number of loads, *)
(* failures and unloads, and while one is at work on another card.  Only   *)
(* virtio_blk_shutdown, between freeing and clearing, is an exception; and *)
(* shutdown waits for no request that was admitted before it.              *)
AdmissionIsSafe ==
    ~overlapped /\ (\A t \in Loaders : step[t] # "zero") => Admitted \subseteq taken

(* Drivers account for their pages, are usable once loaded, and admit no   *)
(* request to memory they have given back.                                 *)
DriversSound == DrvTypeOK /\ PagesAccounted /\ LoadedIsUsable /\ AdmissionIsSafe
=============================================================================
