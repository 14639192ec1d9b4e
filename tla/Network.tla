------------------------------- MODULE Network -------------------------------
(***************************************************************************)
(* The network stack (src/net/) over the virtio network driver             *)
(* (src/drivers/virtio_net.cpp): the receive worker, the transmit worker   *)
(* and a task that sends echo requests share the ARP cache, the transmit   *)
(* queue and the device's one transmit buffer.                             *)
(*                                                                         *)
(* The machine has one device and one address, which is configured before  *)
(* the workers start.  A frame is what decides its fate: its kind, the     *)
(* peer's address and station (MAC).  Frames that are dropped before their *)
(* sender is entered (they do not parse, are not for this machine, have a  *)
(* bad IPv4 checksum) are of the kind "bad"; ARP requests for an address   *)
(* of another machine count as "arp_reply", and ICMP packets that are not  *)
(* valid echo requests as "echo_reply", since both only teach the sender.  *)
(***************************************************************************)
EXTENDS Integers, Sequences, FiniteSets

CONSTANTS
    Peers, Stations,  \* addresses and MACs of other machines
    Arrivals,         \* the frames that may arrive
    CacheEntries,     \* MAX_CACHE_ENTRIES
    QueueCapacity,    \* NET_TX_QUEUE_CAPACITY
    IndexBound,       \* ring indices are u16
    ResolveTicks,     \* ARP_RESOLVE_TIMEOUT_TICKS
    MaxFrames,        \* bound: frames that arrive
    MaxPings,         \* bound: echo requests
    MaxTimeouts,      \* bound: transmissions that time out
    None

Kinds == {"arp_request", "arp_reply", "echo_request", "echo_reply", "bad"}
Tasks == {"rx", "tx", "ping"}
Broadcast == "broadcast"
Packet == [kind : Kinds, ip : Peers, mac : Stations \cup {Broadcast}]

ASSUME NetAssumption ==
    /\ {CacheEntries, ResolveTicks} \subseteq Nat \ {0}
    /\ QueueCapacity \in Nat \ {0, 1} /\ IndexBound \in Nat \ {0, 1}
    /\ Arrivals \subseteq [kind : Kinds, ip : Peers, mac : Stations]
    /\ {MaxFrames, MaxPings, MaxTimeouts} \subseteq Nat
    /\ Broadcast \notin Stations
    /\ None \notin Stations \cup Tasks \cup Packet \cup [ip : Peers, mac : Stations]

VARIABLES
    arp, replace,      \* s_cache, s_next_replace
    queue, head, tail, \* s_tx_queue and its indices
    txAvail, txUsed, txSeen, \* avail->idx, used->idx, last_used_idx of txq
    txBuffer, txLock,  \* the bounce buffer; who holds tx_lock
    rxFrame,           \* the frame in rx_buffer, None while the device owns it
    netPc, job,        \* what each task is doing, and on which packet
    ticks,             \* left in the resolve loop of a task
    arrived, pings, timeouts, \* so far
    heard,             \* history: the station each peer was last heard from
    order,             \* history: what was queued and not yet taken
    buffers,           \* history: queued copies on the heap
    wire               \* history: what the device sent, until it is reported

netVars == <<arp, replace, queue, head, tail, txAvail, txUsed, txSeen, txBuffer, txLock,
             rxFrame, netPc, job, ticks, arrived, pings, timeouts, heard, order, buffers, wire>>

cacheVars == <<arp, replace, heard>>
queueVars == <<queue, head, tail, order, buffers>>
txVars == <<txAvail, txUsed, txSeen, txBuffer, txLock, wire>>
bounds == <<arrived, pings, timeouts>>

Become(t, where, what) ==
    /\ netPc' = [netPc EXCEPT ![t] = where]
    /\ job' = [job EXCEPT ![t] = what]

-----------------------------------------------------------------------------
(* The ARP cache, under s_cache_lock.                                      *)

Slots == 1 .. CacheEntries
Hits(ip) == {i \in Slots : arp[i] # None /\ arp[i].ip = ip}
Lowest(S) == CHOOSE i \in S : \A j \in S : i <= j

(* cache_lookup_locked *)
Lookup(ip) == IF Hits(ip) = {} THEN None ELSE arp[Lowest(Hits(ip))].mac

(* cache_insert_locked: a matching entry, a free one, or the next in turn. *)
Insert(ip, mac) ==
    LET unused == {i \in Slots : arp[i] = None}
        slot == IF Hits(ip) # {} THEN Lowest(Hits(ip))
                ELSE IF unused # {} THEN Lowest(unused) ELSE replace
    IN  /\ arp' = [arp EXCEPT ![slot] = [ip |-> ip, mac |-> mac]]
        /\ replace' = IF unused = {} /\ Hits(ip) = {} THEN (replace % CacheEntries) + 1 ELSE replace
        /\ heard' = [heard EXCEPT ![ip] = mac]

-----------------------------------------------------------------------------
(* The transmit queue, under s_tx_queue_lock.                              *)

(* tx_queue_full, tx_queue_empty *)
QueueFull == (head + 1) % QueueCapacity = tail
QueueEmpty == head = tail

(* queue_packet: a copy on the heap, which is given back when the queue is *)
(* full.                                                                   *)
Enqueue(p) ==
    IF QueueFull THEN UNCHANGED queueVars
    ELSE /\ queue' = [queue EXCEPT ![head] = p]
         /\ head' = (head + 1) % QueueCapacity
         /\ order' = Append(order, p)
         /\ buffers' = buffers + 1
         /\ UNCHANGED tail

(* background_tx_task takes the oldest packet.                             *)
TakePacket ==
    /\ netPc["tx"] = "idle" /\ ~QueueEmpty
    /\ Become("tx", "send", queue[tail])
    /\ queue' = [queue EXCEPT ![tail] = None]
    /\ tail' = (tail + 1) % QueueCapacity
    /\ order' = Tail(order)
    /\ UNCHANGED <<cacheVars, head, buffers, txVars, rxFrame, ticks, bounds>>

-----------------------------------------------------------------------------
(* transmit_packet: tx_lock is held from the copy into the one buffer to   *)
(* the completion or the timeout.                                          *)

Inc(i) == (i + 1) % IndexBound

Submit(t) ==
    /\ netPc[t] \in {"send", "request"} /\ txLock = None
    /\ txLock' = t
    /\ txBuffer' = IF netPc[t] = "send" THEN job[t]
                   ELSE [kind |-> "arp_request", ip |-> job[t].ip, mac |-> Broadcast]
    /\ txAvail' = Inc(txAvail)
    /\ UNCHANGED <<cacheVars, queueVars, txUsed, txSeen, wire, rxFrame, netPc, job, ticks, bounds>>

(* Where a task goes on after a transmission.                              *)
Sent(t, ok) ==
    CASE t = "tx" -> Become(t, "idle", None) /\ buffers' = buffers - 1 /\ UNCHANGED ticks
      [] t # "tx" /\ netPc[t] = "request" /\ ok ->
            /\ Become(t, "resolving", job[t])
            /\ ticks' = [ticks EXCEPT ![t] = ResolveTicks]
            /\ UNCHANGED buffers
      [] OTHER -> Become(t, "idle", None) /\ UNCHANGED <<buffers, ticks>>

(* Mutant of Complete: a completion is not counted as seen.                *)
CompleteUnseen(t) ==
    /\ txLock = t /\ txUsed # txSeen
    /\ txLock' = None /\ wire' = None
    /\ Sent(t, TRUE)
    /\ UNCHANGED <<cacheVars, queue, head, tail, order, txSeen, txAvail, txUsed, txBuffer,
                   rxFrame, bounds>>

Complete(t) ==
    /\ txLock = t /\ txUsed # txSeen
    /\ txSeen' = Inc(txSeen)
    /\ txLock' = None /\ wire' = None
    /\ Sent(t, TRUE)
    /\ UNCHANGED <<cacheVars, queue, head, tail, order, txAvail, txUsed, txBuffer,
                   rxFrame, bounds>>

GiveUp(t) ==
    /\ txLock = t /\ txUsed = txSeen /\ timeouts < MaxTimeouts
    /\ timeouts' = timeouts + 1
    /\ txLock' = None
    /\ Sent(t, FALSE)
    /\ UNCHANGED <<cacheVars, queue, head, tail, order, txAvail, txUsed, txSeen, txBuffer, wire,
                   rxFrame, arrived, pings>>

(* The device sends what is in the buffer when it gets to the request.     *)
DeviceSends ==
    /\ txUsed # txAvail
    /\ wire' = txBuffer
    /\ txUsed' = Inc(txUsed)
    /\ UNCHANGED <<cacheVars, queueVars, txAvail, txSeen, txBuffer, txLock, rxFrame, netPc, job,
                   ticks, bounds>>

(* The device fills the receive buffer, if it has been given to it.        *)
Arrive(f) ==
    /\ rxFrame = None /\ arrived < MaxFrames
    /\ rxFrame' = f
    /\ arrived' = arrived + 1
    /\ UNCHANGED <<cacheVars, queueVars, txVars, netPc, job, ticks, pings, timeouts>>

-----------------------------------------------------------------------------
(* The receive worker.                                                     *)

(* poll_packet: the frame is copied and the buffer primed again.           *)
Poll ==
    /\ netPc["rx"] = "idle" /\ rxFrame # None
    /\ rxFrame' = None
    /\ Become("rx", "dispatch", rxFrame)
    /\ UNCHANGED <<cacheVars, queueVars, txVars, ticks, bounds>>

(* ipv4::observe_frame and arp's parse_arp_frame: what is not dropped      *)
(* enters its sender in the cache; arp::observe_frame and icmp's answer    *)
(* requests.                                                               *)
Teaches(f) == f.kind # "bad"
Answered(f) == f.kind \in {"arp_request", "echo_request"}

(* Mutant of Dispatch: the sender of an IPv4 packet is not entered.        *)
DispatchArpOnly ==
    LET f == job["rx"] IN
    /\ netPc["rx"] = "dispatch"
    /\ IF f.kind \in {"arp_request", "arp_reply"} THEN Insert(f.ip, f.mac) ELSE UNCHANGED cacheVars
    /\ IF Answered(f) THEN Become("rx", "reply", f)
       ELSE Become("rx", "idle", None)
    /\ UNCHANGED <<queueVars, txVars, rxFrame, ticks, bounds>>

(* dispatch_frame, observe_frame of arp and of ipv4: whatever checks out   *)
(* teaches the sender's station.                                           *)
Dispatch ==
    LET f == job["rx"] IN
    /\ netPc["rx"] = "dispatch"
    /\ IF Teaches(f) THEN Insert(f.ip, f.mac) ELSE UNCHANGED cacheVars
    /\ IF Answered(f) THEN Become("rx", "reply", f)
       ELSE Become("rx", "idle", None)
    /\ UNCHANGED <<queueVars, txVars, rxFrame, ticks, bounds>>

(* queue_arp_reply goes to the station of the request; an echo reply       *)
(* (icmp::observe_packet, send_echo, ipv4::send_impl) to the resolved one. *)
Reply ==
    LET f == job["rx"]
        mac == IF f.kind = "arp_request" THEN f.mac ELSE Lookup(f.ip)
        kind == IF f.kind = "arp_request" THEN "arp_reply" ELSE "echo_reply"
    IN  /\ netPc["rx"] = "reply"
        /\ IF mac # None
           THEN Enqueue([kind |-> kind, ip |-> f.ip, mac |-> mac]) /\ Become("rx", "idle", None)
           ELSE Become("rx", "request", f) /\ UNCHANGED queueVars
        /\ UNCHANGED <<cacheVars, txVars, rxFrame, ticks, bounds>>

-----------------------------------------------------------------------------
(* send_echo_request: ipv4::send_impl and arp::resolve.                    *)

Echo(ip, mac) == [kind |-> "echo_request", ip |-> ip, mac |-> mac]

Ping(ip) ==
    /\ netPc["ping"] = "idle" /\ pings < MaxPings
    /\ pings' = pings + 1
    /\ IF Lookup(ip) # None THEN Become("ping", "send", Echo(ip, Lookup(ip)))
       ELSE Become("ping", "request", [ip |-> ip])
    /\ UNCHANGED <<cacheVars, queueVars, txVars, rxFrame, ticks, arrived, timeouts>>

(* resolve, its waiting loop.                                              *)
Resolved(t) ==
    LET mac == Lookup(job[t].ip) IN
    /\ netPc[t] = "resolving" /\ ticks[t] > 0 /\ mac # None
    /\ IF t = "ping" THEN Become(t, "send", Echo(job[t].ip, mac)) /\ UNCHANGED queueVars
       ELSE /\ Enqueue([kind |-> "echo_reply", ip |-> job[t].ip, mac |-> mac])
            /\ Become(t, "idle", None)
    /\ UNCHANGED <<cacheVars, txVars, rxFrame, ticks, bounds>>

SleepOn(t) ==
    /\ netPc[t] = "resolving" /\ ticks[t] > 0 /\ Lookup(job[t].ip) = None
    /\ ticks' = [ticks EXCEPT ![t] = @ - 1]
    /\ UNCHANGED <<cacheVars, queueVars, txVars, rxFrame, netPc, job, bounds>>

(* Mutant of Unresolved: ask again without end.                            *)
UnresolvedRetry(t) ==
    /\ netPc[t] = "resolving" /\ ticks[t] = 0
    /\ Become(t, "request", job[t])
    /\ UNCHANGED <<cacheVars, queueVars, txVars, rxFrame, ticks, bounds>>

Unresolved(t) ==
    /\ netPc[t] = "resolving" /\ ticks[t] = 0
    /\ Become(t, "idle", None)
    /\ UNCHANGED <<cacheVars, queueVars, txVars, rxFrame, ticks, bounds>>

-----------------------------------------------------------------------------
NetInit ==
    /\ arp = [i \in Slots |-> None] /\ replace = 1
    /\ queue = [i \in 0 .. QueueCapacity - 1 |-> None] /\ head = 0 /\ tail = 0
    /\ txAvail = 0 /\ txUsed = 0 /\ txSeen = 0 /\ txBuffer = None /\ txLock = None
    /\ rxFrame = None
    /\ netPc = [t \in Tasks |-> "idle"] /\ job = [t \in Tasks |-> None]
    /\ ticks = [t \in {"rx", "ping"} |-> 0]
    /\ arrived = 0 /\ pings = 0 /\ timeouts = 0
    /\ heard = [p \in Peers |-> None]
    /\ order = <<>> /\ buffers = 0 /\ wire = None

(* background_rx_task: it sends its answers itself, as any task does.      *)
RxStep == Poll \/ Dispatch \/ Reply
TaskStep(t) == Submit(t) \/ Complete(t) \/ GiveUp(t)
ResolveStep(t) == Resolved(t) \/ SleepOn(t) \/ Unresolved(t)

NetNext ==
    \/ \E f \in Arrivals : Arrive(f)
    \/ \E p \in Peers : Ping(p)
    \/ RxStep \/ TakePacket \/ DeviceSends
    \/ \E t \in Tasks : TaskStep(t)
    \/ \E t \in {"rx", "ping"} : ResolveStep(t)

(* The workers and the device keep running; a sleeping task is woken and a *)
(* task that spins for tx_lock gets it in the end.                         *)
NetFairness ==
    /\ WF_netVars(RxStep)
    /\ WF_netVars(TakePacket)
    /\ WF_netVars(DeviceSends)
    /\ \A t \in Tasks : WF_netVars(Complete(t) \/ GiveUp(t)) /\ SF_netVars(Submit(t))
    /\ WF_netVars(ResolveStep("ping"))

NetSpec == NetInit /\ [][NetNext]_netVars
NetFairSpec == NetSpec /\ NetFairness

-----------------------------------------------------------------------------
(* The values of the variables.                                            *)
NetTypeOK ==
    /\ arp \in [Slots -> {None} \cup [ip : Peers, mac : Stations]] /\ replace \in Slots
    /\ queue \in [0 .. QueueCapacity - 1 -> {None} \cup Packet]
    /\ {head, tail} \subseteq 0 .. QueueCapacity - 1
    /\ {txAvail, txUsed, txSeen} \subseteq 0 .. IndexBound - 1
    /\ txBuffer \in {None} \cup Packet /\ txLock \in {None} \cup Tasks
    /\ netPc \in [Tasks -> {"idle", "dispatch", "reply", "send", "request", "resolving"}]
    /\ \A t \in Tasks : netPc[t] = "send" => job[t] \in Packet /\ job[t].mac # Broadcast

(* The cache has one entry per peer, with the station that the peer was    *)
(* last heard from, through eviction and re-entry.                         *)
CacheIsLatest ==
    \A i \in Slots : arp[i] # None =>
        /\ arp[i].mac = heard[arp[i].ip]
        /\ \A j \in Slots : (j # i /\ arp[j] # None) => arp[j].ip # arp[i].ip

(* The receive worker never waits for an ARP reply, which only it could    *)
(* receive: the peer it answers is in the cache.                           *)
ReceiverNeverWaits == netPc["rx"] \notin {"request", "resolving", "send"}

(* The queue holds what was accepted and not yet taken, in that order,     *)
(* whatever the ring has wrapped over; and each packet has one copy on the *)
(* heap until it has been sent or given up.                                *)
QueueInOrder ==
    /\ [i \in 1 .. (head - tail) % QueueCapacity |-> queue[(tail + i - 1) % QueueCapacity]] = order
    /\ buffers = Len(order) + (IF netPc["tx"] = "idle" THEN 0 ELSE 1)

(* Until a transmission times out, a packet that transmit_packet reports   *)
(* sent is what the device has put on the wire last.                       *)
ReportedIsSent ==
    [][ \A t \in Tasks : (txLock = t /\ txLock' = None /\ timeouts' = 0) =>
            wire = IF netPc[t] = "send" THEN job[t]
                   ELSE [kind |-> "arp_request", ip |-> job[t].ip, mac |-> Broadcast] ]_netVars

(* The transmit queue drains, and an echo request always returns, replied  *)
(* to or not.                                                              *)
QueueDrains == []<>(head = tail)
PingReturns == []<>(netPc["ping"] = "idle")

(* The ARP cache is right, the receiver never waits for itself, and the    *)
(* transmit queue keeps its order.                                         *)
NetSound == NetTypeOK /\ CacheIsLatest /\ ReceiverNeverWaits /\ QueueInOrder

(* The queue drains and a ping returns.                                    *)
NetReturns == QueueDrains /\ PingReturns
=============================================================================
