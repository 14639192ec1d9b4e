---------------------------- MODULE NetworkProofs ----------------------------
(***************************************************************************)
(* Proofs about the network: for any number of peers and stations, any     *)
(* size of the ARP cache and of the transmit queue and any wrap of the     *)
(* ring indices, with frames that are lost, late or malformed.             *)
(***************************************************************************)
EXTENDS Network, WellFoundedInduction, TLAPS

Unicast == [kind : Kinds, ip : Peers, mac : Stations]
Entry == [ip : Peers, mac : Stations]

(* The cache: the types of its entries, and CacheIsLatest.                 *)
CacheOK ==
    /\ arp \in [Slots -> {None} \cup Entry] /\ replace \in Slots
    /\ heard \in [Peers -> {None} \cup Stations]
    /\ CacheIsLatest

(* The transmit queue, without remainders: how many packets it holds and   *)
(* where the i-th of them is.                                              *)
Distance(h, t) == IF h >= t THEN h - t ELSE h - t + QueueCapacity
Place(t, i) == IF t + i - 1 < QueueCapacity THEN t + i - 1 ELSE t + i - 1 - QueueCapacity
Fill == Distance(head, tail)
At(i) == Place(tail, i)

QueueOK ==
    /\ queue \in [0 .. QueueCapacity - 1 -> {None} \cup Unicast]
    /\ head \in 0 .. QueueCapacity - 1 /\ tail \in 0 .. QueueCapacity - 1
    /\ order \in Seq(Unicast)
    /\ Len(order) = Fill
    /\ \A i \in 1 .. Fill : queue[At(i)] = order[i]

CountOK ==
    /\ buffers \in Int
    /\ buffers = Len(order) + (IF netPc["tx"] = "idle" THEN 0 ELSE 1)

(* The tasks: where each can be, and what it works on there.  The receive  *)
(* worker answers only whom it has just entered in the cache.              *)
RxOK ==
    /\ netPc["rx"] \in {"idle", "dispatch", "reply"}
    /\ netPc["rx"] # "idle" => job["rx"] \in Unicast
    /\ netPc["rx"] = "reply" => Answered(job["rx"]) /\ Hits(job["rx"].ip) # {}

TxOK ==
    /\ netPc["tx"] \in {"idle", "send"}
    /\ netPc["tx"] = "send" => job["tx"] \in Unicast

PingOK ==
    /\ netPc["ping"] \in {"idle", "send", "request", "resolving"}
    /\ netPc["ping"] = "send" => job["ping"] \in Unicast
    /\ netPc["ping"] \in {"request", "resolving"} => job["ping"].ip \in Peers

TasksOK ==
    /\ DOMAIN netPc = Tasks /\ DOMAIN job = Tasks
    /\ netPc = [t \in Tasks |-> netPc[t]] /\ job = [t \in Tasks |-> job[t]]
    /\ rxFrame \in {None} \cup Unicast
    /\ RxOK /\ TxOK /\ PingOK

(* The device's ring: who holds the lock is about to send, and until a     *)
(* transmission times out the ring holds the request of that task or none. *)
Asked(t) == IF netPc[t] = "send" THEN job[t]
            ELSE [kind |-> "arp_request", ip |-> job[t].ip, mac |-> Broadcast]

RingTyped ==
    /\ txAvail \in 0 .. IndexBound - 1 /\ txUsed \in 0 .. IndexBound - 1
    /\ txSeen \in 0 .. IndexBound - 1
    /\ txBuffer \in {None} \cup Packet /\ txLock \in {None} \cup Tasks
    /\ timeouts \in Nat

Waiting(t) ==
    /\ txBuffer = Asked(t) /\ txAvail = Inc(txSeen)
    /\ txUsed = txSeen \/ (txUsed = txAvail /\ wire = txBuffer)

RingOK ==
    /\ RingTyped
    /\ \A t \in Tasks : txLock = t => netPc[t] \in {"send", "request"}
    /\ timeouts = 0 /\ txLock = None => txAvail = txSeen /\ txUsed = txSeen
    /\ timeouts = 0 => \A t \in Tasks : txLock = t => Waiting(t)

NetInv == CacheOK /\ QueueOK /\ CountOK /\ TasksOK /\ RingOK

-----------------------------------------------------------------------------
(* Facts about the operators.                                              *)

LEMMA Remainder ==
    ASSUME NEW n \in Nat \ {0}, NEW x \in Int
    PROVE  /\ x \in 0 .. n - 1 => x % n = x
           /\ x \in n .. 2 * n - 1 => x % n = x - n
           /\ x \in -n .. -1 => x % n = x + n
<1>1. x \in 0 .. n - 1 => x % n = x
    OBVIOUS
<1>2. x \in n .. 2 * n - 1 => x % n = x - n
    OBVIOUS
<1>3. x \in -n .. -1 => x % n = x + n
    OBVIOUS
<1> QED
    BY <1>1, <1>2, <1>3, Zenon

LEMMA Sizes ==
    /\ CacheEntries \in Nat \ {0} /\ QueueCapacity \in Nat \ {0, 1}
    /\ IndexBound \in Nat \ {0, 1}
BY NetAssumption, Zenon

LEMMA Names ==
    /\ None \notin Stations /\ None \notin Tasks /\ None \notin Packet /\ None \notin Entry
    /\ Broadcast \notin Stations
    /\ Arrivals \subseteq Unicast
BY NetAssumption, Zenon DEF Entry, Unicast

LEMMA UnicastIsPacket ==
    ASSUME NEW p \in Unicast
    PROVE  p \in Packet /\ p # None /\ p.mac \in Stations /\ p.ip \in Peers /\ p.kind \in Kinds
BY Names DEF Unicast, Packet

LEMMA Least ==
    ASSUME NEW S, S \subseteq Nat, S # {}
    PROVE  \E x \in S : \A y \in S : x <= y
<1> DEFINE R == OpToRel(<, Nat)
<1>1. IsWellFoundedOn(R, Nat)
    BY NatLessThanWellFounded
<1>2. PICK x \in S : \A y \in S : ~(<<y, x>> \in R)
    BY <1>1, WFMin
<1>3. \A y \in S : ~(y < x)
    BY <1>2, Zenon DEF OpToRel
<1> HIDE DEF R
<1>4. \A y \in S : y \in Nat /\ x \in Nat
    OBVIOUS
<1> QED
    BY <1>3, <1>4

LEMMA LowestIn ==
    ASSUME NEW S \in SUBSET Slots, S # {}
    PROVE  Lowest(S) \in S
<1>1. S \subseteq Nat
    BY Sizes DEF Slots
<1>2. \E x \in S : \A y \in S : x <= y
    BY <1>1, Least
<1> QED
    BY <1>2, Zenon DEF Lowest

-----------------------------------------------------------------------------
(* The cache.                                                              *)

(* An entry replaces the one of the same peer, or the one of another.      *)
LEMMA InsertKeeps ==
    ASSUME CacheOK, NEW ip \in Peers, NEW mac \in Stations, Insert(ip, mac)
    PROVE  CacheOK' /\ \E i \in Slots : arp'[i] # None /\ arp'[i].ip = ip
<1> DEFINE unused == {i \in Slots : arp[i] = None}
           slot == IF Hits(ip) # {} THEN Lowest(Hits(ip))
                   ELSE IF unused # {} THEN Lowest(unused) ELSE replace
           e == [ip |-> ip, mac |-> mac]
<1>1. /\ arp' = [arp EXCEPT ![slot] = e]
      /\ replace' = IF unused = {} /\ Hits(ip) = {} THEN (replace % CacheEntries) + 1 ELSE replace
      /\ heard' = [heard EXCEPT ![ip] = mac]
    BY Zenon DEF Insert
<1>2. /\ arp \in [Slots -> {None} \cup Entry] /\ replace \in Slots
      /\ heard \in [Peers -> {None} \cup Stations]
    BY Zenon DEF CacheOK
<1>3. /\ Hits(ip) \in SUBSET Slots /\ unused \in SUBSET Slots
      /\ \A i \in Slots : i \in Hits(ip) <=> arp[i] # None /\ arp[i].ip = ip
    BY Zenon DEF Hits
<1>c. \A i, j \in Slots : arp[i] # None /\ arp[j] # None /\ i # j => arp[j].ip # arp[i].ip
    BY Zenon DEF CacheOK, CacheIsLatest
<1>4. e \in Entry /\ e # None /\ e.ip = ip /\ e.mac = mac
    BY Names DEF Entry
<1>5. slot \in Slots
    <2>1. CASE Hits(ip) # {}
        BY <2>1, <1>3, LowestIn, Zenon
    <2>2. CASE Hits(ip) = {} /\ unused # {}
        BY <2>2, <1>3, LowestIn, Zenon
    <2>3. CASE Hits(ip) = {} /\ unused = {}
        BY <2>3, <1>2, Zenon
    <2> QED
        BY <2>1, <2>2, <2>3, Zenon
<1>6. \A j \in Slots : j # slot /\ arp[j] # None => arp[j].ip # ip
    <2>1. CASE Hits(ip) # {}
        <3>1. slot \in Hits(ip)
            BY <2>1, <1>3, LowestIn, Zenon
        <3> HIDE DEF slot
        <3> QED
            BY <3>1, <1>3, <1>5, <1>c, Zenon
    <2>2. CASE Hits(ip) = {}
        BY <2>2, <1>3, Zenon
    <2> QED
        BY <2>1, <2>2, Zenon
<1> HIDE DEF slot, e
<1>7. arp' \in [Slots -> {None} \cup Entry] /\ heard' \in [Peers -> {None} \cup Stations]
    BY <1>1, <1>2, <1>4, Zenon
<1>8. replace' \in Slots
    <2>1. (replace % CacheEntries) + 1 \in Slots
        BY <1>2, Sizes, Remainder DEF Slots
    <2> QED
        BY <1>1, <1>2, <2>1, Zenon
<1>9. /\ arp'[slot] = e /\ \A j \in Slots : j # slot => arp'[j] = arp[j]
      /\ heard'[ip] = mac /\ \A p \in Peers : p # ip => heard'[p] = heard[p]
    BY <1>1, <1>2, <1>5, Zenon
<1>10. CacheIsLatest'
    <2> SUFFICES ASSUME NEW i \in Slots, arp'[i] # None
                 PROVE  /\ arp'[i].mac = heard'[arp'[i].ip]
                        /\ \A j \in Slots : (j # i /\ arp'[j] # None) => arp'[j].ip # arp'[i].ip
        BY Zenon DEF CacheIsLatest
    <2>1. CASE i = slot
        BY <2>1, <1>4, <1>6, <1>9, Zenon
    <2>2. CASE i # slot
        <3>1. arp'[i] = arp[i] /\ arp[i] \in Entry /\ arp[i].ip \in Peers /\ arp[i].ip # ip
            BY <2>2, <1>2, <1>6, <1>9 DEF Entry
        <3>2. arp[i].mac = heard[arp[i].ip]
            BY <3>1, Zenon DEF CacheOK, CacheIsLatest
        <3>3. ASSUME NEW j \in Slots, j # i, arp'[j] # None
              PROVE  arp'[j].ip # arp'[i].ip
            <4>1. CASE j = slot
                BY <4>1, <3>1, <1>4, <1>9, Zenon
            <4>2. CASE j # slot
                BY <4>2, <3>1, <3>3, <1>9, <1>c, Zenon
            <4> QED
                BY <4>1, <4>2, Zenon
        <3> QED
            BY <3>1, <3>2, <3>3, <1>9, Zenon
    <2> QED
        BY <2>1, <2>2, Zenon
<1>11. \E i \in Slots : arp'[i] # None /\ arp'[i].ip = ip
    BY <1>4, <1>5, <1>9, Zenon
<1> QED
    BY <1>7, <1>8, <1>10, <1>11, Zenon DEF CacheOK

(* A peer that is in the cache has a station.                              *)
LEMMA LookupFinds ==
    ASSUME CacheOK, NEW ip
    PROVE  /\ Lookup(ip) # None => Lookup(ip) \in Stations
           /\ Hits(ip) # {} => Lookup(ip) # None
<1>1. CASE Hits(ip) = {}
    BY <1>1, Zenon DEF Lookup
<1>2. CASE Hits(ip) # {}
    <2>1. Hits(ip) \in SUBSET Slots
        BY Zenon DEF Hits
    <2>2. Lowest(Hits(ip)) \in Hits(ip)
        BY <1>2, <2>1, LowestIn, Zenon
    <2>3. arp[Lowest(Hits(ip))] \in Entry
        BY <2>2, Zenon DEF Hits, CacheOK
    <2>4. arp[Lowest(Hits(ip))].mac \in Stations
        BY <2>3 DEF Entry
    <2> QED
        BY <1>2, <2>4, Names, Zenon DEF Lookup
<1> QED
    BY <1>1, <1>2, Zenon

-----------------------------------------------------------------------------
(* The transmit queue.                                                     *)

LEMMA NextSlot ==
    ASSUME NEW x \in 0 .. QueueCapacity - 1
    PROVE  /\ (x + 1) % QueueCapacity = IF x + 1 = QueueCapacity THEN 0 ELSE x + 1
           /\ (x + 1) % QueueCapacity \in 0 .. QueueCapacity - 1
<1>1. QueueCapacity \in Nat \ {0} /\ QueueCapacity > 1
    BY Sizes
<1>2. (x + 1 \in 0 .. QueueCapacity - 1 \/ x + 1 = QueueCapacity) /\ x + 1 \in Int
    BY <1>1
<1>3. CASE x + 1 \in 0 .. QueueCapacity - 1
    <2>1. (x + 1) % QueueCapacity = x + 1
        BY <1>1, <1>2, <1>3, Remainder, Zenon
    <2> QED
        BY <1>1, <1>3, <2>1
<1>4. CASE x + 1 = QueueCapacity
    <2>1. x + 1 \in QueueCapacity .. 2 * QueueCapacity - 1 /\ x + 1 \in Int
        BY <1>1, <1>4
    <2>2. (x + 1) % QueueCapacity = (x + 1) - QueueCapacity
        BY <1>1, <2>1, Remainder, Zenon
    <2> QED
        BY <1>1, <1>4, <2>2
<1> QED
    BY <1>2, <1>3, <1>4, Zenon

(* The ring's arithmetic, for an index that moves on by one.               *)
LEMMA HeadMoves ==
    ASSUME NEW h \in 0 .. QueueCapacity - 1, NEW t \in 0 .. QueueCapacity - 1,
           NEW k, k = IF h + 1 = QueueCapacity THEN 0 ELSE h + 1, k # t
    PROVE  /\ Distance(h, t) \in Nat /\ Distance(h, t) + 1 = Distance(k, t)
           /\ Place(t, Distance(h, t) + 1) = h
           /\ \A i \in 1 .. Distance(h, t) :
                Place(t, i) # h /\ Place(t, i) \in 0 .. QueueCapacity - 1
BY Sizes DEF Distance, Place

LEMMA TailMoves ==
    ASSUME NEW h \in 0 .. QueueCapacity - 1, NEW t \in 0 .. QueueCapacity - 1,
           NEW k, k = IF t + 1 = QueueCapacity THEN 0 ELSE t + 1, h # t
    PROVE  /\ Distance(h, t) \in Nat \ {0} /\ Distance(h, t) - 1 = Distance(h, k)
           /\ Place(t, 1) = t
           /\ \A i \in 1 .. Distance(h, t) - 1 :
                /\ Place(k, i) = Place(t, i + 1) /\ Place(k, i) # t
                /\ Place(k, i) \in 0 .. QueueCapacity - 1
BY Sizes DEF Distance, Place

(* A packet that is accepted comes after all others.                       *)
LEMMA EnqueueKeeps ==
    ASSUME QueueOK, NEW p \in Unicast, Enqueue(p)
    PROVE  /\ QueueOK'
           /\ \/ UNCHANGED <<order, buffers>>
              \/ Len(order') = Len(order) + 1 /\ buffers' = buffers + 1
<1>1. CASE QueueFull
    <2>1. UNCHANGED queueVars
        BY <1>1, Zenon DEF Enqueue
    <2> QED
        BY <2>1, Zenon DEF queueVars, QueueOK, Fill, At
<1>2. CASE ~QueueFull
    <2>1. /\ queue' = [queue EXCEPT ![head] = p]
          /\ head' = (head + 1) % QueueCapacity
          /\ order' = Append(order, p)
          /\ buffers' = buffers + 1
          /\ tail' = tail
        BY <1>2, Zenon DEF Enqueue
    <2>2. /\ queue \in [0 .. QueueCapacity - 1 -> {None} \cup Unicast]
          /\ head \in 0 .. QueueCapacity - 1 /\ tail \in 0 .. QueueCapacity - 1
          /\ order \in Seq(Unicast) /\ Len(order) = Fill
          /\ \A i \in 1 .. Fill : queue[At(i)] = order[i]
        BY Zenon DEF QueueOK
    <2>3. head' = (IF head + 1 = QueueCapacity THEN 0 ELSE head + 1)
          /\ head' \in 0 .. QueueCapacity - 1 /\ head' # tail
        BY <1>2, <2>1, <2>2, NextSlot, Zenon DEF QueueFull
    <2>4. /\ Fill \in Nat /\ Fill + 1 = Fill' /\ At(Fill + 1) = head
          /\ \A i \in 1 .. Fill : At(i) # head /\ At(i) \in 0 .. QueueCapacity - 1
        BY <2>1, <2>2, <2>3, Sizes, HeadMoves, Zenon DEF Fill, At
    <2>5. \A i : At(i)' = At(i)
        BY <2>1, Zenon DEF At
    <2>6. /\ order' \in Seq(Unicast) /\ Len(order') = Len(order) + 1
          /\ order'[Len(order) + 1] = p
          /\ \A i \in 1 .. Len(order) : order'[i] = order[i]
        BY <2>1, <2>2
    <2>7. /\ queue' \in [0 .. QueueCapacity - 1 -> {None} \cup Unicast]
          /\ queue'[head] = p
          /\ \A i \in 0 .. QueueCapacity - 1 : i # head => queue'[i] = queue[i]
        BY <2>1, <2>2, Zenon
    <2>8. \A i \in 1 .. Fill' : queue'[At(i)'] = order'[i]
        <3> SUFFICES ASSUME NEW i \in 1 .. Fill + 1 PROVE queue'[At(i)] = order'[i]
            BY <2>4, <2>5, Zenon
        <3>1. i \in 1 .. Fill \/ i = Fill + 1
            BY <2>4
        <3>2. CASE i \in 1 .. Fill
            BY <3>2, <2>2, <2>4, <2>6, <2>7, Zenon
        <3>3. CASE i = Fill + 1
            BY <3>3, <2>2, <2>4, <2>6, <2>7, Zenon
        <3> QED
            BY <3>1, <3>2, <3>3, Zenon
    <2> QED
        BY <2>1, <2>2, <2>3, <2>4, <2>6, <2>7, <2>8, Zenon DEF QueueOK
<1> QED
    BY <1>1, <1>2, Zenon

(* The packet that is taken is the oldest.                                 *)
LEMMA TakeKeeps ==
    ASSUME QueueOK, TakePacket
    PROVE  /\ QueueOK' /\ Len(order) = Len(order') + 1 /\ buffers' = buffers
           /\ queue[tail] \in Unicast
<1>1. /\ head # tail
      /\ queue' = [queue EXCEPT ![tail] = None]
      /\ tail' = (tail + 1) % QueueCapacity
      /\ order' = Tail(order)
      /\ head' = head /\ buffers' = buffers
    BY Zenon DEF TakePacket, QueueEmpty
<1>2. /\ queue \in [0 .. QueueCapacity - 1 -> {None} \cup Unicast]
      /\ head \in 0 .. QueueCapacity - 1 /\ tail \in 0 .. QueueCapacity - 1
      /\ order \in Seq(Unicast) /\ Len(order) = Fill
      /\ \A i \in 1 .. Fill : queue[At(i)] = order[i]
    BY Zenon DEF QueueOK
<1>3. tail' = (IF tail + 1 = QueueCapacity THEN 0 ELSE tail + 1)
      /\ tail' \in 0 .. QueueCapacity - 1
    BY <1>1, <1>2, NextSlot, Zenon
<1>4. /\ Fill \in Nat \ {0} /\ Fill - 1 = Fill' /\ At(1) = tail
      /\ \A i \in 1 .. Fill - 1 :
            At(i)' = At(i + 1) /\ At(i)' # tail /\ At(i)' \in 0 .. QueueCapacity - 1
    <2>1. /\ Fill' = Distance(head, tail') /\ Fill = Distance(head, tail)
          /\ \A i : At(i)' = Place(tail', i) /\ At(i) = Place(tail, i)
        BY <1>1, Zenon DEF Fill, At
    <2>2. /\ Distance(head, tail) \in Nat \ {0}
          /\ Distance(head, tail) - 1 = Distance(head, tail')
          /\ Place(tail, 1) = tail
          /\ \A i \in 1 .. Distance(head, tail) - 1 :
                /\ Place(tail', i) = Place(tail, i + 1) /\ Place(tail', i) # tail
                /\ Place(tail', i) \in 0 .. QueueCapacity - 1
        <3>1. /\ head \in 0 .. QueueCapacity - 1 /\ tail \in 0 .. QueueCapacity - 1
              /\ head # tail
            BY <1>1, <1>2, Zenon
        <3>2. tail' = (IF tail + 1 = QueueCapacity THEN 0 ELSE tail + 1)
            BY <1>3, Zenon
        <3> QED
            BY <3>1, <3>2, TailMoves
    <2> QED
        BY <2>1, <2>2, Zenon
<1>5. /\ order' \in Seq(Unicast) /\ Len(order) = Len(order') + 1 /\ order[1] \in Unicast
      /\ \A i \in 1 .. Len(order) - 1 : order'[i] = order[i + 1]
    <2>1. order # <<>> /\ Len(order) >= 1
        BY <1>2, <1>4
    <2> QED
        BY <1>1, <1>2, <2>1
<1>6. /\ queue' \in [0 .. QueueCapacity - 1 -> {None} \cup Unicast]
      /\ \A i \in 0 .. QueueCapacity - 1 : i # tail => queue'[i] = queue[i]
    BY <1>1, <1>2, Zenon
<1>7. \A i \in 1 .. Fill' : queue'[At(i)'] = order'[i]
    <2> SUFFICES ASSUME NEW i \in 1 .. Fill - 1 PROVE queue'[At(i)'] = order'[i]
        BY <1>4, Zenon
    <2>1. i + 1 \in 1 .. Fill
        BY <1>4
    <2> QED
        BY <2>1, <1>2, <1>4, <1>5, <1>6, Zenon
<1>8. queue[tail] \in Unicast
    <2>1. 1 \in 1 .. Fill
        BY <1>4
    <2> QED
        BY <2>1, <1>2, <1>4, <1>5, Zenon
<1>9. Len(order') = Fill'
    BY <1>2, <1>4, <1>5
<1> QED
    BY <1>1, <1>2, <1>3, <1>5, <1>6, <1>7, <1>8, <1>9, Zenon DEF QueueOK

(* What QueueOK says is what QueueInOrder says of the queue.               *)
LEMMA OrderIsQueue ==
    ASSUME QueueOK
    PROVE  [i \in 1 .. (head - tail) % QueueCapacity |-> queue[(tail + i - 1) % QueueCapacity]]
            = order
<1>1. /\ head \in 0 .. QueueCapacity - 1 /\ tail \in 0 .. QueueCapacity - 1
      /\ order \in Seq(Unicast) /\ Len(order) = Fill
      /\ \A i \in 1 .. Fill : queue[At(i)] = order[i]
    BY Zenon DEF QueueOK
<1>2. (head - tail) % QueueCapacity = Fill /\ Fill \in 0 .. QueueCapacity - 1
    <2>1. CASE head >= tail
        <3>1. head - tail \in 0 .. QueueCapacity - 1
            BY <2>1, <1>1, Sizes
        <3>2. QueueCapacity \in Nat \ {0} /\ head - tail \in Int
            BY <1>1, Sizes
        <3>3. (head - tail) % QueueCapacity = head - tail
            BY <3>1, <3>2, Remainder, Zenon
        <3> QED
            BY <2>1, <3>1, <3>3, Zenon DEF Fill, Distance
    <2>2. CASE ~(head >= tail)
        <3>1. head - tail \in -QueueCapacity .. -1 /\ head - tail + QueueCapacity \in 0 .. QueueCapacity - 1
            BY <2>2, <1>1, Sizes
        <3>2. QueueCapacity \in Nat \ {0} /\ head - tail \in Int
            BY <1>1, Sizes
        <3>3. (head - tail) % QueueCapacity = head - tail + QueueCapacity
            BY <3>1, <3>2, Remainder, Zenon
        <3> QED
            BY <2>2, <3>1, <3>3, Zenon DEF Fill, Distance
    <2> QED
        BY <2>1, <2>2, Zenon
<1>3. ASSUME NEW i \in 1 .. Fill
      PROVE  (tail + i - 1) % QueueCapacity = At(i)
    <2>1. i \in Int /\ i >= 1 /\ i <= QueueCapacity - 1
        BY <1>2, <1>3, Sizes
    <2>2. CASE tail + i - 1 < QueueCapacity
        <3>1. tail + i - 1 \in 0 .. QueueCapacity - 1
            BY <2>1, <2>2, <1>1, Sizes
        <3>2. QueueCapacity \in Nat \ {0} /\ tail + i - 1 \in Int
            BY <2>1, <1>1, Sizes
        <3>3. (tail + i - 1) % QueueCapacity = tail + i - 1
            BY <3>1, <3>2, Remainder, Zenon
        <3> QED
            BY <2>2, <3>3, Zenon DEF At, Place
    <2>3. CASE ~(tail + i - 1 < QueueCapacity)
        <3>1. tail + i - 1 \in QueueCapacity .. 2 * QueueCapacity - 1
            BY <2>1, <2>3, <1>1, Sizes
        <3>2. QueueCapacity \in Nat \ {0} /\ tail + i - 1 \in Int
            BY <2>1, <1>1, Sizes
        <3>3. (tail + i - 1) % QueueCapacity = (tail + i - 1) - QueueCapacity
            BY <3>1, <3>2, Remainder, SMTT(30)
        <3>4. At(i) = (tail + i - 1) - QueueCapacity
            BY <2>1, <2>3, <1>1, Sizes DEF At, Place
        <3> QED
            BY <3>3, <3>4, Zenon
    <2> QED
        BY <2>2, <2>3, Zenon
<1>4. [i \in 1 .. (head - tail) % QueueCapacity |-> queue[(tail + i - 1) % QueueCapacity]]
        = [i \in 1 .. Fill |-> order[i]]
    BY <1>1, <1>2, <1>3, Zenon
<1>5. order = [i \in 1 .. Fill |-> order[i]]
    BY <1>1
<1> QED
    BY <1>4, <1>5, Zenon

-----------------------------------------------------------------------------
(* What a step leaves alone.                                               *)

LEMMA BecomeSets ==
    ASSUME TasksOK, NEW t \in Tasks, NEW where, NEW what, Become(t, where, what)
    PROVE  /\ DOMAIN netPc' = Tasks /\ DOMAIN job' = Tasks
           /\ netPc' = [u \in Tasks |-> netPc'[u]] /\ job' = [u \in Tasks |-> job'[u]]
           /\ netPc'[t] = where /\ job'[t] = what
           /\ \A u \in Tasks : u # t => netPc'[u] = netPc[u] /\ job'[u] = job[u]
<1>1. /\ netPc' = [netPc EXCEPT ![t] = where] /\ job' = [job EXCEPT ![t] = what]
      /\ DOMAIN netPc = Tasks /\ DOMAIN job = Tasks
      /\ netPc = [u \in Tasks |-> netPc[u]] /\ job = [u \in Tasks |-> job[u]]
    BY Zenon DEF Become, TasksOK
<1> QED
    BY <1>1

LEMMA RxFrame ==
    ASSUME RxOK, netPc'["rx"] = netPc["rx"], job'["rx"] = job["rx"], arp' = arp
    PROVE  RxOK'
<1>1. Hits(job["rx"].ip)' = Hits(job["rx"].ip)
    BY Zenon DEF Hits
<1>2. Answered(job["rx"])' = Answered(job["rx"])
    BY Zenon DEF Answered
<1> QED
    BY <1>1, <1>2, Zenon DEF RxOK

LEMMA TxFrame ==
    ASSUME TxOK, netPc'["tx"] = netPc["tx"], job'["tx"] = job["tx"]
    PROVE  TxOK'
BY Zenon DEF TxOK

LEMMA PingFrame ==
    ASSUME PingOK, netPc'["ping"] = netPc["ping"], job'["ping"] = job["ping"]
    PROVE  PingOK'
BY Zenon DEF PingOK

LEMMA RingFrame ==
    ASSUME RingOK, UNCHANGED txVars, timeouts' = timeouts,
           \A t \in Tasks : txLock = t => netPc'[t] = netPc[t] /\ job'[t] = job[t]
    PROVE  RingOK'
<1>1. /\ txAvail' = txAvail /\ txUsed' = txUsed /\ txSeen' = txSeen /\ txBuffer' = txBuffer
      /\ txLock' = txLock /\ wire' = wire
    BY Zenon DEF txVars
<1>2. RingTyped'
    BY <1>1, Zenon DEF RingOK, RingTyped
<1>3. \A t \in Tasks : txLock = t => Asked(t)' = Asked(t)
    BY Zenon DEF Asked
<1>4. \A t \in Tasks : txLock = t /\ Waiting(t) => Waiting(t)'
    BY <1>1, <1>3, Zenon DEF Waiting, Inc
<1> QED
    BY <1>1, <1>2, <1>4, Zenon DEF RingOK

LEMMA CountFrame ==
    ASSUME CountOK, order' = order, buffers' = buffers, netPc'["tx"] = netPc["tx"]
    PROVE  CountOK'
BY Zenon DEF CountOK

(* A task that is not about to send does not hold the lock.                *)
LEMMA NotHolder ==
    ASSUME RingOK, NEW t \in Tasks, netPc[t] \notin {"send", "request"}
    PROVE  txLock # t
BY Zenon DEF RingOK

LEMMA QueueFrame ==
    ASSUME QueueOK, UNCHANGED <<queue, head, tail, order>>
    PROVE  QueueOK'
BY Zenon DEF QueueOK, Fill, At

LEMMA CacheFrame ==
    ASSUME CacheOK, UNCHANGED cacheVars
    PROVE  CacheOK' /\ arp' = arp
BY Zenon DEF CacheOK, CacheIsLatest, cacheVars

-----------------------------------------------------------------------------
(* The initial states.                                                     *)
LEMMA InitHolds == NetInit => NetInv
<1> SUFFICES ASSUME NetInit PROVE NetInv
    OBVIOUS
<1>1. CacheOK
    <2>1. 1 \in Slots
        BY Sizes DEF Slots
    <2> QED
        BY <2>1 DEF NetInit, CacheOK, CacheIsLatest
<1>2. QueueOK
    <2>1. Fill = 0 /\ head = 0 /\ tail = 0 /\ order = <<>>
        BY Sizes DEF NetInit, Fill, Distance
    <2>2. 0 \in 0 .. QueueCapacity - 1
        BY Sizes
    <2>3. queue \in [0 .. QueueCapacity - 1 -> {None} \cup Unicast]
        BY Zenon DEF NetInit
    <2>4. order \in Seq(Unicast) /\ Len(order) = 0 /\ \A i \in 1 .. 0 : FALSE
        BY <2>1
    <2> QED
        BY <2>1, <2>2, <2>3, <2>4, Zenon DEF QueueOK
<1>3. TasksOK
    BY DEF NetInit, TasksOK, RxOK, TxOK, PingOK, Tasks
<1>4. CountOK
    BY DEF NetInit, CountOK, Tasks
<1>5. RingOK
    <2>1. RingTyped
        BY Sizes DEF NetInit, RingTyped
    <2> QED
        BY <2>1, Names, Zenon DEF NetInit, RingOK
<1> QED
    BY <1>1, <1>2, <1>3, <1>4, <1>5, Zenon DEF NetInv

-----------------------------------------------------------------------------
(* The steps.                                                              *)

LEMMA ArriveKeeps ==
    ASSUME NetInv, NEW f \in Arrivals, Arrive(f)
    PROVE  NetInv'
<1>1. /\ CacheOK /\ QueueOK /\ CountOK /\ TasksOK /\ RingOK
      /\ f \in Unicast
    BY Names, Zenon DEF NetInv
<1>2. /\ rxFrame' = f /\ UNCHANGED <<cacheVars, queueVars, txVars, netPc, job, timeouts>>
    BY Zenon DEF Arrive
<1>3. UNCHANGED <<queue, head, tail, order, buffers>>
    BY <1>2, Zenon DEF queueVars
<1>4. CacheOK' /\ arp' = arp
    BY <1>1, <1>2, CacheFrame, Zenon
<1>5. QueueOK'
    BY <1>1, <1>3, QueueFrame, Zenon
<1>6. CountOK'
    BY <1>1, <1>2, <1>3, CountFrame, Zenon
<1>7. RingOK'
    BY <1>1, <1>2, RingFrame, Zenon
<1>8. RxOK' /\ TxOK' /\ PingOK'
    BY <1>1, <1>2, <1>4, RxFrame, TxFrame, PingFrame, Zenon DEF TasksOK
<1>9. TasksOK'
    BY <1>1, <1>2, <1>8, Zenon DEF TasksOK
<1> QED
    BY <1>4, <1>5, <1>6, <1>7, <1>9, Zenon DEF NetInv

LEMMA StutterKeeps ==
    ASSUME NetInv, UNCHANGED netVars
    PROVE  NetInv'
<1>1. /\ CacheOK /\ QueueOK /\ CountOK /\ TasksOK /\ RingOK
    BY Zenon DEF NetInv
<1>2. /\ UNCHANGED <<arp, replace, heard, queue, head, tail, order, buffers, netPc, job, timeouts,
                     rxFrame, txAvail, txUsed, txSeen, txBuffer, txLock, wire>>
    BY Zenon DEF netVars
<1>3. CacheOK' /\ arp' = arp
    BY <1>1, <1>2, CacheFrame, Zenon DEF cacheVars
<1>5. QueueOK'
    BY <1>1, <1>2, QueueFrame, Zenon
<1>6. CountOK'
    BY <1>1, <1>2, CountFrame, Zenon
<1>7. RingOK'
    BY <1>1, <1>2, RingFrame, Zenon DEF txVars
<1>8. RxOK' /\ TxOK' /\ PingOK'
    BY <1>1, <1>2, <1>3, RxFrame, TxFrame, PingFrame, Zenon DEF TasksOK
<1>9. TasksOK'
    BY <1>1, <1>2, <1>8, Zenon DEF TasksOK
<1> QED
    BY <1>3, <1>5, <1>6, <1>7, <1>9, Zenon DEF NetInv

(* A step of a task that is not about to send, which leaves the ring alone, *)
(* concerns only that task.                                                *)
LEMMA OwnStep ==
    ASSUME NetInv, NEW t \in {"rx", "ping"}, netPc[t] \notin {"send", "request"},
           NEW where, NEW what, Become(t, where, what), UNCHANGED <<txVars, timeouts>>
    PROVE  /\ RingOK' /\ TxOK' /\ netPc'[t] = where /\ job'[t] = what
           /\ DOMAIN netPc' = Tasks /\ DOMAIN job' = Tasks
           /\ netPc' = [u \in Tasks |-> netPc'[u]] /\ job' = [u \in Tasks |-> job'[u]]
           /\ netPc'["tx"] = netPc["tx"]
           /\ \A u \in Tasks : u # t => netPc'[u] = netPc[u] /\ job'[u] = job[u]
<1>1. TasksOK /\ RingOK /\ TxOK
    BY Zenon DEF NetInv, TasksOK
<1>2. t \in Tasks /\ "tx" \in Tasks /\ t # "tx"
    BY DEF Tasks
<1>3. /\ DOMAIN netPc' = Tasks /\ DOMAIN job' = Tasks
      /\ netPc' = [u \in Tasks |-> netPc'[u]] /\ job' = [u \in Tasks |-> job'[u]]
      /\ netPc'[t] = where /\ job'[t] = what
      /\ \A u \in Tasks : u # t => netPc'[u] = netPc[u] /\ job'[u] = job[u]
    BY <1>1, <1>2, BecomeSets, Zenon
<1>4. txLock # t
    BY <1>1, <1>2, NotHolder, Zenon
<1>5. RingOK'
    BY <1>1, <1>3, <1>4, RingFrame, Zenon
<1>6. TxOK'
    BY <1>1, <1>2, <1>3, TxFrame, Zenon
<1> QED
    BY <1>2, <1>3, <1>5, <1>6, Zenon

LEMMA PollKeeps ==
    ASSUME NetInv, Poll
    PROVE  NetInv'
<1>1. CacheOK /\ QueueOK /\ CountOK /\ TasksOK /\ PingOK
    BY Zenon DEF NetInv, TasksOK
<1>2. /\ netPc["rx"] = "idle" /\ rxFrame # None /\ rxFrame' = None
      /\ Become("rx", "dispatch", rxFrame)
      /\ UNCHANGED <<cacheVars, queueVars, txVars, timeouts>>
    BY Zenon DEF Poll, bounds
<1>3. UNCHANGED <<queue, head, tail, order, buffers>>
    BY <1>2, Zenon DEF queueVars
<1>4. /\ RingOK' /\ TxOK' /\ netPc'["rx"] = "dispatch" /\ job'["rx"] = rxFrame
      /\ DOMAIN netPc' = Tasks /\ DOMAIN job' = Tasks
      /\ netPc' = [u \in Tasks |-> netPc'[u]] /\ job' = [u \in Tasks |-> job'[u]]
      /\ netPc'["tx"] = netPc["tx"]
      /\ \A u \in Tasks : u # "rx" => netPc'[u] = netPc[u] /\ job'[u] = job[u]
    BY <1>2, OwnStep, Zenon
<1>5. CacheOK'
    BY <1>1, <1>2, CacheFrame, Zenon
<1>6. QueueOK'
    BY <1>1, <1>3, QueueFrame, Zenon
<1>7. CountOK'
    BY <1>1, <1>3, <1>4, CountFrame, Zenon
<1>8. PingOK'
    BY <1>1, <1>4, PingFrame, Zenon DEF Tasks
<1>9. RxOK'
    <2>1. rxFrame \in Unicast
        BY <1>1, <1>2, Zenon DEF TasksOK
    <2> QED
        BY <1>4, <2>1, Zenon DEF RxOK
<1>10. TasksOK'
    BY <1>2, <1>4, <1>8, <1>9, Zenon DEF TasksOK
<1> QED
    BY <1>4, <1>5, <1>6, <1>7, <1>10, Zenon DEF NetInv

LEMMA DispatchKeeps ==
    ASSUME NetInv, Dispatch
    PROVE  NetInv'
<1> DEFINE f == job["rx"]
<1>1. CacheOK /\ QueueOK /\ CountOK /\ TasksOK /\ PingOK /\ RxOK
    BY Zenon DEF NetInv, TasksOK
<1>2. /\ netPc["rx"] = "dispatch"
      /\ IF Teaches(f) THEN Insert(f.ip, f.mac) ELSE UNCHANGED cacheVars
      /\ IF Answered(f) THEN Become("rx", "reply", f) ELSE Become("rx", "idle", None)
      /\ UNCHANGED <<queueVars, txVars, rxFrame, timeouts>>
    BY Zenon DEF Dispatch, bounds
<1>3. UNCHANGED <<queue, head, tail, order, buffers>>
    BY <1>2, Zenon DEF queueVars
<1>4. f \in Unicast /\ f.ip \in Peers /\ f.mac \in Stations
    BY <1>1, <1>2, UnicastIsPacket, Zenon DEF RxOK
<1>5. CacheOK' /\ (Teaches(f) => \E i \in Slots : arp'[i] # None /\ arp'[i].ip = f.ip)
    <2>1. CASE Teaches(f)
        BY <1>1, <1>2, <1>4, <2>1, InsertKeeps, Zenon
    <2>2. CASE ~Teaches(f)
        BY <1>1, <1>2, <2>2, CacheFrame, Zenon
    <2> QED
        BY <2>1, <2>2, Zenon
<1>6. QueueOK'
    BY <1>1, <1>3, QueueFrame, Zenon
<1>7. Answered(f) => Teaches(f)
    BY DEF Answered, Teaches
<1>8. CASE Answered(f)
    <2>1. Become("rx", "reply", f)
        BY <1>2, <1>8, Zenon
    <2>4. /\ RingOK' /\ TxOK' /\ netPc'["rx"] = "reply" /\ job'["rx"] = f
          /\ DOMAIN netPc' = Tasks /\ DOMAIN job' = Tasks
          /\ netPc' = [u \in Tasks |-> netPc'[u]] /\ job' = [u \in Tasks |-> job'[u]]
          /\ netPc'["tx"] = netPc["tx"]
          /\ \A u \in Tasks : u # "rx" => netPc'[u] = netPc[u] /\ job'[u] = job[u]
        BY <1>2, <2>1, OwnStep, Zenon
    <2>7. CountOK'
        BY <1>1, <1>3, <2>4, CountFrame, Zenon
    <2>8. PingOK'
        BY <1>1, <2>4, PingFrame, Zenon DEF Tasks
    <2>9. RxOK'
        BY <1>4, <1>5, <1>7, <1>8, <2>4, Zenon DEF RxOK, Answered, Hits
    <2>10. TasksOK'
        BY <1>1, <1>2, <2>4, <2>8, <2>9, Zenon DEF TasksOK
    <2> QED
        BY <1>5, <1>6, <2>4, <2>7, <2>10, Zenon DEF NetInv
<1>9. CASE ~Answered(f)
    <2>1. Become("rx", "idle", None)
        BY <1>2, <1>9, Zenon
    <2>4. /\ RingOK' /\ TxOK' /\ netPc'["rx"] = "idle" /\ job'["rx"] = None
          /\ DOMAIN netPc' = Tasks /\ DOMAIN job' = Tasks
          /\ netPc' = [u \in Tasks |-> netPc'[u]] /\ job' = [u \in Tasks |-> job'[u]]
          /\ netPc'["tx"] = netPc["tx"]
          /\ \A u \in Tasks : u # "rx" => netPc'[u] = netPc[u] /\ job'[u] = job[u]
        BY <1>2, <2>1, OwnStep, Zenon
    <2>7. CountOK'
        BY <1>1, <1>3, <2>4, CountFrame, Zenon
    <2>8. PingOK'
        BY <1>1, <2>4, PingFrame, Zenon DEF Tasks
    <2>9. RxOK'
        BY <2>4, Zenon DEF RxOK
    <2>10. TasksOK'
        BY <1>1, <1>2, <2>4, <2>8, <2>9, Zenon DEF TasksOK
    <2> QED
        BY <1>5, <1>6, <2>4, <2>7, <2>10, Zenon DEF NetInv
<1> QED
    BY <1>8, <1>9, Zenon

(* The receive worker finds the station of whoever it answers.             *)
LEMMA ReplyKeeps ==
    ASSUME NetInv, Reply
    PROVE  NetInv'
<1> DEFINE f == job["rx"]
           mac == IF f.kind = "arp_request" THEN f.mac ELSE Lookup(f.ip)
           kind == IF f.kind = "arp_request" THEN "arp_reply" ELSE "echo_reply"
           p == [kind |-> kind, ip |-> f.ip, mac |-> mac]
<1>1. CacheOK /\ QueueOK /\ CountOK /\ TasksOK /\ PingOK /\ RxOK
    BY Zenon DEF NetInv, TasksOK
<1>2. /\ netPc["rx"] = "reply"
      /\ IF mac # None THEN Enqueue(p) /\ Become("rx", "idle", None)
         ELSE Become("rx", "request", f) /\ UNCHANGED queueVars
      /\ UNCHANGED <<cacheVars, txVars, rxFrame, timeouts>>
    BY Zenon DEF Reply, bounds
<1>3. f \in Unicast /\ f.ip \in Peers /\ f.mac \in Stations
    BY <1>1, <1>2, UnicastIsPacket, Zenon DEF RxOK
<1>4. mac # None /\ mac \in Stations
    <2>1. Hits(f.ip) # {}
        BY <1>1, <1>2, Zenon DEF RxOK
    <2>2. Lookup(f.ip) # None /\ Lookup(f.ip) \in Stations
        BY <1>1, <2>1, LookupFinds, Zenon
    <2> QED
        BY <1>3, <2>2, Names, Zenon
<1>5. p \in Unicast
    <2>1. kind \in Kinds
        BY DEF Kinds
    <2> HIDE DEF mac, kind
    <2> QED
        BY <1>3, <1>4, <2>1 DEF Unicast
<1>6. Enqueue(p) /\ Become("rx", "idle", None)
    BY <1>2, <1>4, Zenon
<1> HIDE DEF p
<1>7. /\ QueueOK'
      /\ \/ UNCHANGED <<order, buffers>>
         \/ Len(order') = Len(order) + 1 /\ buffers' = buffers + 1
    BY <1>1, <1>5, <1>6, EnqueueKeeps, Zenon
<1>8. /\ RingOK' /\ TxOK' /\ netPc'["rx"] = "idle" /\ job'["rx"] = None
      /\ DOMAIN netPc' = Tasks /\ DOMAIN job' = Tasks
      /\ netPc' = [u \in Tasks |-> netPc'[u]] /\ job' = [u \in Tasks |-> job'[u]]
      /\ netPc'["tx"] = netPc["tx"]
      /\ \A u \in Tasks : u # "rx" => netPc'[u] = netPc[u] /\ job'[u] = job[u]
    BY <1>2, <1>6, OwnStep, Zenon
<1>9. CountOK'
    <2>1. CASE UNCHANGED <<order, buffers>>
        BY <1>1, <1>8, <2>1, CountFrame, Zenon
    <2>2. CASE Len(order') = Len(order) + 1 /\ buffers' = buffers + 1
        <3>1. Len(order) \in Nat
            BY <1>1 DEF QueueOK
        <3> QED
            BY <1>1, <1>8, <2>2, <3>1 DEF CountOK
    <2> QED
        BY <1>7, <2>1, <2>2, Zenon
<1>10. CacheOK'
    BY <1>1, <1>2, CacheFrame, Zenon
<1>11. PingOK'
    BY <1>1, <1>8, PingFrame, Zenon DEF Tasks
<1>12. RxOK'
    BY <1>8, Zenon DEF RxOK
<1>13. TasksOK'
    BY <1>1, <1>2, <1>8, <1>11, <1>12, Zenon DEF TasksOK
<1> QED
    BY <1>7, <1>8, <1>9, <1>10, <1>13, Zenon DEF NetInv

LEMMA TakePacketKeeps ==
    ASSUME NetInv, TakePacket
    PROVE  NetInv'
<1>1. CacheOK /\ QueueOK /\ CountOK /\ TasksOK /\ PingOK /\ RxOK /\ RingOK
    BY Zenon DEF NetInv, TasksOK
<1>2. /\ netPc["tx"] = "idle" /\ Become("tx", "send", queue[tail])
      /\ UNCHANGED <<cacheVars, txVars, rxFrame, timeouts>>
    BY Zenon DEF TakePacket, bounds
<1>3. /\ QueueOK' /\ Len(order) = Len(order') + 1 /\ buffers' = buffers
      /\ queue[tail] \in Unicast
    BY <1>1, TakeKeeps, Zenon
<1>4. "tx" \in Tasks /\ "rx" \in Tasks /\ "ping" \in Tasks
    BY DEF Tasks
<1>5. /\ DOMAIN netPc' = Tasks /\ DOMAIN job' = Tasks
      /\ netPc' = [u \in Tasks |-> netPc'[u]] /\ job' = [u \in Tasks |-> job'[u]]
      /\ netPc'["tx"] = "send" /\ job'["tx"] = queue[tail]
      /\ \A u \in Tasks : u # "tx" => netPc'[u] = netPc[u] /\ job'[u] = job[u]
    BY <1>1, <1>2, <1>4, BecomeSets, Zenon
<1>6. txLock # "tx"
    BY <1>1, <1>2, <1>4, NotHolder, Zenon
<1>7. RingOK'
    BY <1>1, <1>2, <1>5, <1>6, RingFrame, Zenon
<1>8. CacheOK' /\ arp' = arp
    BY <1>1, <1>2, CacheFrame, Zenon
<1>9. CountOK'
    <2>1. Len(order') \in Nat
        BY <1>3 DEF QueueOK
    <2> QED
        BY <1>1, <1>2, <1>3, <1>5, <2>1 DEF CountOK
<1>10. TxOK'
    BY <1>3, <1>5, Zenon DEF TxOK
<1>11. RxOK' /\ PingOK'
    <2>1. /\ netPc'["rx"] = netPc["rx"] /\ job'["rx"] = job["rx"]
          /\ netPc'["ping"] = netPc["ping"] /\ job'["ping"] = job["ping"]
        BY <1>4, <1>5
    <2> QED
        BY <1>1, <1>8, <2>1, RxFrame, PingFrame, Zenon
<1>12. TasksOK'
    BY <1>1, <1>2, <1>5, <1>10, <1>11, Zenon DEF TasksOK
<1> QED
    BY <1>3, <1>7, <1>8, <1>9, <1>12, Zenon DEF NetInv

LEMMA NextIndex ==
    ASSUME NEW x \in 0 .. IndexBound - 1
    PROVE  Inc(x) \in 0 .. IndexBound - 1 /\ Inc(x) # x
<1>1. IndexBound \in Nat \ {0} /\ IndexBound > 1
    BY Sizes
<1>2. (x + 1 \in 0 .. IndexBound - 1 \/ x + 1 = IndexBound) /\ x + 1 \in Int
    BY <1>1
<1>3. CASE x + 1 \in 0 .. IndexBound - 1
    <2>1. (x + 1) % IndexBound = x + 1
        BY <1>1, <1>2, <1>3, Remainder, Zenon
    <2> QED
        BY <1>1, <1>3, <2>1 DEF Inc
<1>4. CASE x + 1 = IndexBound
    <2>1. x + 1 \in IndexBound .. 2 * IndexBound - 1
        BY <1>1, <1>4
    <2>2. (x + 1) % IndexBound = (x + 1) - IndexBound
        BY <1>1, <1>2, <2>1, Remainder, Zenon
    <2> QED
        BY <1>1, <1>4, <2>2 DEF Inc
<1> QED
    BY <1>2, <1>3, <1>4, Zenon

(* A step of the ring or of the tasks that use it leaves the rest alone.   *)
LEMMA RingStep ==
    ASSUME NetInv, UNCHANGED <<cacheVars, queue, head, tail, order, rxFrame>>
    PROVE  CacheOK' /\ QueueOK' /\ arp' = arp
<1>1. CacheOK /\ QueueOK
    BY Zenon DEF NetInv
<1> QED
    BY <1>1, CacheFrame, QueueFrame, Zenon

LEMMA DeviceSendsKeeps ==
    ASSUME NetInv, DeviceSends
    PROVE  NetInv'
<1>1. CountOK /\ TasksOK /\ PingOK /\ RxOK /\ TxOK /\ RingOK /\ RingTyped
    BY Zenon DEF NetInv, TasksOK, RingOK
<1>2. /\ txUsed # txAvail /\ wire' = txBuffer /\ txUsed' = Inc(txUsed)
      /\ UNCHANGED <<cacheVars, queueVars, txAvail, txSeen, txBuffer, txLock, rxFrame, netPc, job,
                     timeouts>>
    BY Zenon DEF DeviceSends, bounds
<1>3. UNCHANGED <<queue, head, tail, order, buffers>>
    BY <1>2, Zenon DEF queueVars
<1>4. CacheOK' /\ QueueOK' /\ arp' = arp
    BY <1>2, <1>3, RingStep, Zenon
<1>5. CountOK'
    BY <1>1, <1>2, <1>3, CountFrame, Zenon
<1>6. RxOK' /\ TxOK' /\ PingOK'
    BY <1>1, <1>2, <1>4, RxFrame, TxFrame, PingFrame, Zenon
<1>7. TasksOK'
    BY <1>1, <1>2, <1>6, Zenon DEF TasksOK
<1>8. RingTyped'
    <2>1. Inc(txUsed) \in 0 .. IndexBound - 1
        BY <1>1, NextIndex, Zenon DEF RingTyped
    <2> QED
        BY <1>1, <1>2, <2>1, Zenon DEF RingTyped
<1>9. \A t \in Tasks : Asked(t)' = Asked(t)
    BY <1>2, Zenon DEF Asked
<1>10. \A t \in Tasks : Waiting(t) => Waiting(t)'
    <2> SUFFICES ASSUME NEW t \in Tasks, Waiting(t) PROVE Waiting(t)'
        BY Zenon
    <2>1. txUsed = txSeen /\ txAvail = Inc(txSeen) /\ txBuffer = Asked(t)
        BY <1>2, Zenon DEF Waiting
    <2>2. txUsed' = txAvail' /\ wire' = txBuffer' /\ txAvail' = Inc(txSeen)' /\ txBuffer' = Asked(t)'
        BY <1>2, <1>9, <2>1, Zenon DEF Inc
    <2> QED
        BY <2>2, Zenon DEF Waiting
<1>11. RingOK'
    BY <1>1, <1>2, <1>8, <1>10, Zenon DEF RingOK
<1> QED
    BY <1>4, <1>5, <1>7, <1>11, Zenon DEF NetInv

LEMMA SubmitKeeps ==
    ASSUME NetInv, NEW t \in Tasks, Submit(t)
    PROVE  NetInv'
<1>1. CountOK /\ TasksOK /\ PingOK /\ RxOK /\ TxOK /\ RingOK /\ RingTyped
    BY Zenon DEF NetInv, TasksOK, RingOK
<1>2. /\ netPc[t] \in {"send", "request"} /\ txLock = None /\ txLock' = t
      /\ txBuffer' = Asked(t) /\ txAvail' = Inc(txAvail)
      /\ UNCHANGED <<cacheVars, queueVars, txUsed, txSeen, wire, rxFrame, netPc, job, timeouts>>
    BY Zenon DEF Submit, bounds, Asked
<1>3. UNCHANGED <<queue, head, tail, order, buffers>>
    BY <1>2, Zenon DEF queueVars
<1>4. CacheOK' /\ QueueOK' /\ arp' = arp
    BY <1>2, <1>3, RingStep, Zenon
<1>5. CountOK'
    BY <1>1, <1>2, <1>3, CountFrame, Zenon
<1>6. RxOK' /\ TxOK' /\ PingOK'
    BY <1>1, <1>2, <1>4, RxFrame, TxFrame, PingFrame, Zenon
<1>7. TasksOK'
    BY <1>1, <1>2, <1>6, Zenon DEF TasksOK
<1>8. Asked(t) \in Packet
    <2>1. t \in {"rx", "tx", "ping"}
        BY Zenon DEF Tasks
    <2>2. netPc[t] = "send" => job[t] \in Unicast
        BY <1>1, <1>2, <2>1, Zenon DEF RxOK, TxOK, PingOK
    <2>3. netPc[t] = "request" => job[t].ip \in Peers
        BY <1>1, <1>2, <2>1, Zenon DEF RxOK, TxOK, PingOK
    <2>4. CASE netPc[t] = "send"
        BY <2>2, <2>4, UnicastIsPacket, Zenon DEF Asked
    <2>5. CASE netPc[t] = "request"
        BY <2>3, <2>5 DEF Asked, Packet, Kinds
    <2> QED
        BY <1>2, <2>4, <2>5, Zenon
<1>9. RingTyped'
    <2>1. Inc(txAvail) \in 0 .. IndexBound - 1
        BY <1>1, NextIndex, Zenon DEF RingTyped
    <2> QED
        BY <1>1, <1>2, <1>8, <2>1, Zenon DEF RingTyped
<1>10. timeouts' = 0 => Waiting(t)'
    <2> SUFFICES ASSUME timeouts = 0 PROVE Waiting(t)'
        BY <1>2, Zenon
    <2>1. txAvail = txSeen /\ txUsed = txSeen
        BY <1>1, <1>2, Zenon DEF RingOK
    <2>2. Asked(t)' = Asked(t)
        BY <1>2, Zenon DEF Asked
    <2> QED
        BY <1>2, <2>1, <2>2, Zenon DEF Waiting, Inc
<1>11. RingOK'
    BY <1>2, <1>9, <1>10, Names, Zenon DEF RingOK
<1> QED
    BY <1>4, <1>5, <1>7, <1>11, Zenon DEF NetInv

(* What a task does after its transmission.                                *)
LEMMA SentKeeps ==
    ASSUME NetInv, NEW t \in Tasks, txLock = t, NEW ok, Sent(t, ok),
           UNCHANGED <<cacheVars, queue, head, tail, order, rxFrame>>
    PROVE  CacheOK' /\ QueueOK' /\ CountOK' /\ TasksOK'
<1>1. CountOK /\ QueueOK /\ TasksOK /\ PingOK /\ RxOK /\ TxOK /\ RingOK
    BY Zenon DEF NetInv, TasksOK
<1>2. CacheOK' /\ QueueOK' /\ arp' = arp
    BY RingStep, Zenon
<1>3. netPc[t] \in {"send", "request"}
    BY <1>1, Zenon DEF RingOK
<1>4. t # "rx" /\ t \in {"tx", "ping"} /\ "rx" \in Tasks /\ "tx" \in Tasks /\ "ping" \in Tasks
    <2>1. t # "rx"
        BY <1>1, <1>3, Zenon DEF RxOK
    <2> QED
        BY <2>1 DEF Tasks
<1>5. CASE t = "tx"
    <2>1. Become("tx", "idle", None) /\ buffers' = buffers - 1
        BY <1>5, Zenon DEF Sent
    <2>2. /\ DOMAIN netPc' = Tasks /\ DOMAIN job' = Tasks
          /\ netPc' = [u \in Tasks |-> netPc'[u]] /\ job' = [u \in Tasks |-> job'[u]]
          /\ netPc'["tx"] = "idle" /\ job'["tx"] = None
          /\ \A u \in Tasks : u # "tx" => netPc'[u] = netPc[u] /\ job'[u] = job[u]
        BY <1>1, <1>4, <2>1, BecomeSets, Zenon
    <2>3. /\ netPc'["rx"] = netPc["rx"] /\ job'["rx"] = job["rx"]
          /\ netPc'["ping"] = netPc["ping"] /\ job'["ping"] = job["ping"]
        BY <1>4, <2>2
    <2>4. RxOK' /\ PingOK' /\ TxOK'
        <3>1. RxOK' /\ PingOK'
            BY <1>1, <1>2, <2>3, RxFrame, PingFrame, Zenon
        <3> QED
            BY <2>2, <3>1, Zenon DEF TxOK
    <2>5. CountOK'
        <3>1. Len(order) \in Nat /\ netPc["tx"] # "idle" /\ order' = order
            BY <1>1, <1>3, <1>5 DEF QueueOK
        <3> QED
            BY <1>1, <2>1, <2>2, <3>1 DEF CountOK
    <2>6. TasksOK'
        BY <1>1, <2>2, <2>4, Zenon DEF TasksOK
    <2> QED
        BY <1>2, <2>5, <2>6, Zenon
<1>6. CASE t = "ping"
    <2>1. /\ \/ Become("ping", "idle", None)
             \/ Become("ping", "resolving", job["ping"]) /\ netPc["ping"] = "request"
          /\ buffers' = buffers
        BY <1>6, Zenon DEF Sent
    <2>2. PICK where, what :
            /\ Become("ping", where, what)
            /\ \/ where = "idle"
               \/ where = "resolving" /\ what = job["ping"] /\ netPc["ping"] = "request"
        BY <2>1, Zenon
    <2>3. /\ DOMAIN netPc' = Tasks /\ DOMAIN job' = Tasks
          /\ netPc' = [u \in Tasks |-> netPc'[u]] /\ job' = [u \in Tasks |-> job'[u]]
          /\ netPc'["ping"] = where /\ job'["ping"] = what
          /\ \A u \in Tasks : u # "ping" => netPc'[u] = netPc[u] /\ job'[u] = job[u]
        BY <1>1, <1>4, <2>2, BecomeSets, Zenon
    <2>4. /\ netPc'["rx"] = netPc["rx"] /\ job'["rx"] = job["rx"]
          /\ netPc'["tx"] = netPc["tx"] /\ job'["tx"] = job["tx"]
        BY <1>4, <2>3
    <2>5. RxOK' /\ TxOK'
        BY <1>1, <1>2, <2>4, RxFrame, TxFrame, Zenon
    <2>6. PingOK'
        BY <1>1, <2>2, <2>3, Zenon DEF PingOK
    <2>7. CountOK'
        BY <1>1, <2>1, <2>4, CountFrame, Zenon
    <2>8. TasksOK'
        BY <1>1, <2>3, <2>5, <2>6, Zenon DEF TasksOK
    <2> QED
        BY <1>2, <2>7, <2>8, Zenon
<1> QED
    BY <1>4, <1>5, <1>6, Zenon

LEMMA CompleteKeeps ==
    ASSUME NetInv, NEW t \in Tasks, Complete(t)
    PROVE  NetInv'
<1>1. RingOK /\ RingTyped
    BY Zenon DEF NetInv, RingOK
<1>2. /\ txLock = t /\ txUsed # txSeen /\ txSeen' = Inc(txSeen) /\ txLock' = None
      /\ Sent(t, TRUE)
      /\ UNCHANGED <<cacheVars, queue, head, tail, order, txAvail, txUsed, txBuffer, rxFrame,
                     timeouts>>
    BY Zenon DEF Complete, bounds
<1>3. CacheOK' /\ QueueOK' /\ CountOK' /\ TasksOK'
    BY <1>2, SentKeeps, Zenon
<1>4. RingTyped'
    <2>1. Inc(txSeen) \in 0 .. IndexBound - 1
        BY <1>1, NextIndex, Zenon DEF RingTyped
    <2> QED
        BY <1>1, <1>2, <2>1, Zenon DEF RingTyped
<1>5. timeouts' = 0 => txAvail' = txSeen' /\ txUsed' = txSeen'
    BY <1>1, <1>2, Zenon DEF RingOK, Waiting
<1>6. RingOK'
    BY <1>2, <1>4, <1>5, Names, Zenon DEF RingOK
<1> QED
    BY <1>3, <1>6, Zenon DEF NetInv

LEMMA GiveUpKeeps ==
    ASSUME NetInv, NEW t \in Tasks, GiveUp(t)
    PROVE  NetInv' /\ timeouts' # 0
<1>1. RingOK /\ RingTyped
    BY Zenon DEF NetInv, RingOK
<1>2. /\ txLock = t /\ txLock' = None /\ timeouts' = timeouts + 1
      /\ Sent(t, FALSE)
      /\ UNCHANGED <<cacheVars, queue, head, tail, order, txAvail, txUsed, txSeen, txBuffer,
                     rxFrame>>
    BY Zenon DEF GiveUp
<1>3. CacheOK' /\ QueueOK' /\ CountOK' /\ TasksOK'
    BY <1>2, SentKeeps, Zenon
<1>4. timeouts' \in Nat /\ timeouts' # 0
    BY <1>1, <1>2 DEF RingTyped
<1>5. RingTyped'
    BY <1>1, <1>2, <1>4, Zenon DEF RingTyped
<1>6. RingOK'
    BY <1>2, <1>4, <1>5, Names, Zenon DEF RingOK
<1> QED
    BY <1>3, <1>4, <1>6, Zenon DEF NetInv

(* A step of the task that sends echo requests, from where it does not     *)
(* hold the lock.                                                          *)
LEMMA PingStep ==
    ASSUME NetInv, netPc["ping"] \notin {"send", "request"},
           NEW where, NEW what, Become("ping", where, what),
           where \in {"idle", "send", "request"},
           where = "send" => what \in Unicast,
           where = "request" => what.ip \in Peers,
           UNCHANGED <<cacheVars, queueVars, txVars, rxFrame, timeouts>>
    PROVE  NetInv'
<1>1. CacheOK /\ QueueOK /\ CountOK /\ TasksOK /\ RxOK
    BY Zenon DEF NetInv, TasksOK
<1>2. UNCHANGED <<queue, head, tail, order, buffers>>
    BY Zenon DEF queueVars
<1>3. /\ RingOK' /\ TxOK' /\ netPc'["ping"] = where /\ job'["ping"] = what
      /\ DOMAIN netPc' = Tasks /\ DOMAIN job' = Tasks
      /\ netPc' = [u \in Tasks |-> netPc'[u]] /\ job' = [u \in Tasks |-> job'[u]]
      /\ netPc'["tx"] = netPc["tx"]
      /\ \A u \in Tasks : u # "ping" => netPc'[u] = netPc[u] /\ job'[u] = job[u]
    BY OwnStep, Zenon
<1>4. CacheOK' /\ arp' = arp
    BY <1>1, CacheFrame, Zenon
<1>5. QueueOK'
    BY <1>1, <1>2, QueueFrame, Zenon
<1>6. CountOK'
    BY <1>1, <1>2, <1>3, CountFrame, Zenon
<1>7. RxOK'
    <2>1. netPc'["rx"] = netPc["rx"] /\ job'["rx"] = job["rx"]
        BY <1>3 DEF Tasks
    <2> QED
        BY <1>1, <1>4, <2>1, RxFrame, Zenon
<1>8. PingOK'
    BY <1>3, Zenon DEF PingOK
<1>9. TasksOK'
    BY <1>1, <1>3, <1>7, <1>8, Zenon DEF TasksOK
<1> QED
    BY <1>3, <1>4, <1>5, <1>6, <1>9, Zenon DEF NetInv

LEMMA EchoIsUnicast ==
    ASSUME CacheOK, NEW ip \in Peers, Lookup(ip) # None
    PROVE  Echo(ip, Lookup(ip)) \in Unicast
<1>1. Lookup(ip) \in Stations
    BY LookupFinds, Zenon
<1> QED
    BY <1>1 DEF Echo, Unicast, Kinds

LEMMA PingKeeps ==
    ASSUME NetInv, NEW ip \in Peers, Ping(ip)
    PROVE  NetInv'
<1>1. CacheOK
    BY Zenon DEF NetInv
<1>2. /\ netPc["ping"] = "idle"
      /\ IF Lookup(ip) # None THEN Become("ping", "send", Echo(ip, Lookup(ip)))
         ELSE Become("ping", "request", [ip |-> ip])
      /\ UNCHANGED <<cacheVars, queueVars, txVars, rxFrame, timeouts>>
    BY Zenon DEF Ping
<1>3. CASE Lookup(ip) # None
    <2>1. Become("ping", "send", Echo(ip, Lookup(ip))) /\ Echo(ip, Lookup(ip)) \in Unicast
        BY <1>1, <1>2, <1>3, EchoIsUnicast, Zenon
    <2> QED
        BY <1>2, <2>1, PingStep, Zenon
<1>4. CASE Lookup(ip) = None
    <2>1. Become("ping", "request", [ip |-> ip]) /\ [ip |-> ip].ip \in Peers
        BY <1>2, <1>4
    <2> QED
        BY <1>2, <2>1, PingStep, Zenon
<1> QED
    BY <1>3, <1>4, Zenon

LEMMA ResolveKeeps ==
    ASSUME NetInv, NEW t \in {"rx", "ping"}, ResolveStep(t)
    PROVE  NetInv'
<1>1. CacheOK /\ RxOK /\ PingOK /\ QueueOK /\ CountOK /\ TasksOK /\ RingOK /\ TxOK
    BY Zenon DEF NetInv, TasksOK
<1>2. netPc[t] = "resolving"
    BY Zenon DEF ResolveStep, Resolved, SleepOn, Unresolved
<1>3. t = "ping"
    BY <1>1, <1>2, Zenon DEF RxOK
<1>4. job["ping"].ip \in Peers
    BY <1>1, <1>2, <1>3, Zenon DEF PingOK
<1>5. CASE Resolved("ping")
    <2> DEFINE ip == job["ping"].ip
    <2>1. /\ Lookup(ip) # None /\ Become("ping", "send", Echo(ip, Lookup(ip)))
          /\ UNCHANGED <<cacheVars, queueVars, txVars, rxFrame, timeouts>>
        BY <1>5, Zenon DEF Resolved, bounds
    <2>2. Echo(ip, Lookup(ip)) \in Unicast
        BY <1>1, <1>4, <2>1, EchoIsUnicast, Zenon
    <2> QED
        BY <1>2, <1>3, <2>1, <2>2, PingStep, Zenon
<1>6. CASE SleepOn("ping")
    <2>1. UNCHANGED <<cacheVars, queueVars, txVars, rxFrame, netPc, job, timeouts>>
        BY <1>6, Zenon DEF SleepOn, bounds
    <2>2. UNCHANGED <<queue, head, tail, order, buffers>>
        BY <2>1, Zenon DEF queueVars
    <2>3. CacheOK' /\ QueueOK' /\ arp' = arp
        BY <2>1, <2>2, RingStep, Zenon
    <2>4. CountOK' /\ RingOK'
        BY <1>1, <2>1, <2>2, CountFrame, RingFrame, Zenon
    <2>5. RxOK' /\ TxOK' /\ PingOK'
        BY <1>1, <2>1, <2>3, RxFrame, TxFrame, PingFrame, Zenon
    <2>6. TasksOK'
        BY <1>1, <2>1, <2>5, Zenon DEF TasksOK
    <2> QED
        BY <2>3, <2>4, <2>6, Zenon DEF NetInv
<1>7. CASE Unresolved("ping")
    <2>1. /\ Become("ping", "idle", None)
          /\ UNCHANGED <<cacheVars, queueVars, txVars, rxFrame, timeouts>>
        BY <1>7, Zenon DEF Unresolved, bounds
    <2> QED
        BY <1>2, <1>3, <2>1, PingStep, Zenon
<1> QED
    BY <1>3, <1>5, <1>6, <1>7, Zenon DEF ResolveStep

-----------------------------------------------------------------------------
(* NetInv is inductive.                                                    *)
LEMMA NextKeeps ==
    ASSUME NetInv, [NetNext]_netVars
    PROVE  NetInv'
<1>1. CASE UNCHANGED netVars
    BY <1>1, StutterKeeps, Zenon
<1>2. CASE \E f \in Arrivals : Arrive(f)
    BY <1>2, ArriveKeeps, Zenon
<1>3. CASE \E p \in Peers : Ping(p)
    BY <1>3, PingKeeps, Zenon
<1>4. CASE Poll \/ Dispatch \/ Reply \/ TakePacket \/ DeviceSends
    BY <1>4, PollKeeps, DispatchKeeps, ReplyKeeps, TakePacketKeeps, DeviceSendsKeeps, Zenon
<1>5. CASE \E t \in Tasks : TaskStep(t)
    BY <1>5, SubmitKeeps, CompleteKeeps, GiveUpKeeps, Zenon DEF TaskStep
<1>6. CASE \E t \in {"rx", "ping"} : ResolveStep(t)
    BY <1>6, ResolveKeeps, Zenon
<1> QED
    BY <1>1, <1>2, <1>3, <1>4, <1>5, <1>6, Zenon DEF NetNext, RxStep

(* NetInv holds at every moment.                                           *)
THEOREM NetInvariant == NetSpec => []NetInv
<1>1. NetInit => NetInv
    BY InitHolds
<1>2. NetInv /\ [NetNext]_netVars => NetInv'
    BY NextKeeps
<1> QED
    BY <1>1, <1>2, PTL DEF NetSpec

LEMMA InvIsSound == NetInv => NetSound
<1> SUFFICES ASSUME NetInv PROVE NetSound
    OBVIOUS
<1>1. CacheOK /\ QueueOK /\ CountOK /\ TasksOK /\ RxOK /\ TxOK /\ PingOK /\ RingTyped
    BY Zenon DEF NetInv, TasksOK, RingOK
<1>2. ReceiverNeverWaits
    BY <1>1 DEF RxOK, ReceiverNeverWaits
<1>3. QueueInOrder
    BY <1>1, OrderIsQueue, Zenon DEF QueueInOrder, CountOK
<1>4. NetTypeOK
    <2>1. \A t \in Tasks : netPc[t] \in {"idle", "dispatch", "reply", "send", "request", "resolving"}
        BY <1>1 DEF Tasks, RxOK, TxOK, PingOK
    <2>2. netPc \in [Tasks -> {"idle", "dispatch", "reply", "send", "request", "resolving"}]
        BY <1>1, <2>1, Zenon DEF TasksOK
    <2>3. \A t \in Tasks : netPc[t] = "send" => job[t] \in Unicast
        BY <1>1 DEF Tasks, RxOK, TxOK, PingOK
    <2>4. \A t \in Tasks : netPc[t] = "send" => job[t] \in Packet /\ job[t].mac # Broadcast
        BY <2>3, UnicastIsPacket, Names, Zenon
    <2>5. {None} \cup Unicast \subseteq {None} \cup Packet
        BY UnicastIsPacket, Zenon
    <2>6. queue \in [0 .. QueueCapacity - 1 -> {None} \cup Packet]
        BY <1>1, <2>5, Zenon DEF QueueOK
    <2>7. /\ {head, tail} \subseteq 0 .. QueueCapacity - 1
          /\ {txAvail, txUsed, txSeen} \subseteq 0 .. IndexBound - 1
        BY <1>1, Zenon DEF QueueOK, RingTyped
    <2>8. txBuffer \in {None} \cup Packet /\ txLock \in {None} \cup Tasks
        BY <1>1, Zenon DEF RingTyped
    <2>9. arp \in [Slots -> {None} \cup [ip : Peers, mac : Stations]] /\ replace \in Slots
        BY <1>1, Zenon DEF CacheOK, Entry
    <2> QED
        BY <2>2, <2>4, <2>6, <2>7, <2>8, <2>9, Zenon DEF NetTypeOK
<1> QED
    BY <1>1, <1>2, <1>3, <1>4, Zenon DEF NetSound, CacheOK

(* The ARP cache holds each peer once, with the station it was last heard  *)
(* from; the receive worker never waits for an answer that only it could   *)
(* receive; and the transmit queue gives out what it took, in that order.  *)
THEOREM NetworkSound == NetSpec => []NetSound
BY NetInvariant, InvIsSound, PTL

(* What is reported as sent is on the wire.                                *)
LEMMA LockEnds ==
    ASSUME NetInv, [NetNext]_netVars, NEW t \in Tasks, txLock = t, txLock' = None, timeouts' = 0
    PROVE  wire = Asked(t)
<1>1. t # None
    BY Names, Zenon
<1>2. \E u \in Tasks : Complete(u) \/ GiveUp(u)
    BY <1>1, Zenon DEF NetNext, RxStep, netVars, Arrive, Ping, Poll, Dispatch, Reply, TakePacket,
        DeviceSends, TaskStep, Submit, ResolveStep, Resolved, SleepOn, Unresolved, txVars
<1>3. PICK u \in Tasks : Complete(u) \/ GiveUp(u)
    BY <1>2, Zenon
<1>4. Complete(u)
    BY <1>3, GiveUpKeeps, Zenon
<1>5. u = t /\ txUsed # txSeen /\ timeouts = 0
    BY <1>4, Zenon DEF Complete, bounds
<1> QED
    BY <1>5, Zenon DEF NetInv, RingOK, Waiting

(* Until a transmission times out, a packet that transmit_packet reports   *)
(* sent is what the device has put on the wire last.                       *)
THEOREM SentIsOnWire == NetSpec => ReportedIsSent
<1> DEFINE Step == \A t \in Tasks : (txLock = t /\ txLock' = None /\ timeouts' = 0) =>
                wire = IF netPc[t] = "send" THEN job[t]
                       ELSE [kind |-> "arp_request", ip |-> job[t].ip, mac |-> Broadcast]
<1>1. NetInv /\ [NetNext]_netVars => [Step]_netVars
    BY LockEnds, Zenon DEF Asked
<1> HIDE DEF Step
<1>2. NetSpec => [][Step]_netVars
    BY <1>1, NetInvariant, PTL DEF NetSpec
<1> QED
    BY <1>2 DEF ReportedIsSent, Step
=============================================================================
