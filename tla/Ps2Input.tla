------------------------------ MODULE Ps2Input ------------------------------
(***************************************************************************)
(* The input subsystem (src/core/input.cpp): a keyboard and a mouse that   *)
(* share one controller, read byte by byte by tasks that ask for keys, for *)
(* characters or for mouse packets, each of which meets the bytes of the   *)
(* others.                                                                 *)
(*                                                                         *)
(* A byte of the controller is a record: the device it is from, and what   *)
(* it says.  Reading the status and reading the data are two port accesses *)
(* with nothing that keeps other tasks out between them.                   *)
(***************************************************************************)
EXTENDS Integers, Sequences, FiniteSets, SequencesExt

CONSTANTS
    Readers,        \* tasks
    PacketQueue,    \* MOUSE_QUEUE_SIZE
    Typing,         \* keys, a sequence of [key, ext, up], in the order they are typed
    Motions,        \* packets of the mouse: whether each one has an overflow bit
    Stray,          \* bound: data bytes of a packet cut off by init
    PortBytes,      \* bound: bytes that wait
    MaxReading      \* bound: readers at a time

ASSUME Ps2Assumption == PacketQueue \in Nat \ {0, 1} /\ MaxReading \in Nat

VARIABLES
    port,       \* bytes the controller will give
    typed, moved, \* what keyboard and mouse have sent so far: keys; bytes
    ext, shift, ctrl, caps, \* s_ext, s_shift, s_ctrl, s_caps
    phase, packet, packets, \* s_mouse_phase, s_mouse_buf, the queue
    readPc, readSt,  \* what a reader is after and the status it saw
    keys, mice, \* history: events and packets delivered; keys only until charRead
    charRead,   \* history: someone read characters
    lostPackets,\* history: the packet queue was full
    met         \* history: two readers were inside

ps2Vars == <<port, typed, moved, ext, shift, ctrl, caps, phase, packet, packets,
             readPc, readSt, keys, mice, charRead, lostPackets, met>>
modVars == <<ext, shift, ctrl, caps>>
mouseVars == <<phase, packet, packets, lostPackets>>
outVars == <<keys, mice>>
deviceVars == <<port, typed, moved>>

Modifiers == {"shift", "ctrl", "caps"}

-----------------------------------------------------------------------------
(* The devices: a key is one byte, or two with the prefix 0xE0; a packet   *)
(* is three, the first of which has bit 3 set.  A data byte may have it or *)
(* not.                                                                    *)

KeyBytes(k) ==
    (IF k.ext THEN <<[dev |-> "key", is |-> "E0"]>> ELSE <<>>)
      \o <<[dev |-> "key", is |-> "code", key |-> k.key, up |-> k.up]>>

PacketByte(i, n, sync) == [dev |-> "aux", of |-> i, n |-> n, sync |-> sync]

AllKeyBytes(ks) == FlattenSeq([i \in DOMAIN ks |-> KeyBytes(ks[i])])

KeyStream == AllKeyBytes(Typing)

KeyArrives ==
    /\ typed < Len(KeyStream) /\ Len(port) < PortBytes /\ ~met
    /\ typed' = typed + 1
    /\ port' = Append(port, KeyStream[typed + 1])
    /\ UNCHANGED <<moved, modVars, mouseVars, readPc, readSt, outVars, charRead, met>>

MouseArrives ==
    /\ moved < 3 * Len(Motions) /\ Len(port) < PortBytes /\ ~met
    /\ moved' = moved + 1
    /\ \E sync \in IF moved < 0 THEN {FALSE} ELSE IF moved % 3 = 0 THEN {TRUE} ELSE BOOLEAN :
          port' = Append(port, PacketByte(moved \div 3 + 1, moved % 3, sync))
    /\ UNCHANGED <<typed, modVars, mouseVars, readPc, readSt, outVars, charRead, met>>

-----------------------------------------------------------------------------
(* ps2_pump_mouse_byte *)

(* mouse_q_push: a full queue loses its oldest packet.                     *)
Queued(q, p) == Append(IF Len(q) = PacketQueue - 1 THEN Tail(q) ELSE q, p)

(* Mutant of Pump: the first byte is taken for what it is not.             *)
PumpUnsynced(b) ==
    IF phase < 2
    THEN phase' = phase + 1 /\ packet' = Append(packet, <<b.of, b.n>>) /\ UNCHANGED <<packets, lostPackets>>
    ELSE /\ phase' = 0 /\ packet' = <<>>
         /\ packets' = Queued(packets, Append(packet, <<b.of, b.n>>))
         /\ lostPackets' = (lostPackets \/ Len(packets) = PacketQueue - 1)

Pump(b) ==
    IF phase = 0 /\ ~b.sync THEN UNCHANGED mouseVars
    ELSE IF phase < 2
    THEN phase' = phase + 1 /\ packet' = Append(packet, <<b.of, b.n>>) /\ UNCHANGED <<packets, lostPackets>>
    ELSE /\ phase' = 0 /\ packet' = <<>>
         /\ IF packet[1][1] \in DOMAIN Motions /\ Motions[packet[1][1]] THEN UNCHANGED <<packets, lostPackets>>
            ELSE /\ packets' = Queued(packets, Append(packet, <<b.of, b.n>>))
                 /\ lostPackets' = (lostPackets \/ Len(packets) = PacketQueue - 1)

-----------------------------------------------------------------------------
(* The readers: "key" is poll_key, "char" try_getc_ps2, "mouse" poll_mouse.*)

Leave(r) == readPc' = [readPc EXCEPT ![r] = "idle"] /\ readSt' = [readSt EXCEPT ![r] = "none"]
Stay(r) == readSt' = [readSt EXCEPT ![r] = "none"] /\ UNCHANGED readPc

(* Bound: no calls and no bytes after the first meeting of two readers.    *)
Ps2Call(r, what) ==
    /\ readPc[r] = "idle" /\ ~met
    /\ Cardinality({q \in Readers : readPc[q] # "idle"}) < MaxReading
    /\ port # <<>> \/ (what = "mouse" /\ packets # <<>>)
    /\ readPc' = [readPc EXCEPT ![r] = what]
    /\ charRead' = (charRead \/ what = "char")
    /\ keys' = IF charRead' THEN <<>> ELSE keys
    /\ met' = (met \/ \E q \in Readers \ {r} : readPc[q] # "idle")
    /\ UNCHANGED <<deviceVars, modVars, mouseVars, readSt, mice>>

(* Reads the status.  Nothing there, or for poll_mouse a byte that is not  *)
(* the mouse's, ends the loop; poll_mouse then takes a packet.             *)
Status(r) ==
    /\ readPc[r] # "idle" /\ readSt[r] = "none"
    /\ LET over == port = <<>> \/ (readPc[r] = "mouse" /\ Head(port).dev # "aux")
       IN  /\ IF over THEN Leave(r)
              ELSE readSt' = [readSt EXCEPT ![r] = Head(port).dev] /\ UNCHANGED readPc
           /\ IF over /\ readPc[r] = "mouse" /\ packets # <<>>
              THEN mice' = Append(mice, Head(packets)) /\ packets' = Tail(packets)
              ELSE UNCHANGED <<mice, packets>>
    /\ UNCHANGED <<deviceVars, modVars, phase, packet, lostPackets, keys, charRead, met>>

(* What the bytes mean when the status was another reader's.               *)
AsKey(b) == IF b.dev = "key" THEN b ELSE [dev |-> "key", is |-> "code", key |-> "noise", up |-> FALSE]
AsAux(b) == IF b.dev = "aux" THEN b ELSE PacketByte(0, 0, TRUE)

Held(k, up, s, now) == IF k = s THEN ~up ELSE now

(* ps2_try_read_raw: every code becomes an event.                          *)
RawKey(r, b) ==
    IF b.is = "E0" THEN ext' = TRUE /\ Stay(r) /\ UNCHANGED <<shift, ctrl, caps, outVars>>
    ELSE /\ ext' = FALSE
         /\ shift' = Held(b.key, b.up, "shift", shift)
         /\ ctrl' = Held(b.key, b.up, "ctrl", ctrl)
         /\ caps' = IF b.key = "caps" /\ ~b.up THEN ~caps ELSE caps
         /\ keys' = IF charRead THEN keys ELSE Append(keys, [key |-> b.key, ext |-> ext, up |-> b.up])
         /\ Leave(r)
         /\ UNCHANGED mice

(* ps2_try_read: extended codes and releases give no character.            *)
Char(r, b) ==
    IF b.is = "E0" THEN ext' = TRUE /\ Stay(r) /\ UNCHANGED <<shift, ctrl, caps, outVars>>
    ELSE /\ ext' = FALSE
         /\ shift' = IF ext THEN shift ELSE Held(b.key, b.up, "shift", shift)
         /\ caps' = IF ~ext /\ b.key = "caps" /\ ~b.up THEN ~caps ELSE caps
         /\ UNCHANGED ctrl
         /\ IF ext \/ b.up \/ b.key \in Modifiers THEN Stay(r) ELSE Leave(r)
         /\ UNCHANGED outVars

(* Reads the data, and takes it for what the status said.  The port may    *)
(* have been emptied by another reader; then it gives something stale.     *)
Data(r) ==
    /\ readSt[r] # "none"
    /\ LET b == IF port = <<>> THEN PacketByte(0, 0, FALSE) ELSE Head(port)
       IN  /\ port' = IF port = <<>> THEN port ELSE Tail(port)
           /\ IF readSt[r] = "aux" THEN Pump(AsAux(b)) /\ Stay(r) /\ UNCHANGED <<modVars, outVars>>
              ELSE /\ IF readPc[r] = "key" THEN RawKey(r, AsKey(b)) ELSE Char(r, AsKey(b))
                   /\ UNCHANGED mouseVars
    /\ UNCHANGED <<typed, moved, charRead, met>>

(* init flushes the port; a packet it cut off goes on with data bytes.     *)
Ps2Init ==
    /\ port = <<>> /\ typed = 0 /\ moved \in -Stray .. 0
    /\ ext = FALSE /\ shift = FALSE /\ ctrl = FALSE /\ caps = FALSE
    /\ phase = 0 /\ packet = <<>> /\ packets = <<>>
    /\ readPc = [r \in Readers |-> "idle"] /\ readSt = [r \in Readers |-> "none"]
    /\ keys = <<>> /\ mice = <<>>
    /\ charRead = FALSE /\ lostPackets = FALSE /\ met = FALSE

Ps2Next ==
    \/ KeyArrives \/ MouseArrives
    \/ \E r \in Readers :
          \/ \E what \in {"key", "char", "mouse"} : Ps2Call(r, what)
          \/ Status(r) \/ Data(r)

Ps2Spec == Ps2Init /\ [][Ps2Next]_ps2Vars
-----------------------------------------------------------------------------
Ps2TypeOK ==
    /\ phase \in 0 .. 2 /\ Len(packet) = phase
    /\ Len(packets) < PacketQueue
    /\ {ext, shift, ctrl, caps} \subseteq BOOLEAN
    /\ \A r \in Readers : readSt[r] \in {"none", "key", "aux"}

PortQuiet == port = <<>> /\ \A r \in Readers : readPc[r] = "idle"
Latest(k) == LET S == {i \in DOMAIN Typing : Typing[i].key = k /\ Len(AllKeyBytes(SubSeq(Typing, 1, i))) <= typed}
           IN  IF S = {} THEN 0 ELSE CHOOSE i \in S : \A j \in S : j <= i
IsDown(k) == Latest(k) # 0 /\ ~Typing[Latest(k)].up

(* Once everything typed has been read, whoever read it and for whatever   *)
(* purpose, the shift state is that of the key; so is that of ctrl, unless *)
(* someone read characters, which ignores ctrl.  Two readers that meet     *)
(* between a status and its byte can break it.                             *)
ModifiersSettle ==
    ~met /\ PortQuiet /\ ~ext =>
        /\ shift = IsDown("shift")
        /\ ~charRead => ctrl = IsDown("ctrl")

(* Keys read as events are the keys typed, in order, each with its prefix, *)
(* though bytes of the mouse come in between and a prefix may be read by   *)
(* an earlier call than its code.                                          *)
EventsAreKeys ==
    ~met /\ ~charRead => /\ Len(keys) <= Len(Typing)
                         /\ \A i \in DOMAIN keys : keys[i] = Typing[i]

(* Packets are whole and in order, however keys and characters are read in *)
(* between: each is three bytes of one motion, from its first.  None is    *)
(* lost but those that overflowed or fell out of a full queue.             *)
PacketsAreMotions ==
    ~met =>
        LET out == mice \o packets
        IN  /\ \A i \in DOMAIN out : \A n \in 1 .. 3 : out[i][n] = <<out[i][1][1], n - 1>>
            /\ \A i \in 2 .. Len(out) : out[i - 1][1][1] < out[i][1][1]
            /\ PortQuiet /\ ~lostPackets =>
                  \A m \in 1 .. moved \div 3 : Motions[m] \/ \E i \in DOMAIN out : out[i][1][1] = m

(* Keys, modifiers and mouse packets are what was typed and moved, however *)
(* the bytes interleave.                                                   *)
PortSound == Ps2TypeOK /\ ModifiersSettle /\ EventsAreKeys /\ PacketsAreMotions
=============================================================================
