-------------------------------- MODULE Sound --------------------------------
(***************************************************************************)
(* The mixer (src/core/sound.cpp) on the AC'97 driver                      *)
(* (src/drivers/sound_ac97.cpp).                                           *)
(*                                                                         *)
(* Everything runs under s_sound_lock, so a call is one action, but the    *)
(* device goes on playing in the meantime.  The path that submits a window *)
(* is therefore cut wherever it reads or writes the device: "update" (test *)
(* what is buffered), "refresh" (ac97_play looks at the device), "queue"   *)
(* (the descriptor is written), "after" (test again), "tail" (the worker   *)
(* asks whether anything plays).                                           *)
(*                                                                         *)
(* A segment is its number of source units, the position in it, and its    *)
(* rate; what it sounds like and how loud is left out.  A window is known  *)
(* by its number, modulo Windows.  The watchdog's clock is left out: it    *)
(* may expire whenever it is armed.                                        *)
(***************************************************************************)
EXTENDS Integers, Sequences, FiniteSets, FiniteSetsExt, Functions

CONSTANTS
    Channels,         \* 1 .. MIX_CHANNELS
    PendingCapacity,  \* MIX_QUEUE_CAPACITY
    OutputRate,       \* MIX_OUTPUT_RATE
    WindowFrames,     \* MIX_WINDOW_FRAMES
    TargetFrames,     \* MIX_TARGET_BUFFERED_FRAMES
    DmaSlots,         \* 1 .. STREAM_BUFFER_COUNT
    Descriptors,      \* BDL_COUNT
    Totals, Rates,    \* lengths and rates of the segments that are played
    Windows,          \* windows are numbered modulo this
    MaxSoundCalls,    \* bound: calls other than the worker's
    MaxFaulty,        \* bound: FIFO errors and expired watchdogs
    Nothing

ASSUME SoundAssumption ==
    /\ {PendingCapacity, OutputRate, WindowFrames, TargetFrames, Descriptors} \subseteq Nat \ {0}
    /\ IsFiniteSet(DmaSlots) /\ Windows > Cardinality(DmaSlots) + 1
    /\ Descriptors > Cardinality(DmaSlots)
    /\ Totals \subseteq Nat \ {0} /\ Rates \subseteq Nat \ {0}

VARIABLES
    channel,      \* s_mix_ch
    up,           \* s_active is set and s_initialised
    pages,        \* what the driver has allocated: its list (0) and its buffers
    playing,      \* s_playing
    qHead, qTail, qCount, \* the queue of descriptors
    bdl, frames,  \* s_desc_buffer and s_desc_frames
    queuedFrames, \* s_queued_frames
    inUse,        \* s_dma_in_use: the slots that are
    dma,          \* the window in each DMA buffer
    device,       \* the controller: run, halted, fifo, civ, lvi
    sndPc, doing, before, \* the submission that holds the lock, and buffered_before
    sndCalls, faulty, \* so far
    asked,        \* history: accepted segments of each channel that are not through
    window, expected \* history: number of the next window to submit, and to be heard

streamVars == <<playing, qHead, qTail, qCount, bdl, frames, queuedFrames, inUse>>
sndVars == <<channel, up, pages, streamVars, dma, device, sndPc, doing, before, sndCalls, faulty, asked,
             window, expected>>

-----------------------------------------------------------------------------
(* Segments and channels.                                                  *)

Segment(n, r) == [id |-> sndCalls, total |-> n, pos |-> 0, rate |-> r]
SilentChannel == [current |-> Nothing, pending |-> [i \in 0 .. PendingCapacity - 1 |-> Nothing],
                  head |-> 0, tail |-> 0, count |-> 0, active |-> FALSE]

(* activate_next_segment_locked *)
ActivateNext(ch) ==
    IF ch.count = 0 THEN [ch EXCEPT !.active = FALSE, !.current = Nothing]
    ELSE [ch EXCEPT !.current = ch.pending[ch.head], !.pending[ch.head] = Nothing,
                    !.head = (@ + 1) % PendingCapacity, !.count = @ - 1, !.active = TRUE]

(* refresh_channel_locked *)
RefreshChannel(ch) ==
    IF ch.active /\ ch.current.pos < ch.current.total THEN ch ELSE ActivateNext(ch)

(* enqueue_pending_segment_locked, when there is room *)
EnqueuePending(ch, s) ==
    [ch EXCEPT !.pending[ch.tail] = s, !.tail = (@ + 1) % PendingCapacity, !.count = @ + 1]

AnyActive == \E c \in Channels : channel[c].active

-----------------------------------------------------------------------------
(* The arithmetic of a window.                                             *)

Remaining(s) == s.total - s.pos

(* Mutant of FramesFor: rounds down.                                       *)
FramesForDown(n, rate) == (n * OutputRate) \div rate

(* Frames that n source units at this rate fill, rounded up, and the       *)
(* source units that so many frames advance.                               *)
FramesFor(n, rate) == (n * OutputRate + rate - 1) \div rate

Advance(out, rate, n) ==
    LET a == (out * rate) \div OutputRate IN IF a > n THEN n ELSE a

OutFrames ==
    LET longest == Max({0} \cup {FramesFor(Remaining(channel[c].current), channel[c].current.rate) :
                                 c \in {d \in Channels : channel[d].active}})
    IN  IF longest > WindowFrames THEN WindowFrames ELSE longest

(* The source units of segment s that a window of this length contains.    *)
Mixed(s, out) ==
    {i \in {s.pos + (f * s.rate) \div OutputRate : f \in 0 .. out - 1} : i < s.total}

(* The last loop of mix_do_submit_locked, for one channel.                 *)
Consumed(ch, out) ==
    IF ~ch.active THEN ch
    ELSE LET a == Advance(out, ch.current.rate, Remaining(ch.current))
         IN  RefreshChannel([ch EXCEPT !.current.pos = @ + a])

-----------------------------------------------------------------------------
(* The driver's view of the stream.                                        *)

Stopped == [run |-> FALSE, halted |-> FALSE, fifo |-> FALSE, civ |-> 0, lvi |-> 0]

(* ac97_reset_stream_state *)
ResetStream ==
    /\ playing' = FALSE
    /\ qHead' = 0 /\ qTail' = 0 /\ qCount' = 0
    /\ bdl' = [d \in 0 .. Descriptors - 1 |-> Nothing]
    /\ frames' = [d \in 0 .. Descriptors - 1 |-> 0]
    /\ queuedFrames' = 0
    /\ inUse' = {}

NextDescriptor(d) == (d + 1) % Descriptors
QueuedDescriptors == {(qHead + i) % Descriptors : i \in 0 .. qCount - 1}

(* The descriptors refresh releases: those before the current one, but     *)
(* never the last.                                                         *)
Released(civ) ==
    {d \in QueuedDescriptors :
        LET i == (d - qHead) % Descriptors
            to == (civ - qHead) % Descriptors
        IN  i < to /\ i < qCount - 1}

(* ac97_release_head_buffer, for each of the descriptors D at the head.    *)
Release(D) ==
    /\ qHead' = (qHead + Cardinality(D)) % Descriptors
    /\ qCount' = qCount - Cardinality(D)
    /\ inUse' = inUse \ {bdl[d] : d \in D}
    /\ queuedFrames' = Max({0, queuedFrames - SumFunctionOnSet(frames, D)})
    /\ bdl' = [d \in DOMAIN bdl |-> IF d \in D THEN Nothing ELSE bdl[d]]
    /\ frames' = [d \in DOMAIN frames |-> IF d \in D THEN 0 ELSE frames[d]]
    /\ UNCHANGED qTail

(* ac97_refresh_playback_state; the watchdog may have expired.             *)
Refresh ==
    \/ /\ ~playing
       /\ UNCHANGED <<streamVars, device, faulty>>
    \/ /\ playing /\ (device.fifo \/ device.halted)
       /\ Release(QueuedDescriptors)
       /\ playing' = FALSE
       /\ device' = [device EXCEPT !.run = FALSE, !.fifo = FALSE]
       /\ UNCHANGED faulty
    \/ /\ playing /\ ~device.fifo /\ ~device.halted
       /\ Release(Released(device.civ))
       /\ UNCHANGED <<playing, device, faulty>>
    \/ /\ playing /\ ~device.fifo /\ ~device.halted /\ faulty < MaxFaulty
       /\ ResetStream
       /\ device' = Stopped
       /\ faulty' = faulty + 1

(* ac97_stop: the channel is stopped, not reset.                           *)
Ac97Stop ==
    /\ ResetStream
    /\ device' = [device EXCEPT !.run = FALSE, !.fifo = FALSE]

SubmitEnds ==
    /\ sndPc' = IF doing = "worker" THEN "tail" ELSE "idle"
    /\ doing' = "worker" /\ before' = 0

(* mix_update_locked, the head of its loop.                                *)
UpdateTest ==
    /\ sndPc = "update"
    /\ Refresh
    /\ IF AnyActive /\ queuedFrames' < TargetFrames
       THEN sndPc' = "refresh" /\ before' = queuedFrames' /\ UNCHANGED doing
       ELSE SubmitEnds
    /\ UNCHANGED <<channel, up, pages, dma, sndCalls, asked, window, expected>>

(* Mutant of PlayRefresh: the channel is not reset before a new stream.    *)
PlayRefreshOnly ==
    /\ sndPc = "refresh" /\ sndPc' = "queue"
    /\ \/ Refresh /\ playing'
       \/ /\ ~playing \/ device.fifo \/ device.halted
          /\ ResetStream /\ UNCHANGED <<device, faulty>>
    /\ UNCHANGED <<channel, up, pages, dma, doing, before, sndCalls, asked, window, expected>>

(* ac97_play up to the choice of a buffer: the device is looked at, and    *)
(* reset if nothing plays.                                                 *)
PlayRefresh ==
    /\ sndPc = "refresh" /\ sndPc' = "queue"
    /\ \/ Refresh /\ playing'
       \/ /\ ~playing \/ device.fifo \/ device.halted
          /\ ResetStream /\ device' = Stopped /\ UNCHANGED faulty
       \/ playing /\ ~device.fifo /\ ~device.halted /\ Refresh /\ ~playing'
    /\ UNCHANGED <<channel, up, pages, dma, doing, before, sndCalls, asked, window, expected>>

(* The device takes a new last index; if it has halted it goes on.         *)
WriteLvi(d) ==
    IF ~playing THEN [device EXCEPT !.run = TRUE, !.lvi = d]
    ELSE IF device.run /\ device.halted
    THEN [device EXCEPT !.halted = FALSE, !.civ = NextDescriptor(@), !.lvi = d]
    ELSE [device EXCEPT !.lvi = d]

(* ac97_acquire_buffer_slot takes the first of these.                      *)
FreeSlots == DmaSlots \ inUse

(* The rest of ac97_play; and, in the mixer, the channels advance.         *)
PlayQueue ==
    /\ sndPc = "queue"
    /\ IF FreeSlots = {}
       THEN /\ SubmitEnds
            /\ UNCHANGED <<channel, streamVars, dma, device, asked, window, expected>>
       ELSE LET slot == Min(FreeSlots)
                n == IF doing = "raw" THEN 1 ELSE OutFrames
            IN  /\ dma' = [dma EXCEPT ![slot] = window]
                /\ bdl' = [bdl EXCEPT ![qTail] = slot]
                /\ frames' = [frames EXCEPT ![qTail] = n]
                /\ queuedFrames' = queuedFrames + n
                /\ qHead' = IF qCount = 0 THEN qTail ELSE qHead
                /\ qTail' = NextDescriptor(qTail) /\ qCount' = qCount + 1
                /\ inUse' = inUse \cup {slot}
                /\ device' = WriteLvi(qTail)
                /\ playing' = TRUE
                /\ window' = (window + 1) % Windows
                /\ expected' = IF playing THEN expected ELSE window
                /\ IF doing = "raw" THEN SubmitEnds /\ UNCHANGED <<channel, asked>>
                   ELSE /\ channel' = [c \in Channels |-> Consumed(channel[c], n)]
                        /\ asked' = [c \in Channels |->
                                IF channel[c].active /\ channel'[c].current # channel[c].current
                                   /\ (~channel'[c].active \/ channel'[c].current.id # channel[c].current.id)
                                THEN Tail(asked[c]) ELSE asked[c]]
                        /\ sndPc' = "after" /\ UNCHANGED <<before, doing>>
    /\ UNCHANGED <<up, pages, sndCalls, faulty>>

(* mix_update_locked: go on only if the submission added to what is        *)
(* buffered.                                                               *)
UpdateAfter ==
    /\ sndPc = "after"
    /\ Refresh
    /\ IF queuedFrames' <= before THEN SubmitEnds
       ELSE sndPc' = "update" /\ before' = 0 /\ UNCHANGED doing
    /\ UNCHANGED <<channel, up, pages, dma, sndCalls, asked, window, expected>>

(* background_sound_task *)
WorkerTick ==
    /\ sndPc = "idle" /\ up
    /\ sndPc' = IF AnyActive THEN "update" ELSE "tail"
    /\ UNCHANGED <<channel, up, pages, streamVars, dma, device, doing, before, sndCalls, faulty, asked,
                   window, expected>>

WorkerTail ==
    /\ sndPc = "tail" /\ sndPc' = "idle"
    /\ Refresh
    /\ UNCHANGED <<channel, up, pages, dma, doing, before, sndCalls, asked, window, expected>>

-----------------------------------------------------------------------------
(* Calls.                                                                  *)

Call ==
    /\ sndPc = "idle" /\ sndCalls < MaxSoundCalls
    /\ sndCalls' = sndCalls + 1
    /\ UNCHANGED <<before, window, expected, dma>>

MixPlay(c, s) ==
    /\ Call
    /\ channel' = [channel EXCEPT ![c] = [SilentChannel EXCEPT !.current = s, !.active = TRUE]]
    /\ asked' = [asked EXCEPT ![c] = <<s.id>>]
    /\ UNCHANGED <<up, pages, streamVars, device, sndPc, doing, faulty>>

MixQueuePlay(c, s) ==
    /\ Call
    /\ \/ /\ ~channel[c].active /\ channel[c].count = 0
          /\ channel' = [channel EXCEPT ![c].current = s, ![c].active = TRUE]
          /\ asked' = [asked EXCEPT ![c] = <<s.id>>]
       \/ /\ channel[c].active \/ channel[c].count # 0
          /\ channel[c].count < PendingCapacity
          /\ channel' = [channel EXCEPT ![c] = EnqueuePending(@, s)]
          /\ asked' = [asked EXCEPT ![c] = Append(@, s.id)]
       \/ /\ channel[c].count >= PendingCapacity
          /\ UNCHANGED <<channel, asked>>
    /\ UNCHANGED <<up, pages, streamVars, device, sndPc, doing, faulty>>

(* reset_mix_channel_locked of mix_stop, and of mix_stop_range for the     *)
(* channels it hits, then stop_driver_if_idle_locked.                      *)
MixStop(C) ==
    /\ Call
    /\ channel' = [c \in Channels |-> IF c \in C THEN SilentChannel ELSE channel[c]]
    /\ asked' = [c \in Channels |-> IF c \in C THEN <<>> ELSE asked[c]]
    /\ \/ /\ ~up \/ \E c \in Channels : channel'[c].active
          /\ UNCHANGED <<streamVars, device, faulty>>
       \/ /\ up /\ \A c \in Channels : ~channel'[c].active
          /\ playing /\ Refresh /\ playing'
       \/ /\ up /\ \A c \in Channels : ~channel'[c].active
          /\ ~playing \/ device.fifo \/ device.halted
          /\ Ac97Stop
          /\ UNCHANGED faulty
    /\ UNCHANGED <<up, pages, sndPc, doing>>

(* mix_update and play *)
Submitting(what) ==
    /\ Call /\ up
    /\ what = "update" => AnyActive
    /\ doing' = what
    /\ sndPc' = IF what = "raw" THEN "refresh" ELSE "update"
    /\ UNCHANGED <<channel, up, pages, streamVars, device, asked, faulty>>

(* stop *)
StopDriver ==
    /\ Call /\ up
    /\ Ac97Stop
    /\ UNCHANGED <<channel, up, pages, asked, sndPc, doing, faulty>>

(* shutdown_active, ac97_shutdown *)
ShutdownActive ==
    /\ Call /\ up
    /\ up' = FALSE
    /\ pages' = {}
    /\ Ac97Stop
    /\ channel' = [c \in Channels |-> SilentChannel]
    /\ asked' = [c \in Channels |-> <<>>]
    /\ UNCHANGED <<sndPc, doing, faulty>>

(* ac97_init cannot get its n-th allocation: the earlier ones go back.     *)
InitFailed(n) ==
    /\ pages' = {}
    /\ UNCHANGED <<up, streamVars>>

(* register_driver and init_active; ac97_init resets the controller.       *)
InitActive ==
    /\ Call /\ ~up
    /\ \/ up' = TRUE /\ pages' = {0} \cup DmaSlots /\ ResetStream
       \/ \E n \in {0} \cup DmaSlots : InitFailed(n)
    /\ device' = Stopped
    /\ UNCHANGED <<channel, asked, sndPc, doing, faulty>>

-----------------------------------------------------------------------------
(* The controller reaches the end of a buffer, or runs dry.                *)
BufferEnds ==
    /\ device.run /\ ~device.halted
    /\ device' = IF device.civ = device.lvi THEN [device EXCEPT !.halted = TRUE]
                 ELSE [device EXCEPT !.civ = NextDescriptor(@)]
    /\ expected' = (expected + 1) % Windows
    /\ UNCHANGED <<channel, up, pages, streamVars, dma, sndPc, doing, before, sndCalls, faulty, asked, window>>

FifoError ==
    /\ device.run /\ ~device.halted /\ ~device.fifo /\ faulty < MaxFaulty
    /\ device' = [device EXCEPT !.fifo = TRUE]
    /\ faulty' = faulty + 1
    /\ UNCHANGED <<channel, up, pages, streamVars, dma, sndPc, doing, before, sndCalls, asked, window, expected>>

-----------------------------------------------------------------------------
SoundInit ==
    /\ channel = [c \in Channels |-> SilentChannel]
    /\ up = TRUE /\ pages = {0} \cup DmaSlots /\ playing = FALSE
    /\ qHead = 0 /\ qTail = 0 /\ qCount = 0
    /\ bdl = [d \in 0 .. Descriptors - 1 |-> Nothing]
    /\ frames = [d \in 0 .. Descriptors - 1 |-> 0]
    /\ queuedFrames = 0 /\ inUse = {}
    /\ dma = [d \in DmaSlots |-> 0] /\ device = Stopped
    /\ sndPc = "idle" /\ doing = "worker" /\ before = 0
    /\ sndCalls = 0 /\ faulty = 0
    /\ asked = [c \in Channels |-> <<>>]
    /\ window = 0 /\ expected = 0

Worker == WorkerTick \/ UpdateTest \/ PlayRefresh \/ PlayQueue \/ UpdateAfter \/ WorkerTail

SoundNext ==
    \/ Worker \/ BufferEnds \/ FifoError
    \/ \E c \in Channels, n \in Totals, r \in Rates :
          MixPlay(c, Segment(n, r)) \/ MixQueuePlay(c, Segment(n, r))
    \/ \E C \in SUBSET Channels : MixStop(C)
    \/ \E what \in {"update", "raw"} : Submitting(what)
    \/ StopDriver \/ ShutdownActive \/ InitActive

(* The worker runs every tick and the controller plays what it is given.   *)
SoundFairness == WF_sndVars(Worker) /\ WF_sndVars(BufferEnds)
SoundSpec == SoundInit /\ [][SoundNext]_sndVars
SoundFairSpec == SoundSpec /\ SoundFairness

-----------------------------------------------------------------------------
(* The values of the variables.                                            *)
SoundTypeOK ==
    /\ \A c \in Channels : channel[c].count \in 0 .. PendingCapacity
    /\ bdl \in [0 .. Descriptors - 1 -> DmaSlots \cup {Nothing}]
    /\ {qHead, qTail, device.civ, device.lvi} \subseteq 0 .. Descriptors - 1
    /\ qCount \in 0 .. Cardinality(DmaSlots)
    /\ inUse \subseteq DmaSlots /\ dma \in [DmaSlots -> 0 .. Windows - 1]
    /\ queuedFrames \in 0 .. WindowFrames * Cardinality(DmaSlots)
    /\ sndPc \in {"idle", "update", "refresh", "queue", "after", "tail"}

(* Whatever the controller does between two looks at it, the buffer it     *)
(* plays is the next window that was submitted: none is skipped, repeated  *)
(* or overwritten while it can still be heard.                             *)
HeardInOrder ==
    (device.run /\ ~device.halted) =>
        /\ device.civ \in QueuedDescriptors
        /\ dma[bdl[device.civ]] = expected

(* The driver's books agree: a buffer is in use iff a queued descriptor    *)
(* names it, no two name the same, and the frames add up.                  *)
StreamBooks ==
    /\ inUse = {bdl[d] : d \in QueuedDescriptors}
    /\ Cardinality(inUse) = qCount
    /\ queuedFrames = SumFunctionOnSet(frames, QueuedDescriptors)

IdOf(s) == IF s = Nothing THEN Nothing ELSE s.id

(* A channel holds the accepted segments that have not been played         *)
(* through, in the order of the calls.                                     *)
SegmentsInOrder ==
    \A c \in Channels : LET ch == channel[c] IN
        asked[c] = IF ch.active
                   THEN <<ch.current.id>> \o
                        [i \in 1 .. ch.count |-> IdOf(ch.pending[(ch.head + i - 1) % PendingCapacity])]
                   ELSE <<>>

(* A source unit that a window advances over is in the window, unless the  *)
(* segment is faster than the output.                                      *)
ConsumedIsMixed ==
    (sndPc = "queue" /\ doing # "raw") =>
        \A c \in Channels : (channel[c].active /\ channel[c].current.rate <= OutputRate) =>
            LET s == channel[c].current IN
            s.pos .. s.pos + Advance(OutFrames, s.rate, Remaining(s)) - 1 \subseteq Mixed(s, OutFrames)

(* A driver that is not up holds no pages, however its init ended.         *)
PagesWhileUp == pages = IF up THEN {0} \cup DmaSlots ELSE {}

(* Every segment of a working driver is played to its end, and the driver  *)
(* notices that the controller has stopped.                                *)
SoundDrains == []<>(~up \/ (~AnyActive /\ ~playing))

(* What is heard is what was asked for, in that order, through the         *)
(* channels, the mixer and the ring; and the books of the ring agree.      *)
PlayedAsAsked ==
    SoundTypeOK /\ HeardInOrder /\ StreamBooks /\ SegmentsInOrder /\ ConsumedIsMixed /\ PagesWhileUp
=============================================================================
