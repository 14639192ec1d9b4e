----------------------------- MODULE EventQueue -----------------------------
(***************************************************************************)
(* The event queues of a process (key_queue, mouse_queue and               *)
(* framebuffer_event_queue of process_task_context, used by                *)
(* src/core/kernel_api.cpp): the compositor's task sends, the process      *)
(* polls, on two CPUs and without a lock.  The three queues work alike;    *)
(* `queueKind` says which one it is.  Only the framebuffer queue can be    *)
(* turned off and on, and only keys are read as characters, which passes   *)
(* over the silent ones.                                                   *)
(*                                                                         *)
(* A step is an access to head, tail or a slot.  Where the code reads the  *)
(* tail twice, the compiler may do so or keep the first value.             *)
(***************************************************************************)
EXTENDS Integers, Sequences

CONSTANTS
    QueueSize,   \* KEY_QUEUE_SIZE and its like
    MaxEvents,   \* bound: events sent
    MaxPolls,    \* bound: events delivered
    MaxToggles,  \* bound: calls of set_framebuffer_resize_events
    Silent       \* key events that are no character: releases, for one

ASSUME EventQueueAssumption ==
    QueueSize \in Nat \ {0, 1} /\ MaxEvents \in Nat /\ Silent \subseteq Nat

VARIABLES
    queueKind,           \* "key", "mouse" or "fb"
    slots, eqHead, eqTail, \* the ring; an event is its number
    enabled,             \* framebuffer_resize_events_enabled
    sendPc, sendHead, sendTail, \* the sender's place and what it has read
    pollPc, pollTail, polled,   \* the same of the process
    sent,     \* events so far
    delivered, \* history: events delivered
    toggles,  \* so far
    since,    \* history: events sent before the queue was last emptied
    dropped,  \* history: the queue was full
    crossed   \* history: a sender emptied a slot, or a toggle the queue, while
              \* the other side was inside

eqVars == <<queueKind, slots, eqHead, eqTail, enabled, sendPc, sendHead, sendTail,
            pollPc, pollTail, polled, sent, delivered, toggles, since, dropped, crossed>>
senderVars == <<sendPc, sendHead, sendTail, sent>>
pollerVars == <<pollPc, pollTail, polled, delivered>>
toggleVars == <<enabled, toggles, since>>

EqSlots == 0 .. QueueSize - 1

After(i) == (i + 1) % QueueSize

-----------------------------------------------------------------------------
(* stub_send_key, stub_send_mouse, enqueue_framebuffer_event *)

Full(h, t) == After(h) = t

Send ==
    /\ sendPc = "idle" /\ sent < MaxEvents
    /\ enabled
    /\ sendHead' = eqHead /\ sendTail' = eqTail
    /\ sendPc' = IF Full(eqHead, eqTail) THEN "drop" ELSE "store"
    /\ dropped' = (dropped \/ Full(eqHead, eqTail))
    /\ crossed' = (crossed \/ (Full(eqHead, eqTail) /\ pollPc # "idle"))
    /\ UNCHANGED <<queueKind, slots, eqHead, eqTail, sent, pollerVars, toggleVars>>

(* A full queue loses its oldest event.                                    *)
Drop ==
    /\ sendPc = "drop"
    /\ \E t \in {sendTail, eqTail} : eqTail' = After(t)
    /\ sendPc' = "store"
    /\ UNCHANGED <<queueKind, slots, eqHead, sendHead, sendTail, sent, pollerVars, toggleVars, dropped, crossed>>

Store ==
    /\ sendPc = "store"
    /\ slots' = [slots EXCEPT ![sendHead] = sent + 1]
    /\ sendPc' = "publish"
    /\ UNCHANGED <<queueKind, eqHead, eqTail, sendHead, sendTail, sent, pollerVars, toggleVars, dropped, crossed>>

Publish ==
    /\ sendPc = "publish"
    /\ eqHead' = After(sendHead)
    /\ sent' = sent + 1
    /\ sendPc' = "idle" /\ sendHead' = 0 /\ sendTail' = 0
    /\ UNCHANGED <<queueKind, slots, eqTail, pollerVars, toggleVars, dropped, crossed>>

-----------------------------------------------------------------------------
(* route_poll_key, stub_poll_mouse, stub_poll_framebuffer_event and, when  *)
(* the caller wants a character, dequeue_ascii_key.                        *)

IdlePoll == pollTail' = 0 /\ polled' = 0

Check(mode) ==
    /\ pollPc = "idle" /\ Len(delivered) < MaxPolls
    /\ mode = "char" => queueKind = "key"
    /\ enabled /\ eqHead # eqTail
    /\ pollPc' = mode
    /\ crossed' = (crossed \/ sendPc = "drop")
    /\ UNCHANGED <<queueKind, slots, eqHead, eqTail, senderVars, pollTail, polled, delivered, toggleVars, dropped>>

Take ==
    /\ pollPc \in {"event", "char"}
    /\ polled' = slots[eqTail] /\ pollTail' = eqTail
    /\ pollPc' = IF pollPc = "char" THEN "charNext" ELSE "next"
    /\ UNCHANGED <<queueKind, slots, eqHead, eqTail, senderVars, delivered, toggleVars, dropped, crossed>>

(* The tail moves on.  A silent key is passed over, and the loop of        *)
(* dequeue_ascii_key looks at the queue again.                             *)
EqAdvance ==
    /\ pollPc \in {"next", "charNext"}
    /\ \E t \in {pollTail, eqTail} : eqTail' = After(t)
    /\ LET skip == pollPc = "charNext" /\ polled \in Silent
       IN  /\ delivered' = IF skip THEN delivered ELSE Append(delivered, polled)
           /\ pollPc' = IF skip THEN "again" ELSE "idle"
    /\ IdlePoll
    /\ UNCHANGED <<queueKind, slots, eqHead, senderVars, toggleVars, dropped, crossed>>

Again ==
    /\ pollPc = "again"
    /\ pollPc' = IF eqHead # eqTail THEN "char" ELSE "idle"
    /\ crossed' = (crossed \/ (sendPc = "drop" /\ eqHead # eqTail))
    /\ UNCHANGED <<queueKind, slots, eqHead, eqTail, senderVars, pollTail, polled, delivered, toggleVars, dropped>>

(* Mutant of Toggle: the tail is left where it is.                         *)
ToggleHead ==
    /\ queueKind = "fb" /\ pollPc = "idle" /\ toggles < MaxToggles
    /\ enabled' = ~enabled /\ toggles' = toggles + 1
    /\ IF enabled THEN eqHead' = 0 /\ UNCHANGED eqTail /\ since' = sent ELSE UNCHANGED <<eqHead, eqTail, since>>
    /\ crossed' = (crossed \/ sendPc # "idle")
    /\ UNCHANGED <<queueKind, slots, senderVars, pollerVars, dropped>>

(* stub_set_framebuffer_resize_events, by the process.                     *)
Toggle ==
    /\ queueKind = "fb" /\ pollPc = "idle" /\ toggles < MaxToggles
    /\ enabled' = ~enabled /\ toggles' = toggles + 1
    /\ IF enabled THEN eqHead' = 0 /\ eqTail' = 0 /\ since' = sent ELSE UNCHANGED <<eqHead, eqTail, since>>
    /\ crossed' = (crossed \/ sendPc # "idle")
    /\ UNCHANGED <<queueKind, slots, senderVars, pollerVars, dropped>>

EqInit ==
    /\ queueKind \in {"key", "mouse", "fb"}
    /\ slots = [i \in EqSlots |-> 0] /\ eqHead = 0 /\ eqTail = 0
    /\ enabled = (queueKind # "fb")
    /\ sendPc = "idle" /\ sendHead = 0 /\ sendTail = 0
    /\ pollPc = "idle" /\ pollTail = 0 /\ polled = 0
    /\ sent = 0 /\ delivered = <<>> /\ toggles = 0 /\ since = 0
    /\ dropped = FALSE /\ crossed = FALSE

EqNext ==
    \/ Send \/ Drop \/ Store \/ Publish
    \/ \E m \in {"event", "char"} : Check(m)
    \/ Take \/ EqAdvance \/ Again \/ Toggle

EqSpec == EqInit /\ [][EqNext]_eqVars
-----------------------------------------------------------------------------
EqTypeOK ==
    /\ eqHead \in EqSlots /\ eqTail \in EqSlots
    /\ slots \in [EqSlots -> 0 .. MaxEvents]
    /\ delivered \in Seq(0 .. MaxEvents)
    /\ sent \in 0 .. MaxEvents

(* Events between tail and head, oldest first.                             *)
Pending == [i \in 1 .. (eqHead - eqTail) % QueueSize |-> slots[(eqTail + i - 1) % QueueSize]]

(* What is delivered was sent, in the order it was sent and once, while    *)
(* sender and process run at the same time: as long as they do not meet in *)
(* a full queue, where both move the tail.                                 *)
EventsInOrder ==
    ~crossed =>
        /\ \A i \in DOMAIN delivered : delivered[i] \in 1 .. sent
        /\ \A i \in 2 .. Len(delivered) : delivered[i - 1] < delivered[i]

(* Nothing is lost but what a full queue drops: every event that was sent  *)
(* was delivered, is waiting, or was a silent one read past.  After the    *)
(* queue was emptied this is about the events since, and none of the       *)
(* earlier ones shows up again.                                            *)
NothingLost ==
    ~crossed =>
        /\ sendPc = "idle" /\ pollPc \in {"idle", "again"} =>
              \A i \in DOMAIN Pending : Pending[i] = sent - Len(Pending) + i /\ Pending[i] > since
        /\ sendPc = "idle" /\ pollPc \in {"idle", "again"} /\ ~dropped =>
              \A e \in since + 1 .. sent :
                 \/ \E i \in DOMAIN delivered : delivered[i] = e
                 \/ \E i \in DOMAIN Pending : Pending[i] = e
                 \/ e \in Silent /\ queueKind = "key"

(* Events are delivered in order, once, and none is lost but by a full     *)
(* queue.                                                                  *)
EventsSound == EqTypeOK /\ EventsInOrder /\ NothingLost
=============================================================================
