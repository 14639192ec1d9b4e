----------------------------- MODULE FileStreams -----------------------------
(***************************************************************************)
(* Open files (src/core/fs.cpp): the table s_streams, which has no lock,   *)
(* and the calls of the tasks that use it.                                 *)
(*                                                                         *)
(* A writable stream is a copy of the file in kernel heap memory, written  *)
(* back as a whole when it is closed; a stream that is only read goes to   *)
(* the file system.  file_open has three steps: it finds a free entry,     *)
(* takes it, and reads the file.  The eof and error flags have no reader   *)
(* and are left out.                                                       *)
(***************************************************************************)
EXTENDS Integers, Sequences, FiniteSets, FiniteSetsExt

CONSTANTS
    Tasks, NoTask,
    Paths, NoPath, NoFile,
    MaxStreams,   \* MAX_STREAMS
    MinCapacity,  \* the 256 of ensure_capacity
    Junk,         \* what is in heap memory that was not written
    Files,        \* bound: what a file contains at first, NoFile included
    Inputs,       \* bound: what callers write
    MaxLength,    \* bound: positions and lengths
    MaxOpening    \* bound: tasks inside file_open at once

ASSUME StreamAssumption ==
    /\ {MaxStreams, MinCapacity, MaxLength, MaxOpening} \subseteq Nat \ {0}
    /\ NoTask \notin Tasks /\ NoPath \notin Paths
    /\ Junk \notin Nat
    /\ Inputs \subseteq Seq(Nat)

Modes == {"r", "r+", "w", "a"}   \* "w+" and "a+" differ from these in reading only
Handles == 1 .. MaxStreams

VARIABLES
    stream,     \* s_streams
    file,       \* the file system: contents by path, or NoFile
    pc, want,   \* a task in file_open: its step, and the path, mode and entry
    holds,      \* the handles each task got from file_open and did not close
    image       \* history: what each stream should contain

vars == <<stream, file, pc, want, holds, image>>

(* reset_stream *)
Closed == [inUse |-> FALSE, owner |-> NoTask, path |-> NoPath, mode |-> "r",
           buffer |-> <<>>, size |-> 0, position |-> 0, dirty |-> FALSE, direct |-> FALSE]
NoWant == [path |-> NoPath, mode |-> "r", entry |-> 0]

(* The buffer of a writable stream has room for what the stream contains   *)
(* (fs.cpp:217-251).                                                       *)
StreamTypeOK ==
    /\ \A h \in Handles :
        LET s == stream[h] IN
        /\ s.inUse \in BOOLEAN /\ s.dirty \in BOOLEAN /\ s.direct \in BOOLEAN
        /\ s.owner \in Tasks \cup {NoTask} /\ s.path \in Paths \cup {NoPath}
        /\ s.mode \in Modes
        /\ s.size \in Nat /\ s.position \in Nat
        /\ ~s.direct => s.size <= Len(s.buffer)
    /\ pc \in [Tasks -> {"idle", "claim", "load", "gone"}]
    /\ holds \in [Tasks -> SUBSET Handles]

Init ==
    /\ stream = [h \in Handles |-> Closed]
    /\ file \in [Paths -> Files]
    /\ pc = [t \in Tasks |-> "idle"]
    /\ want = [t \in Tasks |-> NoWant]
    /\ holds = [t \in Tasks |-> {}]
    /\ image = [h \in Handles |-> <<>>]

-----------------------------------------------------------------------------
(* file_open.                                                              *)

Opening == {t \in Tasks : pc[t] \in {"claim", "load"}}

(* The scan of the table stops at the first entry that is not in use.      *)
ScanTable(t, path, mode) ==
    LET unused == {h \in Handles : ~stream[h].inUse}
    IN  /\ pc[t] = "idle"
        /\ Cardinality(Opening) < MaxOpening
        /\ unused # {}
        /\ pc' = [pc EXCEPT ![t] = "claim"]
        /\ want' = [want EXCEPT ![t] = [path |-> path, mode |-> mode, entry |-> Min(unused)]]
        /\ UNCHANGED <<stream, file, holds, image>>

(* Mutant of Claim: the entry is not marked.                               *)
ClaimUnmarked(t) ==
    /\ pc[t] = "claim"
    /\ stream' = [stream EXCEPT ![want[t].entry] =
            [Closed EXCEPT !.owner = t, !.path = want[t].path, !.mode = want[t].mode]]
    /\ pc' = [pc EXCEPT ![t] = "load"]
    /\ UNCHANGED <<file, want, holds, image>>

Claim(t) ==
    /\ pc[t] = "claim"
    /\ stream' = [stream EXCEPT ![want[t].entry] =
            [Closed EXCEPT !.inUse = TRUE, !.owner = t,
                           !.path = want[t].path, !.mode = want[t].mode]]
    /\ pc' = [pc EXCEPT ![t] = "load"]
    /\ UNCHANGED <<file, want, holds, image>>

(* What the file system returns for its path: a file that cannot be read   *)
(* looks like one that does not exist.                                     *)
Seen(t) == IF pc[t] = "load" THEN {file[want[t].path], NoFile} ELSE {}

Opens(found, mode) == found # NoFile \/ mode \in {"w", "a"}

(* The contents a stream starts with; the buffer has exactly that size.    *)
Loaded(found, mode) == IF mode = "w" \/ found = NoFile THEN <<>> ELSE found

(* The rest of file_open; a missing file, a path too long for the entry or *)
(* a heap without memory makes it fail, and the entry is reset.            *)
Load(t, found) ==
    LET h == want[t].entry
        mode == want[t].mode
        bytes == Loaded(found, mode)
    IN  /\ pc[t] = "load"
        /\ \/ /\ Opens(found, mode)
              /\ stream' = [stream EXCEPT ![h] = [@ EXCEPT
                        !.buffer = IF mode = "r" THEN <<>> ELSE bytes,
                        !.size = Len(bytes),
                        !.position = IF mode = "a" THEN Len(bytes) ELSE 0,
                        !.direct = (mode = "r")]]
              /\ holds' = [holds EXCEPT ![t] = @ \cup {h}]
              /\ image' = [image EXCEPT ![h] = bytes]
           \/ /\ stream' = [stream EXCEPT ![h] = Closed]
              /\ UNCHANGED <<holds, image>>
        /\ pc' = [pc EXCEPT ![t] = "idle"]
        /\ want' = [want EXCEPT ![t] = NoWant]
        /\ UNCHANGED file

-----------------------------------------------------------------------------
(* Calls on a handle.                                                      *)

(* handle_from_id *)
Accessible(t, h) == stream[h].inUse /\ stream[h].owner \in {t, NoTask}

Calls(t, h) == pc[t] = "idle" /\ h \in holds[t] /\ Accessible(t, h)
Writable(h) == stream[h].mode # "r"

(* ensure_capacity, when the heap has memory: the capacity doubles, and    *)
(* what was not written before is junk.                                    *)
Capacity(c, required) ==
    IF required <= c THEN c
    ELSE Min({n \in {(IF c > 0 THEN c ELSE MinCapacity) * 2 ^ k : k \in 0 .. MaxLength} :
                n >= required})

Ensured(s, required) ==
    IF required <= Len(s.buffer) THEN s
    ELSE [s EXCEPT !.buffer = [i \in 1 .. Capacity(Len(s.buffer), required) |->
                                  IF i <= s.size THEN s.buffer[i] ELSE Junk]]

Zeroed(s, first, last) ==
    [s EXCEPT !.buffer = [i \in DOMAIN @ |-> IF i \in first + 1 .. last THEN 0 ELSE @[i]]]

(* Mutant of Extended: the gap is not cleared.                             *)
ExtendedJunk(s) ==
    IF s.position <= s.size THEN s
    ELSE [Ensured(s, s.position) EXCEPT !.size = s.position]

(* The gap up to the position becomes part of the file.                    *)
Extended(s) ==
    IF s.position <= s.size THEN s
    ELSE [Zeroed(Ensured(s, s.position), s.size, s.position) EXCEPT !.size = s.position]

Stored(s, bytes) ==
    LET e == Ensured(s, s.position + Len(bytes))
        end == s.position + Len(bytes)
    IN  [e EXCEPT !.buffer = [i \in DOMAIN @ |->
                        IF i - s.position \in DOMAIN bytes THEN bytes[i - s.position] ELSE @[i]],
                  !.position = end,
                  !.size = IF end > @ THEN end ELSE @,
                  !.dirty = TRUE]

AtEnd(s) == IF s.mode = "a" THEN [s EXCEPT !.position = s.size] ELSE s

(* What a file contains after n bytes of it are kept or zeros added, and   *)
(* after a write at a position.                                            *)
Resized(c, n) == [i \in 1 .. n |-> IF i <= Len(c) THEN c[i] ELSE 0]
Overwritten(c, start, bytes) ==
    LET n == Max({Len(c), start + Len(bytes)})
    IN  [i \in 1 .. n |-> IF i - start \in DOMAIN bytes THEN bytes[i - start] ELSE Resized(c, n)[i]]

Write(t, h, bytes) ==
    LET s == AtEnd(stream[h])
    IN  /\ Calls(t, h) /\ Writable(h)
        /\ s.position + Len(bytes) <= MaxLength
        /\ stream' = [stream EXCEPT ![h] = Stored(Extended(s), bytes)]
        /\ image' = [image EXCEPT ![h] = Overwritten(@, s.position, bytes)]
        /\ UNCHANGED <<file, pc, want, holds>>

(* The heap has no memory: the first ensure_capacity fails, or only the    *)
(* second does and the gap was added.                                      *)
WriteFails(t, h, bytes) ==
    LET s == AtEnd(stream[h])
        e == Extended(s)
    IN  /\ Calls(t, h) /\ Writable(h)
        /\ s.position + Len(bytes) <= MaxLength
        /\ \/ /\ s.position > Len(s.buffer)
              /\ stream' = [stream EXCEPT ![h] = s]
              /\ UNCHANGED image
           \/ /\ s.position + Len(bytes) > Len(e.buffer)
              /\ stream' = [stream EXCEPT ![h] = e]
              /\ image' = [image EXCEPT ![h] = Resized(@, e.size)]
        /\ UNCHANGED <<file, pc, want, holds>>

Read(t, h, n) ==
    /\ Calls(t, h)
    /\ stream[h].mode \in {"r", "r+"}
    /\ stream[h].position < stream[h].size
    /\ stream' = [stream EXCEPT ![h].position = Min({@ + n, stream[h].size})]
    /\ UNCHANGED <<file, pc, want, holds, image>>

(* file_seek, whatever the base, to an absolute position.                  *)
Seek(t, h, position) ==
    /\ Calls(t, h)
    /\ stream' = [stream EXCEPT ![h].position = position]
    /\ UNCHANGED <<file, pc, want, holds, image>>

(* file_truncate; if the heap has no memory it changes nothing.            *)
Truncate(t, h, length) ==
    LET s == stream[h]
        e == IF length > s.size THEN Zeroed(Ensured(s, length), s.size, length) ELSE s
    IN  /\ Calls(t, h) /\ Writable(h)
        /\ stream' = [stream EXCEPT ![h] = [e EXCEPT
                !.size = length, !.position = Min({@, length}), !.dirty = TRUE]]
        /\ image' = [image EXCEPT ![h] = Resized(@, length)]
        /\ UNCHANGED <<file, pc, want, holds>>

-----------------------------------------------------------------------------
(* Closing and removing.                                                   *)

Contents(s) == SubSeq(s.buffer, 1, s.size)

(* Mutant of Flushed: the whole buffer is written.                         *)
FlushedBuffer(h) ==
    IF stream[h].dirty THEN [file EXCEPT ![stream[h].path] = stream[h].buffer] ELSE file

(* close_stream, when the file system can write the file.                  *)
Flushed(h) ==
    IF stream[h].dirty THEN [file EXCEPT ![stream[h].path] = Contents(stream[h])] ELSE file

Close(t, h) ==
    /\ Calls(t, h)
    /\ file' = Flushed(h)
    /\ stream' = [stream EXCEPT ![h] = Closed]
    /\ holds' = [holds EXCEPT ![t] = @ \ {h}]
    /\ image' = [image EXCEPT ![h] = <<>>]
    /\ UNCHANGED <<pc, want>>

(* The file system fails: the stream stays open, as it is.                 *)
CloseFails(t, h) ==
    /\ Calls(t, h)
    /\ stream[h].dirty
    /\ UNCHANGED vars

StreamRemove(t, path) ==
    /\ pc[t] = "idle"
    /\ file[path] # NoFile
    /\ file' = [file EXCEPT ![path] = NoFile]
    /\ UNCHANGED <<stream, pc, want, holds, image>>

(* close_all_for_task: the entries of a task that ends, from the first to  *)
(* the last.  A file that cannot be written is given up.                   *)
Owned(t) == {h \in Handles : stream[h].inUse /\ stream[h].owner = t}

Exit(t) ==
    /\ pc[t] # "gone"
    /\ \E written \in SUBSET {h \in Owned(t) : stream[h].dirty} :
        file' = [p \in Paths |->
            LET last == {h \in written : stream[h].path = p}
            IN  IF last = {} THEN file[p] ELSE Contents(stream[Max(last)])]
    /\ stream' = [h \in Handles |-> IF h \in Owned(t) THEN Closed ELSE stream[h]]
    /\ image' = [h \in Handles |-> IF h \in Owned(t) THEN <<>> ELSE image[h]]
    /\ holds' = [holds EXCEPT ![t] = {}]
    /\ want' = [want EXCEPT ![t] = NoWant]
    /\ pc' = [pc EXCEPT ![t] = "gone"]

Next ==
    \E t \in Tasks :
        \/ \E path \in Paths :
            \/ \E mode \in Modes : ScanTable(t, path, mode)
            \/ StreamRemove(t, path)
        \/ Claim(t)
        \/ \E found \in Seen(t) : Load(t, found)
        \/ \E h \in Handles :
            \/ \E bytes \in Inputs : Write(t, h, bytes) \/ WriteFails(t, h, bytes)
            \/ \E n \in 0 .. MaxLength : Read(t, h, n) \/ Seek(t, h, n) \/ Truncate(t, h, n)
            \/ Close(t, h) \/ CloseFails(t, h)
        \/ Exit(t)

Spec == Init /\ [][Next]_vars

-----------------------------------------------------------------------------
(* Properties.                                                             *)

(* A writable stream contains exactly what the calls on it made: gaps read *)
(* as zeros, and neither junk of a grown buffer nor bytes cut off by an    *)
(* earlier truncate come back (fs.cpp:217-251, 700-814).                   *)
ContentsMatch ==
    \A t \in Tasks : \A h \in holds[t] : Writable(h) => Contents(stream[h]) = image[h]

(* A handle a task holds is an entry in use that belongs to that task, and *)
(* no other task has it, when calls of file_open do not overlap            *)
(* (fs.cpp:253-267, 535-541).                                              *)
HandlesDistinct ==
    /\ \A t \in Tasks : \A h \in holds[t] : stream[h].inUse /\ stream[h].owner = t
    /\ \A t, u \in Tasks : t # u => holds[t] \cap holds[u] = {}

(* What a task wrote leaves the table only for the file, unless the task   *)
(* itself ended (fs.cpp:343-366, 639-662).                                 *)
DirtyNotDropped ==
    [][\A h \in Handles : stream[h].dirty /\ ~stream'[h].dirty =>
        \/ file'[stream[h].path] = image[h]
        \/ pc'[stream[h].owner] = "gone"]_vars

(* A task that ended has no entry left in the table, wherever in file_open *)
(* it was (fs.cpp:639-662).                                                *)
NothingLeaks == \A t \in Tasks : pc[t] = "gone" => Owned(t) = {}

(* The buffer of a stream has room for what the stream contains, which is  *)
(* what its calls made.                                                    *)
StreamsSound == StreamTypeOK /\ ContentsMatch

(* An entry of the table belongs to one task, and to none once the task    *)
(* has ended.                                                              *)
HandlesOwned == HandlesDistinct /\ NothingLeaks
=============================================================================
