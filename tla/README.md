# Verification of vkernel

TLA+ models of vkernel, an x86_64 UEFI kernel in C++ (`src/`), model-checked
with TLC on small instances and, where it matters most, proved with TLAPS for
every value of the constants.

## The system

| Part | State | Operations | Who runs it |
|---|---|---|---|
| Scheduler (`core/scheduler.cpp`) | task table, current task and yield flag of each CPU, tick count | create, start, preempt, yield, sleep, wait, terminate, exit, replace context, detach | every CPU, from tasks and from timer interrupts, under `g_sched_lock` |
| Exceptions, log, panic (`arch_init.cpp`, `log.cpp`, `panic.cpp`, `spinlock.h`) | two locks, interrupt flag and nesting of each CPU | log a line, fault, fault again, NMI, panic | every CPU, at any instruction |
| SMP bring-up (`arch/x86_64/smp.cpp`) | table of CPUs, one trampoline mailbox | enumerate, start each AP in turn, give one up | the boot CPU and each AP |
| Processes (`core/process.cpp`) | process contexts, the page tables each CPU has loaded | run, exec, exit, fault, cleanup | tasks, preempt's tail, exception handlers; not under a lock |
| Physical pages (`core/memory.cpp`) | list of regions from a fixed pool of nodes, page counters | init, allocate_pages, free_pages | everything, under one lock |
| Kernel heap (`core/memory.cpp`) | list of blocks, expansion flag | allocate, allocate aligned, free, expand | everything, under one lock that is released while it expands |
| Process memory (`core/virtual_memory.cpp`, `core/kernel_api.cpp`) | page tables, allocation list, break, mappings, shared buffers | load, malloc, free, brk, mmap, share, cleanup | the process, its compositor and its cleanup |
| Event queues (`core/kernel_api.cpp`) | a ring of events per process and kind | send, poll, turn off and on | a sender and the process, without a lock |
| File streams (`core/fs.cpp`) | table of 64 streams | open, read, write, seek, truncate, close, close all of a task | tasks, without a lock |
| FAT32 (`fs/fat32.cpp`) | FAT, directories, cached FAT sectors, free count | write, remove, read, list, allocate and free clusters | tasks |
| Mounting (`fs/mounts.cpp`) | the volume that is mounted | search GPT, MBR and raw disks | boot |
| Block layer, virtio block (`core/block.cpp`, `drivers/virtio_blk.cpp`) | request ring, bounce buffer | read, write | tasks, under a lock, polling with a timeout |
| Network (`net/`, `drivers/virtio_net.cpp`) | transmit queue, ARP cache, rings | transmit, receive, resolve, ping | two background workers and a task |
| Sound (`core/sound.cpp`, `drivers/sound_ac97.cpp`) | mixer channels, descriptor ring | play, queue, stop, refill | tasks and one background worker |
| Input (`core/input.cpp`) | shift state, mouse packet, packet queue | poll keys, characters, packets | tasks, without a lock |
| Drivers (`core/driver.cpp`) | registries, pages of each driver | load, unload, admit a request | tasks, without a lock |
| Kernel objects (`core/kobj/`) | tree of nodes, settings | build, resolve, list, read, write, describe | tasks, without a lock |

What makes it hard: preemption at any instruction with interrupts on, CPUs that
are between releasing the scheduler lock and leaving a stack, tasks killed by
other tasks while they run or hold resources, tables that tasks share without a
lock, devices that answer late, and pools and rings at their limits.  The
correctness that matters: a task runs on one CPU at a time and on its own page
tables; every context is freed once, by someone, and not while in use; nobody is
starved and every wait ends; memory is never handed out twice and never lost;
what a device, a queue or a disk gives back is what was put in.

PROJECT.json lists every part, modelled or not, and each hazard at its line.

## Modules

`Scheduler` models `scheduler.cpp`.  A critical section of `g_sched_lock` is one
action.  The tail of `preempt` after the unlock is a step of its own (`pc =
"switch"`), since the CPU still executes on the old task's stack there; so is the
window in `yield` between `sti` and `int 32` (`pending`).  The table `g_tasks` is
one variable per field; `wake` holds the ticks left, so that the tick count
itself is not a variable; `drift` compares it with the timer interrupts taken.
A task's code is a control state `tpc`; what it may call is the constant `Ops`.

`ProcessLifecycle` extends it with process contexts, the page tables each CPU
has loaded (`cr3`), and the paths that create and free contexts.  A cleanup
called from a task can be preempted, so it is two actions; the one in `preempt`'s
tail and the one in the exception handler run with interrupts off and are part of
their handler's action.

`Exceptions` models `interrupt_dispatch` for everything but the timer, with the
spinlock, the lines of the log and `vk_panic`.  A CPU is at one of four levels
(task, interrupt, exception, nested exception), each with a place of its own.

`Smp` models the enumeration of the MADT and the start of each CPU through the
one mailbox, with startup IPIs that get lost and CPUs that come after they were
given up.

`PhysAlloc` models the page allocator in units of pages.  The list is a set of
regions, since it is always in address order.  `blocks`, what callers hold, is
what `free_pages` is called with.  `PageAllocator` is the abstract specification
of what an allocator promises: runs of pages that nobody else has, given back
whole.  `PhysAlloc` implements it under `blocks <- Listed`, the used regions of
the list.

`KernelHeap` models the block list with splitting, coalescing, aligned
allocation and expansion, in units of 16 bytes.  A critical section is one
action; an expansion is several, since the lock is released while pages are taken
from the physical allocator, which is the set `supply` here.

`ProcessMemory` models the page tables and allocations of one process over a
first-fit page allocator, with every step of an allocation that can fail, and a
compositor that lends the process a window buffer.

`EventQueue` models the key, mouse and framebuffer queues.  A step is one access
to the head, the tail or a slot, because sender and reader run on two CPUs; where
the code reads the tail twice, the compiler may do so or not.

`FileStreams` models the stream table.  `file_open` is three actions, because the
table has no lock.  The file system behind it is a map from paths to contents
that may fail.  `image` records what each stream should contain.

`Fat32` models the file system driver sector write by sector write, with I/O
errors and power losses between any two of them and readers that fill the FAT
cache meanwhile.  `Mounts` models the search for a volume, read by read.

`VirtioBlk` models transfers through `block.cpp` and the request ring: the lock,
the chunks of a transfer, the polling loop and its timeout.  The device
(`Fetch`, `Serve`) is external.  `Network` models both workers, a task that
pings, the ARP cache, the transmit queue and the transmit ring; the device
(`DeviceSends`, `Arrive`) is external.  `Sound` models the mixer on the AC'97
ring; since the controller goes on playing, the path that submits a window is
cut wherever it reads or writes the device.

`Drivers`, `KernelObjects` and `Ps2Input` model what tasks do to the registries,
the object tree and the PS/2 port without a lock; a step is what lies between two
accesses to what is shared.

Components that share no state are checked in one run: an `MC` module extends
them, and its variable `part` says which one a behaviour is about, while the
others keep an initial state.  `MCCpus` has Scheduler and Exceptions,
`MCScheduler` Scheduler and EventQueue, `MCProcessLifecycle` ProcessLifecycle and
ProcessMemory, `MCMemory` PhysAlloc and KernelHeap, `MCFiles` FileStreams, Fat32
and Mounts, `MCRings` VirtioBlk and Sound, `MCTables` FileStreams, Drivers,
KernelObjects and Ps2Input, `MCNetwork` Network and Smp.

Operators whose comment begins with "Mutant of" are faulty variants of the
definition that follows; each property is shown to fail when one of them takes
its place.

## Runs

| Run | Instance | Shows |
|---|---|---|
| scheduler | 2 CPUs, 3 slots, ids up to 4, sleeps of 1 tick; 2 CPUs, 2 faults, 1 panic, 2 lines | exclusive and recorded dispatch, honest clock, no idling over ready tasks; lines and reports apart, masked sections, no CPU waits for itself, CPUs go on, a panic gets its message out |
| scheduler_live | the same slots, with wait, create and exit; a ring of 3 slots, 4 events | ready tasks are dispatched, wait_for_task returns; events arrive once and in order |
| process | 2 CPUs, 3 slots, 3 contexts, with terminate; 8 pages, one process and a compositor | own live page tables, schedulable tasks are intact, contexts freed once and never orphaned; every page has one owner, what is mapped is what is owned, nothing is left behind |
| memory | 10 pages in 3 entries, 6 nodes; 2 threads, alignments 1 and 4, 11 more pages | the list matches the holders, exact counters, refinement of PageAllocator, full recovery; the heap's list is sorted, tiles its memory and matches its holders, one expander at a time and by enough, every allocation returns |
| files | 1 task, 1 file, lengths up to 3; 5 clusters, 2 FATs, 3 calls, 1 fault; up to 2 of 9 disks, 2 failed reads | streams hold what the calls made and reach the file; chains, names, counts and saved contents survive errors and power losses; the first usable volume is mounted, with a geometry inside it |
| rings | 2 callers, 3 sectors, chunks of 2, indices modulo 3, 1 timeout; 2 channels, 2 DMA buffers, 3 descriptors | transfers move the right data, requests stay apart, the lock comes back; what is heard is what was asked for, in order, and all of it |
| tables | 2 tasks and 2 streams; 2 loaders, a disk, 2 cards; 2 callers, 2 task slots; 2 readers | handles belong to one task; drivers account for their pages and admit only what they can serve; the tree is whole and answers as it lists; keys and packets are what was typed and moved |
| network | 3 peers, 2 stations, a cache of 2, a ring of 2 slots, 1 timeout; tables of up to 4 CPUs for 3 entries | latest ARP entries, a receiver that never waits for itself, ordered queue, reported frames are sent, pings return; CPUs with stacks and indices of their own, bring-up ends |
| heap_aligned | 1 thread, alignments 1, 2 and 4 | violated: after an aligned allocation, free does not merge with the free block before it |
| terminated_final | 4 slots | violated: a killed task that calls sleep is scheduled again |
| stack_owner | 4 slots | violated: a slot's stack is reused while preempt returns on it |
| process_space | exiting processes | violated: page tables are destroyed while loaded |

The four violated properties state what a comment of the code says; the findings
in PROJECT.json quote it.

Bounds.  Two CPUs and three slots (idle, and two more of which one can be
reused) are enough for every pair of CPUs to meet at one task and for a slot to
change hands; the fourth id is a task in a slot that another one left, which in
scheduler_live may be the slot a third task waits for.  A sleep of one tick
already separates waking from returning.  Three contexts allow an exec and a kill
at the same time.  Two faults are an exception within an exception, or one on
each CPU.  The memory map has page 0, two adjacent entries and a hole; six nodes
for three entries are enough to split and merge, and run out in each of the three
ways: a tail that goes to the caller, a fragment that is dropped, a region that is
passed over.  The boot heap of 12 units holds three blocks, so a block can have
neighbours on both sides, and there are pages below and above it; a request of 8
units does not fit beside another and makes the heap expand.  Chunks of 2 in
transfers of 3 give a full and a partial request; indices modulo 3 wrap within two
transfers.  A stream capacity of 2 doubles once for the 3 bytes a stream may have.
Five clusters with two FAT entries per sector hold two files with long names in a
directory that grows, and make files collide; one fault is an error or a power
loss at each write of three calls in turn.  The nine disks are the ways a disk can
be laid out that the search tells apart.  Three peers for two cache entries evict;
a transmit ring of two slots holds one frame, so that it is full and wraps at
every turn.

Conditions.  Some properties are stated up to an event, which a history variable
records; the property's comment and the hazards in PROJECT.json say why.

- `resurrected` (Scheduler): sleep overwrote a termination; terminated_final.
- `killed` (ProcessLifecycle): CleanedOnce and NoOrphan hold until a task calls
  terminate_task.  A terminate between a process's own cleanup and its exit_task
  frees the context a second time, and a killer that is killed never frees its
  victim's.
- `midLine`, and the cases of `Stuck` (Exceptions): a process that faults while it
  writes a line leaves the log lock taken; a CPU that waits for another's report
  with the log lock held, and an interrupt that logs between a panic's NMI and its
  message, wait for each other.
- `givenUp` (Smp): a CPU that comes late reads the mailbox of the next one.
- `exhausted` (PhysAlloc): PagesConserved and Recovers hold until the pool has no
  node for a split.
- `aligned` (KernelHeap): PlainCoalesced is HeapCoalesced until an aligned request
  is served; heap_aligned shows what happens after one.
- `torn`, `cuts`, `withdrawn` (ProcessMemory): a mapping failed part way, brk cut
  a record, the compositor took its buffer back.
- `crossed`, `dropped` (EventQueue): sender and reader met in a full queue, where
  both move the tail; a full queue dropped its oldest event.
- `damaged`, `op.tearing` (Fat32): an overwrite, or the growth of a directory, was
  cut short after it had freed clusters that are still referred to.
- `blkTimeouts` (VirtioBlk), `timeouts` (Network): a request timed out.  The next
  one then takes the late completion for its own.
- `overlapped`, `spoiled` (Drivers): two loads of one driver overlapped; a block
  device failed after its queue was set up.
- `initsOverlap`, `full`, `left` (KernelObjects): two tasks built the tree at once;
  a list was longer than its buffer; the task asked about ended during the call.
- `met`, `charRead`, `lostPackets` (Ps2Input): two readers met between status and
  data; a reader of characters took a key; the packet queue was full.

`MaxOpening` = 1 keeps calls of `file_open` from overlapping, since two that
overlap can get the same entry.  One task writes to a FAT volume at a time: the
driver takes no lock around its read, change and write of a FAT sector.

Fairness.

- Scheduler: timer interrupts keep firing on each CPU and handlers run to their
  end, which is weak fairness.  A task in the loop of yield, sleep, wait_for_task
  or exit_task executes its next instruction infinitely often if it is dispatched
  infinitely often: strong fairness per task, because timer interrupts take the
  CPU away in between.
- Exceptions, Smp: a CPU executes its next step; weak, since what others may log
  or start is bounded.
- KernelHeap: a thread inside the heap is preempted but never blocked.
- VirtioBlk, Network: the polling loops keep running and the device answers what
  it is sent, sooner or later than the timeout; a task that spins for `tx_lock`
  gets it in the end (strong fairness of `Submit`).
- Sound: the worker is scheduled and a controller that runs reaches the end of its
  buffer.

CHECK_DEADLOCK is off where a system comes to rest by itself: tasks that have
ended, requests that are used up, a machine whose CPUs are all started.

## Proofs

Every theorem is for every value of the constants, under the module's ASSUME.
Each rests on an invariant that is inductive, has been checked by TLC first, and
is stronger than the property, which by itself says too little about the states
in between.

`SchedulerProofs`, for any set of CPUs, table size and calls.  `DispatchInv`
(TypeOK and DispatchIsRecorded) is inductive; `DispatchCorrect` follows, since a
task recorded on one CPU cannot be recorded on another.  The step that needs care
is `PreemptDispatch`: the picked task is not the current task of another CPU
because that task is running, or bound to its CPU by affinity, or terminated.
`ClockCorrect` needs `ClockInv`: the tasks of the boot CPU that were preempted
inside yield (`Late`) are at most the drift, and drift and the other tasks
together at most the ids given out; so a task may become late, end or be replaced
without the clock running ahead.  `IdlesOnlyWhenNothingToDo` is an action
property that follows from the guard of the scan.

`ProcessLifecycleProofs` and `ProcessSpaceProofs`, for any number of contexts as
well.  `OwnInv` says who refers to a context (a task, a hand, preempt's tail) and
that these do not meet; `SchedulableLive` follows.  `SpaceInv` says which page
tables a CPU must have loaded at each place of its task, and what a cleanup that
was preempted will restore; `OwnSpace` follows.  `OwnersOfContexts` needs
`killed \/ Tidy`: until the first terminate, a context in hand is in one hand,
only exit and the exception handler terminate, and nothing is left for preempt's
tail.

`ExceptionsProofs`, for any number of CPUs.  `ExcInv` says of each CPU where each
of its levels can be, what an exception may have interrupted, and when a level has
a lock or has masked interrupts; a step of one CPU leaves what it says of the
others alone (`Apart`).  `SectionsHold` follows.

`HandoverProofs`, for the two places where one CPU hands something to another
without a lock.  The bring-up, for every table of CPUs: `SmpInv` has the table's
ids once each (TableSound), only the CPU whose turn it is between start and online
(InTurn), and what is recorded (Recorded), the last two until a CPU is given up;
`Bounded` has the sizes.  `CpusSeparate` follows.  The event queues, for any size
of the queue, any number of events and any set of silent keys: until `crossed`,
`EqInv` says what sender and process may still rely on of what they have read
(SenderOK, PollerOK), that the events which wait are the last ones sent, slot by
slot without remainders (WaitingOK), and that all others were delivered in order
or are silent (DeliveredOK, AccountedOK).  `EventsDelivered` follows.

`PhysAllocProofs`, for any memory map, pool size and requests.  ListMatchesBlocks
is inductive together with TypeOK; each block sits in a used region of its own, so
that blocks are disjoint and the refinement `AllocatorRefines` holds step by step.
`PagesCorrect` counts the pages that are held, rather than the free regions, which
absorbed tails and lost fragments distort; conservation needs that carving keeps
the pages of a region unless the pool ran out, and that a merge joins exactly the
regions it removes.  `Recovery` needs that free regions touch only at borders of
the map.

`VirtioBlkProofs`, for any number of callers, sectors, chunk size and wrap of the
indices.  `BlkInv` says how far the driver lags behind the device (exactly the
requests that timed out, plus the one that waits), that the lock is held from
first to last chunk, and, until a request times out, that the ring, the header,
the bounce buffer and the sectors agree with the chunk in progress.
`TransfersCorrect` and the action property `RequestsStayApart` follow.

`NetworkProofs`, for any number of peers and stations and any size of cache,
queue and ring.  `NetInv` has the cache's entries with CacheIsLatest, the queue
slot by slot without remainders, where each task can be and on which packet, and
the ring as the request of the task that holds the lock.  That the receiver never
waits needs that whom it answers is in the cache, which only it changes.
`NetworkSound` and the action property `SentIsOnWire` follow.

Only model-checked: the liveness properties (ReadyIsDispatched, WaitReturns,
CpusGoOn, PanicSpeaks, BringupEnds, NetReturns, LockReturned, SoundDrains and
RequestsEnd), which are out of the prover's reach, and the components below.

- Fat32 follows chains with recursive operators, with which the prover cannot
  work; what they compute would need induction over data.
- Mounts, FileStreams (StreamsSound), ProcessMemory, Sound and Ps2Input rest on
  powers and divisions, folds over sets, or sequences of sequences, about which
  the prover has no theorems to cite.
- KernelHeap, Drivers, KernelObjects and the stream table (HandlesOwned) have no
  proof yet.

## Not modelled

Text output, formatting, diagnostics and one-time hardware setup; the loaders of
executables, ACPI and PCI tables and the read-only ramfs.  The locks that
preempt's cleanup takes with interrupts off are not in ProcessLifecycle.  The
reason for each part is in PROJECT.json.
