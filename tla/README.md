# kobox in TLA+

kobox loads Linux kernel modules (`.ko` files) into an ordinary process. It
resolves their symbols against its own implementation of the kernel interfaces,
calls their init functions, and lets their drivers run over a device backend
(VFIO, a PachaOS capsule, sysfs or a mock). This directory specifies the parts of
kobox that keep state across calls, model-checks them with TLC, and proves some of
their properties with TLAPS. Paths below are relative to the repository root; `L`
is `src/linux_personality`, `S` is `src/linux_subsystem`.

## How the system runs

There is one OS thread. Kernel threads are contexts entered and left with
`setjmp`/`longjmp`, interrupts are counters that somebody polls, and deferred work
is run by whoever drains its list. So nothing is pre-empted: what interleaves is

- driver code called from inside kobox (probe, interrupt handlers, work callbacks,
  `end_io`, filesystem operations), which may call kobox again;
- the loops of kobox below such a call on the stack (a drain, a list walk, a
  flush, a wait loop), whose cursors and counters were read before the call;
- kernel threads, at the points where they yield or wait;
- the device, which completes, fails, delays or ignores what it was asked to do.

Most modules therefore keep an explicit stack of calls in progress, and their
actions are the stretches of code between two points where other code can run.

## Inventory

`PROJECT.json` lists every part with its sources, status and reason. In short:

| part | code | module |
|---|---|---|
| DMA mappings, scoped window | `S/dma/dma.c` | `DmaSubsystem`; proofs in `DmaSubsystemProofs` |
| deferred work, workqueues, timers, tasklets | `L/linux_work.c` | `DeferredWork`; proofs in `DeferredWorkProofs` |
| kernel threads | `L/linux_stubs.c` | `KThreads`; proofs in `WaitBits` |
| bit waits and wait queues | `L/linux_sync.c` | `WaitBits` (extends `KThreads`), with its proof |
| reader-writer semaphores | `L/linux_netdev.c` | `RwSem`, with its proof |
| RCU | `L/linux_sync.c` | `Rcu`, with its proof |
| page arena, kmalloc, caches, memory pools | `S/kvm/kvm_symbols.c`, `L/linux_stubs.c`, `L/linux_memory.c` | `Memory` |
| driver core | `L/linux_device.c` | `DriverCore` |
| interrupt registration and dispatch | `L/linux_irq.c` and the backends' `irq_*` | `Irq`, with its proof |
| interrupt vectors | `L/linux_pci.c`, `S/pci/pci.c` | `PciVectors` |
| driver binding, command register | `L/linux_pci.c` | `PciBinding` |
| register windows | `L/linux_pci.c` | `PciMmio` |
| NVMe requests, tags, completions | `L/linux_nvme.c`, `L/linux_block.c`, `S/block/block.c` | `NvmeIo` |
| splitting and merging of batches | `L/linux_nvme.c` | `NvmeBatch` |
| disks, staging, flush, FUA | `S/block/block.c`, `L/linux_block.c` | `DiskIo` |
| buffer heads and the bio queue | `S/fs/fs.c` | `BufferIo` |
| folio table, writeback, reclaim, truncation | `S/fs/fs.c` | `PageCache` |
| read-ahead | `S/fs/fs.c` | `ReadAhead` |
| writeback errors | `S/fs/fs.c` | `Errseq`, with its proof; abstractly `WbErrors` |
| file contents: cached, direct and mapped access | `S/fs/fs.c` | `FileData` |
| holes, extents, file positions | `S/fs/fs.c` | `FileExtents` |
| inodes, dentries, files | `S/fs/fs.c` | `VfsObjects` |
| filesystem types, mount, sync, unmount | `S/fs/fs.c` | `Mounts` |
| kernel object tables | `S/fs/kernel_object_registry.c` | `KernelObjects` |
| module loader | `src/loader/` | `ModuleLoader`, `ModuleImage` |
| USB devices, interfaces, SCSI hosts | `S/usb/usb.c`, `L/linux_usb.c`, `S/scsi/scsi.c` | `UsbDevices` (extends `UsbStorage`) |
| USB root hubs | `L/linux_usb.c`, `S/usb/port_state.c` | `UsbRootHub` |
| USB requests | `L/linux_usb.c`, `S/usb/usb.c` | `UsbUrb`, with its proof |
| USB mass storage | `S/usb/storage.c` | `UsbStorage` |
| SATA | `S/ata/ata.c` | `Ata` |
| network devices | `S/net/net_device.c` | `NetDevice` |
| input devices | `S/input/input.c` | `InputEvents` |

### Not modelled

- Pure functions: ELF parsing, descriptor and partition parsing, string, bitmap and
  tree helpers, identifier matching, frame formats. They keep no state; a model
  would be a copy.
- printk, the symbol tables, the setters of queue limits, profile counters and
  traces: formatting, constants and single assignments.
- The guest-instruction interpreter, the descriptor table and the host mirror of
  the KVM symbols: a deterministic function of registers and memory, a table that is
  written once per object, and system calls.
- Register switching around module calls (`linux_call.c`): assembly.
- Device backends, host interfaces, platform facets: system calls of the host. Their
  outcomes are choices in the models above them; the capsule's interrupt wait is in
  `Irq`.
- The set-up of the NVMe admin queue and of AHCI and xHCI controllers: sequences of
  register writes that end at the first failure.
- The Linux DMA API and DMA pools: argument checks and a list over `S/dma/dma.c`.
- The self tests that run ext4 images and file operations, and the command-line
  tools: straight-line drivers of what is modelled.
- Shrinkers, hrtimers, per-CPU semaphores, ethtool and PHY helpers, ACLs and
  attributes of inodes, IPC endpoints of the filesystem.

## The modules

State and actions keep the names of the code; `map` in `PROJECT.json` gives the
lines each definition stands for (initial records, index sets and error numbers, which
are notation, have none). What is abstracted:

- **DmaSubsystem.** Buffers are ranges of pages. `dma_mappings` is the list of
  remembered mappings (stamped in push order), `dma_window` the one scoped window,
  `backend` what the device has mapped, `held` the addresses callers have not
  unmapped. Allocation and backend failures are chosen at every step.
  `kb_subsystem_dma_map_fixed` (`dma.c:770`), which nothing in `src/` calls, is left out.
- **DeferredWork.** `deferred` is the list, `stack` has a frame for each drain,
  flush, destroy and callback in progress. A callback may queue, cancel, modify,
  flush and drain again. `Faults` are the outcomes of `run_work`: retry, quiet
  refusal, and a work function that is gone.
- **KThreads.** `frames` is the nesting of dispatched contexts and stop calls;
  `woken` is a history variable: woken since it last prepared to sleep.
- **WaitBits.** Adds one bit, the queue it hashes to and the program counters of
  threads in `wait_on_bit`, `wait_on_bit_lock` and `unlock`.
- **Rcu.** `rcu_readers` counts over all contexts; callbacks run inside whichever
  call finds it zero. `blockers` and `before` are history variables.
- **Irq.** `irq_list` is walked with cursors kept in `stack`; `signals` are the
  device's counters, `count` what was consumed, `due` and `served` history.
- **PciVectors.** The published vectors and the number table are global in the
  code and shared by all devices; every configuration access may fail.
- **PciBinding, PciMmio.** `active_binding` moves with every driver call, also while
  another device is probed; `serving` are the devices whose probe succeeded, `lost` those
  whose outcome went to another binding or whose binding a later registration cleared, and
  `stale` the devices whose command register parted from its shadow (history). Windows
  have one reference-counted record each and `mapped_bar0` caches one of them.
- **NvmeIo.** One call in progress and a controller that completes in any order,
  late, or never. A command remembers the request it was built for, and `stale`
  marks a command whose request was freed since. A reset recreates the queues, or times
  out with the queues as they were; a tag set that is freed takes the driver's queues
  with it.
- **NvmeBatch.** The plan of commands as functions of the batch; the actions then
  perform them in any order within a group, against a disk and memory.
- **DiskIo.** Sectors hold the number of the call that wrote them, in a volatile
  `cache` and in `stable`. The device is external.
- **BufferIo, PageCache.** Contents are version numbers; `newest` is what the
  filesystem last wrote, `owed` what a sync promises. Deferred work that runs
  inside a wait loop may call in again. `submit_bh` may find no bio for a buffer and
  complete it as failed on the spot; `lapsed` are the blocks to which something like that
  happened in a call other than the one that asks (history). The folio lock is in
  `ReadAhead` only.
- **ReadAhead.** Pages, slots in table order, the read-ahead state, and another
  stream that takes slots between reads.
- **Errseq.** A value is (error, seen, counter); the counter has `CtrMod` values. Files
  (`RawFiles`) copy the mapping's value when they are opened, as
  `kb_fs_subsystem_finish_open` does; other holders take it with `errseq_sample`.
  `WbErrors` is what that promises: each failure is reported once to every holder of the
  time, an unreported one also to the next one that samples; a file that copied a failure
  nobody was told of is blind to it, and to a repetition of it, until somebody is told.
- **VfsObjects.** `todo` is the rest of the call in progress: of a drop (dentry, inode,
  writeback, eviction, parent), or of an open, which counts write access first and takes
  it back when the filesystem's open fails.
- **RwSem.** The word of the semaphore as reader count, writer bit and waiter bit;
  a thread that cannot have it yields and tries again.
- **Memory.** Pages have the byte of the arena's table; the heap is a list of chunks
  and a list of free blocks, in units; a slab is a list of free slots. The state is one
  record that operators transform, because the calls nest (a pool allocates from a
  cache, which allocates a page). `held`, `objs` and `pool.out` are what modules have.
  `lost` are pages whose record could not be allocated.
- **DriverCore.** Two tables and a stack of loops over them; a frame that is `in` is
  inside a probe or callback, which may change the tables. `tried` and `passed` are
  history.
- **FileData.** A file is a sequence of units in pages of blocks; what was never
  written is `Garbage`. `file` is what a reader has to see. `block_read_full_folio`
  reports no failure, so a read shows what is in the page: `doubt` are the units of an
  answer that were not read, `wrong` and `spoilt` those of a page and of the disk that
  became zero because `get_block` failed (history).
- **FileExtents.** A walk asks the filesystem about one position at a time; the answer
  is cut where the filesystem likes.
- **Mounts.** A change moves from page or inode over journal and buffers to the
  device and is stable once flushed; the steps of sync and unmount may fail.
- **KernelObjects.** Four groups of tables whose records are made inactive but not
  given back.
- **ModuleLoader, ModuleImage.** Opening is split where it can fail; a symbol is a
  name, and its address is the module that defines it. The image is laid out section by section,
  in pages; operands keep their widths.
- **UsbStorage, UsbDevices.** Records found by address, disks, extents made at the
  first write, commands with short answers and phase errors; above them interfaces, drivers
  and SCSI hosts, with `usb-storage.ko` as the environment. `orphans` are devices that were
  observed under a controller without a record (history): nothing releases theirs.
- **UsbRootHub, UsbUrb.** A port's registers, latched bits and what the hub driver
  was told; requests with their DMA mappings and kobox's record of each.
- **Ata.** One medium, reached as ATA and SCSI commands, slots and block I/O (behind the
  block layer's checks), that is resized. Block I/O on a port replaces the driver's command
  list by one it frees afterwards: an issue without a list fails, and one with the freed
  list runs commands nobody wrote (`stray`).
- **NetDevice.** Calls nest: a poll delivers a frame whose callback sends. A device may be
  freed with NAPI records that name it.
- **InputEvents.** One bounded queue of frames for all devices, and a reader that
  replays what it reads and recovers after `SYN_DROPPED`. `quiet` are the devices whose
  axis was given new parameters since the reader last learned of it (history).

External (modelled from how the code uses it): the device backends' map and
unmap, the NVMe controller, the disk under `DiskIo`, the filesystem's callbacks,
usbcore and usb-storage, the callbacks of network drivers.

## Runs

A module `MC...` composes the modules of one layer. Its behaviours exercise one of
them, named by the variable `part`, and leave the variables of the others in an
initial state; a module may appear several times with different constants. The
components of a bundle share no variables; composition of components that interact
is inside the modules (`WaitBits` on `KThreads`, the device under each storage
module, `Errseq` on `WbErrors`). Deadlock is not checked: bounds on versions,
stamps and signals stop behaviours, and an idle system may stay idle.

| run | module | distinct states | shows |
|---|---|---|---|
| `dma` | `DmaSubsystem` | 194 216 | reference counts of the window, held addresses mapped, nothing leaked, a lent window not moved |
| `tasks` | `MCTasks` | 688 960 | deferred work, threads, bit waits and semaphores, RCU |
| `pci` | `MCPci` | 864 205 | interrupts, vectors, binding, windows, the driver core |
| `nvme` | `MCNvme` | 901 623 | commands, batches, disks |
| `buffers` | `MCBuffers` | 657 511 | buffer cache and bio queue, file contents, extents |
| `pages` | `MCPages` | 899 175 | folios, read-ahead, error sequences, allocators |
| `objects` | `MCObjects` | 914 397 | inodes, dentries and files; modules and their images; mounts; object tables |
| `usb` | `MCUsb` | 295 489 | storage commands, devices and hosts, root hub ports, requests |
| `devices` | `MCDevices` | 562 542 | SATA, network and input devices |
| `task_progress` | `MCTaskProgress` | 35 092 | work is taken, woken threads run, callbacks are called, interrupts handled, writers served, port changes told, unregistration ends |
| `io_progress` | `MCIoProgress` | 116 857 | storage calls, reads and drops return |
| `nvme_late` | `NvmeIo` | | a finding, see below |

### Bounds, and why they are enough

- `dma`: 3 pages, windows of up to 2, 2 devices, 3 stamps, direct mappings of one
  page. A window can be replaced while one page of it is lent, and the two devices
  can hold equal pages.
- `tasks`: *work* 2 items, a workqueue, nesting and context depth 2, drain limit 2,
  3 queueings, so a nested drain meets both the item being run and another one;
  *timer* one work item, tasklet and timer with a clock of 2 values; *thread* 2
  threads with 4 nested frames and 2 rounds of `kthread_stop`; *raw* the same with
  drivers that write `__state`, 3 frames; *bits*, *lock* 3 threads on one bit, since a
  stranded waiter needs a holder, a woken and a sleeping thread; *rcu* the main
  program, 2 threads, 2 callbacks and a `kvfree_rcu` object; *sem* 3 threads, so that
  a writer waits behind a reader while another reader arrives.
- `pci`: *irq* 2 entries, 2 devices (one a USB host controller), 2 signals, 2 nested
  walks; *vectors* one device with MSI-X, MSI and pin, tables of 3 vectors and 4
  numbers, requests up to 3; *routed* a backend that programs 2 of 3 entries;
  *binding* 2 devices and 2 drivers, *switch* 2 devices that one driver switches on and
  off, *mmio* 2 devices, 2 windows each with 2 mappings; *core* 2 devices, *made* a
  device and a created one, over 2 slots, 2 drivers and calls nested twice, so that a
  slot is reused and a driver registered while another one's loop is at a device.
- `nvme`: *io* 3 requests, 3 usable tags, batches of 2, a completion queue of 2 (its
  phase wraps at once), one command in the controller; *aux* 2 requests with a
  cached PRP page and 3 commands held; *batch* every batch of up to 3 requests of up
  to 2 sectors on 3 sectors and 3 blocks of memory, groups of 2, transfers of 2;
  *disk* 2 sectors, batches of 2, 2 writing calls, drivers with all, some and none
  of the optional operations.
- `buffers`: 2 blocks, 3 heads, 2 records (1 in *full*), batches of 2, 2 nested
  calls, 2 versions in *again* and *fua*, one failing request in *fail*; *pages*,
  *blocks*, *ends* files of two pages of a block each, of one page of two blocks, and of
  one block, with 2, 1 and 2 units to a block, so that a size ends inside a block, a
  page and the file; *extents* 3 blocks of 2 units
  with size 5 and room for 0 to 2 extents; *offset* positions around both ends.
- `pages`: 3 pages over 2 records, or 2 pages with 2 versions and a failing write;
  read-ahead over 2 slots shared with another stream, and over a 20 page file with
  room (batches of 8); error sequences; *heap* 2 chunks of 5 units with requests of
  1, 2 and 4, so that chunks run out and a free block is used again, whole, for a
  request of its size or a smaller one; *arena* 5 pages,
  runs of 1 to 3, 2 backends; *slabs* 3 pages of 2 slots and a pool of 2.
- `objects`: *two* a root and 2 more inodes, 2 files, lookups inside `iput`, each
  held once; *chain* 2 dentries below the root that callers hold twice; *modules* 4
  images, room for 4 exports and 7 stubs, a per-CPU area of 24, so that each table runs
  out; *image*, *patch* a few sections and operands at the ends of their ranges;
  *mounts* 3 types, 2 slots, 2 devices; *cdevs*, *proc*, *fds*, *vmas* tables of 3 to 5.
- `usb`: *media* a disk of 3 sectors in extents of 2; *hosts*, *tree* 3
  interfaces (one made up) of 2 devices, 2 records, 2 hosts, 2 controllers; *hub* a controller with 2 ports; *port* one port in all
  four modes; *urb* 2 requests and 6 mappings.
- `devices`: *disk* 2 hosts over 1 record, 2 or 3 sectors, 2 slots; *net* 2 devices of
  which one is tracked, 2 NAPIs, 2 packets, nesting 4; *keys*, *axes* 2 devices, a
  queue of 3 or 4 with a stage of 1, so that it overflows inside a frame.

The bounds are small: they were chosen so that every action fires (the branches
that need a case excluded below, and a full tag or folio table, do not) and so that
each property fails for the mutated definitions listed in `PROJECT.json`.

### Properties

Each bundle has one type invariant. The others are conjunctions of what the
component modules state, with a comment at each conjunct there:

- `BorrowAccounting`, `MappingsHeld`, `BorrowedWindowFixed` (DmaSubsystem);
- `WorkSafe` (DeferredWork): queued once, pending means queued, a queued tasklet is
  marked, no re-entered callback, a destroyed queue is empty, a flush is bounded by
  what was queued when it began;
- `ThreadsSafe` (KThreads), `LocksSafe` (WaitBits: no stranded waiter; RwSem: the
  word excludes), `RcuSafe` (Rcu: a callback waits for the readers before it);
- `IrqsServed` (Irq), `VectorsUsable` (PciVectors), `DevicesTrue` (PciBinding,
  PciMmio, and DriverCore: one record per device, every pair that matches offered,
  one probe at a time, each device of a bus visited);
- `CommandsOwn` (NvmeIo), `BatchExact` (NvmeBatch, against a reference definition of
  the batch), `DiskTrue` (DiskIo, with power failure);
- `BuffersKept`, `SyncHonest`, `BarrierDurable` (BufferIo); `FilesTrue` (FileData:
  every way of reading sees what was written, and zeroes where nothing was, but for units
  that could not be read);
  `LayoutTold` (FileExtents, against the file's blocks);
- `PagesKept` (PageCache; ReadAhead; Memory: every page and slot has one owner, the
  heap's blocks tile its chunks, the free-page search misses nothing, a pool keeps
  its reserve);
- `SeenInOrder`, `NewsDiffers` (Errseq), and `ReportedOnce`: Errseq implements
  `WbErrors` under the refinement mapping in `Errseq`;
- `ObjectsKept` (VfsObjects: counts exact, no object used after it is freed;
  ModuleLoader: nothing resolved against a closed module, failed loads undone;
  ModuleImage: sections apart and protected, operands reach; Mounts: a successful
  sync is stable, a device has one mount; KernelObjects: what is found is live);
- `StorageTrue` (UsbStorage: data against the disk, sense data tells; UsbDevices: no
  record names what is gone, a host goes to the storage it was made for), `UnmapsOwn` (UsbUrb),
  `PortReadsTrue` (UsbRootHub);
- `SataTrue` (Ata), `EventsTrue` (InputEvents: readers see whole frames in order or
  are told), `NetTrue` (NetDevice).

### Fairness

Safety runs assume none. The two progress runs assume what the code's scheduling
gives: a loop of kobox that is running goes on (weak fairness of its step); the
clock advances; a callback, handler, probe or remove returns when it keeps being
the running code (strong fairness, since other code runs inside it); the main
program comes back to its poll loop (`kb_run_deferred_work`, `kb_irq_wait_any`,
dispatch of ready threads) again and again; a live controller posts what it holds;
and the waits with a deadline reach it. Nothing is assumed of readers: that retired
objects are reclaimed is stated for behaviours in which the read count is zero
again and again. In a bundle only one module is active, so one fair disjunction
stands for one condition of each module. That a change of a root hub's port is told
assumes that the hub driver submits its status request again and succeeds in it; that
a writer gets a semaphore, that readers release theirs. `kthread_stop` bounds its wait by rounds
and no claim is made that the thread ends within them.

## What is proved

Proofs are in eight modules, and hold for every value of the constants. Those of
`DmaSubsystem` are in `DmaSubsystemProofs` (first lemmas about each thing `dma.c` does to
a window, a mapping or an entry) and those of `DeferredWork` in `DeferredWorkProofs`;
`WaitBits` has its own and those of `KThreads`, on which it rests; `Errseq`, `Rcu`,
`RwSem`, `Irq` and `UsbUrb` have theirs at the end of the module. Each proof has an
inductive invariant, one lemma or step per action that it is kept, and a last step that
combines them. What the theorems state is also checked by a run, on small instances:
directly where the run's module extends the component's, and for `WorkSafe`,
`ThreadsSafe` and `LocksSafe` through the conjunctions of the same names in `MCTasks`,
which apply the component's definition to each of its instances.

**DMA.** `TypeCorrect`, `BorrowersCounted`: `Spec => []TypeOK` and
`[]BorrowAccounting`. The borrower count alone is not inductive. `IInv` adds that the
set of entries is finite and that their stamps are at most `stamp`, so an entry that is
pushed is a new one and the count goes up by exactly one; and that the window is well
formed (mapped means one address per page; borrowed means active and mapped).
`kb_subsystem_dma_free` does not look at `borrowed_window`, so the proof also needs
`Apart`: an address from `alloc` carries no stamp of an address the window has lent or
may lend, hence freeing it takes no borrower's entry.
`WindowNotMoved`: `Spec => BorrowedWindowFixed`, from the same invariant: the paths
that move the window test the count, which is exact.
`NoMappingLost`: `Spec => []MappingsHeld`, what a caller holds is mapped for its device
and nothing forgotten stays mapped. The invariant is `Backed`: the mapped window is one
backend mapping, each entry of its own another, a caller holds a part of the window or
the mapping of an entry. An unmap finds its entry by device and address only, and may
take another caller's entry for the same address; that is harmless because `Counted`
holds: as many callers hold an address of the window as there are entries for it, and
there are as many backend mappings as entries of their own, plus the window's.

**Writeback errors.** `ValuesInOrder`: the value a holder keeps is zero or seen, and no
newer than the mapping's, or an unseen one that a file copied. `NewsFound`: `[]NewsDiffers`, an error recorded while a holder's
cursor is open leaves a value that differs from the holder's until it looks, unless the
holder is a file that copied that very value and nobody has been told of it. `ReportsOnce`:
Errseq implements `WbErrors`: initial states map to initial states, each action to the
abstract action of its name or a stutter. The mapping reads what is owed and who is blind
off the values, so the proof is about when two values are equal: it needs that they are in
order, and `MaxSets < CtrMod` (the 19-bit counter does not wrap between two looks of a
holder). All three hold whichever holders are files.

**RCU.** `RcuKeepsPromises`: `Spec => RcuSafe`: the reader count is the number of open
read sections, a callback runs only after every section that was open when it was
queued, none is forgotten, and a barrier returns after what was queued before it (an
action property). `RInv` adds where each callback is (`Tracked`: in the list, or running
in some drain), that only the running context drains, with no other context in a read
section (`DrainsAlone`), and that whoever may still see an object is in a section
(`Blocking`). The hypothesis is `~CallbacksYield`, the exclusion explained below.

**Semaphores.** `SemaphoreExcludes`: in `RwSem` a writer is alone, the count in the
word is the number of readers, and the waiter bit is set only while a writer is trying.
The three are inductive together: exclusion follows from the word, which is right
because it counts. The cardinality of the readers needs a finite set of threads, which
is a hypothesis of the theorem.

**Deferred work.** `WorkKept`: `Spec => [](TypeOK /\ WorkSafe)` under `Bounds` (limits
are numbers, `NoQueue` is no queue). Most of it is about code that runs inside other
code: a callback may queue, cancel, flush, drain or destroy while loops below it on the
stack are in the middle of the same list. `WInv` says of every state
- of the list (`ListOK`): objects and sequence numbers are there once, and no number is
  above `deferred_sequence`; so an item that is queued is new, and a retried item that
  goes back to the front is the only one with its number;
- of the marks (`MarksOK`): pending work is on the list, and a tasklet on it is marked;
- of the loops: `draining_deferred_depth` is the number of drain and flush frames;
- of each flush (`FlushOK`): what it has run and what it may still take is within its
  quota. `FlushBounded` alone is not inductive: an item queued later must not count, which
  holds because its number is above the flush's `through`;
- of each destroy, when callbacks leave the list of workqueues alone (`QueuesOK`): the
  record being destroyed is on the list right behind the cursor the call keeps, so what is
  unlinked is that record. `GoneEmpty` then gives `DestroyDrains`.

With `NestedWqOps` the last part fails, which is the exclusion explained below; it is a
hypothesis inside `WorkSafe`, and the other parts are proved without it.

**Kernel threads.** `ThreadsKept`: `Spec => []ThreadsSafe`. `OneContext` and
`EndedStaysEnded` need each other: the frame a thread leaves when it ends was its only
one, so an ended thread has none. `NoLostWake`, under `~DirectState`, needs `WakeNoted`: a
wake that found the thread preparing to sleep is still pending when it calls
`kb_schedule`. `KInv` is all of these.

**Bit locks.** `LocksKept`: `WSpec => []LocksSafe` for threads that wait for the bit or
take it (`Program \subseteq {"wait", "lock"}`), on top of `KInv`, since every step of
`WaitBits` is a step of `KThreads`. A queue without duplicates in which every thread is
waiting, and one holder at most, are inductive together. That no waiter is stranded, among
threads that all take the bit, needs `Sleepers`: a thread with a frame is activated; from
the head of the loop to `kb_schedule` a thread is on top of the frames, so no waker runs
in between; and whoever is past `kb_prepare_to_wait_exclusive`, or asleep, is on the
queue. An unlock that finds the queue empty then leaves nobody asleep, and one that does
not wakes a thread that will look at the bit.

**Interrupts.** `InterruptsServed`: `Spec => []IrqsServed`. `IInv` says what each frame
of the stack stands on: its cursor is in the list, what it still owes lies behind the
cursor and is either unconsumed or being handled now (`WalksOK`); and what has been
consumed and not served is in a handler on the stack (`CountersOK`). Entries are freed by
handlers in the middle of a walk, so most of the proof is about cursors when the list is
unlinked; it uses that a driver does not free an interrupt whose handler is running,
which the action has as its guard.

**USB requests.** `UrbsUnmapOwn`: `Spec => []UnmapsOwn`. `UInv` adds that no mapping is
named by one request and by the flags or the record of another. A record may outlive the
flags of its own request (giving a request back does not unmap it), so the clean-up at
shutdown is right only because records name no mapping that is anyone else's.

Assumptions on constants are `DmaConstants`, `ErrorsAssumption`, `NoneAssumption` (the
null pointer is no entry and no `dev_id`), `MapsAssumption` and three
`BoundAssumption`s (bounds are numbers); TLC evaluates them in the runs `dma`, `pages`,
`tasks`, `pci` and `usb`.

Only model-checked: the other modules; the two progress runs, since liveness under
fairness is out of the proof system's reach; `NvmeBatch` and `Memory`, whose properties
are about what folds over sequences compute, which needs induction over data.

## Findings and exclusions

`nvme_late` violates `OwnCompletion`: the single-request NVMe path frees its request
after a timeout, the tag and generation are given to the next request, and the late
completion completes that one. A comment on the batch path
(`src/linux_personality/linux_nvme.c:855`) gives this as the reason to keep such
requests. The run `nvme` therefore lets only batches time out.

Other cases in which the code does not have a property are modelled, and the property
says which they are, by a history variable: `lost` and `stale` (PciBinding), `aliased` and
`lapsed` (BufferIo), `doubt`, `wrong` and `spoilt` (FileData), `blind` (WbErrors), `orphans`
(UsbDevices), `quiet` (InputEvents), `lost` (Memory). A few are excluded by a constant or
a guard, so that the property is checked in all others:

- `DirectState`: a driver that writes `__state` itself can lose a wake;
- `CallbacksYield`: an RCU drain does not look at the reader count again after a
  callback that let another context run;
- `NestedWqOps`: `destroy_workqueue` inside the flush of another destroy uses a list
  cursor found before the callbacks ran;
- one device in `PciVectors`: freeing the vectors of a device frees those of all;
- `NrTags` larger than a batch needs: with fewer, a tag is handed out twice;
- `Reentrant`: references taken on a folio while reclaim writes it back are not
  looked at again;
- `Nested` in `VfsObjects` leaves out lookups of the number being evicted;
- `StoresPastEnd`: `pagecache_isize_extended` does nothing when the new end is on a
  later page, so what was stored through a mapping past the old end then shows;
- `Cuts` in `FileData` leaves out sizes between two blocks of one page: truncation keeps
  the page's buffers of the blocks the filesystem has freed;
- a handler does not free the interrupt it is handling (`Irq`);
- a cache destroyed while its objects are out (`Memory`).

What the code does, as the modules have it, that a reader may not expect:

- *PCI.* `pci_register_driver` clears every binding, also those of other drivers; a probe's
  outcome is written to whichever binding is active when it returns; after an enable whose
  write failed, a retry writes nothing and reports success.
- *Writeback errors.* `finish_open` copies the mapping's error value instead of sampling
  it: a failure nobody was told of is then not reported to that file.
- *Buffers.* `flush_dirty_buffers` does not report a write that `submit_bh` refused, nor
  one that failed in another call.
- *Input.* `input_set_abs_params` resets an axis without an event.
- *Memory.* An allocation of pages whose record cannot be allocated is handed out but
  not remembered: `kfree` ignores it (`lost`). Once the arena is mapped for one backend
  another one's page allocations are refused.
- *Driver core.* `driver_unregister` leaves `dev->driver` as it is, so the device is
  not bound again. `device_del` leaves `allocated` set, and `put_device` does nothing.
  `driver_register` returns 0 whatever the probes said. A driver registered inside
  another one's failing probe is passed over for that device.
- *Loader.* The jiffies storage in a module's region is never unregistered; the shared
  task points into the region of the module prepared last; per-CPU areas are not given
  back; the second exporter of a name is not registered and does not take over when
  the first is closed; alignments above a page are not honoured.
- *Mounts.* The `kill_sb` used is that of the type probed last; without one the device
  is not synced after `put_super`; errors of the sync at unmount are dropped;
  `set_mount_block_device(NULL)` relies on `active_bdev_binding` for the unmount.
- *Kernel objects.* Records are not freed, so an embedded cdev whose address is used
  again is found with old operations; a path can be in the proc table twice; closing a
  descriptor does not release its file; `pin_user_pages` reports success with NULL
  pages when the table is full.
- *Files.* A buffered read reports no failing transfer and no failing `get_block`; an error after part of
  a transfer returns the part without moving the position; a page pinned during a
  direct write makes the last invalidation fail silently.
- *USB.* Deregistering any driver clears `storage_driver_registered`; interfaces of
  storage are recorded without their device, so the release of a controller skips
  them; a device observed under an unknown controller keeps its record; giving a request
  back does not unmap it.
- *SATA.* A registration tried again after a failed step goes on after that step; block
  I/O replaces the command list of port 0 and frees its own afterwards; completions with errors only raise no
  interrupt.
- *Network.* NAPI records are not removed, not even with their device; a failed address reply is sent again only
  when another frame arrives; a device that finds no slot is opened without a record.

## What comes next

1. *Compose.* `BufferIo` over an abstract disk of sectors with flush that `DiskIo`,
   `UsbStorage` and `Ata` implement; `PageCache` with `Errseq`; `DeferredWork` with
   `KThreads` where work waits.
2. *Prove.* `PciMmio` (reference counts), `NvmeIo` (tags and completions),
   `VfsObjects` (exact counts), `KernelObjects`.
