# blog_os in TLA+

A formal model of the blog_os kernel (`src/`, a Rust kernel for x86_64): TLA+
modules translated from the source, TLC runs that check them on small instances
and TLAPS proofs for every size. File names below are relative to `src/src/`.

## 1. The system

blog_os runs on one CPU. `kernel_main` (main.rs) initializes the interrupt
tables, the page tables and the heap, finds a VirtIO disk, tests it, mounts or
formats a small file system on it and creates a file. It then spawns two tasks
and hands the CPU to a cooperative executor for ever. Interrupt handlers preempt
it at any instruction and run to completion with interrupts disabled. Panics
abort: the handler prints and halts.

| Component | State | Operations | Talks to |
|---|---|---|---|
| Task executor, `task/executor.rs`, `task/mod.rs` | map of tasks, bounded `task_queue`, cache of wakers, id counter | `spawn`, `run`, `run_ready_tasks`, `wake_task` | futures (poll), wakers (queue shared with interrupt handlers) |
| Asynchronous keyboard, `task/keyboard.rs`, handler in `interrupts.rs` | `SCANCODE_QUEUE`, `SCANCODE_WAKER` | `add_scancode`, `ScancodeStream::new`, `poll_next`, `print_keypresses` | called by the interrupt; wakes a task through the executor's queue |
| File system, `fs/simple_fs.rs`, `fs/layout.rs` | superblock, two bitmaps, inode table, root directory block on disk; the superblock in memory | `mount`, `format`, `init_root_directory`, `create_file`, `add_root_dir_entry` and allocation helpers | block device |
| Block device, `fs/block_dev.rs` | the disk | `read_blocks`, `write_blocks`, `capacity` | VirtIO driver (a dependency) |
| Start-up, `main.rs` | its place in `kernel_main` | self test, mount or format, two creates, spawns | all of the above |
| Interrupts, `interrupts.rs`, `gdt.rs` | IDT, PICs | timer, keyboard, breakpoint, double fault, page fault | keyboard, serial lock |
| Heap, `allocator.rs`, `allocator/*.rs` | free lists, bump pointer | `init_heap`, `alloc`, `dealloc` | frame allocator, page tables |
| Frames and pages, `memory.rs` | index of the next frame | `allocate_frame`, `translate_addr` | bootloader's memory map |
| VirtIO HAL, `virtio/mod.rs` | - | `dma_alloc`, `dma_dealloc`, `share` | frame allocator |
| PCI, `virtio/pci.rs` | - | configuration reads, scan | I/O ports |
| VGA, serial: `vga_buffer.rs`, `serial.rs` | cursor and buffer; UART behind the lock `SERIAL1` | `write_byte`, `new_line`; `_print` | `println!` of every context goes to the serial port |
| Simple executor, `task/simple_executor.rs` | a queue of tasks | `spawn`, `run` | used by no caller |
| Test harness, `lib.rs` | - | test runner, exit codes | QEMU |

What is hard here, and what would make the components correct:

* **Wake-ups against interrupts.** The keyboard interrupt may come between any
  two atomic operations of `poll_next`, of `AtomicWaker::register` and `take`
  and of the executor. No wake-up may be lost, no scancode stranded, lost,
  duplicated or reordered, and stale wakers must not revive a task.
* **Bounded queues in a handler.** Both queues have 100 places. A full scancode
  queue drops; a full task queue panics in the handler.
* **Crashes and failing devices.** `create_file` is three writes, `format` and
  `init_root_directory` are seven; nothing is journalled and nothing can be
  freed. Whatever is left on the disk must be sound, and what was acknowledged
  must survive.
* **Sizes that do not match.** The bitmaps have 4096 bits whatever the size of
  the inode table and of the data region.
* **Memory handed out twice.** Frames go to heap pages, page tables and device
  buffers from one counter; heap blocks are cut, recycled per size class or taken
  back all at once. No byte may have two owners, after any sequence of requests.
* **Arithmetic at the edges**: alignment gaps and rests too small for a list node,
  the last column of the screen, the fields of a configuration address.
* **Locks shared with handlers.** Every context prints through one spin lock, on
  one CPU: a lock whose holder was interrupted by the one who wants it is never
  released. Interrupts must be off exactly where that matters.

`PROJECT.json` lists these hazards line by line with the properties that cover
them.

## 2. Modules

| Module | Models |
|---|---|
| `Executor` | `task/executor.rs` and `task/mod.rs` with *open* futures and event sources |
| `AsyncKeyboard` | extends `Executor`: the kernel's real tasks, the keyboard interrupt, the scancode queue and its AtomicWaker |
| `ScancodeChannel` | abstract: what the keyboard promises, a lossy bounded FIFO channel that keeps delivering |
| `SimpleFs` | `fs/simple_fs.rs`, `fs/layout.rs` and the block device, one step per device write, with crashes and failures |
| `FileNamespace` | abstract: what `create_file` promises, an atomic name space |
| `RootDirEntries` | extends `SimpleFs`: `add_root_dir_entry` and `find_free_dir_slot` beside `create_file` |
| `KernelBoot` | extends `SimpleFs`: the disk part of `kernel_main`, boot after boot |
| `Heap` | abstract: what `GlobalAlloc` promises, aligned blocks that share no byte; `align_up` |
| `BumpAllocator`, `LinkedListAllocator`, `FixedSizeBlockAllocator` | extend `Heap`: the files of `allocator/` |
| `Memory` | `memory.rs`, `init_heap`, the DMA part of `virtio/mod.rs` and its use by `kernel_main` |
| `Interrupts` | `interrupts.rs`, `gdt.rs`, `serial.rs`, `init` of lib.rs, the panic handler, the printing of `add_scancode`: contexts, flag, PICs and locks |
| `VgaWriter` | the `Writer` of `vga_buffer.rs` |
| `PciScan` | `virtio/pci.rs`: the scan and the configuration accesses |
| `KernelStart` | extends `Memory` and `PciScan`: `kernel_main` from `init_heap` to the executor |
| `SimpleExecutor` | `task/simple_executor.rs` |
| `Executor_proofs` (also of `SimpleExecutor`), `AsyncKeyboard_proofs`, `Allocators_proofs`, `Interrupts_proofs`, `SimpleFs_proofs` (also of `RootDirEntries`), `KernelBoot_proofs`, `KernelStart_proofs` (with `Memory` and `PciScan`), `VgaWriter_proofs` | theorems with TLAPS proofs (section 5) |
| `MC*` | instances for TLC |

A definition that is preceded by "Mutant of" is a plausible wrong
version of the definition that follows it. It is used by no specification; with
it in place of the right one TLC refutes a property (`mutants` in
`PROJECT.json`), which shows that the property depends on that code.

### Executor

`tasks` and `waker_cache` are the key sets of the two maps, `task_queue` the
queue of ids. `Spawn`, `Run`, `PopTask`, `PopNone`, `PollReady`, `PollPending`
are `spawn(Task::new(..))`, `run` and the paths of `run_ready_tasks`. One turn of
the loop is split at the poll: an interrupt may come before, during and after it.
`WakeTask` is `TaskWaker::wake_task` in any context, its `expect` included.
`CloneWaker`, `DropWaker` and `Wake` let any future hand its waker to any event
source and the source use it at any time, also when the task is done. `notified`
is a history variable: spawned or woken since the last poll. `sleep_if_idle` has
no caller and is left out, so an idle executor spins (`PopNone`).

### AsyncKeyboard

The variable `wakers` of `Executor` becomes the cell of `SCANCODE_WAKER`.
`FastPop`, `RegisterBegin`, `RegisterEnd`, `SecondPop`, `TakeBegin`, `TakeEnd`
are the atomic operations of `poll_next`; `Process` is the body of the loop of
`print_keypresses`. `KeyboardInterrupt` is the whole handler, one step, possible
between any two others, from the first spawn on (in fact from `init` on, before
which nothing of this state changes). The AtomicWaker belongs to the
`futures-util` crate, which is not in the repository; it is modelled from its use
with its documented states WAITING, REGISTERING and WAKING. The n-th scancode is
the number n. `hand` is the scancode between its pop and its decoding.

### SimpleFs

Blocks 0, 1 and 2 are `super`, `imap` and `dmap`; the others are rows of 64-byte
cells, so that the same bytes can be read as a directory entry or as half an
inode, which happens when the inode table is overrun. One step is the code up to
and including one device write. `call` keeps the locals of the running
operation, among them the copy of the directory block that `create_file` reads
before and writes after its other writes. A device call may fail (the block then
holds old or new contents) and the machine may crash between any two writes; both
count in `faults`. The caller is main.rs: mount, or format followed by
`init_root_directory`, then creates. `rooted` and `acked` are history variables:
a format is complete, and the files `create_file` returned `Ok` for.

### RootDirEntries

`AddRootDirEntry(i, n)` is one step, as its only write is that of the directory
block. It is public but has no caller in the kernel yet; the model's caller gives a
file that `create_file` returned a further name. It accepts the empty name, does
not look for collisions and does not ask whether inode 0 is a directory.

### KernelBoot

`stage` follows `kernel_main`: the self test on block 0, mount, format,
initialization, two creates, tasks. A `Result` with `expect` leads to `panic`.
`Reset` interrupts a boot anywhere, `PowerCycle` starts the machine again.

### Heap and the allocators

`live`, the blocks the program holds, is the only variable of `Heap`; in the
allocators it is a history variable, so the refinement mapping is the identity and
`ImplementsHeap` says that the block computed from the allocator's own state is
aligned, inside the heap and disjoint from all others. Every operation runs under
the lock of `Locked` and is one step; handlers do not allocate
(`HandlerNeverFreesWaker` is the one doubtful case, see AsyncKeyboard).

* `BumpAllocator`: `next` and `allocations` as in the code.
* `LinkedListAllocator`: `regions` is the list behind `head`. `find_region`,
  `alloc_from_region`, `size_align` and `add_free_region` with its asserts are
  operators, `ListAlloc` and `ListDealloc` the trait's methods.
* `FixedSizeBlockAllocator`, the kernel's global allocator: `list_heads` per size
  class. The fallback allocator is another crate's and is itself an instance of
  `Heap`, which chooses the place of a block freely and may fail at any time.
  `BlockInit` may be repeated before the first allocation, as `init_heap` does.

### Memory, PciScan and KernelStart

Frames and pages are numbers, page tables functions from index to entry. `MapTo`
is `OffsetPageTable::map_to` (external), which takes frames for missing tables from
the same allocator. `translate_addr` is the walk of memory.rs. The actions of
`Memory` are the loop of `init_heap` (one step per page, with the call of
`ALLOCATOR.init`), the scan as a step with any outcome, the buffers of the first
device, its self test, the mount, on its failure the second device after the first
was dropped and its format, the two creates, and the end of the file system, which
drops the device. What the file system does to the disk is `KernelBoot`'s; here
`DeviceWorks` and `DeviceFails` are its outcomes. `DeviceFails` stands for the
`expect`s on `PciTransport::new`, `VirtIOBlk::new`, the reads and the write of the
self test, `SFS::format` and `init_root_directory`: the kernel panics, and a device
that the failed call owned is dropped. `PciScan` packs the addresses with the code's shifts, unpacks them as the
host bridge does, and visits functions in the order of `enumerate_bus` (both
external). `KernelStart` composes the two: the scan starts when the heap is there,
its result decides how the kernel goes on, and the driver writes the configuration
while a device is being created. Its history variable `failed` records that a call
on the device failed which `kernel_main` expects to succeed.

### Interrupts

`stack` holds the running context first and below it the ones it interrupted. A
context's `pc` walks through `println!` (disable, lock, print, unlock, restore), a
handler's body, `PICS.lock()`, end of interrupt, `iret`. The body of the keyboard's
handler is `add_scancode`, which prints a warning when the scancode queue is full or
not yet there: the handler may or may not print once before its end of interrupt, and
`println!` nests its `without_interrupts` in the handler. A lock stores the depth of
its holder; a context that waits for a lock held further down spins for ever.
Devices raise requests at any time; `Deliver` takes one if the flag is set and the
PIC passes it on. Exceptions and panics may hit any context while it runs or prints.

### VgaWriter, SimpleExecutor

`VgaWriter` translates `write_byte` and `new_line` as functions of the writer and
compares the buffer with a reference layout of the text written so far, which cuts
paragraphs into lines and knows nothing of scrolling. `SimpleExecutor` is the queue and the loop of
`run` with futures that stay pending for at most `MaxPolls` polls.

## 3. Runs

| Run | Checks | States |
|---|---|---|
| `executor` | types; `WokenIsQueued`: no wake-up is lost; `LiveTaskBookkeeping`: only live tasks are polled, no cached waker outlives its task, ids are fresh; `WokenIsPolled`: every wake-up leads to a poll; for the simple executor `RoundRobin`: polling is fair and forgets no task | 40 000 |
| `async_keyboard` | types; `ParkedHasNoUnseenScancode`; `WakerProtocol`; `HandlerNeverFreesWaker`; `EveryScancodeAccounted`; `NoPanicWithinBudget`: no overflow of the task queue before the keyboard task has read more scancodes than there are places to spare; `ImplementsChannel` (refinement; until a panic with its liveness) | 12 000 |
| `task_queue_full` | violation: the task queue overflows (finding 1) | |
| `simple_fs` | types; `RootIntact`, `EntriesSound`, `AckedFilesSurvive`, `LeakBound`; `ImplementsNamespace` (refinement) | 90 000 |
| `small_disk` | what still holds when the bitmap is longer than the device: `AckedInodesDistinct`; `AddKeepsFiles`: `add_root_dir_entry` replaces nothing but an entry of inode 0 | 403 000 |
| `inode_overrun` | violation: an acknowledged file without an inode (finding 2) | |
| `kernel_boot` | `HelloAfterBoot`: each boot without faults ends in the same state, and no second create succeeds; `BootCompletes` (liveness) | 2 800 |
| `existing_fs` | violation: an intact file system is formatted (finding 3) | |
| `allocators` | bump: `BumpReset`: the memory comes back when the last block does, and not earlier; linked list: `RegionsSound`: regions and blocks never overlap and the asserts hold, `LossBounded`: only alignment gaps are lost, `FreedIsReusable`: after a `dealloc` the same layout fits again; fixed size blocks: `OneOwner`: a block is on one list or in one caller's hand, `ClassMemoryIsPeak`: a class keeps as many blocks as were ever in use at once, `ClassBlocksWithinPage`: no small block crosses a page; all three: `ImplementsHeap` (refinement) | 146 000 |
| `kernel_start` | `FramesExclusive`: one use per frame and none lost; `MappingsKept`: heap pages become mapped and no other mapping changes; `EnoughMemoryNoPanic`: which machines are large enough, and every other reason to panic; `ScanFindsFirst`; `WritesHitTheirRegister` | 261 000 |
| `interrupts` | `FlagDiscipline`: where interrupts are enabled; `LocksAvailable`: interrupt handlers never wait for a lock ("Must not block", task/keyboard.rs), and who can spin for ever; `NoUnexpectedVector`: the order of `init`; `EveryIrqServed` (liveness) | 248 000 |
| `vga_writer` | `ScreenShowsText`: the screen against a reference layout | 13 500 |

A kernel is built with one executor and one allocator. `executor` and `allocators`
therefore put the alternatives side by side: the first step (the first `init`)
decides which is used, and the others keep their initial state.

### Bounds

* `executor`: 4 tasks, 3 places in the queue. More tasks than places, so that
  `spawn` and `wake_task` meet a full queue; ids can be queued several times and
  after their task is done. In the simple executor `MaxPolls` is 3, and tasks are
  spawned before and between runs.
* `async_keyboard`: 3 scancode places and 7 key presses, so the queue runs full
  and empty again; 3 tasks and 5 task queue places, which more than two hits of the
  window of finding 1 fill. `task_queue_full` has 2 tasks, 3 places and 5 key
  presses.
* `simple_fs`: 8 blocks, 2 of them inode table with 2 inodes each, a bitmap of 4
  bits that just fits the table, a directory with 4 cells, of which 2 are for
  files, 3 good names and a bad one, 3 faults. The third name meets a full
  directory; two leaks and a file fill the bitmap while the directory has room.
  Three faults reach a leak in each write of a create, and a fault in the format
  that follows a fault in a create.
* `small_disk`: 5 blocks, a table of 1 block with 2 inodes, a 6-bit bitmap:
  inodes 2 and 3 lie in the data region, 4 and 5 behind the end of the device; two
  good names, the empty and a too long one, 3 faults. After a create the first two
  additions of an entry take the slots of "." and "..", the third the last free
  one, the fourth finds none.
* `kernel_boot`: a bitmap that fits, 4 faults; the number of boots is unbounded.
* `allocators`: 28 bytes of heap, size classes of 4 and 8 bytes, list nodes of 4,
  pages of 8, and four layouts: one smaller than a node, one that leaves a rest too
  small for a node, one that needs a front gap, one larger than every class. The
  heap holds up to 7 blocks, so it fills up and fragments.
* `kernel_start`: three levels of 3 entries for four levels of 512, heap pages 7 to
  10, which lie in two tables of the lowest level and two of the next. `Machines`
  are 220: 55 memory maps of 16 frames with up to two usable regions around a
  reserved one, from no usable frame to more than enough; boot loader tables in
  which the heap needs three new tables, or meets a huge page on its way; and
  drivers that ask for single pages or for two at once. Two buses with two
  functions each, at the largest values of their fields, any of them absent, VirtIO
  or another vendor's; offsets that are not aligned.
* `interrupts`: `MaxIrqs` 4 requests and `MaxFaults` 3 exceptions or panics: an
  exception in the handler of an exception in an interrupt handler.
* `vga_writer`: 3 rows, 2 columns, `MaxText` 9 bytes: text that scrolls off the
  screen, and every way to meet the last column.

Deadlock is checked everywhere.

### Fairness

Weak fairness of the main context (`ExecutorStep`, `MainStep`, `KernelStep`): the
CPU goes on executing between interrupts, handlers return, a future's poll
returns, and device calls block until the device answers. In `Interrupts` the CPU executes the code it is in (weak fairness of
`CpuStep`), `init` goes on although `kernel_main` may print before it and a handler
prints finitely often (strong fairness of `InitStep` and `Halt`), and an interrupt
that is requested is taken at some instruction that runs with the flag set (strong
fairness of `Deliver`, as every `println!` disables the flag for a while). Nothing obliges a key
to be pressed, a waker to be woken or a machine to be reset, and no such event is
fair.

The number of key presses is finite (`MaxKeys`). That matters for the other
tasks only: `print_keypresses` returns Pending when its queue is empty, so a
keyboard that never lets it run empty would keep the CPU in one poll for ever.
The properties about scancodes do not depend on it.

## 4. Findings

1. `task_queue_full`. `wake_task` asserts that its push succeeds. A key press
   between `register` and the second `pop` queues the task, and the same poll
   goes on and registers again. A poll that meets this window often enough fills
   the queue and the interrupt handler panics. With the real 100 places this
   takes about 100 hits in one poll.
2. `inode_overrun`. `allocate_inode` does not know `inode_count`. On a disk with
   one inode table block (10 to 19 blocks) the fifth inode lies in the root
   directory block; the stale copy of that block is written over it and
   `create_file` returns `Ok`. The comment in layout.rs asks callers to see to
   exact lengths.
3. `existing_fs`. The self test of `kernel_main` overwrites the superblock before
   the mount, so an existing file system is never found and always formatted.

Other places where the code and its comments part, without a run of their own:

* The comments of simple_fs.rs announce `FileExists`; `create_file` returns
  `Corrupt`, and nothing constructs `FileExists`. That a second create fails is part
  of `HelloAfterBoot`.
* `find_free_dir_slot` takes a used entry of inode 0 for free. The root is inode 0,
  so `add_root_dir_entry` overwrites "." first and ".." next. Files are safe
  (`AddKeepsFiles`), as their inodes are not 0.
* "initialize the heap only after mapping the heap pages" stands above a call inside
  the loop over the pages: the allocator gets the whole heap when one page of it is
  mapped, and again for every further page. With the fixed size block allocator this
  is harmless, since nothing allocates in between (`BlockInit` may be repeated); with
  `LinkedListAllocator` the second `init` would link the region to itself.
* `scan` compares the vendor of each function and then returns function 0 of the
  device. A device whose VirtIO function has another number leads to a panic, which
  is why `EnoughMemoryNoPanic` has to name this case.

## 5. Proofs

Every theorem holds for all values of the constants: any number of tasks, queue
capacities, key presses, blocks, names, faults, interrupt requests, heaps, layouts,
levels and widths of page tables, memory maps, buses, rows and columns. The hypotheses are the `ASSUME`s next to the declarations of the constants,
and two named conditions on the size of the disk, `BitmapFits` and `RoomForHello`,
which stand in the statement of the theorems that need them.

| Module | Theorems (property) |
|---|---|
| `Executor_proofs` | `ExecutorTypeCorrect` (`ExecutorTypeOK`), `NoLostWakeup` (`WokenIsQueued`), `TasksStayConsistent` (`LiveTaskBookkeeping`), `DoneIsFinal` (`DoneStaysDone`); `PollingIsFair` (`RoundRobin`) |
| `AsyncKeyboard_proofs` | `TypeCorrect`, `ImplementsExecutor`, `ProtocolKept` (`WakerProtocol`), `NoUnseenScancode` (`ParkedHasNoUnseenScancode`), `HandlerNeverFrees`, `BudgetKept`, `BudgetPreventsPanic` (`NoPanicWithinBudget`), `NoScancodeLost` (`EveryScancodeAccounted`), `ImplementsLossyChannel` |
| `Allocators_proofs` | `BumpImplementsHeap`, `BlocksImplementHeap`, `ListImplementsHeap` (`ImplementsHeap`), `BumpResetsWhenEmpty` (`BumpReset`), `BlocksHaveOneOwner` (`OneOwner`), `ClassesKeepTheirPeak` (`ClassMemoryIsPeak`), `ClassBlocksStayInPage` (`ClassBlocksWithinPage`), `ListRegionsSound` (`RegionsSound`), `ListLossBounded` (`LossBounded`), `ListFreedIsReusable` (`FreedIsReusable`) |
| `Interrupts_proofs` | `HandlersUninterrupted` (`FlagDiscipline`), `NoLockDeadlock` (`LocksAvailable`), `VectorsExpected` (`NoUnexpectedVector`) |
| `SimpleFs_proofs` | `DiskTyped` (`TypeOK`), `InodesHandedOutOnce` (`AckedInodesDistinct`), `FurtherNamesCostNoFile` (`AddKeepsFiles`); with `BitmapFits`: `RootStaysIntact`, `EntriesStaySound`, `CreatedFilesSurvive` (`AckedFilesSurvive`), `LeaksArePaidFor` (`LeakBound`), `CreatedFilesAreFiles` (`AckedInodeIsFile`), `FsImplementsNamespace` (`ImplementsNamespace`) |
| `KernelBoot_proofs` | with `BitmapFits` and `RoomForHello`: `EveryBootCreatesHello` (`HelloAfterBoot`) |
| `KernelStart_proofs` | `FramesAreExclusive` (`FramesExclusive`), `MappingsAreKept` (`MappingsKept`), `EnoughMemoryIsEnough` (`EnoughMemoryNoPanic`), `ScanIsComplete` (`ScanFindsFirst`), `WritesAreAddressed` (`WritesHitTheirRegister`) |
| `VgaWriter_proofs` | `ScreenIsText` (`ScreenShowsText`) |

### Executor

Both invariants are inductive relative to the types: `WokenIsQueued` because
`PopTask` removes an id from the queue and from `notified` in one step and every
wake adds to both; `LiveTaskBookkeeping` because it carries the fact that every id
in use is below `next_id`. The lemmas `IdsAppend` and `IdsTail` say what appending
and popping do to the set of queued ids.

### AsyncKeyboard

    KeyboardInv == ExecutorTypeOK /\ LiveTaskBookkeeping /\ KeyboardTypeOK /\ WakerProtocol

`ParkedHasNoUnseenScancode` is not inductive: that a parked task with a waiting
scancode is queued depends on what happened between the two pops. `WakerProtocol`
adds the state word of the AtomicWaker at each step of `poll_next`, the fact that
after `register` the waker is in the cell or has been used, and that a parked
task is queued, or has its waker in the cell *and* nothing to read.
`LiveTaskBookkeeping` is needed because the task is polled only while it is live.
`StepIsExecutorStep` shows that every step is a step of the open executor
(`ImplementsExecutor`); hence the executor's types and bookkeeping are inherited
and not proved again. `HandlerNeverFrees` adds that the executor caches a clone of
every waker in the cell.

`BudgetInv` adds to `KeyboardInv` the bound `WakeBudget` and the fact that no more
scancodes are popped than were read. It counts the entries of the queue, the
waker in the cell and the right to register once more against the spawns and the
popped scancodes: every transfer from one to the other is paid for. While there is a
place for each task and for each scancode read so far, no `expect` of the executor or
of the stream fails (`BudgetPreventsPanic`). Finding 1 is the other side of this
bound.

`EveryScancodeAccounted` is inductive relative to `KeyboardInv`, which says when the
hand is empty. From it every step is one of the channel or leaves the channel's
variables alone: `ImplementsLossyChannel` is `Spec => Channel!SafeSpec`, the channel
without its fairness.

### SimpleExecutor

`RoundRobin` compares numbers of polls and says nothing of the order of the queue.
The invariant adds that the queue holds the unfinished tasks once each, in the order
of their polls, and that the last is at most one poll ahead of the first.

### The allocators

* Bump: all live blocks lie between `HEAP_START` and `next`, `allocations` is their
  number, and without blocks `next` is `heap_start`; a new block starts at or behind
  `next`, so it is disjoint from all others.
* Fixed size blocks: `BlockInv` relates three views of the memory. The fallback
  allocator's blocks are disjoint (`FallbackSound`, its contract); each of them is
  behind exactly one live block or one list entry (`OwnersSound`), lists have no
  duplicates (`ListsSound`), and the two together are as many as the class's peak
  (`PeakSound`). Alignment: a block of a class is aligned to its size, and
  `BlockAlignmentAssumption` says that a smaller alignment divides a larger size. In
  Rust alignments are powers of two, and so are the entries of `BLOCK_SIZES`.
* Linked list: `ListInv` places regions and reserved pieces (a block with its rounded
  size) in the heap, aligned to a node and pairwise apart. `ListAlignmentAssumption`
  says the same of alignments as above, that there is a largest one, and that the heap
  is aligned to a node and holds one: `HEAP_START` is 0x_4444_4444_0000 and
  `HEAP_SIZE` 100 KiB. `LostAreMisaligned` is the inductive form of `LossBounded`: a
  lost byte lies in front of an aligned block and is misaligned for its layout.
  `FreedIsReusable` is an action property: the region `dealloc` adds fits the layout
  it came from.

Lemmas about `align_up`, about what a list loses by `remove` and gains by a push, and
about extents carry the arithmetic.

### Interrupts

`IntInv` describes every level of the stack, not just the running one
(`ContextSound`): only a level that runs or prints can be interrupted, an interrupt
handler sits directly on the main program, and the flag a level saved is the one that
was set when it was entered. `FlagSound` gives the flag as a function of the rest of the state,
`PicsSound` and `HolderSound` say who may hold the locks, and `VectorsSound` counts
exceptions against faults. `FlagDiscipline` alone is not inductive since `SerialUnlock` and
`Iret` put back what was saved earlier. `add_scancode` never waits for SERIAL1: the
keyboard's handler has level 2, the context above a holder of the lock is an exception
(`HolderSound`), so level 1 does not hold it, and level 2 holds it only while it prints
or after its own panic.

### SimpleFs and RootDirEntries

`DiskInv` (types; `ControlSound`: who runs when; `AckedSound`: inodes of acknowledged
files stay allocated) is inductive on any disk. With `RootFixed` (the directory block
is not the block of inode 0, and a running create writes to the directory block) it is
so beside `add_root_dir_entry` as well, which gives `InodesHandedOutOnce` and
`FurtherNamesCostNoFile`.

Everything about the directory needs `BitmapFits`: the inode bitmap is no longer than
the inode table. Finding 2 shows that it fails without. In the code it means at least
10 240 blocks (5 MiB), 4096 bits over 4 inodes per block and a tenth of the blocks.
`FsInv` adds to `DiskInv` the root on its way through `init_root_directory`
(`RootSound`), that `create_file`'s copy of the directory is not stale and its inode
is no file's (`CreateSound`), and the properties themselves. The argument: root and
data blocks lie behind the table, inodes have cells of their own, so each step leaves
the directory the same, adds one entry in a free slot, or founds it (lemma
`DirectorySteps`). The same three cases are the steps of `FileNamespace`. For
`LeakBound` an inode enters `Leaked` only in a step that counts a fault.

### KernelBoot

`BootInv` adds to `FsInv` what each stage of `kernel_main` has reached: no magic number
after the self test, empty bitmaps after the format, an empty directory before the
first create and inode 1 for `hello`. `RoomForHello` asks for a second inode and a
third directory entry (the code has 4096 bits and 8 entries).

### Memory in KernelStart

    MemInv == MemControl /\ TablesSound(tables) /\ FramesSound /\ MappingsKept

`FramesExclusive` counts frames and `MappingsKept` compares walks; neither says why a
frame given to a table cannot turn up in another walk. `TablesSound` does: the tables
are a hierarchy (an entry above the last level leads one level down, and no two
entries lead to the same table), every table that was added lies on the way to some
heap page, at a place where the boot loader's walk ended, and a step of a walk to a
heap page that the boot loader's tables allowed leads to the same entry as before. `FramesSound` says that heap pages, new tables and device
buffers are the first `next` usable frames, each in one of these roles.
`MemControl` ties `done`, `inits` and `pc` together.

The argument follows `map_to` from the root (`DescentStep`). A table in an unused
frame under a missing entry changes the meaning of no page (`AddTableWalk`): only
walks that ended at that entry reach it, and it is empty. An entry in a last table
changes its own page only (`LeafWalk`): in a hierarchy different pages end in different
entries (`UniqueWalk`), as a page is determined by its indexes (`Digits`). For
`EnoughMemoryNoPanic`, new tables are mapped one to one into the places where the boot
loader's walks of heap pages end (`MissingBound`), so `next` stays below
`FramesNeeded` until both devices are made. The other ways to panic are the ones the
property lists: a mapped or huge heap page, a request for two pages, a function 0 that
is not VirtIO, and a failed call on the device (`failed`); that `share` panics for no
buffer follows from `MappingsKept`.

`MachineAssumption` is the caller's side of the `unsafe` functions of memory.rs: the
regions of the memory map are ordered and disjoint, usable ones hold no page table,
and the tables of the boot loader form a hierarchy in which the kernel's own buffers
are mapped. A page table entry that leads to a table of the same or a higher level
(recursive mapping) would break it; the boot loader is built with
`map_physical_memory`, not with `recursive_page_table`. TLC evaluates the assumption
on every machine of `kernel_start`.

### PciScan in KernelStart

`StartIsPci` shows that the composed start takes only steps of `PciSpec`. `Fields`
proves by arithmetic that bus, device, function and offset can be read back from the
packed address for all their values; the rest is the invariant that no function
visited so far is a VirtIO one, and that the driver has one function.

### VgaWriter

    Wrote(w, t) == w \in Writers /\ t \in Seq(Byte) /\ Laid(t) /\ Displays(w, t)

says that the writer `w` shows the text `t`. `Displays` is the property. It is not
inductive without `Laid`: no byte of the text belongs below the line that is being
written, or right of the cursor in it; otherwise a byte could be written over another
one's place, and a new line would not be blank. `ByteWritten` is the step of
`write_byte`, from the same step of the reference layout (`EndStep`: where the text
ends after one more byte, for a line break, a full line and neither) and from
scrolling (`ScrollShows`). Where earlier bytes belong does not depend on later ones
(`PrefixKept`). `LoopWritten` carries it over the loop of `write_string`.

### Recursive functions

The walk through the page tables, `map_to`, the usable frames and the loop of
`write_string` are recursive functions over an interval of numbers. That such a
function exists, and what it computes, is proved by induction on a *set* of numbers
(`UpTo`, from the well-foundedness of the naturals): the statement to be proved for
all `i` is the membership of `i` in a set.

## 6. Model-checked only

* Liveness (`WokenIsPolled`, the liveness in `ImplementsChannel`, `BootCompletes`,
  `EveryIrqServed`), which is outside what TLAPS proves here. The safety
  part of the channel refinement is proved.

Every other property of a passing run is the subject of a theorem.

`DoneStaysDone` and `WakeBudget` are proved and have no run: the first because only
`Spawn` inserts tasks, and each under a fresh id; the second is the invariant behind
`NoPanicWithinBudget`, which the run checks.

## 7. Not modelled

* The text of messages, the decoding of scancodes, the descriptor tables: data or
  configuration that no property of this project tells apart.
* `delete_file`, `open_file`, `list_file` are `todo!()`. `Bitmap::clear`,
  `create_example_mapping`, `EmptyFrameAllocator`, `sleep_if_idle` and the
  allocator `Dummy` have no caller; `scanc.rs` is a table no code uses.
* The test runner and the QEMU exit codes of lib.rs, and the tests.
* The start of the kernel is modelled in parts (`Interrupts`, `KernelStart`,
  `KernelBoot`, `AsyncKeyboard`) that are not composed with each other: they share
  no state but the order in which `kernel_main` runs them.
* `AsyncKeyboard` stops at a panic, although a panic in the main context leaves
  interrupts enabled and keys would still be pushed; `Interrupts` covers handlers
  after a panic, without the queues.
* Overflow of `usize` in `align_up` and the `expect` of `align_to` near `isize::MAX`:
  heap addresses and layouts are far below, which the assumptions on the
  constants express. Buffers passed to `share` that are larger than a size class or
  lie on the stack: whether they are contiguous depends on the boot loader.
* In AsyncKeyboard each operation of the lock-free queues is one step. Inside the
  crossbeam queue a push spins while a pop is between its two steps at a full
  queue; on one CPU the handler would then spin for ever. It is a hazard of a
  dependency and is listed in `PROJECT.json`.
* Devices of fewer than three blocks plus table (the subtraction in `format`
  underflows) are excluded by the assumption of `SimpleFs`.

## 8. Plan

Done, in this order: `Executor`, `AsyncKeyboard` with `ScancodeChannel`, `SimpleFs`
with `FileNamespace`, `KernelBoot`, and the first proofs; then `Heap` with the three
allocators, `Memory`, `Interrupts`, `VgaWriter`, `SimpleExecutor`, `PciScan`,
`KernelStart` and `RootDirEntries`; then the proofs of section 5. Every part of the
source that keeps state is modelled, and every safety property a run checks is proved.
What a team would do next depends on the code: `delete_file`, `open_file` and
`list_file` are to be added to `SimpleFs` once they are written (`FsInv` is where a
file that disappears meets `AckedFilesSurvive`), and a fix of one of the findings turns
its run into a passing one.
