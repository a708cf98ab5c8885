# A verification of the limix kernel

limix is a small x86-64 kernel, loaded by Limine. This directory holds TLA+
models of its memory management, its locking, its disks, its terminal, its
file systems and its bus scan, the TLC configurations that check them, and
TLAPS proofs of what matters most about each of them. `PROJECT.json` lists the
runs, the source lines behind each definition, and the hazards that the
properties are for.

## Inventory

| Part | State | Operations | What makes it correct |
|---|---|---|---|
| Page allocator, `mm/pmm.c` | list of tags (runs of free frames) and its length | `pmm_init`, `mark_pages`, `request_page(s)`, `free_page(s)`, `_fix_memtags` after each | no frame is free twice, or free and held; only usable memory is given away; the loops end |
| Virtual memory, `mm/vmm.c` | page tables | `vmm_init`, `vmm_map`, `vmm_mapping`, `vmm_new` | a mapping is what was mapped last; missing tables get a page each |
| Heap, `mm/heap.c` | linked headers, `_heap_last`, `heap_top`, counters, `_heap_lock` | `heap_init`, `kmalloc`, `kfree`, `expand_heap` | segments tile the region; no overlap, loss or fragment; `kmalloc` ends |
| Locks, `kipc/spinlock` | one bit per lock | `spinlock`, `spinunlock` | exclusion, no circle of waiting CPUs |
| Log and serial port, `debug.c`, `io/serial` | two locks, the levels, is there a port | `_log`, `_logf`, `serial_writes` | a line is not mixed with another; a call returns |
| Panic, `panic.c`, `int/isr.c`, `int/idt.c` | none of its own; uses the log | `kernel_panic_error`, `kernel_panic`, `fault_handler`, `panic_handle` | the CPU halts after saying why |
| Terminal, `gfx/vt`, `kprintf` | cells, cursor, dirty range, colours, a lock | `kprint`, `kprintc`, `vt_flush`, `vt_redraw`, `vt_clear` | the screen shows the cells; the cursor is inside |
| Drm, `gfx/drm` | framebuffers, the active one, two locks | plots, figures, `drm_clear`, `drm_switch` | writes stay inside the framebuffer |
| Device manager, `hw/devman`, `fs/gpt.c`, `krealloc.c` | drivers, storages, partitions, two locks | register, probe, `devman_add_storage`, `devman_add_partition`, read, write | a device goes to a driver that matches it; each storage is found by its number; tables grow |
| AHCI, `hw/storage/ahci` | registers and memory shared with the drives | probe, configure, `_ahci_port_io_sata` | a finished command has moved its data; a late one does no harm |
| Vfs and devfs, `fs` | tree of directories and files, list of devices | `vfs_find_*`, `devfs_create`, `devfs_reload` | a path finds its file; no file is used after it was freed |
| ACPI, PCI and PCIe, `hw/acpi`, `hw/pci`, `hw/pcie` | the root table, regions of configuration memory, registries of names | `acpi_init`, `acpi_get`, `pcie_init`, `pci_search`, names | each device is offered to the drivers once; names come from inside of their tables |
| Semaphores, APIC, PS/2, SMBIOS, ... | mostly hardware registers | set-up; much of it is never called | not modelled |

How they interact: all parts log; the log allocates from the heap, writes the
serial port and the terminal; the terminal draws on the drm. The heap takes
pages from the page allocator and maps them. PCIe calls the device manager
back for each device, which calls the drivers' `init`, which call the device
manager again to add storages, which reads the partition table. All of them
may panic, and the panic logs.

Hard behaviours: the locks nested along these calls; the heap that is unlocked
between an expansion and the next attempt; the in-place list of tags, which is
merged and shifted while loops run over it; panics that come with locks taken;
commands of AHCI that were given up and go on; the flush of the terminal
outside of its lock; memory that is used without having been cleared. There is one CPU as long as nothing calls `smp_init`; the
locks are there for the CPUs that it starts, and the models have several.

## Plan

Written, in this order:

1. `PageAllocator`, `Pmm`, `MCPmm`, `PmmProofs`: everything else gets its memory here.
2. `Heap`, `MCHeap`.
3. `KernelLocks`, `MCKernelLocks`: composes the log, heap, serial port,
   terminal, drm, CPU list, device manager and panic at the level of locks.

4. `Ahci`, `Devman`, `MCDisk`: from a handle of the device manager down to the
   drive, with the scan of the partition table.
5. `Drm`, `Format`, `Vt`, `MCDisplay`: from `kprintf` to the pixels.
6. `Vfs`, `DevFs`, `MCFiles`, on top of `Drm`.
7. `Acpi`, `Pcie`, `PciName`, `Bus`, `MCBus`: from the firmware's tables to the
   drivers.
8. `Vmm`, below `Heap`.
9. `Numbers`, `HeapProofs`, `LocksProofs`, `DiskProofs`, `BusProofs`,
   `VtProofs`, `FilesProofs`: the theorems of the other parts, each described
   below with its part.

`Numbers` has what the proofs need of natural numbers and the library states
only for operators: the least number of a set, induction up to a bound for a
set of numbers, iteration of a function that is defined by recursion on a
number, and division with remainder.

## The page allocator

`Pmm` has the variables of `pmm.c` (`memory_tags`, `memory_tag_count`), the
locals of `_fix_memtags` (`i`, `j`, `changes`) with `op`, which says where in
its loops the call is, and the boot (`boot`, `entries`, `e`, `end_last`,
`list_at`). `held` is a history variable: the frames the callers have.
Addresses are page numbers.

| Actions | Code |
|---|---|
| `Boot` = `PlaceList`, `MarkGap`, `AddEntry`, `EndOfMap`, `VmmInit` | `pmm_init` 90-134, `vmm_init` |
| `RequestPage`, `RequestPages`, `ReleasePages` | 154-162, 164-176, 136-152 |
| `FixMemtags` = `DropEmpty`, `KeepTag`, `BeginMerge`, `Merge`, `SkipPair`, `NextRow`, `EndPass` | `_fix_memtags` 19-56, a loop pass per step |

The code has no lock around the list, so it is one caller at a time; a call
begins only when `_fix_memtags` of the last one is through. A panic stops the
machine. A panic and the endless loop that begins when the last frame is taken
(`memory_tag_count - 1` wraps in line 30) are values of `op`.

`PageAllocator` is what the callers rely on: sets of free and held frames;
`Alloc` moves a block from one to the other, `Free` moves it back. `Pmm`
implements it with `free` as the union of the tags (`AllocatorSpec`).

Checked in `MCPmm` with `TypeOK`: `TagsDisjoint` (no frame in two tags, even
half way through a merge), `HeldNotFree` (no double allocation),
`FreeIsUsable` (only usable memory, never the page of the list),
`IdleIsNormal` (between calls no tag is empty or can be merged into an earlier
one), `AllocatorSpec`, and `FixEnds` (`_fix_memtags` ends while a frame is
free, under weak fairness of its own steps: it is a loop on one CPU).

Bounds: 13 frames, blocks of up to 3, 4 tags, six memory maps. Four tags are
the fewest with which a merge shifts another tag: the tag that a release
appends is merged first, and what it has grown may then touch a tag in the
middle. The list can be full as well. The maps have a hole at
address 0, reserved memory directly behind usable memory, adjacent and very
short entries, an entry used up by the list itself, and one map with no usable
memory.

Not modelled: memory behind the page of the list, which the move in the merge
loop touches when more than half of the slots are used (`pmm.c:43`).

Two runs show disagreements between the code and what it says of itself.

- `MCPmmMark`: `mark_pages` "Marks a block of pages as used" (`pmm.h:25`), but
  at the end of a tag it takes frames in front of the block off the tag.
- `MCPmmOom`: "Out of memory (physical)" (`pmm.c:174`) is reported although
  the frames are free and consecutive: a pair of touching tags is not merged
  when the later one in the list begins first.

### Proofs

`PmmProofs` proves, for every set of frames, memory map, capacity and set of
block sizes that satisfy the named assumptions (`FramesAssumption`,
`MaxTagsAssumption`, `CountsAssumption`, `MemoryMapsAssumption`: Limine sorts
the map and usable entries do not overlap):

- `TypeCorrect`, `DisjointTags`, `NoDoubleAllocation`, `OnlyUsableMemory`,
  `IdleListIsNormal`: the five invariants;
- `ImplementsAllocator`: `Spec => AllocatorSpec`.

The invariants are not inductive one by one. `IInv` has three parts: `TInv`
(types, the order of the memory map, and the ranges of the indices of boot and
of `_fix_memtags`), `FrameInv` (listed and held frames are usable, the tags
and the held frames are disjoint, the list's own page is covered by no entry,
and while boot adds entries, the listed frames lie below the one it is at), and `NormalSoFar` (what the passes have established of the tags before
the indices, which becomes `IdleIsNormal` when a pass without changes ends).
One lemma per action shows each part preserved; lemmas about cutting,
appending, removing and merging tags say what these do to the set of free
frames. In the refinement a request maps to `Alloc`, a release to `Free` and the
steps of boot to `Seed`, which may change the free frames as long as boot
lasts; the steps of `_fix_memtags` after it are stutters, because they keep
the set of free frames.

`FixEnds` is a liveness property and is only model-checked.

## The heap

`Heap` has one function `seg` from header addresses to headers, `heap_last`
and `heap_top`; sizes are in units of 16 bytes, a header has 3. `pending` is
the size a CPU inside `kmalloc` asks for, `held` (history) the blocks callers
have. A pass over the list runs under `_heap_lock` and is one action: `Take`
(164-185, with `Split`), `Expand` (the last lines of `kmalloc` and
`expand_heap`), `Kfree`. Between `Expand` and the next pass the lock is free.
A request that takes the last free page never returns (`stuck`): the list of
the page allocator is empty then, and `_fix_memtags` counts up to the wrapped
bound of `pmm.c:30` (`Pmm` has this as the operation `endless`), while
`_heap_lock` stays taken. The panic of `request_page` for an empty list is not
reached.

Callers free only what they hold, so the canaries are never wrong and are left
out; so are the byte counters.

`Vmm` has the page tables below it: `paging` is the content of each frame as a
table, and the frames that are free. `VmmMap` and `VmmMapping` reach a table as
`vmm_map` and `vmm_mapping` do, at an address whose first indices are
`FractalIndex`, where the root refers to itself; `Translate` is the
processor's walk. `expand_heap` requests a page and maps it, and `vmm_map`
requests another for each table that is missing; either may be the request that
does not return. `HeapMapped` says that every page of the region leads to a frame
of its own, which is neither free nor a table.

`MCHeap` checks `Tiling`, `Linked`, `Coalesced`, `HeldIntact`, `HeapMapped`,
`ExpansionSuffices` and `KmallocEnds` for two CPUs, pages of 8 units, two
pages growing to four, and requests of 1, 5, 8 and 13 units: 5 fills a page
with its header, 8 needs more than one page, 13 is the whole initial region,
and the rests are below, at and above the threshold of line 170. A table has 3
entries and the heap begins at page 25, which is 0221 in base 3: the first page
of growth is 1000 and needs a new table at each of three levels. Ten of the
eleven frames are the four pages and six tables; taking the eleventh does not
return, so that expansions stop at every possible place between a page and its
tables. `KmallocEnds` says that a call returns or a CPU is `stuck`, and then
all calls wait for ever, its own and those that begin later: exhaustion is not
reported, it hangs. It assumes that a CPU that spins on `_heap_lock` gets it at
last (weak fairness of a pass). It holds because the memory is finite: other
CPUs can take what a call had the heap expanded for only as often as the heap
can grow.

### Proofs

`HeapProofs` proves, for the heap and the page tables below it, for any number of CPUs and any
page and table sizes: `TypeOK`, `Tiling`, `Linked`, `Coalesced`, `HeldIntact`,
`HeapMapped` and the action property `ExpansionSuffices`.

`HeapInv` is the inductive invariant of the list: it is `Sound` (each segment
ends where the next begins, the last one at `heap_top`, the links back agree
with the links forward, and no segment reaches into another), each neighbour
of a free segment is in use, and the segments in use are the blocks held. What
`Split`, `AppendSegment` and the two `Combine` functions do to a sound list is
a lemma each. `Apart` has to be part of `Sound`: that the segments tile the
region in the order of the links says nothing yet of a header that no link
leads to, and only this makes the block `kfree` is given the one the list has
there.

The page tables are treated as a tree. `Tree` gives each frame a level (0 for
the root, 1 to 3 for tables, 4 for mapped pages, 5 for the others), with each
entry but the root's own leading one level down, no frame entered twice, no
table empty except the one just made, and the pages that translate being
exactly the mapped ones. `vmm_map` reaches tables through the root's entry for
itself; the proofs show that this is the walk from the root, and that each of
its three `Ensure` steps and the last `Enter` keeps the tree. As the
frames entered are all different, `HeapMapped` follows by counting.
`map_pages` is a recursive function on the number of pages, which `Iteration`
(`Numbers`) turns into one lemma per page.

The assumptions: sizes are positive, a page is larger than a header, the first
pages exist (`heap_init` would fail otherwise), and `HeapSpaceAssumption`: there are
at least as many addresses from `HEAP_BASE` on as there is memory, none below the
root's own entry. `HEAP_BASE` leaves 32 GiB to the end of the address space, and nothing
in the code checks that the heap stays below it, so that this is an assumption
about the machine.

`KmallocEnds` is a liveness property and is only model-checked.

## The locks

In `KernelLocks` a CPU is the sequence of steps before it: take or drop a
lock, print, or call. A call is replaced by one of the paths of the function,
`Paths`; each function of the code that takes a lock, or calls one that does,
has a definition of its own, named after it. `owner[l]` is the lock's bit with
the CPU that set it. Loops stand as one pass or two, for their locks repeat.
Data are left out: which path is taken is a choice.

`MCKernelLocks` (two CPUs, a serial port, a sound heap) checks:

- `LocksMatch`: a CPU between taking and dropping a lock owns it, nobody else
  owns any, and none is kept on return;
- `NoWaitCycle`: no set of CPUs in which each waits for another, or for
  itself;
- `LineInOwnColour`: `_log` prints colour and text by two calls of `kprint`,
  and the lock of the log keeps other lines out between them;
- `PanicHalts`: `kernel_panic_error` ends in `hcf`. The panic in this run
  comes with no lock taken, or with `driver_lock` taken (`gpt_init`);
- `CallReturns`: what a CPU begins ends, unless a CPU has halted (which may
  have kept `driver_lock`).

Two CPUs are enough for circles between two locks and for a CPU that waits for
itself; longer ones would need a third. All calls the kernel makes take the
locks in the order driver, storage, CPU list or panic, log, then heap, serial
port or terminal, then drm, drm system, so that a third CPU has no circle to
close. `log` and `kernel_panic_error` are reached through the other entries.

Fairness is strong for each CPU's steps. The lock (`bts` and `pause`) keeps no
order among the CPUs that spin, so that nobody loses for ever is an
assumption; a CPU that is not spinning goes on by itself.

Two runs of the same module show that a panic does not keep its promise "the
system will be halted" (`panic.c:46`):

- `MCKernelPanic`: a wrong canary makes `kmalloc` panic with the heap locked.
  The panic logs, the log allocates.
- `MCKernelNoSerial`: without a port `serial_writes` returns with its lock
  taken, and the next one spins.

`LocksProofs` proves `LocksMatch`, `NoWaitCycle` and `LineInOwnColour` for any
number of CPUs and any set of entries (`EntriesAssumption`: functions of
`Paths`, except the two prints of a line, which the code has in `_log` and
`_logf` only), under the two conditions of the first run, `SerialAvailable`
and not `HeapBroken`; the other two runs show that neither can be dropped. Each lock and
each function has a rank. `Closed(p, r)` says of a path that it takes and drops
locks in pairs, with every step inside a pair of a higher rank than the lock,
and none below `r`; a lemma per function shows all of its paths closed under its
rank. Putting a path in the place of its call keeps what a CPU has still to do
`Nested`, whose open pairs are the locks that the CPU owns
(`LocksInv`). So a CPU waits only for a lock of a higher rank than all it
owns, and in a circle of them the highest would have to wait for a lower
one: that also shows for any number of CPUs what the run shows for two.

For `LineInOwnColour` the invariant is `LineInv`: what each CPU has still to do
is `Ordered`, that is, each print of a colour or a line has the log's lock
dropped after it with no taking before, and each line has its colour before
it, without a taking of that lock between the two. If a line's colour is set
already (`Due`), `colour` names that CPU. `PathShapes` says what each function
does with the two prints, `EnterOrdered` that the order survives the
replacement of a call by its path; here `Nested` is needed again, for a call
between the colour and its line must not take the log's lock. Then by
`LocksInv` whoever prints either owns the log, and no second CPU can have a
line that is due.

`PanicHalts` and `CallReturns` are liveness properties and stay with TLC.

A double free (`heap.c:147`) logs with the heap locked and can meet a CPU in
`_logf` that holds the log and wants the heap; the run leaves double frees out
because callers are modelled to keep the contract of `kfree`.

## Disks

`Ahci` is the driver and the drives behind it. `port` are the registers they
share, `table` the command header and table of a port's slot 0, `drive` what a
drive has taken from there, `io` the call of `_ahci_port_io_sata` in progress
with its place in the function, `mem` the buffers and `disk` the sectors.
`Devman` is on top: `ahci_init` port by port, `devman_add_storage`, `gpt_init`,
and after the boot a user's `devman_read` and `devman_write`.

| Actions | Code |
|---|---|
| `StopPort`, `ConfigurePort` | `ahci_port_stop_cmd`, `ahci_port_configure` |
| `ClearInterrupts`, `WaitReady`, `FillTable`, `FillForeign`, `FillFis`, `Issue`, `Spin` | `_ahci_port_io_sata`, up to each access the drive can see |
| `Follow`, `Fetch`, `Move`, `Finish`, `Fail` | the drive: external |
| `DevmanAddStorage`, `ReadHeader`, `CheckHeader`, `LogHeader`, `ReadEntries`, `TakeEntry`, `NextPort` | `devman_add_storage`, `gpt_init`, the loop of `ahci_init` |
| `DevmanRead`, `DevmanWrite` | the same, with a handle of a storage and a partition |

A drive moves a sector per step, can fail at any step, and need never answer.
The second spin of the driver runs out whenever it likes: it is a count of
passes, and a drive has no deadline. `late` is a history variable, the ports on
which a command was given up.

`gpt_init` requests `sizeof(GptHeader) / 0x1000` pages, which is none: the page
of the header (`at.gpt`) is the first free one and stays free. Before the page
of the entries (`at.parts`) is requested, the header is logged (`LogHeader`), and
the texts of the log are put together on the heap. `header` says what became of the
header's page:

- `shared`: the heap did not grow, and the entries are read into the same page.
  What is read over the header then decides how the loop goes on
  (`PartitionEntries`, `HeaderKept`, `MayFault`);
- `heap`: the heap grew, and its first new page is the header's; the entries
  have the next one (`OwnPage`), and the header is still there. What is logged and
  allocated for a partition may go over it later;
- `lost`: the heap has written over it. The number of entries, the sector of
  the array and the size of an entry are then anything (`MaxEntries`, `Lbas`, and a
  division that may fault).

`ahci_port_configure` stores `addr << 32` as the upper half of a command
table's address (`ahci.c:144`), which is always 0. A table above 4 GiB (a frame
from `Low` on) is then looked for elsewhere: `table[p].whole` says whether it is
found, and the first call on such a port clears memory that is somebody else's
(`FillForeign`), where the model ends.

`MCDisk` checks

- `NoStrayDma`: a drive writes to memory only for the call that waits for it,
  or on a port where a command was given up;
- `DoneMeansDone`: a call that reports success has its sectors, as many as are
  left of `count` after the full entries of the PRDT (`ahci.c:188` counts down),
  as long as no command was given up. That is the code: of a call of more
  than 16 sectors, only the rest is read;
- `NumbersNameDrives`: storage numbers go with the SATA ports in their order;
- `ScanRegisters`: what the scan of a drive that answered every time has
  registered. If the header shares its page with the entries, nothing: the first
  read that goes well costs the header, and the next division by the entry size
  faults, so that the kernel of a healthy drive with entries does not get
  through the scan. Excepted are commands that were given up on another port
  whose header was lost: they can bring a header back. If the header's page
  went to the heap and is intact, the entries in use of the first page are
  registered, and no others of them. Entries of a later page are
  excepted, for `gpt.c:46` reads them one sector on and not eight;
- `BootEnds`: the boot ends in a panic, a fault or the running system.

`NoStrayDma` and `DoneMeansDone` except what a late command can do and say by
that how far it goes: into a page that `gpt_init` has freed, or into the answer
of a later call.

Fairness (`BootEnds`): the CPU goes on, and CR and FR of a port follow ST and
FRE, as the AHCI specification has it. Nothing is assumed of the drives.

Bounds: two drives that work and one that sleeps, two sectors per PRDT entry
instead of 16 and three per buffer, so that a call has one or two entries with
and without a rest; three partition tables, chosen for each drive by itself:
none, an empty one, and one with two entries, of which the first is in use, and
with bootstrap code where an entry's GUID would be. Command tables are found
below or above `Low`; a lost header names at most `MaxEntries`, one, and sector 0
(`Lbas`), where the header is read again. One call of the user (`MaxCalls`), of
three sectors (`Counts`), with the number of a drive or of none (`Indices`),
after a boot of up to six reads. A page has two sectors and a sector one
entry, so that the header lies over the second entry of a page rather than over
the fifth, and the two entries fill a page.

`DiskProofs` proves, for any number of ports, drives, partition tables and
calls, `TypeOK`, `DoneMeansDone`, `NumbersNameDrives`, `ScanRegisters` and
the action property `NoStrayDma`. The invariant has three parts.

- `AhciInv`: registers and drive of a port agree; on a port where no command
  was given up, only the call that spins has one (`OnlyItsCommand`); the
  tables hold what the call asks for (`CommandBuilt`), and so many sectors as the drive
  counts have been moved (`MovedSoFar`). The last part makes
  `DoneMeansDone` inductive, the second is why the waiting call's buffer is the
  one the drive uses.
- `DevmanInv`: the storages have the numbers 0, 1, ... in the order of their ports,
  and the ports that the scan has not reached come after all of them; the
  driver is called only where the scan waits for it.
- `ScanInv`: until the boot is over no drive is written, and a drive given up
  can at most read what lies behind its header, unless that was lost
  (`OnlyReads`). Without this a late command of one port could change what
  another one reads. `HeaderLost` follows a read of the entries over the header
  sector by sector, `HeaderStays` says that one with a page of its own stays
  while no command was given up. `SharedNone` is the first half of
  `ScanRegisters`; `HeapTold` is the second, with the entries taken so far for the
  drive that is being scanned, and `Places` and `Behind` say which drive that is.

The ports a scan has left are a set (`at.left`), and `Port` is its least: the
code's counter goes through the ports in this order. The assumptions say that
ports, sectors and blocks are numbers (`AttachedAssumption`,
`SectorsAssumption`), that a GPT's array lies behind its header
(`ImagesAssumption`), that a buffer holds a page, a page the header, and a PRDT
entry a page (`SlotsAssumption`: 4 KiB, two sectors and 8 KiB), that the
buffers are there (`BuffersAssumption`), and that a null pointer is no storage
(`NoEntryAssumption`). `BootEnds` is a liveness property.

`MCDiskTables` shows that `krealloc` and its callers disagree on the order of
its parameters: `krealloc.c:6` takes the new size first, `heap_wrap.h:7`
declares the old one first. With three drives the table of storages is
written past its block. `TablesFit` states it; the other run has two drives,
for which the heap's rounding to 16 bytes hides it.

Not modelled: two CPUs inside the device manager at the same time (its locks
are in `KernelLocks`), what a late command does to the heap after it has written into a
page that the heap took, the partition in a handle beyond whether it is found (its
start is not added, `devman.c:237`), and slots of the command list other than 0, which the
driver does not use.

## The display

`Format` is `kvfprintf` with `ntos`, a function from a format and its arguments
to a text. `Drm` has the pixels: `screen`, the `back` buffer of each drm, which
one is `active`, and the offsets `outside` of a buffer that were written. As
`config.h` defines `DRM_WRITETHROUGH`, the active drm is drawn to the screen
only. `Vt` has the terminal: `vt` are the static variables of `vt.c`, `job` the
`kprintf` of each CPU with its text and place.

`kprint` takes the terminal's lock (`Lock`), puts the characters one by one
(`PutChar`, with the scrolls and flushes that belong to a character), drops
the lock (`Unlock`), and only then calls `vt_flush`, which is `BeginFlush`,
`FlushAll` or `FlushDirty` cell by cell, and `EndFlush`. `VtClear` and
`FontParse` end in the same flush, `Switch` is `drm_switch`. Unsigned columns
that wrap are negative here.

`MCDisplay` checks with `TypeOK`

- `DirtyCovers`: a cell that the screen does not show as it is lies in the
  dirty range, or everything is to be drawn;
- `PictureTrue`: when nobody prints, the screen shows the cells;
- `CursorInside`: the cursor does not leave the screen to the right or below,
  and nothing is drawn outside of the screen's memory;
- `OutsideAfterBackspace`: memory outside of the cells is written only by a
  character after a backspace left of the first cell;
- `NumbersReadBack`: what a number is printed as reads back as that number, and
  that of a positive signed one begins with a plus sign.

The first two hold as long as no flush overlaps another CPU's step and the drm
is not switched; `behind` is the history of these two, and a complete redraw
clears it. That is as much as the code gives: with overlapping flushes, a CPU
resets a dirty range that another has just extended.

Bounds: a screen of two by three characters of 2 x 4 pixels, one pixel wider
than that, with rows that have a pixel of padding; two calls of `kprintf`
(`MaxPrints`) and one of `drm_switch` or `vt_clear` (`MaxSwitches`). A tab (8
columns) is enough for two scrolls, and each text ends in another column.

### Proofs

`VtProofs` proves, for any size of the screen, of its rows in memory and of the
characters, any fonts, texts and number of CPUs: `TypeOK`, `CursorInside`,
`DirtyCovers`, `PictureTrue`, `OutsideAfterBackspace` and `NumbersReadBack`. The
proof of those about the screen goes up in four steps.

- Geometry: the pixels of different cells differ, and different pixels have
  different offsets in the memory of the screen (`OffsetsApart`, from
  `DigitsApart`: a number has one quotient and one remainder). So drawing some
  cells shows these and leaves all others as they were (`PaintCells`).
- Operators: `Follows` says of a pair of terminal and display that it comes from
  another one with what is not drawn still `Covered`, that is in the
  dirty range or to be redrawn with everything. `vt_flush`, the two advances,
  a tab and a written character are shown to do so one by one, and `kprintc` by them.
- Steps: `VtInv` has the types, `Holding` (who prints characters has the lock)
  and `Picture`. As a flush outside of the lock takes many steps,
  `Picture` says for the only CPU in one what it has got done
  (`FlushedSoFar`): the cells before its place, or all outside of the rest of the range.
  It is not enough to say this of the histories the properties are about: a complete
  redraw begins with a history of `{"redraw"}` and ends with an empty one, so that
  `Picture` holds for both.
- The properties follow, because drawing a cell anew changes nothing exactly if it
  is drawn (`DrawnShown`).

`NumbersReadBack` needs little of the states: a CPU that waits for the lock has
the text of its call (`TextTrue`), whatever the others do. The rest is
about `ntos`. What is left of a number after each of its digits is a recursive
function (`Quotients`), of which a text has the remainders in reverse
(`Written`), after a sign, with zeroes in front if it is padded; reading such a
text undoes one division with each digit (`WrittenReads`, by induction up to
the number of digits).

The assumptions: sizes are positive, characters have an even width and
height (the built-in font has half their size), there is room for a column of
`ScrollStep` characters (`ScrollAssumption`: with fewer rows than the four
of a scroll, `vt_advance_y` would leave the cursor above the screen), no CPU is called
`NoOne`, and the digits of a number fit the length that the conversion allows
(`NumbersAssumption`: 16, 30, 32 and 128 digits for 64 bits).

`ansi_process` is not modelled: `_state.working` is never set, so that it is
not reached. Two drms are configured although `MAX_DRMS` is 1 (`config.h:12`),
because the code is written for several.

## Files

`Vfs` has the list of mounts and the walk down a path, `DevFs` the devices and
the calls of a program: `MakeDevfs`, `MountTree`, `DrmRegisterVfs`,
`DevfsReload`, `Lookup` (`vfs_type`, `vfs_find_file`, `vfs_find_directory`),
`DevfsRead`, `DevfsWrite`, and `Draw`, each figure of `drm.c`. The kernel's boot
calls none of them yet; they are modelled as a program may call them.

`kmalloc` does not clear memory, so that the fields which nobody sets are either
`NULL` or `Wild`: a mount's `next` and `root` and a new directory. A call that
follows a wild pointer sets `wild` and ends the behaviour. `devfs_reload`
frees the nodes of its own list (`Cleared`), which it then reads; a file that is
built from one of them can be used (`DevfsRead`) or is anything (`UseFreed`).

`MCFiles` checks

- `FilesFound`: `vfs_find_file` succeeds exactly for the paths that lead to a
  file, and finds that one. What a path means is defined on sets of
  directories (`Reached`, `Leads`), without the order and the flag of the loop
  in the code (`Places`, `Enter`);
- `ReadsReach`: a read or write of a device file reaches the device of that
  name, and a wild pointer is followed only because of a field that nobody
  set or after a second `devfs_reload`;
- `DrmReadsBack`: pixels written to a drm that is not on the screen are read
  back. Of the active one `_drm_read` takes every pixel from `o * i` (line
  333), so that nothing can be promised of it;
- `FiguresWhole`: lines, rectangles and circles have the points they should,
  and what lies on the screen is drawn inside of its memory.

Bounds: six calls (`MaxOps`), at most one of them `drm_register_vfs` (guarded in
its action); a tree with a directory in a directory of the same name
and files of the same name at two levels; every figure on a screen of six by
five pixels, as the first call. A path is the sequence of its names, of fewer
than 16 characters each (`clone` does not terminate the copy of longer ones).
`vfs_find_directory` is modelled with the step it goes too far, and no property
is claimed for it.

### Proofs

`FilesProofs` proves the four properties for any trees, paths, transfers and
figures, any number of calls and any size of the screen.

- `FilesInv` is the inductive invariant of mounts and devices: roots other than
  that of the device files are directories of the trees, the device list is one of those that
  registration can make (`Known`), and as long as no wild pointer was followed, the
  files of the mounted `devfs` were made from that list (`Made`) and no device is
  freed before the second `devfs_reload`. `WildCause` adds why a wild pointer
  was followed. `ReadsReach` alone is not inductive: it says nothing of the files
  that the next read will find.
- `FilesFound` compares the walk with the meaning of a path, name by name: as long as
  the walk is in a directory it is the only one reached, and once it has met
  a file or nothing, no directory is reached. This is where names in one directory have to
  differ.
- `DrmReadsBack` holds of two calls in a row, so that the invariant says what
  is in a drm's buffer after a write (`Wrote`). That a pixel of `_drm_write`
  goes to the offset from which `_drm_read` takes it is division with remainder.
- `FiguresWhole` is about what the drawing loops compute. For a line
  `After` ties the error to the steps made, so that it stays between 0
  and the longer side and the pen within half a pixel (`NearLine`). Vertical and
  horizontal lines are lines whose error never asks for a step aside, and a
  rectangle consists of these. For a circle `Near` says that
  -y <= x^2 + y^2 - r^2 <= r at the pen, which each turn of the loop keeps.
  What is drawn inside of the screen has offsets inside of its memory.

The assumptions: the directories a driver mounts (`Directories`: those of its trees) are
filled, with entries of different names (`TreesAssumption`); a path has a name,
there are names for two drms, sizes and radii are natural numbers, and
rectangles lie where `drm_plot` lets them be (`CallsAssumption`); and a wild
pointer is neither null nor a number (`VfsAssumption`).

## The buses

`Acpi` has `acpi_init`, `acpi_get` and `laihost_scan`; `Pcie` the regions of the
MCFG, reads through them and through the ports, and `pci_search`; `PciName`
where a name is taken from; `Bus` the boot from the registration of the drivers
to the end of the scan: `DevmanAddDrivers`, `RunAcpi`, `RunLai`, `PcieInit`,
`ScanFunction` for each place, `PcieInitDone`. `AskNames` and `AskSearch` are
calls of the lookups before the scan (through the ports) or after it. `handed` is
a history variable: which functions the drivers were given and who took them.

External are the firmware's tables and the functions on the buses (`machine`),
and the lai library, which scans for tables as it likes. A driver's `init` may
refuse any device.

`MCBus` checks

- `ScanFinds`: each function of the first segment that has its bus is given to
  the drivers once, in order;
- `DriverFits`: the driver that takes a function matches it, and those that
  match and registered later have refused it;
- `NamesInside`: a name is read from outside of its table exactly for the
  classes below 0x40 that `codes.h` does not list (`pci_name.c:298`) and for the interfaces
  of SATA and VGA devices beyond the three or two that have names (lines 364 and
  374), and from inside for every other code; the vendor is the one of the
  registry, which is the first module with its name;
- `SearchCounts`: `pci_search` finds number n exactly if there are more than n.
  Through memory this needs a `region_count` that has not wrapped: after 256
  entries it is 0 again, and the regions are not found.

The last two are about `pci_get_typename` and others that the boot does not
call; the log of the scan has the vendor and the device.

Bounds: two buses of two slots of two functions; 415 machines, with either
root table, without one, seven MCFGs (none, part of the buses, regions out of
order, buses of two segments, more entries than `RegionMod`, the modulus of
`region_count`, 3 for 256), and one device with each of 396 triples of codes
at the ends of the tables. The six drivers have all five kinds of addresses,
and three of them fit the same device. An entry of the MCFG is taken to name
the page of its first bus, which is what `pcie_get_device` computes with.

`BusProofs` proves all four properties for any number of buses, slots and functions,
any machines and any drivers. `BusInv` adds to them that the drivers are in the
reverse order of their registration (`DriversOrdered`), that the regions are
the entries of the MCFG once PCIe is up (`Stages`), that a registry which was found is the
first (`RegistryKept`), and for the scan half way that the functions handed
over are the ones it has passed and found, in order (`FoundSoFar`), each with a
driver that fits and the right vendor (`HandedTrue`). Places and their numbers
are shown to be a bijection, which is division with remainder. `pci_search` counts the matches
before a place; that there is one with n before it exactly if there
are more than n is `NumberN`: each place adds at most one to the count, so
that it does not skip n.

The assumptions: a function's codes are bytes and words, and no page of
configuration memory belongs to two functions (`MachinesAssumption`), which the firmware
has to see to; a null pointer is no page (`NullAssumption`); modules and records are
counted (`ModulesAssumption`); an address of a driver has as many parts as its type
says (`ConstructorsAssumption`).

Before the scan, `pci_config_read_byte` cancels its own shift and returns the
low byte of the word, which for the class is the subclass; `NamesInside`
therefore speaks of names after it.

## Not modelled

`PROJECT.json` has a reason for each part. The semaphores, `smp_init`,
`irq_init`, `ps2_init` and the run-time configuration are never called or
built, so that there is no use of them to be faithful to. Interrupt
controllers, segments, UART, keyboard, speaker and SMBIOS are registers and
constant tables. The text of log lines, fonts and the texts of names are data
that no property is about. Checksums and random numbers are pure functions that
no modelled part depends on.

Only model-checked, not proved, are the liveness properties `FixEnds`,
`KmallocEnds`, `CallReturns`, `PanicHalts` and `BootEnds`, which are out of the
prover's reach. The invariants and action properties of all passing runs are
proved.

The runs that expect a violation have no theorem: each is a counterexample.
