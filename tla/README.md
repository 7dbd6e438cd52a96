# libxenon in TLA+

libxenon is the library that homebrew programs for the Xbox 360 link against: it
starts the hardware threads, drives USB, disks, display and sound, and mounts file
systems behind newlib.  There is no operating system under it: a program calls
`usb_do_poll()` from its main loop, everything else is polled from there, and only
the hardware (USB controllers, the other CPU threads, the GPU, the system
controller) runs by itself.  What is hard in this code is therefore not locking but

- a controller that works on the same lists as the driver, and a driver that polls
  in the middle of its own operations (every wait is a nested `usb_poll`),
- devices that come and go at any point of such an operation,
- six hardware threads that talk through plain words of memory, and
- pools, caches and tables that nothing checks at their limits.

The modules here are translated from the sources, checked with TLC on small
instances, and proved with TLAPS where a property is stated for every value of the
constants.  `PROJECT.json` has, for every definition, the lines it stands for; for
every property, a mutation of a mapped definition that violates it; the list of
hazards; and the runs.

## 1. Inventory

Paths are relative to `libxenon/drivers/` unless they say otherwise.

### USB host controller driver (`usb/ohci.c`)
*State*: two pools (128 endpoint descriptors, 64 transfer descriptors) with free
lists; per endpoint a list of transfer descriptors with a dummy at its tail; the
done queue the controller builds, newest first, and hands over through the HCCA;
the interrupt status and the mask `ohci_intdisable`; the registers of the emulated
root hub.
*Operations*: `ohci_ept_create`, `ohci_ept_delete`, `ohci_xfer`, `ohci_intr`,
`ohci_intr_procdoneq`, `ohci_roothub_req`, `ohci_roothub_statchg`.
*Interacts with*: the controller, which reads and writes the lists; `usbd.c`, whose
`usb_complete_request` runs callbacks inside `ohci_intr_procdoneq`.
*Hard*: completion in reverse order; transfers already on the done queue when their
device is removed; an error halts an endpoint with transfers behind it; the change
interrupt is masked before somebody is known to listen.
*Correct when*: every descriptor has one owner; a request's count of descriptors is
exact; a request completes once, with the right status; waits end.

### USB device layer (`usb/usbd.c`, `usbdevs.c`, `usbmain.c`)
*State*: `usbdev_t` blocks with `ud_pipes[]`, requests (`ur_inprogress`,
`ur_tdcount`, `ur_status`), `ub_devices[]`, the flag that the bus needs a scan.
*Operations*: open and destroy pipes, queue, wait for, complete and free requests,
give addresses, poll, run the daemon.
*Hard*: the nested polling; freeing what a pending request still points to.

### USB hub driver (`usb/usbhub.c`)
*State*: one softc per hub with `uhub_devices[]`, the flag that it needs a scan, one
interrupt buffer and the request on it.
*Operations*: walk the tree, scan ports, clear changes, reset, enumerate, attach,
detach, mark a subtree detached, queue the interrupt request again.
*Hard*: all of it waits for transfers, and while it waits gadgets are plugged and
pulled and reports of this hub and others arrive.
*Correct when*: the tree is a tree, addresses are unique, a hub in use is watched by
exactly one request, a flagged hub is scanned, only what is gone is removed.

### USB input (`usb/usbhid.c`, `usbctrl.c`, `input/`)
*State*: an interrupt request per input device, controller numbers.
*Hard*: detaching what was attached half way.

### USB mass storage (`usb/usbmass.c`)
*State*: per stick its bulk pipes, geometry and disk entry.
*Operations*: attach, detach, read a number of sectors, recover from a stall, ask for
the sense.
*Hard*: three-phase bulk-only commands whose phases are queued together and may fail
one by one; a stick pulled out while one is under way.
*Correct when*: what is read is what was asked for, the stick is able to take the next
command afterwards, a read ends.

### CPU threads and power (`xenon_soc/xenon_power.c`, `cpusleep.S`, `ppc/except.S`, `../startup/xenon/startup_from_xell.S`)
*State*: `secondary_lock`, `secondary_alive`, a two-word mailbox `wait[]` per thread,
`thread_state[]`, the wake-up interrupts.
*Operations*: `xenon_thread_startup`, `xenon_run_thread_task`, `xenon_sleep_thread`,
`xenon_set_single_thread_mode`, `xenon_make_it_faster`; the loop of each thread.
*Hard*: two-word mailboxes without a lock; going to sleep while somebody wakes one
up; changing the clock of all cores while one still executes.
*Correct when*: a task runs once and on its own stack, nothing executes while the
clock changes, all threads are back afterwards.

### Heap of the USB stack (`nocfe/lib_malloc.c`, `lib_queue.c`)
*State*: a pool tiled by headers, each with the memory behind it; back pointers.
*Operations*: `kmalloc` with alignment, `kfree`, `kmemcompact`.
*Correct when*: the pool stays tiled, pieces are apart from each other and from the
heap's own words, aligned, and freed memory is joined.

### Virtual file system and devices (`newlib/newlib.c`, `diskio/diskio.c`)
*State*: `fd_array`, `mounts`, the device table.
*Operations*: open, read, lseek, close; mount, umount; register and unregister a device.
*Hard*: three tables that refer to each other while devices come and go; an open that
fails half way.
*Correct when*: devices and mounts name each other and descriptors have what they need.

### FAT (`fat/`, `diskio/disk_rb.c`)
*State*: three caches (disk sectors, FAT sectors, directory sectors); the mounted
volumes; open files with their cluster chains and positions.
*Hard*: positions kept four times, runs of sectors, caches shared with others.
*Correct when*: a read returns the bytes of the file.

### ISO 9660 and the DVD drive (`iso9660/iso9660.c`, `diskio/dvd.c`)
*State*: two block caches, what was found in the volume descriptors, file handles with
a flag `broken`; in the drive, a change of the disc it has yet to report.
*Operations*: open along a path, read, seek, close; read a sector, ask for the sense.
*Hard*: the disc changes at any moment, and the drive says so once.
*Correct when*: nothing read from one disc is taken for another's.

### GPU (`xenos/xe.c`)
*State*: the block of everything a program sets, with its dirty bits; buffers and their
locks; the primary and secondary ring; the pool of vertex buffers.
*Operations*: reset and start; set state, patch shaders, draw, resolve, clear; lock and
unlock; execute, synchronise; put vertices.
*Hard*: the GPU reads the rings and the buffers while the next commands are written;
what is not dirty is not uploaded.
*Correct when*: the GPU finds commands and vertices as they were written, and a draw
has the state that was set.

### Video and embedded memory (`xenos/xenos.c`, `edram.c`)
*State*: the registers of the video encoder and the display controller; the phases and
delays of the link to the memory chips.
*Hard*: some hundred accesses that can fail one by one; a search that repairs one part
and may break another.
*Correct when*: encoder and display agree on a mode, and `edram_init` returns with a
setting that was measured to work.

### System controller (`xenon_smc/`)
*State*: a mailbox.  *Operations*: send a message, wait for the answer.
*Hard*: the controller speaks unasked.  *Correct when*: an answer is the answer to its
question.

### Sound, UART, console, memory map, start-up
*State*: the sound ring, registers.  Straight sequences of register accesses, but for
the ring, which cannot tell full from empty: `xenon_sound_get_free` reports more than
is free, and submitting exactly the length of the buffer makes it look empty.

### Not part of the programs
`usbeth.c`, `usbserial.c`, `dev_usb_*.c` and `usbhack.c` are not built by the
library's Makefile; `devkitxenon/examples` and `toolchain` only use or build it.

## 2. Plan

In order of importance; what is left is in the last two columns.

| # | module | models | abstract specification | runs | left |
|---|--------|--------|------------------------|------|------|
| 1 | `UsbOhci` | transfers, done queue, removal | `UsbRequest` | 1, and 2 violations | - |
| 2 | `UsbRequest` | the life of a request | is one | via 1 | - |
| 3 | `HwThreads` | start-up, mailboxes, sleep, speed | - | 1, and 1 violation | - |
| 4 | `UsbHub` | hot plug | - | 1 | - |
| 5 | `LibMalloc` | the heap | - | 1 | nothing |
| 6 | `UsbMass` | the bulk-only transport | the sectors asked for (`StickSound`) | via 7 | numbering of input devices |
| 7 | `Storage` | newlib and device tables over 6 and 9 | - | 1, and 1 violation | - |
| 8 | `FatVolume`, `FatFile` | mount, caches, chains, directories, open, read, seek | the bytes of the medium (`ReadsRight`, proved) | 1 | what leads up to a write |
| 9 | `IsoFile` | volume descriptors, directories, block caches, the drive | the bytes of the disc (`ReadAsOpened`) | via 7 | - |
| 10 | `XenosVideo`, `Edram`, `XenosFrames`, `Xenos`, `XenosShader`, composed by `XenosProgram` | bringing up the picture, calibration, rings, state, shaders | what xe.h says of a patch (`Promised`) | 1, and 1 violation | indices, textures with mip levels |
| 11 | - | the sound ring | - | - | not modelled |

`FatFile` and `Storage` are two views of a stick and not composed: the first has all
the FAT file system does over a device that is only a medium, the second all that the
device does under a file system that only asks for sectors.

## 3. UsbOhci and UsbRequest

Two actors: the driver, one thread (`pc` says where it is), and the controller.

| model | code |
|-------|------|
| `queue[e]`, `halted[e]` | the list from `ed_headp` to `ed_tailp` and the H bit |
| `doneq`, `dqic`, `hcca`, `wdh` | the controller's internal done queue, its delay counter, `hcca_donehead`, the interrupt bit |
| `ref[t]`, `cc[t]` | `t_ref` and the condition code of a descriptor |
| `req[r]` | `usbreq_t`: in progress, device, pipe, `ur_tdcount`, `ur_status` |
| `pipes`, `freeEpt`, `freeTd` | `ud_pipes[]`, the two free lists |
| `dev` | life of one attachment, one block of `usbdev_t` |
| `Submit` = `usb_queue_request` + `ohci_xfer` up to `ohci.c:1700` | cuts the buffer into `n` descriptors, the old dummy first, and stores the tail pointer |
| `LoadHead`, `StoreHead` with `clr`, `seen` | `ed_headp &= ~HALT` at the end of `ohci_xfer` (`ohci.c:1706`) and in `ohci_ept_cleartoggle`: a load and a store |
| `HcRetire`, `HcFrame` | external: the controller retires the head of an unhalted list, and hands its done queue over at a frame boundary once the delay is over and the last one was taken |
| `Poll`, `ProcPiece`, `ProcSync`, `ProcIntrAgain`, `ProcIntrCancelled` | `ohci_intr`, one turn of `ohci_intr_procdoneq` each with the callback it runs |
| `Unplug` ... `Detach` | what `usbhub_scan_ports` does with a device that is gone: mark, destroy each pipe (`ohci_ept_delete`, which waits two frames and drains), one poll, detach, free |

The controller may act between any two steps of the driver.  Errors are one value;
which error it was decides nothing in the engine.  A poll in the middle of a wait is
the same `Poll` action: the caller of `usb_wait_request` polls and does nothing else.
`stale_pipe` and `stale_dev` are where the code would use memory it has freed; the
model stops there, and `NoStalePipe` says that the first cannot be reached.
`stale_dev` can be reached: that is the finding of `UsbOhci_pending`.

The head pointer is the one word both actors write.  The controller sees the new
descriptors as soon as the tail pointer is stored, and the driver then clears the H bit,
set or not, with a load and a store of the whole word.  What the controller retires
between the two is put back: `StoreHead` takes that step, to `lost_head`, where the model
stops, since the link field of such a descriptor leads into the done queue.  That is the
finding of `UsbOhci_unhalt` (`RetiredOnce`).  `TdOwned` excepts the state after this one
step, and `TdCountExact`, `ImplementsRequest` and `WaitEnds` say nothing of what would
follow it: on the real machine a count is then decremented twice, and a request
may complete before its last descriptor is back.  All other steps, also those the
controller takes between load and store without harm, are covered.

`UsbRequest` is what `usbd.c` promises the owner of a request, as four variables.
`ImplementsRequest` is the refinement: `st`, `status`, `held` (requests some
descriptor refers to) and `leaving` (requests of the device under removal) are
mapped from the engine.

*Bounds.*  `Buses` names the loads: which pipes a device has, which requests its
drivers make, and how many descriptors these leave in the pool; a behaviour has one of them.
`UsbOhci` has a device two callers wait for at a time, each with one or two
descriptors; one with an interrupt request as well; and one with two interrupt requests.
Each may be unplugged.  That is enough to have, at once, a transfer on a
list, one on the internal done queue, one handed over and one being processed, a failed
one with others behind it, a head pointer loaded and not yet stored, and a removal in the
middle of any of it.  Two devices are in `UsbOhci_pending`, and any number in the theorems.
`Reserve` keeps the pool from running empty: the code looks at no NULL there, and the
real pools are larger than the requests the drivers can have open.  No symmetry is used:
the allocators' fixed CHOOSE already makes the choice of descriptor canonical.  Deadlock is
not checked (`CHECK_DEADLOCK FALSE`) where the only device may be gone or silent: a bus
with nothing to do is a normal end.

*Fairness.*  The driver's steps and the polls run on (one thread without blocking
calls, and a waiting caller polls in a loop), frames go by, and the controller ends a
transfer that somebody waits for, by an error if not otherwise.  An interrupt
transfer has no fairness: a silent device answers NAK for ever.

*Violations.*  `UsbOhci_pending`: what the controller has retired but not handed over
when `ohci_ept_delete` drains its list completes after the device block was freed.
`UsbOhci_unhalt`: the lost update of the head pointer.

Two things do not hold, and the properties say how far they go.  An error halts the
endpoint with the rest behind it, until somebody queues more on it: a
request with a descriptor behind a failed one (`behind`) may be waited for without end,
and `WaitEnds` is about all others.  `UsbMass` meets this on its own lists.  And a request of
several descriptors reports the status of the one that is processed last, which is the
oldest, since the done queue is in reverse order: an error in a later one is lost.  Only
requests above 8176 bytes have several (`ohci.c:1598`; the stages of a control transfer are
requests of their own), and no driver of the library makes one; `ImplementsRequest` leaves
the status of a request that completes normally open.

## 4. HwThreads

One action per access to shared memory, in program order: the cores are in-order and
the words are single aligned stores; reordering by the memory system is not modelled.
Thread 0 is `main()`, an application of the set `Programs`: the entry points it uses,
whether it waits for a task to end before its next call, and how many calls it makes.
Every other thread is parked, starts, and goes round the loop of
`startup_from_xell.S` (`TakeTask`, `LoadStack`, `ClearTask`, `ClearStack`,
`TaskEnds`).  Sleeping is a task (`Prepare` to `WakeMate`); `IpiWakes` is the reset
vector.  The clock and voltage registers of `xenon_set_speed` are one step; what
matters about it is that nobody else executes meanwhile.

`HwThreads_joined` has two cores (four threads: every role, a primary with and one
without thread 0), one task and two programs.  `Waits(4)` waits for its tasks and makes four
calls: two of `xenon_make_it_faster` in a row and posts before and between
them.  `Hurries` waits for nothing and uses every entry point in three calls, so that it
posts to threads that are busy, asleep, or between the stores that clear their mailbox: a
thread clears the task word before the stack word (`startup_from_xell.S:158-165`), and
`xenon_run_thread_task` looks at the task word only.  A post between the two stores is
accepted and its stack word is lost; the task is called without a stack and faults.
`late` is the history of the threads this has happened to.  `StackGiven` says that nothing
else can go wrong with stacks, in any program, and that one that is `Patient` (it waits
for its tasks, and lets threads sleep through `xenon_make_it_faster` only) is safe from it;
`PostsExact` holds for every program: a post is refused, or called once, if with no
stack.  `QuietAtSpeed` TLC finds true of both programs.  `AllBack` and `FasterReturns` are
for a `Patient` program: a thread that was put to sleep before goes to sleep a second time, and
one that has faulted never does.

`HwThreads_startup` has the entry point `xenon_thread_startup` called as its comment
allows, and finds that its plain store of the primary threads' bits erases bits the
threads have set themselves.  Deadlock is not checked: with its calls made, `main()` ends.

*Fairness.*  Every hardware thread executes on; `main()` runs through a call it is
in; whether it makes another call is open.

## 5. UsbHub

`UsbHub` takes single transfers for granted (UsbOhci is about those) and is about
what happens between them.  The user's gadgets and the ports' registers are one
side (`Plug`, `Unplug`, `ResetEnds`, `Raise`), the driver the other: `Poll` with the
root hub's interrupt and mask, `HubReport` for an external hub, the walk
(`Descend`, `Ascend`), and the scan of a port from `PowerOn` through `ReadStatus`,
`ClearChanges`, `StartReset`, `StillResetting`, `CreateDevice`, `Identify` and
`Configure`, or to `Remove`, and `QueueIntr`.  A request to a gadget that is gone
fails and leaves the caller's buffer alone: `cur` keeps what the last request read.
`Below` is a recursive function, so that nothing here uses a RECURSIVE operator.

`UsbHub_tree` has a hub and another gadget, two ports a hub and three actions of the
user, each at any moment: enough to plug a hub with something below it and pull the
hub, to exchange gadgets between two looks at a port, and to pull while a port is in
reset.  Five device blocks are more than three actions can use.  After two places
where the code follows a null pointer (`null_dev`, `null_descr`, both listed as
hazards) the model stops.  Deadlock is not checked: the user may do nothing more.
`displaced` is history: a block whose slot was overwritten because a gadget was
exchanged between two scans stays allocated for ever; `TreeSound` excludes nothing
else.

*Fairness.*  The program polls again and again, the driver's code runs on, and a
reset that a hub began ends.  What the user does has none.

Two things a reader may expect do not hold, and no run asks for them.  Pulling the hub
while a port of it is in reset leaves `usbhub_reset_device` reading an old status for
ever (`usbhub.c:637`; `Stuck` in the model).  And a change that a poll takes in the
middle of a scan finds no request queued, but `ohci_roothub_statchg` has masked the
interrupt already (`ohci.c:2139`), so that later changes of the port go unnoticed.

## 6. LibMalloc

Addresses count words of 4 bytes; a header is 6 of them, and the smallest rest worth
a node 16.  `node` maps the address of each sealed header to its fields, `back` has
the words before the pieces.  `Kmalloc` is first fit with the code's own sum for the
room that aligning takes; `Kfree` follows the back pointer and starts the compaction,
whose loop is one action per turn.  Alignments are powers of two in the code, where
its masks are the remainders of the model.  A program frees only what it was given
and once, as the comment of `kfree` demands.  `kmem_init` is called by the program
and gives the heap a static byte array; `kmeminit` demands that it be aligned for a
pointer, and the model takes it to be.

The pool of the run has 84 words from address 3 and pieces of 1 word at 8 bytes, of 9
words at 32 bytes and of 16 words at 4 bytes: pieces that need no room for alignment,
pieces whose back pointer lies apart from the header, splits, rests too small to
split, a full pool, and free neighbours on both sides all occur.  `kmalloc` counts
the size twice where it has to align and so refuses pieces that would fit; it
promises no amount, so this is a hazard in the list and no violation.
Deadlock is checked: something can always be freed or allocated.

## 7. FatVolume and FatFile

`FatVolume` has no variables: it has the calls of `disk_rb.c` and `fat_rb.c` that
read, each from the caches it finds to the caches it leaves (the record `m`), in the
order of the code.  `FatFile` keeps the caches, the mounted volume and the open files
as variables, and its actions are the calls of `file_rb.c`: `Mount`, `Open`, `Close`,
`Read`, `Lseek`.  What a buffer holds is the number of the sector last read into it,
and a byte is a sector and a place in it, so that a wrong byte is a visible one.

| model | code |
|-------|------|
| `block_cache` | `block_cache_lba[drive]` and the block of 128 sectors behind it |
| `fat_cache` | `fat_cache[]`, `fat_cache_sectors[]`; no entry is ever dirty |
| `sectorcache` | `sectorcache` of the directory descriptor that opening a file takes: it is the same one each time, and what it holds stays from open to open |
| `openfiles[fd].fatfile` | `struct fat_file`: cluster and sector of the last access |
| `Turn`, `Breaks` | one turn of the loop of `fat_readwrite`, which collects sequential sectors |
| `HeadBytes`, `Middle`, `TailBytes` | the three parts of `readwrite` |
| `DevRead` | `usbmass_read`, which returns how many sectors came |
| `medium` | external: what is on the stick; `Media` also has the clusters and sectors of each chain by its first cluster (`chains`), and by path what a reader of the FAT specification would find there (`files`), which the properties compare with |

A call runs to its end on one thread, so each is one action.  During a call one
sector may fail (`bad`), at most `MaxBad` times.  The library takes only negative
results of `storage_read_sectors` for failures, and gets the number of missing
sectors: a read of sectors that did not come succeeds with whatever the buffer held.
`lost` and `fatlost` record that, and `ReadsRight` and `OpensRight` speak of states
without `lost`; `PositionRight` and `CachesRight` hold after it as well, while no sector
of the FAT was lost.  `PositionRight` goes by the chain of the file's own first cluster:
after a lost sector of a directory an open may take an old entry, and its file still has
to stand right in the chain it was given; that the first cluster is the one of the path
is for `OpensRight` to say.  All four are proved (section 10).

What is on a medium has to fit together, or there is nothing a read could be compared
with: `ChainsAssumption` says that `chains` are the chains of the FAT (or, with negative
numbers, the sectors of a FAT16 root directory), that they end, lie behind the boot
sector and are long enough for the files in them, and `FilesAssumption` that `files` are
the entries of the directories, found from the root, and `mountable` that the volume
passes the tests of `fat_mount` and begins where `disk_mount` looks.  That is what a
formatter and a writer leave; the entries `.` and `..` are among the ones a search passes
by.  A medium may have clusters no chain uses, entries after the end of a directory,
partitions that are no volume, and files of any depth; a FAT12, or a volume whose mount
would end the program, is not mountable.  TLC evaluates both assumptions for the media
of the run.

`storage_write_sectors` prints and ends the program, so whatever writes ends in state
`exited`: closing a file that was opened for writing, and mounting a FAT32 volume
whose count of free clusters is unset.  What the library does before it gets there
(`rb_write` into the cached sector, creating, truncating, renaming) is not modelled
yet.  Names are compared as members of a set; how long names are put together is
left out.  A boot sector that cannot be read leaves the local buffer of `disk_init`
as it was; the model takes it not to hold a signature.

*Bounds.*  Sectors of 2 bytes, clusters of 2 sectors, blocks of 4, device requests of
2, runs of at most 3, two entries in the FAT cache and 2 or 4 clusters in a sector of
the FAT: so that a file of 9 bytes has three clusters of which two adjoin, runs end
for both reasons, blocks come in part, FAT sectors push each other out, and positions
occur at and beside every boundary.  The sectors that may fail are one of the data
and one of the FAT.  The media: FAT32 in the second partition, FAT16
without partitions whose root directory is not a whole number of clusters, a FAT12
and a volume whose mount ends the program.  Two open files, reads of 1 and 5 bytes,
seeks from all three origins.  Deadlock is not checked: a program may exit.

## 8. IsoFile, UsbMass and Storage

`IsoFile` has the disc and the drive, `UsbMass` the sticks and what of the host
controller matters to them, and `Storage`, which extends both, the tables of
`diskio.c` and `newlib.c`, the daemon that attaches and detaches sticks, the calls of
the program, and the user.  One call at a time is in progress (`call`, with `iso` or
`rd` for the part of it in the disc's or the stick's driver).

| model | code |
|-------|------|
| `icache`, `dcache` | the two block caches, least recently used first; `holds` is the disc and sector a block was read from |
| `joliet`, `root`, `percd_done` | what `init_percd` has found |
| `fh` | `fh[]`; `of` is history: the disc the entry was read from |
| `disc`, `changed` | external: the disc, and a change the drive has yet to report |
| `Percd`, `Find`, `ReadDirect`, `ReadPart` | one turn each of the loops of `init_percd`, `find_object`, `iso_read` |
| `BlockFails`, `DirectFails` | a sector that cannot be read, through the cache and past it |
| `SenseOutcomes` | `dvd_request_sense` |
| `list`, `halted`, `blf` | the bulk lists of a stick, their H bits, the flag by which the controller serves bulk lists |
| `dev` | external: the stick's side of the transport |
| `ReadSector`, `Waits`, `ClearToggle`, `ClearFeature`, `RequestSense`, `SenseWaits` | `usbmass_read_sector`, `usbmass_stall_recovery`, `usbmass_request_sense`, from wait to wait |
| `devices`, `mounts`, `fds` | the device table, `mounts[]`, `fd_array[]` |
| `register_bdev`, `unregister_bdev`, `umount` | the same |
| `FatReads`, `FatCached`, `FatHasRead`, `FatReadsOne` | what the FAT file system asks of a device: nothing, a block, or one sector after a block that came in part |

A failed read through the cache runs `init_percd` from inside, which breaks every
handle and forgets every block; this is what `DiscSound` rests on.  A failed read of
whole sectors only returns -1: the variable `missed` remembers that, `DiscSound` speaks
of behaviours without it, and `Storage_swap` shows what follows from it (a handle that
works on the other disc, against the comment of `iso_break_all`).

Where the code leaves what it may do the model stops: `iso.pc = "lost"` when
`dvd_request_sense` writes past its buffer of 24 bytes (its count of 12 words, reduced
by 1024 at a time, passes 0) or `init_percd` recurses without end because there is no
disc, and `lost` when a null pointer is followed (`newlib.c` opens through the
cleared operations of a mount whose name has stayed; a descriptor outlives its stick;
`unregister_bdev` of a device without a mount writes at an address near 0) or a
descriptor of a stick leads to the drive, which fills four times the block.

More that the model shows and no promise of the code forbids: a failed open leaves its
descriptor taken; `umount` asks `mounts[0]` and so no file system is ever told; a Rock
Ridge name is compared as far as the asked one goes; `init_percd` returns 4 when sector
16 cannot be read, which its caller takes for success; an error of the wire in the data
phase, or pulling the stick out there, leaves the status request behind a stopped list,
and the read waits for ever; an error of the status phase is taken for success, and a
stalled status is not read again.  `bad` is the history of such errors, and
`StickSound` and `ReadEnds` speak of sticks without one: that covers the stall of the
data phase, after which the status request is still queued when the driver frees what
it points to and asks for the sense.

*Bounds.*  One port, two sticks, one stall; two discs, two changes of the disc (with
no disc in between, or not), two blocks in each cache, one handle (handle 0 is never
given out, and a second open finds none); a file of three halves of a sector, so that
reads are of whole sectors, of parts, and of both; two drives and two volumes, so that
tables fill up when a stick is attached while the drive is there; five events of
program and user together.  The two discs have their root directories at the same
place, one with Joliet names and a Rock Ridge name on the other.  `MaxErrors = 0` and
`MaxFails = 0`: what fails, fails because the medium is gone.  A stick is strict: it
takes no command while a status is pending.  Empty files with extent 0, whose handle
looks free to `iso_open`, are not in the images.  What the user does in the middle of a
call to the other device is done after it instead, which no call can tell.  Deadlock is
not checked: a call may wait for ever on a stick that is gone.

*Fairness.*  Used by `ReadEnds` only: the driver polls on while it waits (`MassDriver`),
frames go by (`HcFrame`), a stick that can answer does (`HcTransfer`), and a transfer to
one that is gone fails after three tries (`HcError` without `Answering`).

## 9. The GPU modules

`XenosProgram` is a program that draws: `xenos_init` (`XenosVideo`), `Xe_Init` and the
rings (`XenosFrames`), `edram_init` (`Edram`), then frames.  Each part is entered when
the one before has returned, and its leftovers, which nothing reads again, are reset so
that the parts do not multiply.  The calls of a frame work on two things that never
look at each other, the words in the rings and the state they say, so a behaviour goes
on with either `XenosFrames` or `Xenos`.

| model | code |
|-------|------|
| `Script` | the accesses of `xenos_init` in order; the tables of a mode are one value |
| `inbox`, `smc`, `talk` | the mailbox of `xenon_smc.c`; external: the controller, which answers one message and sends bulk messages at any time |
| `failed` | an access failed: most are printed and ignored, a checked one leads to `ana_error` |
| `stray` | the register the turn too many of the loop over `addr_8` writes (`xenos.c:442`) |
| `Sample`, `ChooseEdram`, `ChooseGpu` | `edram_p2` to `edram_p4`, one chip for all of a side |
| `TryBase`, `StartFix`, `TryNibble`, `Judge` | the loops of `edram_init_state1` and the retries of `edram_init` |
| `crc`, `mem`, `reg` | external: what the checksum counters have seen, what the texture holds, the delay registers |
| `ring`, `wptr`, `last`, `queue` | the secondary ring with the segment each word belongs to, `rb_secondary_wptr`, `last_wptr`, the primary ring |
| `word0`, `SyncDone` | the scratch write-back, which lands in the first word of the ring, and the wait of `Xe_pDebugSync` for it |
| `pool`, `after`, `head`, `built` | `vb_pool`, `vb_pool_after_frame`, `vb_head`, the list the program got from `Xe_VBEnd` |
| `xe`, `regs` | `struct XenosDevice` with its dirty bits; external: the registers of the GPU |
| `StateSet`, `Uploaded`, `ShaderUploaded` | `Xe_pSetState` and the uploads it calls |
| `bufs` | locks, and what the caches of CPU and GPU hide until a buffer is unlocked |
| `PatchAt`, `Patched` | `Xe_ShaderApplyVFetchPatches` |

`RingIntact` and `ReuseSafe` are about two actors that only meet in `Xe_Sync`: the
driver never looks at the read pointer of the GPU.  They hold under what the code
leaves to the program, which are the bounds `FrameWords` (a frame fits twice into the
ring) and `Primary` (segments sent between two calls of `Xe_Sync`).  They also
need a `Header` that is no frame number in reach: the first command of the ring lies in
the word that `Xe_Sync` waits on (`xe.c:1277`), and with `Header = 1` TLC finds
`ReuseSafe` violated, because the wait ends before the GPU has drawn.  The header of a
write to one register is the number of that register, below 2^15, so in the code it
takes a frame with that very number which begins where the ring does.

A buffer is its place in memory and the words in it: `Space` are the words `Xe_VBPut` fills
it with, `Stride` the words from its memory to that of the next.  In the code `Space`
is 0x10000 and `Stride` 0x4400 words (0x10000 bytes and the page `Xe_pAlloc` adds), and the
instance has 2 and 1: a full buffer lies over the next one.  `Xenos_vertices` finds that
(`VerticesApart`).  `ReuseSafe` is about the pool and holds all the same: no buffer is given out
again while a draw reads it, and new vertices fall on those of a draw under way only where
one of the two buffers is overrun, which is what the code does whenever a list needs a
second buffer or a frame puts more than a quarter of one.

`DrawnAsSet` compares, at each draw, all state set with the registers the GPU then has,
under a program that calls `Xe_InvalidateState` after it has resolved or cleared, as the
examples do.  `Xe_SetTexture` marks the fetch constants from `index + index * 3` on, where
`index * 3` is the first of the texture: for the indices 0 to 2 its group is among the
marked ones, for larger ones it is not.  Such a texture is `missed` until another call has its
group uploaded, and its draws go on with the constants the register had before.
`DrawnAsSet` excepts these and no others (`Left`), and the instance has textures 2 and 3.
No comment of the code promises more of `Xe_SetTexture`, so this is a hazard with a note.
`DIRTY_MISC` is tested nowhere.

`Calibrated` joins two facts about `edram_init`.  `EyesOpen`: a chip with steady readings
is sampled inside its eye (a reading of the table `useful` is taken at `phase * 4` where
its rows have 16 entries, which matters to unsteady chips only).  `NothingBroken`: what
is returned was measured as a whole, at the settings in the registers.  A wrong checksum
that is in no mask alone is not seen by `determine_broken`; that is the code's definition
of a part being right, and the property uses it.

*Bounds.*  Two messages fail and one comes unasked; three chips, one unsteady, two
samples; bases 11 and 12, three parts, two attempts; a ring of 12 words with a guard of
4, segments aligned to 2, two in the primary ring, three buffers that take 2 words and have
memory for 1, vertices of 3, three frames; one field, one value, four float constants at the borders of
groups, two textures, one buffer, two pixel shaders, two instances of a vertex shader,
three formats; five calls between draws and two draws.  A second field or value adds
nothing: a draw is compared field by field.  Loops that wait for hardware without a
limit are one step.  Deadlock is not checked: `Xe_Fatal` ends the program.

## 10. What is proved

Every theorem holds for all values of the constants under the named assumptions
(`ConstAssumption`, `HubAssumption`, `PoolAssumption`, `HwAssumption`, and of the GPU modules
`VideoAssumption`, `EdramAssumption`, `FramesAssumption`, `XenosAssumption`; of the files and devices `IsoAssumption`, `MassAssumption`,
`StorageAssumption`, and of FAT volumes `VolumeAssumption`, `MediaAssumption`,
`ChainsAssumption`, `FilesAssumption`, `FileAssumption`), which TLC evaluates in the runs, and under those a theorem states itself.

`UsbOhci_proofs` (`TypeCorrect`, `CallbackPipeOpen`, `DescriptorsOwned`, `EndpointsOwned`,
`CountsExact`, `RequestsKept`: all safety properties of the run, and the refinement).  That no callback finds its pipe
closed is not inductive: a callback closes no pipe, but the removal does, step by
step.  `IInv` adds that at most the device `rmdev` is under removal and when
(`OneRemoval`), and that a request with descriptors under way belongs to a device that
was attached and, while that is present, to an open pipe (`PipeBehind`): so a
descriptor without its pipe belongs to a device under removal or gone, and for those
the status is turned into "cancelled" and the callback queues nothing.  There is a
lemma per action; `SameDevices` and `ProcCommon` have what the actions share.

`EngineInv` is the other half, about descriptors.  Ownership alone is inductive: each
transfer descriptor is in exactly one of the free list, the lists of the endpoints and
the stages of the done queue (`TdOwned`), each endpoint descriptor free or behind one
pipe (`EptOwned`).  Counts need it: the count of a request is the number of descriptors
that refer to it, and taking one away subtracts 1 only if it was nowhere else; so a
descriptor on a list or a queue refers to a request in progress, and a dummy or a free
one to none.  With both, the refinement goes request by request: a step of the engine
maps to completing the one request whose last descriptor it takes, or to a stutter.
A store of the head pointer either finds the list as it was loaded, and changes nothing of
it (`StoreEngine`), or leads to `lost_head` (`StoreLost`), where ownership is gone but
endpoint descriptors and counts are still right: so `Sound` has `EngineInv` outside that
state and `PipesApart` and `Counts` in it too, and `DescriptorsOwned` excepts it, as
section 3 says.  `ClrOpen` has that no endpoint is deleted while its H bit is being cleared.

`UsbHub_proofs` (`WatchedOnce`, `FlagsReached`, `AddressesRight`, `TreeWhole`,
`GoneRemoved`: all safety properties of the run).  `HubInv` is about the driver's side.
Each block has one parent, and the walk is a path from the root: so no hub of the walk
lies below the one that is scanned, and removing a subtree leaves the walk alone
(`CutTree`, `Subtree`).  A hub in use has its request out or is the one being scanned or
due; addresses differ, and the search for a free one ends because there are more
addresses than blocks (a pigeonhole argument).  `BelowClosed`, that the set computed for
a subtree is closed under children, counts levels.  `WireInv` is about the user's side,
and `RemovesOnlyGone` rests on it: one gadget per place and address, only the port under
scan in reset, the ports of a hub under scan powered, and a device that answers hangs
where the tree says, on a hub that answers.  A scan that has seen no connection therefore removes devices none of which
answers, whatever was plugged in since.

`HwThreads_proofs` (`StacksGiven`, `PostsCounted`, `QuietSpeed`, `AllCameBack`: all safety
properties of the run, for any number of cores).  `HwInv` says for each place of a thread
what its mailbox words and registers hold (`MailRight`), that thread 0 writes to an empty
mailbox of a thread that waits (`PostRight`), and where `xenon_make_it_faster` is
(`Protocol`): outside it nobody is asleep or has to be; while it posts, the threads before
`to` are going down and the others rest; then all are going down, are down, are coming
back, are up.  `GoingDown` and `ComingBack` tie a primary thread to its secondary: it goes
after and comes before it.  `AloneKept` is what all steps of a single thread share.
`HwInv` is about a `Patient` program (`PatientInv`), and so are `QuietSpeed` and `AllCameBack`,
which say so: outside it a thread asleep has a free mailbox, and a second sleep is posted to
one that may still be wiping its stack word.  `StacksGiven` and `PostsCounted` are for any program.
They rest on `MailInv`, which knows nothing of the protocol: what each place of a thread
says of its two words (`MailTyped`, `BoxRight`), and that thread 0, which stores the stack
first and the task last, is at a mailbox whose task word is empty (`MainRight`); where the thread
has yet to wipe the stack word, it is `late`.  `PostsInv` adds the count.

`LibMalloc_proofs` (`HeapTypeCorrect`, `HeapConsistent`, `PiecesApart`,
`HeapNothingLost`, `PiecesAligned`: all five properties of the run).  The inductive
invariant adds to types and tiling that nodes follow one another in the order of
their addresses (`NodesApart`: tiling alone speaks of neighbours only), that each
piece lies in the memory of the node its back pointer names (`Housed`), that
allocated nodes are the program's (`Used`), and how far the compaction has come
(`Settled`).  `FitFacts` is the arithmetic of `kmalloc`: a piece taken from a node
that fits lies in it, and a header behind it does too.  `PlaceInv` is what the two
ways of taking a node share.

`XenosProgram_proofs` (`AnswersAreOwn`, `PictureSet`, `LinkCalibrated`, `DrawsAsSet`,
`VerticesFresh`, `PatchesRight`).  `MailInv`: while a question is open no
answer is in the mailbox, afterwards at most one, and none once the driver has taken it.
`PictureInv` says what the steps before `pc` have left in the registers of the encoder
and of the display controller, where the step of a message has left its value already
when the controller has answered; `ScriptIs` gives the steps by number.  `PictureSet`
assumes that neither `D9` nor `DF` is a register of the clock, which the loop of
`xenos.c:442` bears out: it writes the registers from `D5` down.

For `LinkCalibrated`, and in it `NothingBroken`, `CalibrationInv`: behind the loop
over the base delays either the last measurement was made at the delays the loops stand
at and `fail` is what it said, or every part is broken and is measured again before the
end.  It assumes `Parts # {}`; with no part the loop would end one base delay beyond the
last one measured.  For `EyesOpen`, `LinkInv`: while a side is sampled whose chip always reads
the same, all its samples are that reading, and afterwards its setting is what the table
has for it; `TablesAgree` goes through the sixteen readings and the tables.

For `DrawsAsSet` and `VerticesFresh`, `StateInv`: what the registers do not
have is marked in the dirty words (`Marked`), unless a resolve has gone over them and
the program has not said so yet, and a buffer that a cache hides words of is locked for
writing (`Settled`).  `ConstantsMarked` shows that uploading a shader's own constants
marks what it changes.  A texture is marked,
or up to date, or among the `missed` ones, which an upload of its group empties; so
`DrawsAsSet` is for any textures.  `PatchesRight` compares what the GPU fetches through a
patched instruction with what xe.h promises.  An instance is the compiled code or that
code patched once (`CodeInv`).  The rest is about formats: `CalcStride` adds up whole
words (`StrideWords`), so elements lie one behind the other and no two components share a
place in the vertex unless they are bytes of one word (`ElementsApart`, `PlacesApart`).
`Counting` is induction on numbers as a statement about sets, from the smallest element
that well-foundedness gives (`SmallestIn`).

`XenosFrames_proofs` (`BuffersReusedSafely`, `SegmentsIntact`).  `WordBehind` says why the wait of
`Xe_Sync` ends late enough: the segment that writes this frame's number is the last of
the queue, no other writes any, and the word holds an earlier number or a command until
then.  `BuffersApart`: the four lists of buffers share none, and draws under way read
only from those of the program and of this frame.  Two different buffers that are not
overrun lie apart, since their places are `Stride` words from each other.  It assumes that `Header` is no frame
number; without that it is false (section 9).  No bound of the instance is used.
`RingInv` says where in the ring the last call of `Xe_Sync` returned: everything queued
since lies straight behind that place, or from there to beyond the guard and on from the
beginning, and the words in use are as many as were written (`Room`); queued segments
have names that do not repeat (`Named`), and the words of the one to be sent next are
there (`Unsent`).  `SegmentsIntact` assumes that a frame and the guard fit into the ring
(`LongEnough`), and the same of `Header`.

`Storage_proofs` (`MountsAgree`, `DiscAgrees`, `SticksAgree`: all safety properties of the run).
`MountsInv` adds to `MountsSound` the types of
the tables and of the call in progress, and what makes removal safe: the daemon knows the
device of a port (`Paired`), so it removes each once and with it its own mount; a call to
the disc or a read of a stick is the program's one call (`OneCall`); and a handle is taken
by one descriptor, or by the call that is about to get it (`Handed`).  `DiscInv` says why
nothing of an old disc is used: caches and handles that still work are of one disc, the one in the
drive unless the drive has a change to report (`KnownDisc`), positions lie in their files
(`Within`: else a read would go on into the next file), and what a read has got is what
lies behind the position it began at (`ReadingOn`).  A change that was reported to a
read past the cache goes to `missed` and voids it, as section 8 says.  The assumptions name
what the model relies on: no file has extent 0, which would make its handle look free, and
no path the program opens is empty.

`StickInv` is about the bulk-only transport.  What `StickSound` asks at the end of a call
is what every phase has to leave for the next, so the invariant lists the phases: for each
place of the driver what the two lists hold, what the stick's side expects, and which
requests are over (`InPhase`, from `Sent` to `StatusAsked`).  It shows why the recovery
from a stalled data phase works although the status request stays queued while its buffer
is freed: the stick gives the status of the failed command to that request, before or
after the driver has asked for the sense, and takes no command until it has (`Left`,
`AskedLeft`, `Asked`).  That holds without an
error (`bad`); with or without one, no command waits on a list unless the driver waits for it
(`Commanded`) and what other sticks have queued nobody waits for (`Quiet`).  A stick
pulled out in any phase voids its own side only, and another one in its place is not read
before the daemon has seen it: a device, a read and the daemon name the same stick
(`Attached`).  `VolumesKnown` leads from the volume of a file to a device also after
`umount`, whose leftovers only the tables keep.  `Pieces` counts the sectors; the pieces
are any number, as `MaxPiece`, `Ahead` and the tables are.

`FatFile_proofs` (`CachesAgree`, `PositionsAgree`, `ReadsAgree`, `OpensAgree`: all
properties of the run, by three invariants that build on each other).  An action of
`FatFile` is a whole call, computed by recursive functions: the runs of a read, the walk
along a chain, the search of a directory, the partitions.  For each loop the proof counts
twice (`Counting`), once to show that the function exists (`Built`) and once that every
turn keeps what is to be kept (`Good`).

`CachesInv` is short, but a read of one sector is right only at a number, so it follows the
numbers through the driver: those of the volume (`VolumeTyped`), of an open file
(`FileTyped`), and that the position never passes the size (`FileGood`), or the count of
sectors left would be none.  Before a volume was taken no sector of a FAT is in the cache
(`FatEmpty`), which is why a partition that is refused leaves nothing behind for the next
one.  This invariant takes of the media only that what is on them are numbers
(`MediaAssumption`), not that they make sense: chains may loop and directories may point
anywhere.

`PlacesInv` adds where the files stand.  The driver stands at the sector it accessed last,
number `k` of the chain: `Stands` says which cluster, which sector of it and which counts
that is, and that a file nothing was read of stands before all of them; `PlaceAt` relates
`k` to the position of the file, by way of the sector it has in its cache.  A turn of
`fat_readwrite` moves `k` by one and leaves the run it collects without a gap
(`ReadwriteLoop` gives the turns), whether the run ends for one, for `MaxTransfer` or with
the request.  `fat_seek` goes on from the last cluster if the new one is not before it, or
from the first: both ways come to the same cluster, since either end of the walk is one of
the chain.  A sector of data that does not come changes none of this, which is why
`fatlost` is kept apart from `lost`.  Mounting is in it as well: the volume that was taken
is the one the boot sector of the medium describes (`VolumeRight`, `VolumeFitted`).

`CallsInv` adds what the calls return.  As long as nothing was lost the volume is mounted
exactly if it can be, and every open file has the size and the first cluster of its path
(`FilesRight`).  A search passes by the entries of a directory in the order of its chain
(`ScanLoop`, `DownLoop`) and stops at the first one of the name, whose path
`FilesAssumption` has; a path that is there is found, since its entry is before the end.  A
read is its head, its whole sectors and its tail: each part returns the bytes of the
sectors at its position, and put together they are the bytes `ReadsRight` names.  That
directories of a mountable medium have fewer than `MaxDirSectors` sectors is an assumption
(the bound, and none of the code's), so that it cuts off no search; `MaxTransfer` is
not 0, as 256 is not.

Only model-checked: every liveness property (`WaitEnds`, `FasterReturns`, `ScanEnds`,
`ReadEnds`).  Every safety and every action property of the passing runs is stated by a
theorem.  Liveness under fairness and ENABLED are beyond the provers used, and so are the
library's induction theorems, which take an operator as a parameter: where a proof counts,
it does so with a set of numbers and its smallest element.

## 11. Runs

| run | question | result |
|-----|----------|--------|
| `UsbOhci` | do descriptors keep one owner, counts stay exact and callbacks find an open pipe when devices go, is the request's life as promised, does a wait end? | yes, until a retired descriptor is put back, and but for requests behind a failed descriptor; a million states |
| `UsbOhci_unhalt` | is a retired descriptor on the done queue only? | no: finding |
| `UsbOhci_pending` | does removal cancel what is pending? | no: finding |
| `HwThreads_joined` | are tasks, stacks, sleep and speed right for a program that waits for its tasks, and which of it for one that does not? | yes, and tasks may lose their stack in the second; three hundred thousand states |
| `HwThreads_startup` | does `xenon_thread_startup` return? | no: finding |
| `UsbHub_tree` | are tree, addresses and watches right at any moment of plugging? | yes |
| `FatFile` | does a read return the bytes of the file? | yes, whenever the sectors came; two hundred thousand states |
| `LibMalloc` | is the heap sound in every order of calls? | yes; half a million states |
| `Storage` | are discs, sticks, devices, mounts and descriptors kept apart and together as they should be while media come and go? | yes; six hundred thousand states |
| `Storage_swap` | does every handle break when the disc changes? | no: finding |
| `Xenos` | does a program that draws get its picture up, its commands and vertices through, and its state to the GPU? | yes, but for textures from index 3 on; nine hundred thousand states |
| `Xenos_vertices` | do the vertices of two buffers lie apart? | no: finding |

`tlc -config <run>.cfg <module>.tla` repeats a run, `tlapm <module>_proofs.tla` the
proofs.

## 12. Not modelled, and why

- What leads up to a write on a FAT volume: `storage_write_sectors` ends the program, so
  that no write completes; creating, truncating and renaming stop there as well.
- FAT under `Storage`, as said in section 2.  Known from reading: `fat_unmount` leaves
  the FAT sectors it has flushed in the cache (`fat_rb.c:470`), where the next stick in
  that volume finds them, and it is never called, since `umount` asks `mounts[0]`.
- Numbering of controllers (`usbctrl.c:312`: one whose attach failed before it got a
  number gives number 0 back).
- A hub that goes away after its configuration descriptor and before its hub descriptor
  (`usbhub.c:395-401`): its number of ports then stays what its block had.  `Configure` is
  one step, in which a hub answers to all or to nothing, and a hub's ports are a constant.
- The ways out of `rb_close` of a file opened for writing before it comes to write a sector
  (`file_rb.c:246-248`, a directory that cannot be followed): `Close` always ends the program.
- What programs do against the library's rules: `DrawPrimitive` of the model asks that the
  buffer be unlocked, as the messages of `Xe_Draw` demand, though `Xe_DrawPrimitive` looks at
  no lock; `Execute` asks that the primary ring have room, which nothing in the code does, so
  that overrunning it is outside the model.
- Empty pools of the host controller driver (`ohci.c:443`): `Reserve` keeps the instances
  from getting there; `usb_find_cfg_descr` loops for ever on a descriptor of length 0,
  which is no descriptor.
- The sound ring, controller reset and register set-up, the video mode tables, page
  tables and cache instructions, the console and PCI access: data, or straight
  sequences of register writes with one actor.
- Exceptions, character sets, C start-up: no state beyond a call.
- `usbeth.c`, `usbserial.c`, `dev_usb_*.c`, `usbhack.c`, the examples and the tool chain
  are not part of the library that programs link.
