# Verification of the Kinux kernel

TLA+ specifications of the Kinux kernel, the TLC configurations that check them on
small instances, and TLAPS proofs. Kinux is a small 32-bit x86 kernel: it boots
under GRUB, sets up its tables, its memory and its drivers, and ends in an idle
loop that prints what is typed. Paths below are relative to the repository's root.

    tlc -config MCPmm_hole.cfg MCPmm       checks one run
    tlapm PmmProofs.tla                    checks the proofs of a module

## 1. The system

There is one processor, one address space, and no task but the boot code:
`start_kernel` (`init/main.c`) initialises every component in a fixed order and
then stays in `keyboard_idle`. The only concurrency is between this code and the
interrupt handlers, which run behind interrupt gates and so are not interrupted
themselves. The kernel is compiled without optimisation, so an access to a shared
variable in the source is an access of the machine, in the source's order.

| Component | State | Operations | Interacts with |
|---|---|---|---|
| Page allocator, `mm/pmm.c` | the early pointer `pmm_loc`, a stack of free frames in a paged window, `pmm_stack_loc`, `pmm_stack_max` | `init_pmm`, `pmm_alloc_page`, `pmm_free_page`, `pmm_free_available_pages` | maps its own stack with `vmm_map`; the memory map of the boot loader |
| Paging, `mm/vmm.c` | page directory and tables, in frames of the allocator; the processor's cached translations | `init_vmm`, `vmm_map`, `vmm_unmap`, `vmm_get_mapping`, `page_fault` | takes tables from `pmm_alloc_page` |
| Heap, `mm/kheap.c` | a doubly linked list of chunks in mapped pages, `heap_first`, `heap_max` | `kmalloc`, `kfree` (with split, glue, alloc and free of chunks) | `pmm_alloc_page` + `vmm_map` to grow, `vmm_unmap` + `pmm_free_page` to shrink |
| Keyboard, `drivers/keyboard` | the ring `kb_buf` with its two indices, the state of the control keys | `keyboard_handler` (IRQ 1), `init_keyboard`, `keyboard_getchar`, `keyboard_idle` | shares the ring between handler and idle loop; the 8042 controller |
| Interrupts and exceptions, `kernel/irq*`, `kernel/isr*`, `panic.c` | `irq_routines`, the gates, the PICs | `irq_handler`, install/uninstall, `isr_handler`, `page_fault`, `panic` | calls the drivers' handlers, acknowledges to the PICs |
| Timer, `drivers/timer` | `timer_ticks` | `timer_handler` (IRQ 0), `timer_sleep` | shares the counter with the handler |
| IDE, `drivers/ide` | `channels`, `devices`, the device's registers | `init_ide`, `ide_ata_access`, `ide_polling`, read/write sectors | polled port I/O |
| Ramdisk, `fs/tarfs` | `headers`, `nr_files` | `tarfs_parse`, `tarfs_list_headers` | reads the boot module |
| Console and formatting, `kernel/console.c`, `printm.c`, `vsprintf.c` | cursor, text memory, one static buffer | `console_putc`, `console_scroll`, `printm`, `vsprintf` | called by everything, also by handlers |
| Boot, `init/main.c`, `kernel/cmdline.c` | command-line options | `start_kernel`, `cmdline_parse` | decides the order of all the above |
| Tables, serial, strings, CPUID, port I/O | descriptors; none | encodings and single instructions | |

What makes each one correct, and what is hard about it:

- *Page allocator*: a frame has one owner: a caller, the free stack, the stack's own
  pages, or the early tables; none is lost; the stack's window is mapped wherever it
  is touched. Hard because the allocator maps pages of the structure it is changing,
  through tables that are frames of its own, at the boundary between the early and
  the paged allocator.
- *Paging*: after `vmm_map` an address reaches its frame and no other mapping
  changes; tables that are new hold no stale entry; a cached translation never
  outlives its entry.
- *Heap*: the list tiles the heap in both directions, free neighbours are merged,
  live blocks are disjoint and stay mapped, pages behind the last chunk go back.
  Hard because every order of calls gives a different list, and a call both walks
  and changes it.
- *Keyboard*: characters come out in order and once; a full ring drops new keys and
  nothing else; every interrupt is answered. Hard because the handler runs between
  any two accesses of the idle loop and of `init_keyboard`.
- *Interrupts and exceptions*: every interrupt, also a spurious one, is acknowledged to
  the PICs that wait for it; the handler is told what happened and the stub leaves the
  stack as it found it; a panic is final. Hard because requests come and go while the
  processor answers them, and `cli` does not mask exceptions and NMIs.
- *Timer*: `timer_sleep` returns after the given ticks and not before. Hard because the
  deadline is narrower than the counter, and the counter wraps.
- *IDE*: data moves only while the device asks for it; an error reaches the caller;
  each transfer ends.
- *Ramdisk*: the walk finds each header once, whatever the sizes between them, and
  the listing shows the files' contents.
- *Console, formatting*: the cursor stays on the screen between calls; the digits
  printed are those of the number.
- *Boot*: each component is used only after it was initialised, and the options on
  the command line have their effect.

`PROJECT.json` lists every component with its status, and under `hazards` the
places where these properties are at risk.

## 2. Modules

| Module | Models |
|---|---|
| `Pmm` | `mm/pmm.c`, with `init_vmm` and the `vmm_map` calls on the stack window |
| `PmmImage` | `Pmm` with what was loaded into memory before it: the kernel's image, the module, the loader's tables |
| `FrameAllocator` | what the page allocator promises: frames are free, held or kept |
| `PmmProofs` | the theorems about `Pmm` and `PmmImage`: first those about the stack, then those about the frames |
| `Vmm` | `mm/vmm.c`, driven by the heap's `alloc_chunk` and `free_chunk` one page at a time |
| `VmmProofs` | the theorems about `Vmm` |
| `Kheap` | `mm/kheap.c`, with the page mapping it uses |
| `KheapProofs` | the theorems about `Kheap` |
| `Keyboard` | `drivers/keyboard/keyboard.c`, `irq_handler` for IRQ 1, `cmdline_parse`, the end of `start_kernel` |
| `KeyboardProofs` | the theorems about `Keyboard` |
| `Irq` | `kernel/irq.c`, `isr.c`, `panic.c` and their stubs, `drivers/timer/timer.c`, against the interrupt controllers and the processor |
| `IrqProofs` | the theorems about `Irq` |
| `Tarfs` | `fs/tarfs/tarfs.c`, against the archive in memory |
| `TarfsProofs` | the theorems about `Tarfs` |
| `IdeAddress` | the addressing of `drivers/ide/ide.c`: registers from a sector number, and back |
| `Ide` | `ide_read_sectors`, `ide_write_sectors`, `ide_ata_access`, `ide_polling`, against an ATA drive |
| `IdeProbe` | `init_ide`, against what may be attached to the two channels |
| `IdeProofs` | the theorems about `IdeAddress`, `Ide` and `IdeProbe` |
| `Vsprintf` | `kernel/vsprintf.c`: the text of a format, and what a reader makes of a number |
| `Console` | `kernel/console.c`: the screen, and paper without an end |
| `Printm` | `kernel/printm.c` and `console_write`, on the two before |
| `PrintmProofs` | the theorems about `Console`, `Vsprintf` and `Printm` |
| `MCPmm`, `MCVmm`, `MCKheap`, `MCKeyboard`, `MCIrq`, `MCTarfs`, `MCIde`, `MCIdeProbe`, `MCPrintm` | the instances TLC checks |

`Keyboard` has the one line and the one kind of handler it needs; that a requested
interrupt reaches its handler, and the handler's end the controller, is what `Irq` shows
for every line. The variables of `IdeProbe` and the names of its specification
(`ProbeSpec`, `FairProbe`, `probeVars`) are its own, so that `IdeProofs` can be about it and
`Ide`. `TypeOK` of a module is stated for proofs; where no theorem is about it TLC found it to
hold with the configuration of the module's run.

### Pmm

Memory is a function from frames to words, because the stack of free frames and the
page table that maps it are both frames: a write to a slot goes through `Translate`,
which is the cached translation of the page or the present entry of the table, and
changes the frame it finds. `phase` follows `start_kernel`: `InitPmm`, `InitVmm` (the
four frames of the early allocator), then `FreeAvailable` and `NextRegion`, which are
the two loops of `pmm_free_available_pages`, then `Alloc` and `Free` in any order.
`FreePage` is `pmm_free_page` with its three outcomes: refused, mapped as the next
stack page, pushed. `Evict` lets the processor forget a translation at any moment;
the code pops through pages it never unmaps, so nothing else may invalidate them.
The bound `pmm_stack_max < Entries` in `FreePage` is the one page table the window
has; with the real numbers it is never reached.

`init_vmm` means to clear the new tables but passes the address stored *in* the entry
(`mm/vmm.c:109`), which clears some other page; the model lets the machine die there
(`crash`) or leaves the frames with what the boot loader left (`Stale`).

`PmmImage` adds a set of frames that were in use before the kernel began and that the
memory map calls available all the same. `pmm_free_available_pages` frees them
(`mm/pmm.c:51`). That nobody is given one early rests on the order of the stack and on
how frames come back to it, over any number of calls: `ImageKept`.

### Vmm

Memory is the contents of the frames, and every access of `vmm.c` goes through it:
`Walk` translates a virtual page through the directory and its table, and
`page_directory[]` and `page_tables[]` are the pages `DirectoryPage` and
`TablePage(i)`, which `Walk` finds through the directory's entry for itself. `InitVmm`
builds that; `Grow` is `alloc_chunk` with `vmm_map` (`NeedsTable`, `WithTable`,
`Enter`), `Shrink` is `free_chunk` with `vmm_get_mapping`, `pmm_free_page` and
`vmm_unmap`, `Fill` is a user of the heap, or `page_fault`.

`vmm_map` clears the page whose address the *first page of the window* holds at
`pt_idx` (`mm/vmm.c:21`), which is the identity-mapped page with that number plus three
bytes. `Scrub` is that `memset`, with its ragged ends. The new table keeps what its
frame held, so history has two sets: `dirty`, the tables that were not clean when
they were taken, and `scrubbed`, the tables a `memset` has hit. The properties say
what holds outside of them.

`stale` is the set of translations the processor may still use although no table
holds them: every change of memory may add some, only `invlpg` removes one. An access
goes to any frame in `Reach`.

### Kheap

An action is the entry of a call, one iteration of a loop (the walk over the list,
`alloc_chunk`, `free_chunk`), or what follows the loop. `hdr` maps each address that
was written as a header, in a page that is still mapped, to the header; `NULL` is
there too, because page 0 is identity-mapped and the code stores through null `prev`
and `next` pointers. A read anywhere else ends in `wild`, a fault or garbage. Addresses
wrap at `WORD`: a request near 2^32 becomes a small one when the header is added
(`mm/kheap.c:10`), or gives a chunk that ends before it begins (`ChunkEnd`), for which
`alloc_chunk` maps nothing and whose header is then written where nothing may be mapped
(`AppendWild`). The heap's invariants are about the time before such a call.
`chunks` and `live` are history: the chunks the list should hold, the blocks callers
hold.

### Keyboard

The handler is one action, `Irq1`. `init_keyboard`, `keyboard_getchar` and
`keyboard_idle` are one action for each access to a variable the handler shares,
with registers (`index`, `c`, `end`) for what is read and used later. The controller
takes a code when its buffer is empty, and requests an interrupt then. A character is
the number of its key press. `upset` is history: what has happened that may cost a
character.

### Irq

The processor's state is `pc`, the interrupt flag, whether NMIs are blocked, and the
stack of frames; a frame remembers what was interrupted and holds the words that the
processor and the stub push below the saved registers. `r` reads them as `struct
registers` does. A step ends where something can come between: the handler's routine,
each of its two EOIs, `iret`, the `cli`, the `printm` and the `hlt` of a panic, the
iterations of `timer_sleep`. Device interrupts come in where the flag allows it, NMIs and
exceptions everywhere, up to `MaxFrames` deep. After `hlt` the code of `panic` returns:
`past` is what must not be reached.

The controllers are external and modelled as `irq_remap` sets them up: two chips, fixed
priorities, the second on line 2 of the first, `irr` for requests and `isr` for what is
in service, an EOI that ends the first line in service (`Done`). A request may be withdrawn
before it is taken, also while the processor acknowledges it: then the chip answers
with line 7 or 15 and has nothing in service (`Spurious`).

`timer_ticks` wraps at `Half`, so the counter takes every value, negative ones too;
`Deadline` cuts to 16 bits. `elapsed` is history: the ticks since a sleep began.

### Tarfs

`Byte` is the archive as tar wrote it into memory, one number for each byte that tells
which file it belongs to and where. `Header` is an iteration of `tarfs_parse`,
`tarfs_getsize` reads the digits of the size, `List` is an iteration of
`tarfs_list_headers` with the `strcpy` into its buffer. Where the code leaves its arrays
(`Overrun`, `smashed`) or mapped memory (`PageFault`) the model stops. `Walked` and
`Listed` compare with the archive itself.

### IdeAddress, Ide and IdeProbe

`IdeAddress` has the arithmetic alone: `Mode` chooses cylinder-head-sector, 28 or 48
bits, `Registers` is what the driver writes, `Sector` what a drive takes it for. The
widths of the registers and the geometry are constants.

`Ide` is two programs that run concurrently and meet in registers. The driver's
actions are the steps between two polls: `Call` (the checks), `Issue` (wait, registers,
command), one `ReadSector` or `WriteSector` for each sector, `ReadFails`, `ReadDone`,
`Flush`, `WriteDone`. The drive is external, and modelled as the code relies on it:
while its BSY bit is set it works (`Offer` a sector, `Commit` a received one,
`FlushDone`, or `Fail` at any moment with ERR or DF); it ignores commands while BSY or
DRQ is set; a count of 0 asks it for as many sectors as the register has values; a
word read while it offers none is junk, and one written is lost. The contents of a sector
are one value: its number at first, and a new one for each sector written.

`IdeProbe` goes through the four slots. What may be attached is nothing, a disk, a
packet device or something that is neither, or a channel may float; an answer may come late. A device that
was abandoned in the middle of a transfer stays in it.

Left out: the numbers of the ports; `ide_rw_test`, which nothing calls; drive numbers
that no drive has.

### Vsprintf, Console and Printm

`Vsprintf` maps a format, a sequence of plain characters and directives, to its text;
`Number` is `number()`, and `Reads` its reference: what a reader makes of a numeral.
`Console` has the screen as a record; `Putc` is `console_putc` with its scroll and its
cursor, `Shows` the reference: a pen on paper without an end, of which the screen is
the last rows. The two share no definition but the size.

`Printm` is the state machine: `Line` and `Numeric` are calls of `printm`, `Echo` is
`console_putc` alone, `SwitchHeader` what `init_ide` and `page_fault` do to
`printm_dis_hdr`. `buf` keeps what earlier lines left behind the NUL. `printm` passes
`buf` to `console_write` as a format: `Written` walks over it, takes from `Garbage`
what a `%` asks for, and steps over a NUL behind a `%`; a pointer found there may be
unreadable (`PointerFault`). `strlen` counts from an
uninitialized variable (`lib/string.c:5`), so `Strlens` has the distance to every NUL
in the memory behind the string (`Nuls`) and, as a `size_t` that wraps, the distance to NULs in
front of it (`Lost`); `StrlenFault` is the end in memory that is not mapped. `vsprintf`
takes the result for an `int` (`Signed`): a string that is lost so is not copied, and the
blanks are counted from the negative length, `|len| - 1` of them where the format has no width
(`kernel/vsprintf.c:188-194`). No handler of a device prints, and a panic,
which does, is final (`PanicFinal`): a call is one step.

## 3. Runs

| Run | Shows |
|---|---|
| `pmm_hole` | Early frames in reserved memory: `StackIntegrity`, `StackMapped`, `FramesAccounted`, `ImageKept`, and that `Pmm` implements `FrameAllocator` |
| `pmm_plain` | Early frames in available memory, the map a PC reports: the stack's first page is its own page table; `StackIntegrity` says how far the damage goes |
| `vmm` | `Windows`, `Mapped`, `Faults`, `Isolated`: the directory stays reachable, mapped pages reach their own frame and others fault, whatever the processor caches, except where a table was dirty or hit by the misplaced `memset` |
| `kheap` | All calls up to the first split: `LiveIntact`, `Tiled`, `Coalesced`, `PagesReturned`; and `CallReturns`, also on the list a split has cut |
| `kheap_split` | *Violation.* After a split, two callers hold the same bytes |
| `keyboard` | First lap of the ring: `InOrder`, `Accounted`, `RightMap` under every interleaving; `Answered`, `Emptied` under fairness |
| `keyboard_lap` | *Violation.* After the first lap, characters nobody typed are printed |
| `irq` | `Dispatched`, `Quiet`, `PanicFinal`, `WakesLate`; under fairness `SleepEnds` and `Served`: two lines, spurious and withdrawn requests, NMIs and exceptions at every step |
| `tarfs` | `Walked`, `Listed`: the walk and the listing for every small archive |
| `ide` | Three calls against a drive that may fail: `Addressed`, `ReadFaithful`, `WriteExact`, `LeftQuiet`, `Durable`; and `CallReturns`, after errors and calls for 0 sectors too |
| `ide_probe` | `Listed`, `OwnIdentity`, `ProbeEnds`, for all that may be attached |
| `printm` | `Shown`: the screen is the end of the paper; `Faithful`: a line is what its format says, up to a `%` in its text or the end of a string; `NumbersRead` |

A run may stop (`CHECK_DEADLOCK FALSE`): the kernel panics or faults, the bounds end
the run, and an idle kernel has nothing to do.

### Bounds

- `MCPmm`: three words in a page, 13 frames. Three is the least that gives a stack page a
  first, an inner and a last slot; the maps free enough frames to fill one stack page, map the
  next and push there, so that calls go over the boundary in both directions, and that an
  aliased first page has a slot overwritten. More stack pages are left to the
  theorems. `HoleMap` splits its
  available memory so that the loop over regions goes around with and without an
  unavailable one between. The image is the frame behind the early ones, with four
  frames above it, so that every order of calls that takes and returns them is there.
- `MCVmm`: eleven words in a page, so the heap, its next table, the stack and the two
  tables of `init_vmm` have a directory index each. The heap begins two pages before
  the end of a table and grows to three: the third needs a second table, and a fourth finds no
  frame. The two indices
  are frames that are free, so the `memset` of `vmm_map` hits heap pages and tables.
  Users fill pages with zeros or with words that look like entries; the boot loader
  left one or the other.
- `MCKheap`: headers of one unit, pages of four, two tables, five frames: the heap
  grows to three pages, needs its second table, and runs out of frames between two
  pages of one chunk. Requests below, at and above a page boundary give chunks that
  fit a freed one exactly, with a rest that is too small to split, and with one that
  is split; one more wraps when the header is added, and one makes a chunk that ends before it
  begins. `WORD` is the first address behind the heap's four pages. `LateCalls` bounds the
  calls after the first split.
- `MCKeyboard`: a ring of three, four characters, Ctrl for the keys that act until they are
  released and CapsLock for those that lock: the ring
  fills, wraps to empty (the full test fails while `kb_buf_start` is 0), and goes
  around. `MaxStart` ends the run after the first lap, or, in `keyboard_lap`, lets it
  leave the ring by one entry.
- `MCIrq`: line 0 has a routine, line 8 has none; each controller has one, and line 8
  needs both. A deadline has four values and the counter eight, so that a sleep begins
  before, at and behind the width of the deadline, and over a wrap. Two frames let an
  exception or an NMI interrupt a handler, or a panic that a handler began. Vector 14
  pushes an error code, 0 and the NMI do not.
- `MCTarfs`: blocks of four bytes, three binary digits, three headers: sizes below, at
  and above one block, every sequence of three and, at the edges, of four files. Some
  archives end above the mapping.
- `MCIde`: a register has three values, so 28 bits end before sector 54, an unsigned
  int wraps at 81, and cylinders end before sector 36. The drives end at 56 (behind the
  limit of 28 bits), at 36 (knows cylinders only), and at 7. Calls start at the edges, for
  0, 1 or 2 sectors. Three calls let the third find what the second left of the first.
- `MCPrintm`: two rows of four and tab stops of two, so that one line wraps and
  scrolls; a buffer of nine, which one line fills but for its NUL and one overflows. Of the
  lines one has two strings, three a percent sign in a string: before a conversion, at
  the end of a short text over a longer one, and at the end of the buffer. Numbers of six
  bits, with every set of flags, are printed on the clear screen. `Before` has the NUL next to a
  string, whose string is dropped without a trace, one that leaves two blanks, and one that leaves
  more than the buffer holds. Three calls let a line follow one that scrolled.
- `MCIdeProbe`: four slots, every combination of what may be attached. Nothing is cut.

### Fairness

`FairSpec`, and `FairProbe` of `IdeProbe`, assume that the processor goes on with the code
it runs: a call that was begun in `Kheap` and `Ide`, `start_kernel` in `Keyboard`,
`init_ide` in `IdeProbe`. Nothing can block it: there are no locks, and no other task. `Keyboard` assumes also that an
interrupt that is requested and not masked is taken, which is what the PIC and the
processor do once `sti` has run. No fairness is assumed of the keyboard, nor that
callers call the heap. The two modules of the IDE driver assume that a drive that is
busy does not stay so: `ide_polling` has no time limit, so without it no call need
return. A drive in `IdeProbe` ends IDENTIFY with an error or with data; one that ended it with
neither would keep the loop of `ide.c:461` for ever, and `ProbeEnds` says nothing of it. Fairness on the disjunction, not on each action, is enough:
each of these programs has one program counter.

In `Irq` interrupts come in between, so more is needed. The loop of `timer_sleep` gets on
although handlers interrupt it (strong fairness on `Wake`: it is enabled only while no
handler runs). The timer chip does not stop (weak fairness on `Raise(0)`). And a line
that could be acknowledged again and again is in the end: a handler is short for the
period of 10 ms, so the timer cannot go before every other request for ever, nor is each
request withdrawn in the very cycle in which it is acknowledged. This
does not assume `Served`: a line that its controller blocks is never acknowledged, and with the
EOI to the first controller left out for line 8 `Served` fails.

## 4. What the violations say

- `mm/kheap.c:76` puts the header of the rest at the *end of the whole chunk* where
  the next chunk begins.
- `drivers/keyboard/keyboard.c:114-115` increments `kb_buf_start` and masks
  `kb_buf_end`: `kb_buf_start` leaves the ring after the first lap.

Other behaviour that the passing runs bound, instead of refuting a claim:

- `mm/pmm.c:27` frees only pages from `pmm_loc` on, but `pmm_loc` *is* the last early
  frame (`pmm_alloc_page` adds before it returns), the page table of the stack window.
  On a PC whose memory map calls that frame available, as QEMU's does, it is the first
  frame to be freed and becomes the stack's first page: the table maps itself. Each
  later stack page then overwrites a slot with a table entry, and a pop of that slot
  returns a frame that is in use. `StackIntegrity` states what still holds: no other
  slot is affected until one of those has been popped.
- `init/main.c:37` enables interrupts four calls before `init_keyboard`. `irq_handler`
  acknowledges a key press without reading the controller's data port, so the
  controller keeps its buffer and never requests again. `Answered` is about the time after
  `init_keyboard`.
- `drivers/ide/ide.c:338` polls without looking at the error bits when it writes, and
  returns 0 in the end. A write that the drive has failed cannot be told from one that
  was stored. `WriteExact` says what is left: nothing but the call's own sectors changes.
- `mm/vmm.c:21` clears the wrong page. `Isolated` says which heap pages that can hit,
  `Faults` and `Mapped` which tables are affected.
- `kernel/printm.c:16` uses text as a format, `lib/string.c:5` counts from an
  uninitialized variable. `Faithful` says how much of a line is right: a string may be lost, with
  blanks in its place, a line may end behind a string, and what follows a percent sign in the text
  is anything; but no string shows in part, and old text of the buffer shows behind such a percent
  sign only.
- `drivers/timer/timer.c:22` keeps a deadline of 16 bits. From 65536 ticks on, eleven
  minutes at 100 Hz, every sleep returns at once; `WakesLate` says that before that
  none is too short, and `SleepEnds` that all end. Nothing calls `timer_sleep` yet.
- `fs/tarfs/tarfs.c:34` takes the address of the content behind the full blocks of it.
  `Listed` says what is printed of a file of 512 bytes or more: its last bytes, or the
  name of the next file.
- `mm/pmm.c:51` frees the frames of the kernel's own image. `ImageKept` says that they
  are handed out last, when no frame above the image is left.
- `init/main.c:33` passes `mem_upper`, which counts KiB, to `init_pmm`, which takes it for
  an address. With 256 MB the early frames begin at 256 KB, which is free memory; with
  about 640 MB to 1 GB they would be video memory and ROM, and with 1 GB the kernel. The
  runs and proofs take the place of the early frames as memory nobody else uses.

## 5. Proofs

| Module | Theorems | Assuming |
|---|---|---|
| `PmmProofs` | `TypeCorrect`, `StackSound` (`StackIntegrity`), `StackReachable` (`StackMapped`) | `SortedMap`, but for the types |
| | `NoFrameLost` (`FramesAccounted`), `ImageSafe` (`ImageKept`) | `SortedMap` |
| | `Refines` (`Implements`) | `SortedMap` and `Outside` |
| `VmmProofs` | `TypeCorrect`, `WindowsHold`, `MappingsHold`, `FaultsHold`, `FrameFound` | while `Clean` |
| | `IsolationHolds` (`Isolated`) | while `dirty = {}` |
| `KheapProofs` | `TypeCorrect`, `ListTiled`, `FreeMerged` (`Coalesced`), `BlocksIntact` (`LiveIntact`), `NothingKept` (`PagesReturned`) | |
| | `NeverWild`, `CallsAdvance` | while `Sound` |
| `KeyboardProofs` | `TypeCorrect`, `OrderHolds` (`InOrder`), `NoneLost` (`Accounted`), `MapHolds` (`RightMap`) | |
| `IrqProofs` | `TypeCorrect`, `AllAcknowledged` (`Quiet`), `RightRoutine` (`Dispatched`), `PanicHolds` (`PanicFinal`), `SleepsLongEnough` (`WakesLate`) | |
| `IdeProofs` | `RegistersFaithful`, `TypeCorrect`, `InStep` (`Addressed`), `ReadsFaithful`, `WritesExact`, `Quiet` (`LeftQuiet`), `Flushed` (`Durable`) | |
| | `ProbeComplete` (`Listed`), `IdentitiesOwn` (`OwnIdentity`) | |
| `TarfsProofs` | `SizeRead`, `WalkedHolds` (`Walked`), `ListedHolds` (`Listed`) | |
| `PrintmProofs` | `ShownHolds` (`Shown`), `NumbersReadHolds` (`NumbersRead`), `FaithfulHolds` (`Faithful`) | |

All of them hold for every value of the constants that the module's named assumption
allows, and for runs of any length; the bounds of section 3 are not needed. Each rests on
an inductive invariant, `IInv` where nothing else is said, with one lemma for each action.

Every invariant and every action property of the passing runs is stated by one of these
theorems, under the conditions of the third column. The references of `Tarfs`, `Console` and `Vsprintf` are recursive functions over an
archive, a text or a number, and the proofs about them need induction over these. The
library's induction theorems take a predicate as a parameter, which the provers cannot
instantiate; `TarfsProofs` and `PrintmProofs` therefore state induction about sets: a set of
naturals that is not empty has a least element (`Smallest`), one that has 0 and `n + 1` with each `n` is `Nat`
(`Induction`), a recursive function, and one that is defined up to a bound only, has the
values of its equation (`Recursion`, `Iteration`).

### Pmm

`SortedMap` says the map is ascending, does not overlap, and ends below 4 GiB: with
an overlap the code frees a frame twice.

`StackIntegrity` is not inductive: that no slot names a frame in use depends on which
frames the table and the cache reach. `IInv` adds `Core` (types, and
where the pointers are in each phase), `BootState` (nothing is pushed before its
time), and, until a clobbered slot was popped, `Safe`, the conjunction of
`Translations` (each mapped page's entry, or its cached translation, is its
`backing`, unless the table's own slots were overwritten), `Pages` (the backing
frames are distinct and none is a table, save for the aliased first page), `Slots`
(the slots are distinct and name no frame in use), `Held` (no holder has a table or a
stack page), and `Walk` (frames the boot loop has not reached yet are on no stack
page and in no slot). `Alloc`, `Free` and `FreeAvailable` are split into the cases of the
code.

`NoFrameLost` adds `Accounting`: of the frames the walk has passed (`Passed`, which is
what `FramesAccounted` is in the middle of the walk) no more are missing than pages were
mapped behind an aliased first one, and the slots those mappings overwrote are below the
stack pointer (`Covered`). `Covered` is what makes the count exact: a clobbered slot
above the pointer would be written again.

`Refines` needs `Outside`: the stack's table is not in memory that the map calls available,
so the stack's first page is never its own table. Without it the refinement is false, as
the runs on the plain map show. Every step maps to one of `FrameAllocator`'s or to a
stutter; that `oom` is reached with no frame free is the one that needs the slots.

`ImageSafe` has no such condition. While no more frames were held than the map has above
the image, all frames that are held are from above it (`AboveFirst`); on the stack those lie
above all others (`AboveOnTop`), because the boot loop frees in ascending order; and if an
aliased stack has lost one, a slot that sets `drained` when it is popped is below the rest
of them (`Guarded`). So the first pop of another frame finds every frame above the image
held, and makes a peak that is one more than there are.

### Vmm

`Clean` is `dirty = {} /\ scrubbed = {}`: no table was made of a frame that was not
clean, and the misplaced `memset` has hit none. For such runs `IInv` says that
the directory, the table of the first 4 MiB and the window are what `init_vmm` made them
(`Kernel`), that the heap's pages have distinct frames (`Sets`), no table
is one of them or free (`Apart`), every table of the heap's area holds the pages of the heap
and nothing else (`Filled`), each page has its table (`Backed`), and no translation is
stale. The recursive entry of the directory is what the proofs turn on: an address in the
window is translated twice through the same frame (`Translations`).

The run checks more: `Windows`, `Mapped` and `Faults` also say what is left when a table is
dirty or was hit. That part is about the instance: a dirty table's
entry may name the directory or another table, and for larger tables a `memset` can hit more
than the definitions exclude. `Isolated` allows a hit, so its theorem needs only
`dirty = {}`: the history `scrubbed` may grow in the very step it is about, and after it
`Isolated` claims nothing of the tables.

### Kheap

`Sound` is the module's own condition: no split so far (which loses bytes,
section 4) and no request that wraps. `IInv` says that every page is mapped, free or a table
(`Paging`) and, while `Sound`, `Heap`: the headers form a list that tiles the heap and is
linked both ways (`Links`), a free chunk is followed by an allocated one (`Closed`), the
allocated chunks are the callers' blocks (`Owned`), the heap ends in its last
page (`Full`), and in the middle of a call what its loop has done so far
(`Scan`, `Grow`, `Shrink`). `Closed` is false inside a call: `ClosedBut` and the lemmas about
merging and cutting a list are stated for any list, and used for the old and for the new one.

`CallsAdvance` is the part of `CallReturns` that needs no fairness: each step of a call lowers
the pair of how many loops are left (`Loops`) and how far the loop is from its end (`Ahead`: the
bytes between the walk and the end of the heap, between the heap and the end of the new chunk,
or below the end of a heap that shrinks). The walk advances because `Links` gives each chunk a
length of a header at least. Behind a split `Sound` is false, and that the walk ends there too
is what TLC checks.

### Keyboard

`IInv` is about every interleaving of the handler with the accesses of the boot code and
the idle loop: what has been initialised when (`Booting`), that the flags are those of
the keys that are down (`Agree`), that no character in the ring, in hand or printed is
newer than what the handler took (`Bounds`), and, on the first lap, that the ring rises from
the last printed character on, whatever `kb_buf_end` a race may store (`Order`), and that no
character is in none of its places (`Account`). `InOrder` speaks of two characters
printed one after the other; `Order` adds where the next is while it is in the
ring, in a register, or about to be overwritten.

### Irq

`IInv`: `Control` (the interrupt flag is set only where the stack is empty, so there is at
most one device interrupt, below any number of traps), `Stack` (each frame is what the
processor and its stub push: `WellFormed`), `Gates` (which vectors have one), `InService`
(what the controllers hold in service at each step between the two EOIs) and `Sleeping`
(`elapsed` is the difference between the counter and its value when the sleep began, while
that fits in 16 bits). `InService` is where the spurious interrupts of the two controllers
differ from the others: when `irq_handler` is entered, the line and its pin on the master
are in service, or nothing (vector 39), or only the cascade (vector 47); the two EOIs end
whichever it is.

### Ide

- `RegistersFaithful`: `Sector(Registers(lba, m), m) = lba` in the mode `m` the driver
  chooses, provided 16 bits hold the cylinder. It rests on lemmas about `\div` and `%`
  (`Digits`, `TopDigit`), one for each mode.
- The other six are the invariants of run `ide`, for any number of calls.

The invariant has `Types`; `DriveInv`, what the status bits say of the drive's job;
`Settled`, that a flush is under way or the cache empty; and, until a call has asked
for 0 sectors, `CallInv`: `Accepted` (what the checks of the call give), `Addressed`,
`Reading` and `Writing` (which sectors hold the call's data), and `Older` (no value
written is one that was there, so a sector that changed can be seen to have).
`OrderAt` joins it to `RegistersFaithful`: the check `lba + numsects > size` wraps at
2^32, but not for a call in cylinder mode, so the proviso holds. `IdeAssumption` is
needed there: a drive that knows only cylinders reports no more sectors than 16-bit
cylinder numbers reach.

For `IdeProbe`, `Bits` gives the status of every slot before, while and after it is probed,
`Entries` what was entered for the slots so far, at the place that counts the drives before
(`Place`). A packet drive that was read too early is `Early`: the only way a drive is still
busy when its slot is done.

### Tarfs

`SizeRead`: `tarfs_getsize` returns the size whose digits the header has. By induction over the
digits, what was read after `j` of them and what the others weigh make the size; the weights
are the powers of the radix (`Weights`), and a quotient of a quotient is one
(`QuotientTwice`).

`Start[i]`, where the header of the `i`-th file is, and `Place`, where it is in an archive that
begins at 0, are recursive functions. `Starts` and `Ascending` are the inductions over
them: the files lie behind each other and do not overlap. So an address has one file
(`FileAt`), whose byte `Byte` gives (`ByteOf`), or is behind the archive (`ByteBehind`). `IInv`
says how far the walk has come (`Reached`: it stands where the file behind those it found
begins), that the listing follows what was found (`Printed`), and why the program ended, if it
did (`Ended`). `TextOfFile` has the whole of what one line of the listing prints: the
bytes from where `tarfs_parse` put its pointer up to the first NUL, wherever that is.

### Console, Vsprintf and Printm

`PrintmAssumption` says that arguments are of the kind that their directive takes, that a
string has an end and its memory is at most half of an address space long, and that no
caller gives a string a width; `BeforeAssumption` that a NUL in front of a string is no farther
away than that. So every value that `strlen` can return is one or the other.

*`Shown`.* The reference reads a square of the paper as the last ink put on it by the pen's
path. `Fits` says that the screen shows the last rows of the paper, that its cursor is where
the pen is, and that below the pen nothing is inked; `InkedInv` that the screen fits what was
printed, for some alphabet that has every character of it. `PutcFits` is the step: it goes
through the three parts of `console_putc` (`StruckLights` and `StruckMoves`, `WrappedFits`,
`ScrolledFits`), where the cursor may be one column or one row beyond the screen in between
(`Between`). A line is an induction over its characters (`PutFits`).

*`NumbersRead`.* `number()` takes digits from the low end until nothing is left;
`PlacesFacts` says that this gives as many as the number has, `DigitsRead` that a reader
who goes through them from the high end gets the number, and leading zeros do not matter.
`Widths` counts blanks and zeros for each set of flags: the numeral is as wide as asked, and no
wider when it need not be. `NumberReads` puts sign, prefix and padding around it.

*`Faithful`.* A text is the concatenation of its items (`Flattens`). What `strlen` returned
for a string is the distance to a NUL behind it, no less than the true length, or a
negative `int`; `LostFacts` tells the two apart. `Reading` takes the true length for the first kind
and keeps the others, which are the lost strings. The text that is built and the text of that
reading agree up to the end of the first string that was taken for too long, and there a NUL
follows (`ItemString`, `FormattedFacts`). `console_write` goes through the buffer character by
character: up to a `%` it prints what is there (`WalkPlain`), behind a NUL nothing more (`WalkDone`),
and what was printed stays (`WalkGrows`). `LineCut` joins them: what a line shows is the
header and the text, or an initial part of it that ends behind a string, and up to a percent sign
in it nothing that an earlier line left in the buffer.

### What is only model-checked

- *Liveness*: `CallReturns` of `Kheap` and `Ide`, `Answered`, `Emptied`, `SleepEnds`,
  `Served`, `ProbeEnds`. The backends know neither fairness nor `ENABLED`; of `CallReturns`
  in `Kheap` they prove the measure (`CallsAdvance`).
- *What is left of `Windows`, `Mapped` and `Faults`* when a table is not clean.
- *The violations* of section 4.

## 6. Not modelled

Components without a module are listed with their reasons in `PROJECT.json`. Inside
the modelled components:

- *Other users of frames.* `Pmm`'s callers do not write into the frames they hold;
  doing so would matter only for a frame that is also in use, which is what the
  properties exclude.
- *Other users of the address space.* `Kheap` grows without meeting `HEAP_END`, which
  the code does not check either.
- *Stale page tables.* `Vmm` has them; `Pmm` and `Kheap` take a new table as empty and
  the page that `vmm_map` clears instead (`mm/vmm.c:21`) as nobody's. `Vmm` leaves out
  the page allocator's stack, which is a set there, and the case that its first page
  is its own table.
- *Key maps.* Which character a key gives is left out; only the choice between the two
  maps is kept. The keys of `control_map` that neither map uses are left out.
- *Key codes without a character.* `keyboard_idle` prints nothing for a 0 of the map
  (`keyboard.c:160`); the keys of `Keyboard` all have characters.
- *Calls that reach no drive.* `Ide` is about disks: the check that a drive is there, the
  branches for packet drives and what `ide_print_error` prints are left out. The two
  functions end without a `return` behind it (`ide.c:371`, `391`), so their caller gets what that
  call left; `err` in the model is what `ide_ata_access` returned.
- *Sizes beyond memory.* `tarfs_getsize` adds up 11 octal digits in 32 bits; a size that wraps is
  one of an archive that does not fit into memory, and is left out.
- *Ports.* `main.c` gives `init_ide` control ports that the driver adds 2 to
  (`ide.c:48`), so the byte that should mask the drive's interrupts goes elsewhere. `Ide`
  leaves port numbers out and takes an interrupt of the drive as acknowledged and
  ignored, which is what `irq_handler` does without a routine.
- *Exceptions the kernel cannot cause.* The stubs of vectors 17 and 21 push a second error
  code; an alignment check needs user mode and a control protection fault a feature
  the kernel does not enable. `Faults` excludes them.
- *Registers.* `pusha`, the segment registers and their restoration are left out of
  `Irq`: both stubs push and pop them in the same order.
- *The boot loader.* `mods_addr` is followed without a look at `mods_count`, and
  `cmdline_opts[1]` (`dis_tarfs`) is set but never read: `Tarfs` takes a module to be
  there, and there is no way to leave it out.
- *The optimiser.* The Makefile does not enable it; with it, the idle loop's reads of
  `kb_buf_end` could leave the loop.

## 7. Plan

1. `Pmm`, `PmmImage`, `FrameAllocator`, `PmmProofs`; `Vmm`; `Kheap`; `Keyboard`; `Irq`;
   `Tarfs`; `IdeAddress`, `Ide`, `IdeProbe`, `IdeProofs`; `Vsprintf`, `Console`,
   `Printm`. Done.
2. The safety and action properties of every component, and the refinement of
   `FrameAllocator`, as theorems. Done.
3. `Vmm` against an abstract address space, while every table is clean; `Kheap` against an
   abstract allocator of blocks, until a split.
4. `Memory`: `Pmm`, `Vmm` and `Kheap` together, with `HEAP_END`.
