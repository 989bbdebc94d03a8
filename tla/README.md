# A verification development for MyaXOS

MyaXOS is a small kernel for the 32-bit PC: it boots from a multiboot loader,
sets up descriptors, interrupts, paging and a heap, mounts an ext2 image that
the loader left in memory, and runs a shell. One thread runs it all; interrupt
handlers run between any two of its instructions. These modules model its
stateful parts in TLA+. TLC checks small instances; TLAPS proves, for every
value of the constants, all the safety properties that TLC checks: of the allocator,
the kernel's memory, line input, the console, interrupts, the file system and the shell.

Paths below are relative to `src/kernel/`. Names in the modules are the names of
the code where TLA+ allows it.

## 1. The system's parts

| part | source | state | operations | interacts with |
|---|---|---|---|---|
| heap allocator | `core/alloc.c` | per bucket a list of pages, per page a stack of free cells; a skip list of free big bins, a chain of all big bins | `malloc`, `free`, `realloc`, `calloc` | takes pages from `sbrk`, never gives them back |
| physical memory | `core/mem.c` | placement pointer, bitmap of frames, page directory and tables, heap end | `kmalloc` and its variants, `paging_install`, `heap_install`, `get_page`, `alloc_frame`, `sbrk` | `main.c` calls them while booting, the allocator calls `sbrk` |
| line input | `core/kprintf.c` (`kgets`), `core/kbd.c`, `core/serial.c`, `core/timer.c`, `core/irq.c` | the buffer and four words of `kgets`, the handler pointer, the modifier keys | `kgets`; the handlers of three interrupts | the shell calls `kgets`, the handlers fill its buffer and echo on the console |
| console | `core/vga.c` | cursor, cells, two cursor registers | `writech`, `scroll`, `move_csr`, `puts` | called by the main thread and, for echoes, by handlers |
| boot order | `main.c`, `start.asm` | the boot mode, what is installed | `main` | everything |
| interrupts | `core/gdt.c`, `core/idt.c`, `core/isrs.c`, `core/irq.c`, `core/panic.c` | segments, gates, two tables of handlers, the interrupt controllers | install, dispatch, end of interrupt, panic | installed by `main`, calls the drivers |
| keyboard, serial port | `core/kbd.c`, `core/serial.c` | modifier keys; the devices' buffers | their handlers | `kgets_handler` through `keyboard_buffer_handler` |
| formatted output | `core/kprintf.c` | a static buffer of 1024 bytes | `kprintf` | console |
| virtual file system | `core/vfs.c` | the root node | `kopen`, `read_fs`, `readdir_fs`, `finddir_fs` | calls node operations, allocates |
| ext2 ramdisk | `core/fs/ext2_initrd.c` | pointers into the image | read, readdir, finddir, mount | allocates nodes and entries |
| shell | `core/shell.c`, `core/system.c` (tokenizer) | path, node, line, tokens | `cd`, `cat`, `ls`, `echo`, ... | line input, file system, allocator, console |
| multiboot dump | `core/multiboot.c` | none | print | - |
| boot loader | `../bootloader` | none that lasts | two straight-line stages | - |

What is hard here: handlers that share words with the main thread without any
lock (line input, console); structures that must stay exact over long sequences
of calls (free stacks, lists of pages, skip list); memory that is handed out by
address arithmetic alone while its extent grows (placement, tables); and edges of
that arithmetic. `PROJECT.json` lists each hazard at its line.

What makes each part correct:

- *allocator*: a block is large enough, disjoint from every other and from the
  headers, stays as it is until it is freed; nothing freed is lost; a page is
  listed exactly while it has a free cell; the skip list holds exactly the free
  big bins, sorted, and finds the best fit.
- *physical memory*: pages are mapped to frames of their own, every page below
  the heap's end is mapped, every table can be reached through paging.
- *line input*: what `kgets` returns is what was typed, edited by backspaces; a
  line that was ended is returned; the caller's buffer is left alone afterwards.
- *console*: the screen shows the last rows of what was printed; nothing outside
  of video memory is written; the cursor is where the next character goes.
- *file system*: a read returns the bytes of the file, a path leads to the node
  that its names lead to, a directory's listing is complete.
- *interrupts*: from `sti` on an interrupt finds its handler and the handler what it
  needs; every request is served; a device that has something to be read has its
  request; a key gives the character that goes with the modifiers held when it
  went down.
- *shell*: the words of a line are its words, the path in the prompt names the node that
  `ls` lists, a command shows what its argument names, and the prompt comes back.

## 2. The modules

| module | what it is |
|---|---|
| `BinGeometry` | the allocator's arithmetic: bins, cells, pages, with `size_t` modulo `WORD` |
| `BinSizes` | steps through all sizes, to check `BinGeometry` |
| `HeapPages` | the memory that both halves of the allocator share, and `sbrk` as they see it |
| `SlabBins` | small bins: stacks of cells, lists of pages |
| `BigBins` | big bins: skip list, chain |
| `HeapSpec` | the abstract heap: what malloc and free promise |
| `KlMalloc` | malloc, free, realloc and calloc over `SlabBins` and `BigBins`; refines `HeapSpec` |
| `MC_KlMalloc` | the values of constants for TLC that a cfg cannot write |
| `SlabBins_proofs`, `BigBins_proofs`, `KlMalloc_proofs`, `PhysMem_proofs`, `LineInput_proofs`, `Screen_proofs`, `Interrupts_proofs`, `Shell_proofs` | theorems about the module of that name; the lemmas that all the allocator's proofs rest on (constants, sizes, loops) are the first part of `SlabBins_proofs`, the theorems about `BinSizes` its last; `Shell_proofs` has those about `Ext2` and `Vfs` too |
| `PhysMem` | boot sequence of memory, paging, `sbrk` |
| `LineInput` | `kgets` and the handlers |
| `Screen` | `writech` of the main thread and of a handler |
| `Ext2` | functions of the image: blocks, entries, reads |
| `Vfs` | mounting, `kopen`, `read_fs`, `readdir_fs` over `Ext2` |
| `MC_Vfs` | an image, its names and the paths that are opened |
| `Keyboard` | scancodes, modifier keys, characters |
| `Interrupts` | `main`'s installation of tables and drivers, the interrupt controllers and devices, over `Keyboard` |
| `Shell` | the shell's loop, its tokenizer and commands, over `Vfs` |
| `MC_Shell` | the lines that are typed |

Operators whose comment begins with "A mistake:" stand in front of the definition
that they are a faulty version of. No specification uses them: each shows that
a property tells the code from such a version of it.

### Allocator

A pointer is `<<page, cell>>`. `klfree` finds the header by masking the address,
which is the same as taking the first component as long as no cell leaves its
page (`CellsStayInPage`). `hdrSize` is the word `header->size`, the bucket's
number in a small page and the usable bytes in a big bin; `IsBig` is the test
`> NUM_BINS` of `klfree`. `stack[p]` is the list that starts at `header->head`,
`binHead[b]` the list of pages of a bucket. `fwd` holds every forward word of the
skip list, the head's included; words never written are `Junk`, and so are those
of a node that is not on the list, so a read of one is noticed. `SkipInsert`
takes any level, as `klmalloc_random_level` may return any.

`SlabBins` has a step for each thing the other half does to the pages
(`GrowForBigBin`), and `BigBins` likewise (`GrowForSmallBin`), so each can be
checked alone; `KlMalloc` joins them. The allocator runs only on the main
thread: no handler allocates. So a call is one step, except `realloc`, which is
`klmalloc` and a copy, then `klfree`, with `pending` naming the old block between.
The history variables `live`, `bigLive`, `asked` and `outstanding` are the
callers' view: they free only what they own and use only what they asked for.
Branches between `#if 0` and `#endif` are not part of the program.

`Heap == INSTANCE HeapSpec` maps the owned pointers to their bytes. The count of
outstanding allocations is in the abstract state because a set of blocks
cannot tell a block that was handed out twice.

### Physical memory

`PhysMem` follows `main`: the module's copy (or none, or no multiboot),
`paging_install` with a step for each turn of its loop, `heap_install`, then
`sbrk` with a step for each page. Addresses are bytes, with a page of 64 bytes and
16 entries per table in the run, so that tables, alignment and the sharing of
pages occur within few steps. The areas that the placement allocator hands out
may overlap. That is harmless while the overlapping words are not used by
both; when they are (`Aliased`), the code acts on garbage and the model stops.
The invariants hold of what happens without that, `PlacedApart` shows that the
code does get there.

### Line input

Each statement of `kgets` is a step, and each test in the loop's condition is one;
the kernel is built without optimisation, so every mention of a word in the source
is an access. The statement that writes the terminator is two steps: `LoadEnd` reads
`kgets_collected` into `end` (a register), `Terminate` stores by it. A handler runs with
interrupts off and is one step, so it may come between those two. `hlt` is a
state that only an interrupt ends. History variables record the keys of the
call and whether one came `late`, after the line's end.
`CollectsWhatIsTyped` holds with late keys too, with one exception (`Replaced`): a character typed
between the two steps is put where the terminator goes next.

### Console

The main thread takes a step for each load and store of `csr_x`, `csr_y` and each
port access. The handler's `writech` is one step. `torn` records whether a key
ever came in the middle of a call of the main thread, `split` whether one came in the middle of
its last `move_csr`, with no character since. `Places` and `Sheet` define
what a terminal would show, without a screen that scrolls.

### File system

Nothing writes to the image, so it is a constant and `Ext2` has the code's
functions of it. A byte is its own address: a buffer after a read shows where
each byte came from. `Pieces` is the list of `memcpy` calls that `read_initrd`
makes, which `ReadIsSlice` compares with the bytes of the file in order. `Vfs` has a
step for each turn of `kopen`'s loop, and `Named` says which node a path names
without walking (a set of nodes for each depth). A call of `read_fs` or
`readdir_fs` leaves its arguments and result in `ret`.

`kopen` allocates as many bytes as the path has and writes a 0 behind them. When
that length is 4, 8, 16, ... bytes the 0 is in the next cell, and
`finddir_initrd`, which copies each name it compares, may be given that cell;
`lost` records that it was. Where the allocator's cells are is not part of this
model, so both outcomes are possible.

### Interrupts

`Interrupts` follows `main` from `gdt_install` to `paging_install`, one call a step
(`irq_install` and `serial_install` two, as they let something happen in the middle).
Interrupts and device events come between any two of them. The pair of
controllers and the devices are external: they are what `irq_remap`, `serial_install`
and the handlers' port accesses rely on. Requests are edges. A controller hears the
line before which nothing is in service or requested, and 8 to 15 stand at
the place of line 2. A handler runs with interrupts off and is one step, from the gate
to `iret`; the end-of-interrupt commands are computed on the lines in service, so one
that is missing shows in a later step. The keyboard's controller has one
code in its output buffer (`full`) and takes the next when that is read. The serial port
raises its line at the trigger level, or when bytes have waited; reading one byte lowers
it only if what remains is below that level.

`Keyboard` keeps the modifiers held when each key went down (`with`), as
a history of the code, so that `TypedAsHeld` can compare the character that the kernel
makes, perhaps much later, with the one that was meant. Devices are slow
(`answered`): one that has been served asks again only when nothing waits any
more. Without that a fast line could keep those behind it waiting for ever, which
is the devices' doing and not the kernel's.

### Shell

`Shell` extends `Vfs` with the loop of `start_shell`: the prompt, the line, a step for each
call of `strtok_r`, then the command, which walks with `Vfs`'s `Kopen` and `Walk`. A
text is a sequence of pieces (a space, a slash, a name). `argv` holds places in
`buffer`, as the code's pointers do, and `Text` reads from there to the 0 that
`strtok_r` wrote. `shown` is what `cat` and `ls` have printed, as addresses in the image.
`PathNamesNode` and `ShowsWhatIsNamed` compare with `Named` and `Within`, which look at the
whole image. `crash` and `out` with a number end in a page fault. Without
a file system `ls` reads a node at address 0, and either outcome is possible.

## 3. The runs

| run | instance | what it shows |
|---|---|---|
| `bin_sizes` | the kernel's page, headers and bins, a word of 2^15, all sizes | bins fit, cells stay in their page, rounding is right |
| `big_bins` | 4 pages, levels 0 to 2, sizes for bins of one, two and three pages, pages taken by small bins in between | skip list, best fit, chain |
| `klmalloc` | 3 pages of 36 bytes, two buckets (3 cells, 1 cell) and big bins of one and two pages; a calloc; reallocs that do not shrink | all of the allocator's promises, and the refinement of `HeapSpec` |
| `phys_mem` | 7 kinds of boot (five sizes of module, no module, no multiboot), 3 sizes of memory, sbrk of 1 to 3 pages until frames run out | frames, tables, mapping |
| `line_input` | a line of 2 characters, 2 printable characters, 4 keys per call, calls for ever | safety and liveness of `kgets` |
| `screen` | 2 by 2 cells, 4 characters of five kinds, 2 keys of three kinds | no write outside, what is shown |
| `vfs` | blocks of 4 bytes, 2 direct blocks and 2 behind the indirect one, 8 inodes, 120 paths of up to 3 names, all offsets and sizes up to 17 | paths, reads, listings |
| `interrupts` | a shift key, control and a character key, lines 1, 4 and 15, two codes under way, a serial buffer of 3 with trigger level 2, from `start` on | booting with interrupts on, requests served, modifiers |
| `shell` | the image of `vfs`, or none; some 80 lines: all of up to four words and spaces in which no two words touch, `cd` and `cat` with relative, absolute, failing and device paths, `crash`, `out`; any sequence of them | tokens, working directory, what is shown, the prompt |
| `realloc_shrink` | as `klmalloc`, callers may shrink | **violated**: the copy overruns the new block (`alloc.c:865`) |
| `phys_apart` | as `phys_mem` | **violated**: the directory lies over the ramdisk's end or the bitmap (`mem.c:20`) |
| `vfs_every_path` | as `vfs` | **violated**: `kopen("/etc")` may find nothing, as the end of its copy of the path is overwritten (`vfs.c:62`) |

Bounds and why they suffice. Three pages hold all combinations of a page of
each kind, of two pages of one bucket, and of a big bin of two pages next to a
small page; with two buckets a cell size of one cell per page makes every
allocation both the first and the last of a page. The big requests are served by a bin of
their own size or by a larger one that was freed, stay where they are when they grow within it, and are
copied, out of a small cell or a one-page bin, when they do not fit. A small block
stays where it is only if it is shrunk to at most its bucket's number (section 5), which the callers of
this run do not do; the theorem about `CapacityEnough` covers it. Four pages for the big bins give
lists of four nodes, of equal and of different sizes, at three levels: a
level is emptied, the list grows by two levels at once, and the search turns at
each level. `PhysMem`'s memory of 40 to 128 frames needs up to eight tables, of which
the first made by `sbrk` is the one at address 0, and runs out both at a
full and at an incomplete word of the bitmap; the kernel ends high enough for all
tables to be below it, as it does on machines of up to 1016 MiB. One size of module
is no multiple of 4, so that words may overlap in part. With the largest module
`paging_install` makes a second table while its loop counts up to the placement
pointer, so that the loop's bound moves under it. A line of two characters is
full, empty and over-full within four keys, some of them late. On a screen of two rows and columns,
four characters wrap, scroll and go back, and two keys come in between: one between
a load and its store, one more before the test that would notice. `WritesInVideoMemory`
says that one row behind the screen is enough, and is proved for any number of keys.

The image's files have no byte, less than a block, a block, an indirect block in
part and in full; reads start and end in any block and at any place in it, behind the
end included. Its root directory has two blocks. A block device stands for the
types that have a directory's bit in their mode.

A shift key and control in front of a character key, with two codes waiting, give every order
of a modifier's press and release around the key's; line 15 goes through both
controllers and is between the other two in priority. A buffer of three bytes is below, at and
above its trigger level. A line of four pieces has words and spaces in each
place; a path of up to `MaxPieces` pieces with its line allows several `cd`'s in a
row, `.` and `..` among them, of paths that get longer and shorter.

Runs say `CHECK_DEADLOCK FALSE` where a bound ends the model (all sizes seen, heap or
memory used up, all characters printed) or the kernel halts (`kopen` without a file
system, a panic). `line_input` is checked for deadlock: only
interrupts end a `hlt`, and the system never stops.

Fairness. `LineInput`: weak fairness of the main thread (the
processor executes instructions; handlers return) and of the timer's interrupt
(`timer_install` programs 100 Hz and nothing masks it). `Interrupts`: weak fairness of
`main` and of taking some interrupt that is heard (the processor takes one at the next
instruction with interrupts on). `Shell`: weak fairness of the one thread's next
step. Nothing is assumed of anyone typing or of a device. `NewlineEndsTheLine` needs the timer: a newline that
arrives between the test and the `hlt` does not wake it.

## 4. The proofs

Each theorem holds for every value of the constants that satisfies these assumptions,
which the code's own values satisfy and the runs evaluate on theirs:

- allocator: `GeometryAssumption` (constants are naturals; the word is larger than a
  page), `BitsAssumption` (a word has at most 32 bits and holds all sizes of cells),
  `CellsAssumption` (a page of every bucket has a cell), `BigSizeAssumption` (a big
  bin's size is not a bucket's number), `MaxPagesAssumption` and `WordAssumption` (the
  heap is within the address space), `RequestAssumption` and `BigRequestAssumption`
  (what is asked for is a `size_t`);
- `PhysAssumption` (sizes are whole words and pages, the kernel ends on a page's end),
  `LineAssumption` and `PrintableAssumption` (a line has room for a character; printable
  ones are no control characters), `ScreenAssumption` (the screen has a whole number of
  tab stops in a line, and its places fit in the cursor's two registers), `KeyAssumption` (keys are entries of the tables),
  `InterruptsAssumption` (keyboard and serial port are among the lines, 2 is the
  cascade; the trigger level is within the buffer);
- `ImageAssumption` (the image is a well-formed file system that the kernel can read:
  inodes have types, devices no bytes, a directory's bytes follow each other and are tiled by
  entries in use, with names that differ), `VfsAssumption` (names have lengths, each of which has
  a cell that holds it with its 0; paths have a name), `ShellAssumption` (a typed line has no 0 in it).

Three theorems have a hypothesis of their own, named in their statements: `RequestsFit`,
`~ReallocMayShrink` and `TablesFit`. They are explained below; the runs satisfy all three.

### Allocator

*Sizes* (the last part of `SlabBins_proofs`). A size is served by the smallest bin
that holds it, cells stay in their page and clear of its header, and a big bin's pages
hold the request. The code counts leading zeros (`BitLength`); the proof goes through the
table of the powers of two, so it covers words of up to 32 bits and no more.
`BigBinFits` has the premise `Roundable` in the property itself: near the top of
`size_t` the rounding wraps.

*Small bins* (`SlabBins_proofs`). `SlabInv` is type correctness, no cells on pages
that are not small, `CellsPartition` and `ListExact`. None is inductive
alone: that a popped cell is not owned needs the partition; that the list
can be cut at its head needs that the head is the page popped from and that it
occurs once; that a page put back by `free` was not listed needs the exact list; and
that a new page has no cells needs the pages behind the heap's end to be untouched.
The stack and the list change only at their front, so two lemmas on sequences
(`PushProperties`, `PopProperties`) carry the steps. From `SlabInv` follow
`NextCellIsFree` and the action property `GrowOnlyWhenFull`.

*Big bins* (`BigBins_proofs`). What TLC checks (`SkipListExact`) speaks of the lists that
the forward words lead through. The inductive form `SkipListInv` does not: it says
that there are a ranking of the free bins, in which sizes do not go down, and a set of
bins for each level, the lowest all of them and each within the one below, such that a
forward word of a level is the bin with the next higher rank in that level's set, or Nil
(`Represents`). Then a search that stops in front of a size has a rank at which it
stops, the same at each level (`Cut`), insertion is a new rank
(`RankWith`) and deletion the removal of one (`RankWithout`), and the words of a level
the operation does not reach keep their meaning. That deletion meets its node at each
level it is on, though it looks for it by size, follows as the node is the first of its
size (`DeleteFindsNode`). The chain, which only code under `#if 0` reads, is a second invariant (`ChainInv`): each big bin's
neighbours are the nearest ones below and above, and `newest` is the last.

The searches are loops, which the model writes as recursive functions over the number of turns.
The provers here cannot use induction with an operator for the statement, so the first part of
`SlabBins_proofs` proves what is needed with sets in its place: a
non-empty set of naturals has a least member (`LeastNumber`, as < is well-founded); the turns for
which no such function exists, or for which the invariant of the loop fails, are such a set.
`LoopInduction` and `LoopExists` are the lemmas on loops (`IsLoop`) that result, and their
users supply the invariant as a function from turns to sets.

*All of it* (`KlMalloc_proofs`). Every call is a step of `SlabBins` and a step of `BigBins` or
of its environment (`KlImplementsSlab`, `KlStepIsBigStep`), so all of the above holds of
malloc, calloc, realloc and free of small and big blocks together. Two more
invariants are about both: `SpansInv` (headers are where bins begin, no bin
reaches into another or behind the heap's end, each size word is a bucket's number or a
big bin's size) and `BooksInv` (the callers' blocks, those of a realloc under way
included, are exactly the cells and bins marked as taken; their number is
`outstanding`). With them blocks are disjoint and clear of headers,
and `KlImplementsHeapSpec` follows step by step: a call adds one block that overlaps no
other, removes one, or leaves them alone. Blocks are compared as
byte ranges, so the proof goes down to `CellOffset` and page addresses.

`CapacityEnough` is proved under `RequestsFit`: no request or product of calloc
comes within a header's size of the end of `size_t`, or wraps. Beyond that the code gives out too little
(section 5). It is inductive only with what realloc relies on: a block is left in place by
comparison with the size word, which is a bucket's number for a small block.
`NoOverrun` also needs `~ReallocMayShrink` (callers never ask realloc for less than they had):
without it the code overruns the new block, which is the finding of `realloc_shrink`. The
proof needs `TightInv`, that a small block is in the smallest bin that holds what was asked for, so
that a larger request goes to a bin at least as large.

### Physical memory

`PhysMem_proofs` proves `PhysTypeOK`, `IdentityMapped` and `MappedUpToHeapEnd`
for every page size, memory, module and sequence of `sbrk`s, from `PhysAssumption`
alone. That a page gets the frame of its number is not inductive: it needs that
the frames taken are exactly those below the loop's page (`MappedInOrder`), so
that the lowest free one is the next. That the heap starts at a page's start
needs `LoopsInStep`: the placement pointer is not aligned behind the directory, is
aligned down by the first table, and moves by whole pages from then on, so that the
loop of `paging_install`, which also counts whole pages, meets it exactly. The
arithmetic rests on a few lemmas on multiples (`DivideMultiple`, `AddPages`,
`NextPageAtMost`).

`PhysTablesReachable` is the same for `TablesReachable`, under `TablesFit`: memory needs
no more tables than there are pages below the kernel's end and below the module. This
is what the code relies on without saying so, as `sbrk` has its tables placed upward from the second page
once `heap_install` has reset the placement pointer (the one at address 0 counts as none); with
memory enough they reach the kernel, and the property is false. The
invariant is `TablesInv`: tables are in pages of their own, those of the boot behind the
directory and in order, those of `sbrk` one page after the other from the second, fewer than the
table numbers used so far, and therefore, by `TablesFit`, below the directory.

### Line input

`LineInput_proofs` proves `LineTypeOK` and `BufferLeftAlone` for every size of line
and set of characters. `LineTypeOK` alone is not inductive:
that a handler stays within the buffer needs that `kgets_want` is the caller's
size while the handler is in place, and `LineInv` says where it is (only between
the statement that installs it and the one that removes it). `BufferLeftAlone` follows from the
same: at all other places no handler is there to write.

`CollectsWhatIsTyped` and `ReturnsTheLine` compare the buffer with `Edit`, a recursive
function of the keys typed. Its value is not reasoned about by induction: the
invariant `CollectInv` carries that there is a function with that recursion whose last value is
the text, and that every such function has (`EditIs`); a key extends it by a value (`EditKey`);
and `Edit` is such a function, so the text is its last value (`EditOf`). The buffer holds that
text (`Matches`) but for the character that the terminator may have replaced, and a key does to the
buffer what it does to the text with that exception unchanged (`HandlerEdits`). The rest of
`CollectInv` says that the loaded index is where the text ends unless a key was late, and where the
terminator is.

### Console

`ScreenInv` (`Screen_proofs`) is inductive with a key between any two steps of the main thread.
A handler's whole `writech` puts the cursor back on the screen wherever it found it, so
what can be off is only what the main thread itself was about to correct, and what it has
loaded. `CursorInv` says how far: the column is the width only until `wrap`
has looked at it, and then not in the row below the screen; the row is the height only
until `scroll` has. `RegInv` says of the loaded word that it was on the screen when it was read.
The one combination that fails is a key in the middle of a backspace, and there the
invariant does not say that the column is not negative.
From it follow `WritesInVideoMemory` and `CursorOnScreen`: one row of video
memory behind the screen is enough for any screen and any number of keys.
`CursorFollows` adds what each register holds at each port access of a `move_csr` that no key has
split (`CursorMoves`); whatever an earlier one left there, the next puts right.

`ShowsTheText` compares a screen that scrolls with an endless sheet that does not. `Shows(v, t)` says
that v is a view of the text t: there are places for its characters (the recursion of `Places`
has a value), and with any such places the cursor is where the next character goes and
each cell has the last character printed at its place. One character more gives one place more
(`PlacesExtend`, `PlacesRestrict`), which changes the sheet at one place (`SheetAppend`), and
`WriteShows` shows that `Put`, `Wrap` and `Scroll` turn a view of t into one of t with that
character, of the same rows or of those one further down: the row that comes into view is empty
on the sheet, as text only goes down (`LaidOut`). `ShowInv` then says, for a `writech`
that no key has interrupted, which part of `Put`, `Wrap` and `Scroll` each step has
done (`Doing`).

### Interrupts

`IntInv` (`Interrupts_proofs`) has four parts beside the types. `TablesInv` says what `main` has
installed at each of its calls; `InterruptsLand` is true because what an interrupt needs
comes before `sti` in that order, or before the driver whose
handler needs it. `DriversInv`: which lines have a handler, and that the serial port is quiet
before it is enabled. `RequestsInv`: a request of a line with a device stands for
something to be read (otherwise `serial_recv` would wait in the handler for ever), and what waits has its request
unless `early` or `crowded`. `KeysInv`: there is a history of the held modifiers, one set for each
code under way, that starts with what `keyboard_state` says and ends with what is held now, and
in which each code's `with` is the set at its place. A new code extends it at one end and
the handler takes one off the other, which is why late codes meet the right modifiers. As
a history is a function that the invariant says exists, this needs no induction over the codes either.

### File system

`Shell_proofs` begins with `Ext2`. The image is a constant, so its operations are functions, and
the lemmas say what each returns, for every image. `ReadFile`: the pieces that
`read_initrd` copies fill the buffer's first places without a gap (`PiecesFacts`), and the byte that each place
gets is the file's, by division with remainder (`QuotientUnique`). `EntriesAreWithin`: the loop
through a directory visits all entries that lie in it, once and in their order. The
model writes that loop as a recursive function of the turns; that it is one, and its value, are
again shown with sets of turns (`LoopExists`). The argument is a tiling: from an offset at which an entry
starts, or that is the end, the next one is such an offset and no entry starts between
(`DirectoryTiles`), and a directory with n bytes left needs at most n turns. From this
follow `FindDirFsFinds` (`finddir` returns the node of the one entry with the name),
`EntryOfLists` and `EntryOfCounts` (the entry with index i has i entries before it).
They need `FlagFacts`: a node that passes for a directory by its flags is one or has no bytes.

`VfsInv` is the invariant of a walk (`Walked`): in `kopen`'s loop the nodes that the names so far
lead to (`Reached`) are the node that the code is at, and no other. It is inductive with what
`NothingBehind` says: a name that is not found ends the path for every name behind it. `KopenFindsPath` alone is
not, as it says nothing until the walk is over. `ReadIsSlice` and `ReadDirListsAll` follow from
the lemmas on `Ext2`. `lost` only becomes true for a path of the length of a cell
(`ExactCell`), so the exception stays in the theorem as it stands in the property; without
it the property is false (`vfs_every_path`).

### Shell

`ShellInv` is `VfsInv` and four parts. `Places` relates where `start_shell` is to where `kopen` is.
`CwdInv` is `PathNamesNode` at every step, not only at the prompt: `cd` keeps it since
the node that the walk returned is the one `filename` names, and since no node is found
under "/" (`RootHasNoName`: no entry has an empty name), the one text for which the property asks for
the root. `LineInv` has the invariant of the tokens, `TokenInv`: behind `save` the line is as it was
typed; before it every place where a word starts is in `argv`, in order, and each of these words ends with
the 0 that `strtok_r` or `kgets` wrote (`WordEnds`), which is what `Text` runs up to. One call of
`strtok_r` moves `save` over the spaces and one word (`StrtokRTokens`). `CommandInv`
says what each command has done so far: that `path` is what `filename` cuts into, that
`ls` has printed the first `index` entries (`Listed`). `ShellTypeOK`,
`PathNamesNode`, `TokensAreWords` and `ShowsWhatIsNamed` follow, for lines of any
length, any sequence of commands and any image.

### Only model-checked

`NewlineEndsTheLine`, `RequestsServed` and `PromptReturns` are liveness under
fairness, which these provers do not do. The violations of section 3 are TLC's counterexamples.

## 5. Known limits of the code, seen in the models

Besides the runs that show violations, the models are restricted in these
places because the code does not do what one would expect:

- a request less than a page away from 2^32 bytes gets a bin that is too small, since
  the rounding wraps (`Roundable` excludes it; `alloc.c:650`);
- `calloc` does not check its product (`klmalloc` runs without one that wraps; `alloc.c:890`);
- the last `nframes % 32` frames are never used (`FreeFrames`; `mem.c:87`), and the kernel halts
  "out of frames" with these left;
- the bitmap has a byte for every 32 frames and is used as if it had a word (`mem.c:128`);
- keys that come between the end of a line and the removal of the handler
  go into that line, and may replace its terminator, or be replaced by it when they come between
  the load of its index and the store (`late`, `Replaced`; `kprintf.c:138`);
- a key that ends the line while the main thread prints a backspace makes the
  column -1 (`torn = "backspace"`; `vga.c:101`);
- `realloc` compares the new size with `header->size`, which for a small bin is
  its number: a small block is resized in place too when the size is at most that number,
  although the comment says only big bins are (`ReallocInPlace`; harmless, as the
  cell is larger; `alloc.c:832`);
- `sbrk` makes page tables with the placement allocator, which `heap_install` has reset
  to 0 and whose comment says that it must not be used any more (`mem.c:184`): the first
  goes to address 0, the sentinel for no table (`mem.c:203`);
- a key echoed inside `move_csr` selects the other register or has its own update
  overwritten, and the hardware cursor stays behind until the next character
  (`split`; `vga.c:44`);
- a key pressed before the keyboard's handler is installed stops keyboard input for good:
  its request is forgotten and the buffer stays full (`early`; `main.c:41`);
- serial input stops when its buffer is still at the trigger level after the handler's one
  byte (`crowded`; `serial.c:12`);
- modifiers toggle with every code, so one that repeats, two shift keys at once, or one
  held at boot invert them (`mixed`; `kbd.c:113`); control with a letter gives the letter,
  as the code subtracts from the lower-case one (`kbd.c:101`);
- `cd /` fails, as the walk looks for an empty name; a block device passes for a
  directory in `cd` (`Cd`; `shell.c:66`);
- `cd .` makes the path longer each time, without a limit (`MaxPieces`; `shell.c:56`);
- `atoi` counts upward and never ends, so `out` with two numbers halts (`Fault`; `system.c:81`);
- a path without a slash in front loses its first character (`Vfs` has absolute paths
  only, and the shell makes no others), because the test meant to refuse it is never true (`vfs.c:58`);
- `kopen` drops each node on the way and, when it succeeds, its copy of the path,
  although `ext2_initrd.c:94` says the requester frees them (`vfs.c:78`; allocations
  of the walk are not counted in `Vfs`);
- the 0 behind a path of 4, 8, ... bytes also damages the cell it falls into, which
  `Vfs` does not follow further (`vfs.c:73`);
- a directory whose blocks do not follow each other, an unused entry, a file that
  needs doubly indirect blocks, and a read that starts behind the end are not read
  right (`ImageAssumption`, the guard of `ReadFs`; `ext2_initrd.c:49`, `:111`).

## 6. Not modelled, and the plan

Left out for good: the encodings of descriptors, the ports' programming, colours
and formatting (layout, no behaviour of their own); the multiboot dump (prints);
the boot loader (straight-line code that ends in a message); functions without a caller
(`free_frame`, `timer_wait`, `cls`, `placech`, `writechf`, `initrd_node_from_dirent`).

Next, in this order:

1. What the shell's commands and `kopen` leave allocated, over `HeapSpec`.
2. The kernel's stack and image as areas of `PhysMem`, for tables placed over them, and
   the module's copy when the loader left it across 0x200000 (`main.c:21`).
3. The buffer of `kprintf`, with texts that have a length.
