------------------------------ MODULE PhysMem ------------------------------
(***************************************************************************)
(* kernel/core/mem.c: the placement allocator, the bitmap of page frames,  *)
(* the page directory with its tables, and sbrk; and the order in which    *)
(* kernel/main.c uses them while booting.                                  *)
(*                                                                         *)
(* An address is a number of bytes, a page or frame number an address      *)
(* divided by PAGE_SIZE.  Nothing protects the areas that the placement    *)
(* allocator hands out from each other.  Where they overlap in words that  *)
(* are in use (Aliased) the code acts on garbage, and the model stops.     *)
(***************************************************************************)
EXTENDS Integers, FiniteSets, Functions

CONSTANTS
  PAGE_SIZE,       \* 0x1000; a page holds PAGE_SIZE / 4 words
  WORD_BITS,       \* bits in a word of the frame bitmap (32)
  KERNEL_END,      \* &end, where the linker script ends the kernel
  MULTIBOOT_START, \* 0x200000
  ModuleSize,      \* bound: the sizes the multiboot module can have
  Memory,          \* bound: the memory sizes, in frames (mem_upper / 4)
  SbrkPages        \* bound: the pages asked of sbrk at a time

Entries == PAGE_SIZE \div 4              \* of a page table, or of a directory
TableIndex == 0 .. Entries - 1
DIR_SIZE == 2 * PAGE_SIZE + 4            \* sizeof(page_directory_t)
PageNumber == 0 .. Entries * Entries - 1

ASSUME PhysAssumption ==
  /\ PAGE_SIZE \in Nat /\ PAGE_SIZE > 0 /\ PAGE_SIZE % 4 = 0
  /\ WORD_BITS \in Nat \ {0}
  /\ KERNEL_END \in Nat /\ KERNEL_END % PAGE_SIZE = 0
  /\ MULTIBOOT_START \in Nat /\ MULTIBOOT_START % PAGE_SIZE = 0
  /\ MULTIBOOT_START > 0 /\ KERNEL_END > 0
  /\ ModuleSize \subseteq Nat /\ Memory \subseteq 0 .. Entries * Entries
  /\ SbrkPages \subseteq Nat \ {0}

VARIABLES
  pc,          \* where main, paging_install or sbrk is
  placement,   \* placement_pointer
  ramdisk,     \* the area main copied the first multiboot module to
  nframes,
  framesAt,    \* frames: the address of the bitmap
  dirAt,       \* kernel_directory
  tables,      \* kernel_directory->tables; physical_tables has the same
  frames,      \* the frames whose bit is set
  pte,         \* page->frame of the pages that are present
  heapEnd,     \* heap_end
  cursor       \* i, of the loops of paging_install and sbrk

dirVars == <<framesAt, dirAt, nframes>>
vars == <<pc, placement, ramdisk, dirVars, tables, frames, pte, heapEnd, cursor>>

NULL == 0

Init ==
  /\ pc = "start"
  /\ placement = KERNEL_END
  /\ ramdisk = [base |-> NULL, len |-> 0]
  /\ nframes = 0 /\ framesAt = NULL /\ dirAt = NULL
  /\ tables = [t \in TableIndex |-> NULL]
  /\ frames = {}
  /\ pte = <<>>
  /\ heapEnd = NULL
  /\ cursor = 0
-----------------------------------------------------------------------------
PageStart(address) == address - (address % PAGE_SIZE)
PageOf(address) == address \div PAGE_SIZE
TableOf(page) == page \div Entries

\* The address kmalloc_real(size, 1, phys) returns: the start of the page
\* that the placement pointer is in, not of the next one.
AlignedPlace(place) == IF place >= PAGE_SIZE THEN PageStart(place) ELSE place

\* A mistake: the search begins at the second word of the bitmap.
FreeFrames_SkipWord ==
  {f \in 0 .. WORD_BITS * (nframes \div WORD_BITS) - 1 : f >= WORD_BITS /\ f \notin frames}

\* A mistake: the last, incomplete word of the bitmap is searched too.
FreeFrames_PastEnd ==
  {f \in 0 .. WORD_BITS * (nframes \div WORD_BITS + 1) - 1 : f \notin frames}

\* The free frames that first_frame looks at: those whose bit is in a word
\* of the bitmap that memory fills.
FreeFrames == {f \in 0 .. WORD_BITS * (nframes \div WORD_BITS) - 1 : f \notin frames}

FirstFrame == CHOOSE f \in FreeFrames : \A g \in FreeFrames : f <= g

\* get_page(page * PAGE_SIZE, 1, kernel_directory), on the placement pointer
\* and the table pointers.  A table placed at address 0 is as good as none.
GetPage(dir, page) ==
  IF dir.tables[TableOf(page)] # NULL THEN dir
  ELSE LET table == AlignedPlace(dir.placement)
       IN [placement |-> table + PAGE_SIZE,
           tables |-> [dir.tables EXCEPT ![TableOf(page)] = table]]

Directory == [placement |-> placement, tables |-> tables]

\* if (page->frame): 0 says that the page has none.
HasFrame(page) == page \in DOMAIN pte /\ pte[page] # 0

\* alloc_frame on the entry of a page, which halts when out of frames.  Page 0
\* gets frame 0, and would get a second one if it were asked for again.
AllocFrame(page) ==
  \/ /\ HasFrame(page)
     /\ UNCHANGED <<frames, pte, pc>>
  \/ /\ ~HasFrame(page)
     /\ FreeFrames # {}
     /\ frames' = frames \cup {FirstFrame}
     /\ pte' = [p \in DOMAIN pte \cup {page} |-> IF p = page THEN FirstFrame ELSE pte[p]]
     /\ UNCHANGED pc
  \/ /\ ~HasFrame(page)
     /\ FreeFrames = {}
     /\ pc' = "halted"
     /\ UNCHANGED <<frames, pte>>
-----------------------------------------------------------------------------
(* The words that the code believes to be its own.                         *)

\* The bytes of n words, which need not start at a multiple of 4.
Words(base, n) == base .. base + 4 * n - 1

\* first_frame and set_frame have used the bitmap up to the word that holds
\* the lowest free frame.
BitmapWords ==
  Words(framesAt, IF FreeFrames = {} THEN nframes \div WORD_BITS
                  ELSE FirstFrame \div WORD_BITS + 1)

\* get_page and the processor use the directory's entries for the tables
\* there are and for the page at hand, and the tables themselves.
PagingWords ==
  LET used == {t \in TableIndex : tables[t] # NULL \/ t = TableOf(PageOf(cursor))}
  IN UNION ({Words(tables[t], Entries) : t \in {u \in used : tables[u] # NULL}}
            \cup {Words(dirAt + 4 * t, 1) \cup Words(dirAt + PAGE_SIZE + 4 * t, 1) : t \in used})

Aliased == dirAt # NULL /\ BitmapWords \cap PagingWords # {}
-----------------------------------------------------------------------------
(* The boot sequence, and sbrk.                                            *)

\* main, when the loader left the multiboot magic.  Size 0: no module.
StartMultiboot(size) ==
  /\ pc = "start"
  /\ placement' = MULTIBOOT_START + size
  /\ ramdisk' = [base |-> MULTIBOOT_START, len |-> size]
  /\ pc' = "loaded"
  /\ UNCHANGED <<dirVars, tables, frames, pte, heapEnd, cursor>>

\* main, when it did not.
StartOther ==
  /\ pc = "start"
  /\ pc' = "loaded"
  /\ UNCHANGED <<placement, ramdisk, dirVars, tables, frames, pte, heapEnd, cursor>>

\* paging_install up to its loop.  The bitmap gets a byte for every WORD_BITS
\* frames, and is used as if it had a word for them.
PagingInstall(memory) ==
  /\ pc = "loaded"
  /\ nframes' = memory
  /\ framesAt' = placement
  /\ dirAt' = AlignedPlace(placement + memory \div WORD_BITS)
  /\ placement' = dirAt' + DIR_SIZE
  /\ pc' = "map"
  /\ UNCHANGED <<ramdisk, tables, frames, pte, heapEnd, cursor>>

\* A turn of the loop of paging_install, whose bound moves as tables are made.
MapPage ==
  /\ pc = "map" /\ ~Aliased
  /\ cursor < placement
  /\ LET dir == GetPage(Directory, PageOf(cursor))
     IN placement' = dir.placement /\ tables' = dir.tables
  /\ AllocFrame(PageOf(cursor))
  /\ cursor' = IF pc' = "halted" THEN cursor ELSE cursor + PAGE_SIZE
  /\ UNCHANGED <<ramdisk, dirVars, heapEnd>>

\* A mistake: the loop does not reach the tables it makes itself.
SwitchPageDirectory_Early ==
  /\ pc = "map" /\ ~Aliased
  /\ cursor >= dirAt + DIR_SIZE
  /\ pc' = "paging"
  /\ UNCHANGED <<placement, ramdisk, dirVars, tables, frames, pte, heapEnd, cursor>>

SwitchPageDirectory ==
  /\ pc = "map" /\ ~Aliased
  /\ cursor >= placement
  /\ pc' = "paging"
  /\ UNCHANGED <<placement, ramdisk, dirVars, tables, frames, pte, heapEnd, cursor>>

HeapInstall ==
  /\ pc = "paging"
  /\ heapEnd' = placement
  /\ placement' = 0
  /\ pc' = "idle"
  /\ UNCHANGED <<ramdisk, dirVars, tables, frames, pte, cursor>>

SbrkCall(n) ==
  /\ pc = "idle" /\ ~Aliased
  /\ cursor' = heapEnd
  /\ heapEnd' = heapEnd + n * PAGE_SIZE
  /\ pc' = "sbrk"
  /\ UNCHANGED <<placement, ramdisk, dirVars, tables, frames, pte>>

\* A mistake: get_page is called once.
SbrkPage_OneCall ==
  /\ pc = "sbrk" /\ ~Aliased
  /\ cursor < heapEnd
  /\ LET dir == GetPage(Directory, PageOf(cursor))
     IN placement' = dir.placement /\ tables' = dir.tables
  /\ AllocFrame(PageOf(cursor))
  /\ cursor' = IF pc' = "halted" THEN cursor ELSE cursor + PAGE_SIZE
  /\ UNCHANGED <<ramdisk, dirVars, heapEnd>>

\* A turn of sbrk's loop, which calls get_page twice: the first table made
\* after heap_install is at address 0, where the second call does not see it.
SbrkPage ==
  /\ pc = "sbrk" /\ ~Aliased
  /\ cursor < heapEnd
  /\ LET page == PageOf(cursor)
         dir == GetPage(GetPage(Directory, page), page)
     IN placement' = dir.placement /\ tables' = dir.tables
  /\ AllocFrame(PageOf(cursor))
  /\ cursor' = IF pc' = "halted" THEN cursor ELSE cursor + PAGE_SIZE
  /\ UNCHANGED <<ramdisk, dirVars, heapEnd>>

SbrkReturn ==
  /\ pc = "sbrk" /\ ~Aliased
  /\ cursor >= heapEnd
  /\ pc' = "idle"
  /\ UNCHANGED <<placement, ramdisk, dirVars, tables, frames, pte, heapEnd, cursor>>

Next ==
  \/ \E size \in ModuleSize : StartMultiboot(size)
  \/ StartOther
  \/ \E memory \in Memory : PagingInstall(memory)
  \/ MapPage
  \/ SwitchPageDirectory
  \/ HeapInstall
  \/ \E n \in SbrkPages : SbrkCall(n)
  \/ SbrkPage
  \/ SbrkReturn

Spec == Init /\ [][Next]_vars
-----------------------------------------------------------------------------
(* Invariants.                                                             *)

HeapReady == pc \in {"idle", "sbrk"}

\* The words of mem.c hold what their C types hold, and no bit is set for a
\* frame that memory does not have.
PhysTypeOK ==
  /\ pc \in {"start", "loaded", "map", "paging", "idle", "sbrk", "halted"}
  /\ placement \in Nat /\ heapEnd \in Nat /\ cursor \in Nat
  /\ ramdisk \in [base : Nat, len : Nat]
  /\ nframes \in Nat /\ framesAt \in Nat /\ dirAt \in Nat
  /\ tables \in [TableIndex -> Nat]
  /\ frames \subseteq 0 .. nframes - 1
  /\ DOMAIN pte \subseteq PageNumber /\ Range(pte) \subseteq frames

\* Every page is mapped to the frame of its own number.  The kernel relies on
\* it from the moment it turns paging on: it runs on at the same addresses,
\* and gives the processor the addresses of tables as it knows them.  Nothing
\* in alloc_frame says so: it follows from the order in which paging_install
\* and sbrk go through the pages, and from no frame ever being freed.
\* No two pages share a frame then, and no frame is taken without a page.
IdentityMapped ==
  /\ \A page \in DOMAIN pte : pte[page] = page
  /\ frames = DOMAIN pte

\* Once the heap is there, the mapped pages are those below its end (while
\* sbrk runs, below where it is) and no others.  So what sbrk returned can
\* be used, and the tables made by paging_install while it counts up to the
\* placement pointer are mapped by the same loop.  And that end starts a page,
\* whatever the sizes of the module and of memory are: klmalloc asserts it of
\* what sbrk returns (alloc.c:549) and finds headers by it.
MappedUpToHeapEnd ==
  HeapReady =>
    /\ DOMAIN pte = 0 .. PageOf(IF pc = "sbrk" THEN cursor ELSE heapEnd) - 1
    /\ heapEnd % PAGE_SIZE = 0 /\ heapEnd > 0

\* With paging on, the kernel can get at the entry of every mapped page: the
\* page has a table, which fills a page that is mapped itself and that holds
\* no other table and no directory.  The tables made after heap_install are
\* no exception, although the placement pointer started over at 0.
TablesReachable ==
  HeapReady =>
    /\ \A page \in DOMAIN pte : tables[TableOf(page)] # NULL
    /\ \A t \in {u \in TableIndex : tables[u] # NULL} :
         /\ tables[t] % PAGE_SIZE = 0
         /\ PageOf(tables[t]) \in DOMAIN pte
         /\ PageOf(tables[t]) \notin {PageOf(dirAt), PageOf(dirAt) + 1}
         /\ \A u \in TableIndex : tables[u] = tables[t] => u = t

-----------------------------------------------------------------------------
(* What the comments say, and the code does not do.                        *)

\* "kmalloc() is the kernel's dumb placement allocator" (mem.c:16): what it
\* placed last, the directory, lies behind what it placed before.  It does
\* not: aligning goes down.  The end of the ramdisk is overwritten, or, when
\* the bitmap starts a page, bitmap and directory are one (Aliased).
PlacedApart ==
  dirAt # NULL =>
    /\ dirAt >= ramdisk.base + ramdisk.len
    /\ dirAt >= framesAt + nframes \div WORD_BITS
=============================================================================
