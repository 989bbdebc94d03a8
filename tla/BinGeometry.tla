---------------------------- MODULE BinGeometry ----------------------------
(***************************************************************************)
(* The arithmetic of kernel/core/alloc.c: which bin serves a request, how  *)
(* a page is cut into cells, and how many pages a big bin takes.           *)
(***************************************************************************)
EXTENDS Integers

CONSTANTS
  PAGE_SIZE,         \* bytes in a page (0x1000)
  BIN_HDR,           \* sizeof(klmalloc_bin_header) (12)
  BIG_HDR,           \* sizeof(klmalloc_big_bin_header) (44)
  NUM_BINS,          \* bins, counting the big one (11)
  SMALLEST_BIN_LOG,  \* log2 of the smallest cell (2)
  WORD               \* 2^32: size_t arithmetic is modulo WORD

BIG_BIN == NUM_BINS - 1
SmallBin == 0 .. BIG_BIN - 1

\* 1 << k in a word, by doubling, which a proof can follow where it cannot ^.
PowerOf2[k \in 0 .. 31] == IF k = 0 THEN 1 ELSE 2 * PowerOf2[k - 1]

CellSize(b) == PowerOf2[SMALLEST_BIN_LOG + b]

\* A mistake: the page's header is not counted.
Cells_NoHeader(b) == PAGE_SIZE \div CellSize(b)

\* Cells in a page of bucket b: available + 1, where
\* available = ((PAGE_SIZE - sizeof(klmalloc_bin_header)) >> adj) - 1.
Cells(b) == (PAGE_SIZE - BIN_HDR) \div CellSize(b)

ASSUME GeometryAssumption ==
  /\ PAGE_SIZE \in Nat \ {0}
  /\ BIN_HDR \in Nat
  /\ BIG_HDR \in Nat
  /\ SMALLEST_BIN_LOG \in Nat
  /\ NUM_BINS \in Nat \ {0}
  /\ WORD \in Nat /\ WORD > PAGE_SIZE

\* The words hold all sizes of cells, and have 32 bits at most: WORD <= 2^32,
\* in numbers that TLC can hold.
ASSUME BitsAssumption ==
  /\ SMALLEST_BIN_LOG + BIG_BIN <= 31
  /\ (WORD - 1) \div 4 < PowerOf2[30]

\* Every page of a small bin has room for a cell.
ASSUME CellsAssumption == \A b \in SmallBin : Cells(b) \in Nat \ {0}

\* klfree tells a big bin from a small one by header->size > NUM_BINS, so
\* the smallest big bin must be larger than that.
ASSUME BigSizeAssumption == PAGE_SIZE - BIG_HDR > NUM_BINS
-----------------------------------------------------------------------------
(* klmalloc_bin_size, for a size other than 0.                             *)

\* sizeof(size) * CHAR_BIT - __builtin_clzl(size)
BitLength(size) ==
  CHOOSE k \in 1 .. 32 : PowerOf2[k - 1] <= size /\ size \div 2 < PowerOf2[k - 1]

\* size & (size - 1) is 0 for a power of two and for nothing else.
IsPowerOfTwo(size) == size = PowerOf2[BitLength(size) - 1]

\* klmalloc_adjust_bin
AdjustBin(bin) ==
  IF bin <= SMALLEST_BIN_LOG THEN 0
  ELSE IF bin - (SMALLEST_BIN_LOG + 1) > BIG_BIN THEN BIG_BIN
  ELSE bin - (SMALLEST_BIN_LOG + 1)

\* A mistake: a size that is a power of two goes one bin too high.
BinSize_NoPowerTest(size) == AdjustBin(BitLength(size) + 1)

BinSize(size) == AdjustBin(BitLength(size) + IF IsPowerOfTwo(size) THEN 0 ELSE 1)
-----------------------------------------------------------------------------
(* Where cells are, and the way back.                                      *)

\* Byte offset in its page of cell c of bucket b: &base[c << bucket_id].
CellOffset(b, c) == BIN_HDR + c * CellSize(b)

\* klfree and klrealloc: the header of an address is ptr & ~PAGE_MASK.
PageOf(address) == address \div PAGE_SIZE
-----------------------------------------------------------------------------
(* Big bins.                                                               *)

\* A mistake: the header is not counted.
PagesFor_NoHeader(size) == size \div PAGE_SIZE + 1

\* Pages that klmalloc asks of sbrk for a request no free bin can serve.
PagesFor(size) == ((size + BIG_HDR) % WORD) \div PAGE_SIZE + 1

\* The argument of sbrk for so many pages.
GrowBytes(pages) == (pages * PAGE_SIZE) % WORD

\* bin_header->size of a big bin of so many pages.
BigBinSize(pages) == (pages * PAGE_SIZE - BIG_HDR) % WORD
=============================================================================
