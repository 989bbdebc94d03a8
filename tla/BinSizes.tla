------------------------------ MODULE BinSizes ------------------------------
(***************************************************************************)
(* The arithmetic of BinGeometry, checked against what it is for on every  *)
(* size_t of a small word: the module does nothing but step through them.  *)
(***************************************************************************)
EXTENDS BinGeometry

VARIABLE request

SizeInit == request = 1

NextSize == request < WORD - 1 /\ request' = request + 1

SizeSpec == SizeInit /\ [][NextSize]_request
-----------------------------------------------------------------------------
Bin == BinSize(request)

\* klmalloc_bin_size: the cells of the bin it picks hold the request, and
\* those of the bin below do not.  The bit arithmetic must agree with the
\* plain definition of "smallest power of two" at every power of two.
BinIsSmallestThatFits ==
  /\ Bin \in SmallBin => request <= CellSize(Bin)
  /\ Bin > 0 => CellSize(Bin - 1) < request
  /\ Bin <= BIG_BIN

\* The cells of a small page start behind its header, end before the next
\* page, and do not overlap; masking the low bits of any address in a cell
\* gives the page back, which is how klfree finds the header.
CellsStayInPage ==
  Bin \in SmallBin =>
    \A c \in 0 .. Cells(Bin) - 1 :
      LET first == CellOffset(Bin, c)
          last == first + CellSize(Bin) - 1
      IN /\ first >= BIN_HDR
         /\ PageOf(7 * PAGE_SIZE + first) = 7
         /\ PageOf(7 * PAGE_SIZE + last) = 7
         /\ c > 0 => CellOffset(Bin, c - 1) + CellSize(Bin) <= first

\* Requests for which no step of the rounding below wraps.  For the others, at
\* the very top of size_t, the bin comes out smaller than the request.
Roundable == request + BIG_HDR < WORD - PAGE_SIZE

\* The pages that sbrk maps for a request hold it and the header; the size
\* word says that the bin holds it, wasting at most a page, and is not one
\* that klfree would take for a bucket number.
BigBinFits ==
  Bin = BIG_BIN /\ Roundable =>
    LET n == PagesFor(request)
        room == BigBinSize(n)
    IN /\ GrowBytes(n) >= request + BIG_HDR
       /\ room >= request /\ room - request <= PAGE_SIZE
       /\ room > NUM_BINS
=============================================================================
